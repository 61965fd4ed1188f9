SPECIFICATION Spec
CONSTANTS
  Data = {d1, d2}
  Alien = Alien
  Missing = Missing
  MaxOps = 2
  MaxFaults = 2
  MaxCrashes = 2
  MaxRaces = 1
SYMMETRY Symmetry
INVARIANTS CrashRecovers SuccessMeansLoaded FailureRestores RacerPreserved
PROPERTY Implements
CHECK_DEADLOCK FALSE
