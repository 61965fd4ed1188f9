SPECIFICATION FairSpec
CONSTANTS
  N = 3
  Workers = 2
  QueueCap = 1
  MaxErrors = 2
  MaxPanics = 1
  MaxPubs = 2
INVARIANTS DependentsFirst QuietBeforeShutdown StoppedMeansReleased OneShutdownAtATime
PROPERTY TransitionsEnd
CHECK_DEADLOCK FALSE
