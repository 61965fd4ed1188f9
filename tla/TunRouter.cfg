SPECIFICATION Spec
CONSTANTS
  Configs <- AllConfigs
  None = None
  V6Modes = {TRUE, FALSE}
  MaxFail = 2
  MaxCrash = 1
  MaxBypass = 2
INVARIANTS VerifiedIsBlocked RunningNeverLeaks CleanClose SetIsAtomic
