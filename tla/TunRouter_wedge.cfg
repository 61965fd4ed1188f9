SPECIFICATION FairSpec
CONSTANTS
  Configs <- SomeConfigs
  None = None
  V6Modes = {TRUE}
  MaxFail = 2
  MaxCrash = 0
  MaxBypass = 2
PROPERTY CleanupCompletes
