CONSTANTS
  WinDu <- MCWinDu
  SizeDu <- MCSizeDu
  WindowsToProcess <- MCWindowsToProcess
  LevelWidthBits <- MCLevelWidthBits
  MaxSamples <- MCMaxSamples
  ReloadCounters = TRUE
  DriverMayFail = FALSE
SPECIFICATION Spec
PROPERTY FinalizeReachable
CHECK_DEADLOCK FALSE
