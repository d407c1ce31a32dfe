CONSTANTS
  WinDu <- MCWinDu
  SizeDu <- MCSizeDu
  WindowsToProcess <- MCWindowsToProcess
  LevelWidthBits <- MCLevelWidthBits
  MaxSamples <- MCMaxSamples
  ReloadCounters = FALSE
  DriverMayFail = FALSE
SPECIFICATION Spec
PROPERTY EnoughCountedLeadsToExit
CHECK_DEADLOCK FALSE
