CONSTANTS
  WinDu <- MCWinDu
  SizeDu <- MCSizeDu
  WindowsToProcess <- MCWindowsToProcess
  LevelWidthBits <- MCLevelWidthBits
  MaxSamples <- MCMaxSamples
  ReloadCounters = TRUE
  DriverMayFail = TRUE
SPECIFICATION Spec
INVARIANT ExitStopsDma
CHECK_DEADLOCK FALSE
