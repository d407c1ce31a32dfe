CONSTANTS
  WinDu <- MCWinDu
  SizeDu <- MCSizeDu
  WindowsToProcess <- MCWindowsToProcess
  LevelWidthBits <- MCLevelWidthBits
  MaxSamples <- MCMaxSamples
  ReloadCounters = TRUE
  DriverMayFail = TRUE
SPECIFICATION Spec
INVARIANT TypeOK
INVARIANT Accounting
PROPERTY WaitExitJustified
PROPERTY EnoughCountedLeadsToExit
PROPERTY SessionRefined
CHECK_DEADLOCK FALSE
