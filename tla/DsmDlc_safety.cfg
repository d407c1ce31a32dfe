CONSTANTS
  WinDu <- MCWinDu
  SizeDu <- MCSizeDu
  WindowsToProcess <- MCWindowsToProcess
  Golden <- MCGolden
  BufBytes <- MCBufBytes
  DlcBytes <- MCDlcBytes
  StackBytes <- MCStackBytes
  MaxSamples <- MCMaxSamples
  DriverMayFail = TRUE
SPECIFICATION Spec
INVARIANT TypeOK
INVARIANT Accounting
PROPERTY WaitExitJustified
PROPERTY EnoughCountedLeadsToExit
CHECK_DEADLOCK FALSE
