CONSTANTS
  WinDu <- MCWinDu
  SizeDu <- MCSizeDu
  WindowsToProcess <- MCWindowsToProcess
  Golden <- MCGolden
  BufBytes <- MCBufBytes
  DlcBytes <- MCDlcBytes
  StackBytes <- MCStackBytes
  MaxSamples <- MCMaxSamples
  DriverMayFail = FALSE
SPECIFICATION Spec
INVARIANT ValidatesFrozenBuffer
CHECK_DEADLOCK FALSE
