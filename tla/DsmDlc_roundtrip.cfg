CONSTANTS
  WinDu <- MCWinDu
  SizeDu <- MCSizeDu
  WindowsToProcess <- MCWindowsToProcess
  Golden <- MCGolden
  BufBytes <- MCBufBytes
  DlcBytes <- MCDlcBytes
  StackBytes <- MCStackBytes
  MaxSamples <- MCMaxSamples
  DriverMayFail = FALSE
SPECIFICATION Spec
INVARIANT IntegrityRoundTrip
CHECK_DEADLOCK FALSE
