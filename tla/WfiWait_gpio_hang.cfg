CONSTANTS
  Programs <- MCGpio
  SourcesOf <- MCSourcesOf
  DriverMayFail = FALSE
  Builds <- MCBothBuilds
  MaxServed <- MCMaxServed
SPECIFICATION Spec
PROPERTY Termination
CHECK_DEADLOCK FALSE
