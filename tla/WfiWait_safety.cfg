CONSTANTS
  Programs <- MCBoth
  SourcesOf <- MCSourcesOf
  DriverMayFail = TRUE
  Builds <- MCBothBuilds
  MaxServed <- MCMaxServed
SPECIFICATION Spec
INVARIANT TypeOK
PROPERTY WakeJustified
CHECK_DEADLOCK FALSE
