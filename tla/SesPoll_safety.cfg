CONSTANTS
  Tests <- MCTests
  NumberOutput <- MCNumberOutput
  MaxOutputs <- MCMaxOutputs
  StrobeModes <- MCBothTimings
SPECIFICATION Spec
INVARIANT TypeOK
INVARIANT ReadsMonotonic
INVARIANT ReadsInOrder
INVARIANT BasicVerdict
PROPERTY Termination
CHECK_DEADLOCK FALSE
