CONSTANTS
  Tests <- ShippedTests
  MaxData <- MCMaxData
INIT Init
NEXT Next
CHECK_DEADLOCK FALSE
INVARIANT InputsCapped
