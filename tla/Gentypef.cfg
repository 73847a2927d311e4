CONSTANTS
  Tests <- GentypefTests
  MaxData <- MCMaxData
INIT Init
NEXT Next
CHECK_DEADLOCK FALSE
INVARIANT KernelArgsClosed
