CONSTANTS
  Tests <- MCTests
  MaxData <- MCMaxData
INIT Init
NEXT Next
CHECK_DEADLOCK FALSE
INVARIANT TypeOK
INVARIANT KernelAccessInBounds
INVARIANT KernelArgsClosed
