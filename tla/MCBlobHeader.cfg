CONSTANTS
  Templates <- MCTemplates
  FragLengths <- MCFragLengths
INIT Init
NEXT Next
CHECK_DEADLOCK FALSE
INVARIANT TypeOK
INVARIANT BlobIsExpansion
