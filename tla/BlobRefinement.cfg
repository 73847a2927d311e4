CONSTANTS
  Templates <- MCTemplates
  FragLengths <- MCFragLengths
SPECIFICATION Spec
CHECK_DEADLOCK FALSE
PROPERTY BlobRefines
