CONSTANTS
  HeaderFiles <- MCHeaderFiles
  Families <- MCFamilies
INIT Init
NEXT Next
CHECK_DEADLOCK FALSE
INVARIANT TypeOK
INVARIANT ModaliasListsSupported
