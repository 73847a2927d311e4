CONSTANT SpecFiles <- AtomicityFiles
INIT Init
NEXT Next
CHECK_DEADLOCK FALSE
PROPERTY HeaderChangesOnlyOnPublish
