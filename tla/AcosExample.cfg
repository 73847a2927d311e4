CONSTANT SpecFiles <- AcosFiles
INIT Init
NEXT Next
CHECK_DEADLOCK FALSE
INVARIANT AcosEmitsFour
