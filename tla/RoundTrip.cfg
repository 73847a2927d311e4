CONSTANT SpecFiles <- SelectFiles
INIT Init
NEXT Next
CHECK_DEADLOCK FALSE
INVARIANT SignedOfUnsignedRoundTrip
