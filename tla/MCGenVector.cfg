CONSTANT SpecFiles <- MCSpecFiles
INIT Init
NEXT Next
CHECK_DEADLOCK FALSE
INVARIANT TypeOK
INVARIANT NoPartialPublish
INVARIANT OverloadCoherent
INVARIANT NoDuplicateOverloads
INVARIANT NegationFollowsSection
