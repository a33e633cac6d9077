CONSTANT Profiles <- AllProfiles
SPECIFICATION NetSpec
INVARIANTS  EndpointIsExempt 
CHECK_DEADLOCK FALSE
