CONSTANTS
    p1 = p1
    p2 = p2
    p3 = p3
    c1 = c1
    c2 = c2
    NoProfile = NoProfile
    Callers = {c1, c2}
    Profiles = {p1, p2, p3}
    Purposes = {"chat", "reflection"}
    PurposeOf <- MCPurposeOf
    Fallbacks <- MCFallbacks
    Alias <- MCAlias
    Routings <- MCRoutings
    Threshold = 2
    Cooldown = 1
    MaxTime = 2
    MaxCalls = 3
SPECIFICATION FairSpec
INVARIANTS OneVoice WrongModelOnlyAfterSwitch FailedMeansTried DisabledForCause RoutesExpandInOrder
CHECK_DEADLOCK FALSE
