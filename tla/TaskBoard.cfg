CONSTANTS
    lead = lead
    alice = alice
    NoOne = NoOne
    Agents = {lead, alice}
    Creators = {lead}
    InitTasks = 1
    MaxTasks = 2
    Updates <- MCUpdates
SPECIFICATION Spec
INVARIANTS ClaimLostOnlyToOverlap 
PROPERTY DependentsReleased
CHECK_DEADLOCK FALSE
