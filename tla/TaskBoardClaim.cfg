CONSTANTS
    lead = lead
    alice = alice
    NoOne = NoOne
    Agents = {lead, alice}
    Creators = {lead}
    InitTasks = 1
    MaxTasks = 1
    Updates <- MCKeeps
SPECIFICATION Spec
INVARIANT ClaimSticks
CHECK_DEADLOCK FALSE
