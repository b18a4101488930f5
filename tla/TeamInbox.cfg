CONSTANTS
    lead = lead
    alice = alice
    turn1 = turn1
    turn2 = turn2
    aliceThread = aliceThread
    Names = {lead, alice}
    Senders = {lead, alice}
    Readers = {turn1, turn2, aliceThread}
    InboxOf <- MCInboxOf
    MaxMsgs = 4
SPECIFICATION InboxSpec
INVARIANTS LossOnlyInWindow ForwardOnly
CHECK_DEADLOCK FALSE
