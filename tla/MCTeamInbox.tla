---------------------------- MODULE MCTeamInbox ----------------------------
(* Instances of TeamInbox for TLC: the lead's inbox is read by two coding  *)
(* turns, the teammate's inbox by the teammate's own thread.               *)
EXTENDS TeamInbox

CONSTANTS lead, alice, turn1, turn2, aliceThread

MCInboxOf == [r \in {turn1, turn2, aliceThread} |-> IF r = aliceThread THEN alice ELSE lead]
=============================================================================
