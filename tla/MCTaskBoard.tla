---------------------------- MODULE MCTaskBoard ----------------------------
(* Instances of TaskBoard for TLC: the lead and one teammate.  An update     *)
(* completes a task, and may make it wait for task 1 as well, or leaves the  *)
(* status out.                                                               *)
EXTENDS TaskBoard

CONSTANTS lead, alice

Completes(add) == [status |-> "completed", add |-> add, remove |-> {}]

MCUpdates == {Completes({}), Completes({1})}

MCKeeps == {[status |-> "keep", add |-> {}, remove |-> {}], Completes({})}
=============================================================================
