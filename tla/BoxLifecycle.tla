----------------------------- MODULE BoxLifecycle -----------------------------
(***************************************************************************)
(* What every backend promises of a box (BACKEND_CONTRACT.md 5 and 9): it  *)
(* is spawned once, it runs until it is killed, it is cleaned up only after *)
(* that, and cleaned up is final.  The no-op backend and the mock helper   *)
(* implement this.                                                         *)
(***************************************************************************)
CONSTANT BoxIds

VARIABLE status   (* box -> ABSENT, RUNNING, KILLED or CLEANED             *)

Init == status = [b \in BoxIds |-> "ABSENT"]

Move(b, from, to) ==
    /\ status[b] = from
    /\ status' = [status EXCEPT ![b] = to]

Spawn(b) == Move(b, "ABSENT", "RUNNING")

Kill(b) == Move(b, "RUNNING", "KILLED")

Cleanup(b) == Move(b, "KILLED", "CLEANED")

Next == \E b \in BoxIds : Spawn(b) \/ Kill(b) \/ Cleanup(b)

Spec == Init /\ [][Next]_status
=============================================================================
