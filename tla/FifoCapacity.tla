---------------------------- MODULE FifoCapacity ----------------------------
(***************************************************************************)
(* What the helper's admission control promises, with no deque in sight:   *)
(* at most Limit boxes hold a slot, every other accepted request waits,    *)
(* and a waiting request is promoted only when nothing still waiting       *)
(* arrived before it.  Arrival order is a relation between waiting boxes,  *)
(* so a request that is withdrawn simply disappears from it.               *)
(*                                                                         *)
(* Admission implements this module (the deque gives the relation).        *)
(***************************************************************************)
EXTENDS Naturals, FiniteSets

CONSTANTS BoxIds,   (* every box id a client may use      *)
          Limit     (* slots, VIPER_MAX_ACTIVE_BOXES      *)

VARIABLES running,  (* the boxes that hold a slot                          *)
          waiting,  (* accepted requests without a slot                    *)
          before    (* <<a, b>>: both wait, and a was accepted before b    *)

fifoVars == <<running, waiting, before>>

Fresh(b) == b \notin running \cup waiting

HasRoom == Cardinality(running) < Limit

FifoInit == running = {} /\ waiting = {} /\ before = {}

\* A request gets a slot at once only if nobody would be overtaken.
StartNow(b) ==
    /\ Fresh(b) /\ HasRoom /\ waiting = {}
    /\ running' = running \cup {b}
    /\ UNCHANGED <<waiting, before>>

\* A request waits only when it has to.
Wait(b) ==
    /\ Fresh(b) /\ (~HasRoom \/ waiting # {})
    /\ waiting' = waiting \cup {b}
    /\ before' = before \cup (waiting \X {b})
    /\ UNCHANGED running

\* b stops waiting: nothing is before or after it any more.
Dequeue(b) ==
    /\ b \in waiting
    /\ waiting' = waiting \ {b}
    /\ before' = {p \in before : p[1] # b /\ p[2] # b}

Promote(b) ==
    /\ HasRoom
    /\ \A a \in waiting : <<a, b>> \notin before
    /\ Dequeue(b)
    /\ running' = running \cup {b}

Withdraw(b) == Dequeue(b) /\ UNCHANGED running

Leave(b) ==
    /\ b \in running
    /\ running' = running \ {b}
    /\ UNCHANGED <<waiting, before>>

FifoNext == \E b \in BoxIds :
    StartNow(b) \/ Wait(b) \/ Promote(b) \/ Withdraw(b) \/ Leave(b)

FifoSpec == FifoInit /\ [][FifoNext]_fifoVars
=============================================================================
