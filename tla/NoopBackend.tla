------------------------------ MODULE NoopBackend ------------------------------
(***************************************************************************)
(* The in-memory backend of noop_backend.rs: a map from box ids to their   *)
(* status.  A handle is a string of the caller's; it names a box only when *)
(* it has the prefix that spawn gave it.  The mock helper keeps a map of   *)
(* the same shape and runs the same operations on it, over a socket        *)
(* (module Cli).                                                           *)
(***************************************************************************)
CONSTANTS
    BoxIds,   (* non-blank box ids callers use                             *)
    None      (* what is left of a handle without the prefix               *)

VARIABLES
    boxes,    (* BTreeMap: its domain are the boxes spawned so far         *)
    result    (* what the last call returned                               *)

vars == <<boxes, result>>

Init == boxes = [b \in {} |-> "CLEANED"] /\ result = "none"

Known(b) == b \in DOMAIN boxes

SetTo(b, status) ==
    boxes' = [x \in DOMAIN boxes \cup {b} |-> IF x = b THEN status ELSE boxes[x]]

Returns(r) == result' = r

\* spawn, of a complete specification or of one with a blank field.
Spawn(b) ==
    \/ Returns("INVALID_REQUEST") /\ UNCHANGED boxes
    \/ Known(b) /\ Returns("DUPLICATE_BOX") /\ UNCHANGED boxes
    \/ ~Known(b) /\ SetTo(b, "RUNNING") /\ Returns("HANDLE")

\* status, kill and cleanup of a handle that names no box of this backend.
UnknownHandle(h) ==
    /\ ~Known(h)
    /\ Returns("UNKNOWN_HANDLE") /\ UNCHANGED boxes

Status(b) == Known(b) /\ Returns(boxes[b]) /\ UNCHANGED boxes

\* Idempotent: a box that does not run keeps its status.
Kill(b) ==
    /\ Known(b)
    /\ IF boxes[b] = "RUNNING"
       THEN SetTo(b, "KILLED") /\ Returns("KILLED")
       ELSE Returns(boxes[b]) /\ UNCHANGED boxes

\* Idempotent too, and refused while the box runs.
Cleanup(b) ==
    /\ Known(b)
    /\ IF boxes[b] = "RUNNING"
       THEN Returns("MUST_STOP_BEFORE_CLEANUP") /\ UNCHANGED boxes
       ELSE SetTo(b, "CLEANED") /\ Returns("CLEANED")

Next == \/ \E b \in BoxIds : Spawn(b) \/ Status(b) \/ Kill(b) \/ Cleanup(b)
        \/ \E h \in BoxIds \cup {None} : UnknownHandle(h)

Spec == Init /\ [][Next]_vars
-----------------------------------------------------------------------------
Statuses == {"RUNNING", "KILLED", "CLEANED"}

TypeOK ==
    /\ boxes = [b \in DOMAIN boxes |-> boxes[b]]
    /\ DOMAIN boxes \subseteq BoxIds
    /\ \A b \in DOMAIN boxes : boxes[b] \in Statuses

\* A box without an entry is one that was never spawned.
Lifecycle == INSTANCE BoxLifecycle WITH
    status <- [b \in BoxIds |-> IF Known(b) THEN boxes[b] ELSE "ABSENT"]

\* Whatever is called, and in whatever order, each box goes through the
\* life cycle of the contract: no kill or cleanup revives or skips a state.
ImplementsLifecycle == Lifecycle!Spec
=============================================================================
