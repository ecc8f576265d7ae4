--------------------------- MODULE NoopBackendProofs ---------------------------
(***************************************************************************)
(* The no-op backend implements the life cycle of the contract, for every  *)
(* set of box ids.  Only the type invariant is needed: that the map has no *)
(* status besides the three, so that a call that changes nothing is a      *)
(* stutter and every other one is a move of the contract.                  *)
(***************************************************************************)
EXTENDS NoopBackend, TLAPS

lifecycle == [b \in BoxIds |-> IF Known(b) THEN boxes[b] ELSE "ABSENT"]

(* What SetTo does to the abstract status.                                 *)
LEMMA SetToMoves ==
    ASSUME NEW b \in BoxIds, NEW st, SetTo(b, st)
    PROVE  lifecycle' = [lifecycle EXCEPT ![b] = st]
BY DEF lifecycle, SetTo, Known

(* The map never holds an id of nobody's or a status of none of the three. *)
LEMMA NoopTypes == Spec => []TypeOK
<1>1. Init => TypeOK
  BY DEF Init, TypeOK
<1>2. TypeOK /\ [Next]_vars => TypeOK'
  <2> SUFFICES ASSUME TypeOK, [Next]_vars PROVE TypeOK'
    OBVIOUS
  <2>1. ASSUME NEW b \in BoxIds, NEW st \in Statuses, SetTo(b, st) PROVE TypeOK'
    BY <2>1 DEF TypeOK, SetTo
  <2>2. CASE UNCHANGED boxes
    BY <2>2 DEF TypeOK
  <2>3. ASSUME NEW b \in BoxIds, Spawn(b) PROVE TypeOK'
    BY <2>1, <2>2, <2>3 DEF Spawn, Statuses
  <2>4. ASSUME NEW b \in BoxIds, Kill(b) PROVE TypeOK'
    BY <2>1, <2>2, <2>4 DEF Kill, Statuses
  <2>5. ASSUME NEW b \in BoxIds, Cleanup(b) PROVE TypeOK'
    BY <2>1, <2>2, <2>5 DEF Cleanup, Statuses
  <2>6. QED
    BY <2>2, <2>3, <2>4, <2>5 DEF Next, vars, Status, UnknownHandle
<1>3. QED
  BY <1>1, <1>2, PTL DEF Spec

(* A step of the backend is a step of the life cycle or leaves it alone.   *)
LEMMA NoopStep ==
    ASSUME TypeOK, [Next]_vars
    PROVE  [Lifecycle!Next]_lifecycle
<1>1. CASE UNCHANGED boxes
  BY <1>1 DEF lifecycle, Known
<1>2. ASSUME NEW b \in BoxIds, Spawn(b) PROVE [Lifecycle!Next]_lifecycle
  <2>1. CASE ~Known(b) /\ SetTo(b, "RUNNING")
    BY <2>1, SetToMoves DEF Lifecycle!Next, Lifecycle!Spawn, Lifecycle!Move, lifecycle
  <2>2. QED
    BY <1>1, <1>2, <2>1 DEF Spawn
<1>3. ASSUME NEW b \in BoxIds, Kill(b) PROVE [Lifecycle!Next]_lifecycle
  <2>1. CASE boxes[b] = "RUNNING"
    BY <1>3, <2>1, SetToMoves
    DEF Kill, Lifecycle!Next, Lifecycle!Kill, Lifecycle!Move, lifecycle
  <2>2. QED
    BY <1>1, <1>3, <2>1 DEF Kill
<1>4. ASSUME NEW b \in BoxIds, Cleanup(b) PROVE [Lifecycle!Next]_lifecycle
  <2>1. CASE boxes[b] = "KILLED"
    BY <1>4, <2>1, SetToMoves
    DEF Cleanup, Lifecycle!Next, Lifecycle!Cleanup, Lifecycle!Move, lifecycle
  <2>2. CASE boxes[b] = "CLEANED"
    <3>1. Known(b) /\ SetTo(b, "CLEANED")
      BY <1>4, <2>2 DEF Cleanup
    <3>2. lifecycle' = [lifecycle EXCEPT ![b] = "CLEANED"]
      BY <3>1, SetToMoves
    <3>3. lifecycle[b] = "CLEANED"
      BY <2>2, <3>1 DEF lifecycle
    <3>4. QED
      BY <3>2, <3>3 DEF lifecycle
  <2>3. CASE boxes[b] = "RUNNING"
    BY <1>1, <1>4, <2>3 DEF Cleanup
  <2>4. QED
    BY <1>4, <2>1, <2>2, <2>3 DEF Cleanup, Known, TypeOK, Statuses
<1>5. QED
  BY <1>1, <1>2, <1>3, <1>4 DEF Next, vars, Status, UnknownHandle

(* Every behaviour of noop_backend.rs, call by call, is one of the         *)
(* contract: what a box is said to be only ever moves from ABSENT over     *)
(* RUNNING and KILLED to CLEANED, one state at a time.                     *)
THEOREM NoopImplementsLifecycle == Spec => ImplementsLifecycle
<1>1. Init => Lifecycle!Init
  BY DEF Init, Lifecycle!Init, Known
<1>2. TypeOK /\ [Next]_vars => [Lifecycle!Next]_lifecycle
  BY NoopStep
<1>3. QED
  BY <1>1, <1>2, NoopTypes, PTL DEF Spec, ImplementsLifecycle, Lifecycle!Spec, lifecycle
=============================================================================
