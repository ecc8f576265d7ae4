------------------------------ MODULE Admission ------------------------------
(***************************************************************************)
(* The AdmissionController of the helper (admission.rs): a set of active   *)
(* boxes bounded by a limit and a FIFO deque of queued box ids.  Each      *)
(* method is one action; the helper runs it inside one critical section.   *)
(* A call that is refused (admit of a known id) or that finds nothing to   *)
(* do changes no state and is a stuttering step.                           *)
(***************************************************************************)
EXTENDS Naturals, Sequences, FiniteSets, SequencesExt

CONSTANTS BoxIds,   (* every box id a client may use                       *)
          Limit     (* AdmissionController::limit                          *)

\* AdmissionController::new refuses a zero limit.
ASSUME LimitAssumption == Limit \in Nat \ {0}

VARIABLES active,   (* BTreeSet: boxes that hold a slot                    *)
          queued    (* VecDeque: boxes that wait, oldest first             *)

admissionVars == <<active, queued>>

Init == active = {} /\ queued = <<>>

Known(b) == b \in active \cup Range(queued)

\* Mutant of Full: one box too many.
FullOffByOne == Cardinality(active) > Limit

Full == Cardinality(active) >= Limit

\* Mutant of AdmitStart: a free slot is taken although others wait for it.
AdmitStartJumps(b) ==
    /\ ~Known(b) /\ ~Full
    /\ active' = active \cup {b}
    /\ UNCHANGED queued

\* admit, decision Start.
AdmitStart(b) ==
    /\ ~Known(b) /\ ~Full /\ queued = <<>>
    /\ active' = active \cup {b}
    /\ UNCHANGED queued

\* admit, decision Queued: full, or somebody is already waiting.
AdmitQueue(b) ==
    /\ ~Known(b) /\ (Full \/ queued # <<>>)
    /\ queued' = Append(queued, b)
    /\ UNCHANGED active

\* release, returning true.
Release(b) ==
    /\ b \in active
    /\ active' = active \ {b}
    /\ UNCHANGED queued

\* start_next, returning Some: a slot is reserved before the box starts.
StartNext ==
    /\ ~Full /\ queued # <<>>
    /\ active' = active \cup {Head(queued)}
    /\ queued' = Tail(queued)

\* cancel_queued, returning true: the first occurrence is removed.
CancelQueued(b) ==
    /\ b \in Range(queued)
    /\ \E i \in DOMAIN queued :
          /\ queued[i] = b /\ (\A j \in DOMAIN queued : queued[j] = b => i <= j)
          /\ queued' = RemoveAt(queued, i)
    /\ UNCHANGED active

Next == StartNext \/ \E b \in BoxIds :
    AdmitStart(b) \/ AdmitQueue(b) \/ Release(b) \/ CancelQueued(b)

Spec == Init /\ [][Next]_admissionVars
-----------------------------------------------------------------------------
TypeOK == active \subseteq BoxIds /\ IsFiniteSet(active) /\ queued \in Seq(BoxIds)

\* The limit is never exceeded: neither admit nor start_next reserves a slot
\* the controller does not have (admission.rs, the sixty- and
\* thousand-request tests exercise it with one fixed call order).
CapacityRespected == Cardinality(active) <= Limit

\* A box id is in one place at a time: it is never queued twice, and never
\* queued while it holds a slot.  The duplicate check of admit looks at both
\* collections, and every other method has to keep them apart.
OnePlace == IsInjective(queued) /\ active \cap Range(queued) = {}

\* A deque read as the arrival order of its boxes.
Arrival(s) == {p \in Range(s) \X Range(s) :
                 \E i, j \in DOMAIN s : i < j /\ p = <<s[i], s[j]>>}

Fifo == INSTANCE FifoCapacity WITH
            running <- active, waiting <- Range(queued), before <- Arrival(queued)

\* The deque and the set implement the promise: capacity, and no request
\* starts while an older one waits ("later arrivals must not jump the FIFO
\* queue", comment in admit), through any mix of cancellations and releases.
ImplementsFifo == Fifo!FifoSpec
=============================================================================
