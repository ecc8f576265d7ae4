-------------------------------- MODULE Helper --------------------------------
(***************************************************************************)
(* The privileged helper (viper-helper.rs): one server thread that handles *)
(* one request at a time, and one watchdog thread per started box.  They   *)
(* share two tables, each behind a mutex of its own: `states` and the      *)
(* admission state (controller and `pending`).  No request holds a lock    *)
(* across its steps, so every action below is one critical section, one    *)
(* systemctl/systemd-run call or one directory operation, and any other    *)
(* thread can run between two of them.                                     *)
(*                                                                         *)
(* The unit name and the handle are injective in the box id, so the        *)
(* look-ups by unit are look-ups by box.  Requests are numbered when they  *)
(* are admitted; number n is also the identity of the watchdog thread that *)
(* a successful start of request n creates.                                *)
(***************************************************************************)
EXTENDS Naturals, Sequences, FiniteSets, Functions

CONSTANTS
    BoxIds,      (* box ids clients use                                    *)
    Limit,       (* VIPER_MAX_ACTIVE_BOXES                                 *)
    None,        (* no box                                                 *)
    MaxRequests, (* bound: spawn requests that pass admission              *)
    MaxFaults,   (* bound: systemctl or systemd-run calls that fail        *)
    Methods,     (* what clients send: spawn, kill, cleanup, drain         *)
    Reuse,       (* may a client spawn an id again after its cleanup?      *)
    Enforceable, (* required_backend enforceable? a set of BOOLEANs        *)
    Expiry       (* are time-outs within the horizon?                      *)

ASSUME HelperAssumption ==
    /\ Limit \in Nat \ {0} /\ MaxRequests \in Nat /\ MaxFaults \in Nat
    /\ None \notin BoxIds
    /\ Reuse \in BOOLEAN /\ Expiry \in BOOLEAN /\ Enforceable \subseteq BOOLEAN

VARIABLES
    active, queued, (* AdmissionController                                 *)
    pending,   (* box -> number of the queued request whose params are     *)
               (* kept, 0 when there are none                              *)
    states,    (* box -> status of its UnitState, ABSENT without an entry  *)
    paths,     (* boxes whose entry names a scratch directory              *)
    units,     (* box -> systemd's unit: st, and the request it runs       *)
    scratch,   (* boxes whose scratch directory exists                     *)
    requests,  (* admitted spawn requests, in order of admission           *)
    pc, job,   (* each thread's place in the code, and its locals          *)
    faults     (* external calls that failed so far                        *)

controllerVars == <<active, queued>>
entries == <<states, paths>>
tables == <<pending, entries>>
host == <<units, scratch, faults>>
vars == <<active, queued, pending, states, paths, units, scratch, requests, pc, job, faults>>

Controller == INSTANCE Admission

Main == 0
Watchdogs == 1..MaxRequests
Threads == {Main} \cup Watchdogs

Statuses == {"ABSENT", "QUEUED", "STARTING", "KILLED", "TIMED_OUT"}

NoUnit == [st |-> "none", req |-> 0]
NoJob == [box |-> None, req |-> 0, from |-> "none"]

Init ==
    /\ Controller!Init
    /\ pending = [b \in BoxIds |-> 0]
    /\ states = [b \in BoxIds |-> "ABSENT"] /\ paths = {}
    /\ units = [b \in BoxIds |-> NoUnit]
    /\ scratch = {}
    /\ requests = <<>>
    /\ pc = [t \in Threads |-> IF t = Main THEN "idle" ELSE "unborn"]
    /\ job = [t \in Threads |-> NoJob]
    /\ faults = 0

At(t, label) == pc[t] = label
Goto(t, label) == pc' = [pc EXCEPT ![t] = label]

\* The end of a handler or of a watchdog thread.
Return(t) ==
    /\ Goto(t, IF t = Main THEN "idle" ELSE "done")
    /\ job' = [job EXCEPT ![t] = NoJob]

\* An entry of `states` is written or removed.
Enter(b, status) ==
    /\ states' = [states EXCEPT ![b] = status]
    /\ paths' = IF status = "STARTING" THEN paths \cup {b} ELSE paths \ {b}

Remove(b) == Enter(b, "ABSENT")

\* An external command fails although the system could have obeyed.
Fault == faults < MaxFaults /\ faults' = faults + 1

NoFault == UNCHANGED faults
-----------------------------------------------------------------------------
(* spawn: queueable_spawn, then admit_spawn                                 *)

\* queueable_spawn looks the id up in `states`; everything else it refuses
\* depends on the request only.
ReceiveSpawn(b) ==
    /\ "spawn" \in Methods /\ At(Main, "idle") /\ Len(requests) < MaxRequests
    /\ Reuse \/ \A n \in DOMAIN requests : requests[n].box # b
    /\ states[b] = "ABSENT"
    /\ Goto(Main, "admit")
    /\ job' = [job EXCEPT ![Main].box = b]
    /\ UNCHANGED <<controllerVars, tables, host, requests>>

NewRequest(from) == \E e \in Enforceable :
    /\ requests' = Append(requests, [box |-> job[Main].box, enforceable |-> e])
    /\ job' = [job EXCEPT ![Main].req = Len(requests) + 1, ![Main].from = from]

AdmitNow ==
    /\ At(Main, "admit") /\ Controller!AdmitStart(job[Main].box)
    /\ NewRequest("admit") /\ Goto(Main, "check")
    /\ UNCHANGED <<tables, host>>

AdmitQueued ==
    /\ At(Main, "admit") /\ Controller!AdmitQueue(job[Main].box)
    /\ NewRequest("admit") /\ Goto(Main, "keepParams")
    /\ UNCHANGED <<tables, host>>

AdmitRefused ==
    /\ At(Main, "admit") /\ Controller!Known(job[Main].box)
    /\ Return(Main)
    /\ UNCHANGED <<controllerVars, tables, host, requests>>

\* Queued: the parameters are stored in a second critical section ...
KeepParams ==
    /\ At(Main, "keepParams")
    /\ pending' = [pending EXCEPT ![job[Main].box] = job[Main].req]
    /\ Goto(Main, "markQueued")
    /\ UNCHANGED <<controllerVars, entries, host, requests, job>>

\* ... and the QUEUED entry in a third, under the other lock.
MarkQueued ==
    /\ At(Main, "markQueued")
    /\ Enter(job[Main].box, "QUEUED")
    /\ Return(Main)
    /\ UNCHANGED <<controllerVars, pending, host, requests>>
-----------------------------------------------------------------------------
(* spawn_box, called by admit_spawn on the server thread and by drain_queue *)
(* on any thread                                                            *)

\* FAIL_CLOSED for an unenforceable requirement, ERR_DUPLICATE_BOX.
CheckSpawn(t) ==
    /\ At(t, "check")
    /\ LET b == job[t].box IN
       Goto(t, IF requests[job[t].req].enforceable /\ states[b] = "ABSENT"
               THEN "mkScratch" ELSE "undo")
    /\ UNCHANGED <<controllerVars, tables, host, requests, job>>

\* filesystem_policy: create_dir fails if the directory is there.
MakeScratch(t) ==
    /\ At(t, "mkScratch")
    /\ scratch' = scratch \cup {job[t].box}
    /\ Goto(t, IF job[t].box \in scratch THEN "undo" ELSE "runUnit")
    /\ UNCHANGED <<controllerVars, tables, units, faults, requests, job>>

\* start_unit: systemd-run refuses a name that is still loaded.  When the
\* call fails or is killed after two seconds the unit may run all the same.
RunUnit(t) ==
    /\ At(t, "runUnit")
    /\ LET b == job[t].box
           started == [units EXCEPT ![b] = [st |-> "active", req |-> job[t].req]]
           loaded == units[b].st # "none"
       IN \/ ~loaded /\ NoFault /\ units' = started /\ Goto(t, "insert")
          \/ loaded /\ NoFault /\ UNCHANGED units /\ Goto(t, "undo")
          \/ ~loaded /\ Fault /\ units' \in {units, started} /\ Goto(t, "undo")
    /\ UNCHANGED <<controllerVars, tables, scratch, requests, job>>

\* The STARTING entry, then thread::spawn of the watchdog of this request;
\* the new thread sleeps before it looks at anything.
InsertStarting(t) ==
    /\ At(t, "insert")
    /\ LET b == job[t].box
           n == job[t].req
       IN /\ Enter(b, "STARTING")
          /\ pc' = [pc EXCEPT ![n] = "sleep",
                              ![t] = IF job[t].from = "drain" THEN "drain" ELSE "idle"]
          /\ job' = [job EXCEPT ![n] = [box |-> b, req |-> n, from |-> "none"],
                                ![t] = NoJob]
    /\ UNCHANGED <<controllerVars, pending, host, requests>>

\* The caller of a spawn_box that failed gives the slot back.
UndoReservation(t) ==
    /\ At(t, "undo")
    /\ \/ Controller!Release(job[t].box)
       \/ job[t].box \notin active /\ UNCHANGED controllerVars
    /\ IF job[t].from = "drain"
       THEN Goto(t, "drain") /\ job' = [job EXCEPT ![t] = NoJob]
       ELSE Return(t)
    /\ UNCHANGED <<tables, host, requests>>
-----------------------------------------------------------------------------
(* drain_queue: three critical sections and a spawn per queued box          *)

DrainNext(t) ==
    /\ At(t, "drain") /\ Controller!StartNext
    /\ job' = [job EXCEPT ![t] = [box |-> Head(queued), req |-> 0, from |-> "drain"]]
    /\ Goto(t, "take")
    /\ UNCHANGED <<tables, host, requests>>

\* Mutant of DrainEnds: start_next is polled until the queue is empty.
DrainEndsWhenEmpty(t) ==
    /\ At(t, "drain") /\ queued = <<>>
    /\ Return(t)
    /\ UNCHANGED <<controllerVars, tables, host, requests>>

DrainEnds(t) ==
    /\ At(t, "drain") /\ (Controller!Full \/ queued = <<>>)
    /\ Return(t)
    /\ UNCHANGED <<controllerVars, tables, host, requests>>

\* No parameters: `continue`, with the slot still reserved.
TakeParams(t) ==
    /\ At(t, "take")
    /\ LET b == job[t].box IN
       /\ pending' = [pending EXCEPT ![b] = 0]
       /\ IF pending[b] # 0
          THEN job' = [job EXCEPT ![t].req = pending[b]] /\ Goto(t, "unmark")
          ELSE job' = [job EXCEPT ![t] = NoJob] /\ Goto(t, "drain")
    /\ UNCHANGED <<controllerVars, entries, host, requests>>

RemoveQueuedEntry(t) ==
    /\ At(t, "unmark")
    /\ Remove(job[t].box)
    /\ Goto(t, "check")
    /\ UNCHANGED <<controllerVars, pending, host, requests, job>>

ReceiveDrain ==
    /\ "drain" \in Methods /\ At(Main, "idle")
    /\ Goto(Main, "drain")
    /\ UNCHANGED <<controllerVars, tables, host, requests, job>>
-----------------------------------------------------------------------------
(* kill and cleanup of a queued box: the match guard has seen QUEUED under  *)
(* the lock and released it; the arm looks the entry up again.              *)

\* The guards of the match in handle: QUEUED first, then unknown handles
\* (refused), then the arm of the method.  Only the server thread makes an
\* entry QUEUED, so the two look-ups act as one.
Receive(method, b) ==
    /\ method \in Methods /\ At(Main, "idle") /\ states[b] # "ABSENT"
    /\ Goto(Main, IF states[b] = "QUEUED" THEN "cancelFind" ELSE method)
    /\ job' = [job EXCEPT ![Main].box = b]
    /\ UNCHANGED <<controllerVars, tables, host, requests>>

\* expect("queued state was checked above"): the server thread panics when
\* the entry is gone, and the process, watchdogs included, ends with it.
CancelFind ==
    /\ At(Main, "cancelFind")
    /\ IF states[job[Main].box] = "QUEUED"
       THEN Goto(Main, "cancelQueue") /\ UNCHANGED job
       ELSE /\ pc' = [t \in Threads |-> "dead"]
            /\ job' = [t \in Threads |-> NoJob]
    /\ UNCHANGED <<controllerVars, tables, host, requests>>

\* Mutant of CancelQueue: the id stays in the deque.
CancelQueueSkipped ==
    /\ At(Main, "cancelQueue")
    /\ Goto(Main, "cancelParams")
    /\ UNCHANGED <<controllerVars, tables, host, requests, job>>

CancelQueue ==
    /\ At(Main, "cancelQueue")
    /\ \/ Controller!CancelQueued(job[Main].box)
       \/ job[Main].box \notin Range(queued) /\ UNCHANGED controllerVars
    /\ Goto(Main, "cancelParams")
    /\ UNCHANGED <<tables, host, requests, job>>

CancelParams ==
    /\ At(Main, "cancelParams")
    /\ pending' = [pending EXCEPT ![job[Main].box] = 0]
    /\ Goto(Main, "cancelEntry")
    /\ UNCHANGED <<controllerVars, entries, host, requests, job>>

\* Replies CANCELLED whatever cancel_queued returned.
CancelEntry ==
    /\ At(Main, "cancelEntry")
    /\ Remove(job[Main].box)
    /\ Return(Main)
    /\ UNCHANGED <<controllerVars, pending, host, requests>>
-----------------------------------------------------------------------------
(* kill and cleanup of a box that was started                               *)

\* systemctl stop: an active unit is unloaded, a failed one stays failed.
Stopped(u) == IF u.st = "active" THEN NoUnit ELSE u

\* ERR_KILL_FAILED when the unit is not loaded any more, or on a fault.
KillUnit ==
    /\ At(Main, "kill")
    /\ LET b == job[Main].box IN
       \/ /\ units[b].st # "none" /\ NoFault
          /\ units' = [units EXCEPT ![b] = Stopped(@)]
          /\ Goto(Main, "markKilled") /\ UNCHANGED job
       \/ /\ units[b].st = "none" /\ NoFault
          /\ Return(Main) /\ UNCHANGED units
       \/ Fault /\ Return(Main) /\ UNCHANGED units
    /\ UNCHANGED <<controllerVars, tables, scratch, requests>>

\* Mutants of MarkKilled: a status outside the vocabulary; no release.
MarkKilledOtherStatus ==
    /\ At(Main, "markKilled")
    /\ states' = [states EXCEPT ![job[Main].box] = "CLEANED"]
    /\ Goto(Main, "release")
    /\ UNCHANGED <<controllerVars, pending, paths, host, requests, job>>

MarkKilledKeepsSlot ==
    /\ At(Main, "markKilled")
    /\ states' = [states EXCEPT ![job[Main].box] = "KILLED"]
    /\ Return(Main)
    /\ UNCHANGED <<controllerVars, pending, paths, host, requests>>

\* The entry may be gone: a thread that drains has taken it.  Then there is
\* no box id to release either.
MarkKilled ==
    /\ At(Main, "markKilled")
    /\ IF states[job[Main].box] = "ABSENT"
       THEN Return(Main) /\ UNCHANGED states
       ELSE /\ states' = [states EXCEPT ![job[Main].box] = "KILLED"]
            /\ Goto(Main, "release") /\ UNCHANGED job
    /\ UNCHANGED <<controllerVars, pending, paths, host, requests>>

\* Mutant of ReleaseSlot: the slot is freed and nobody drains.
ReleaseSlotOnly(t) ==
    /\ At(t, "release")
    /\ \/ Controller!Release(job[t].box) /\ Return(t)
       \/ job[t].box \notin active /\ Return(t) /\ UNCHANGED controllerVars
    /\ UNCHANGED <<tables, host, requests>>

\* release; only a release that freed a slot is followed by drain_queue.
ReleaseSlot(t) ==
    /\ At(t, "release")
    /\ \/ /\ Controller!Release(job[t].box)
          /\ Goto(t, "drain") /\ job' = [job EXCEPT ![t] = NoJob]
       \/ job[t].box \notin active /\ Return(t) /\ UNCHANGED controllerVars
    /\ UNCHANGED <<tables, host, requests>>

\* systemctl reset-failed; "not loaded" counts as success, and so does an
\* active unit, which it leaves running.
CleanupUnit ==
    /\ At(Main, "cleanup")
    /\ LET b == job[Main].box IN
       \/ /\ NoFault
          /\ units' = [units EXCEPT ![b] = IF @.st = "failed" THEN NoUnit ELSE @]
          /\ Goto(Main, "rmScratch") /\ UNCHANGED job
       \/ Fault /\ Return(Main) /\ UNCHANGED units
    /\ UNCHANGED <<controllerVars, tables, scratch, requests>>

\* remove_dir_all of the entry's path, ERR_CLEANUP_FAILED if the directory is
\* not there or the path is empty, as it is in the entry of a box that was
\* marked TIMED_OUT in the queue; without an entry there is nothing to remove.
CleanupScratch ==
    /\ At(Main, "rmScratch")
    /\ LET b == job[Main].box IN
       IF states[b] = "ABSENT"
       THEN Goto(Main, "cleanupEntry") /\ UNCHANGED <<scratch, job>>
       ELSE IF b \in paths \cap scratch
       THEN Goto(Main, "cleanupEntry") /\ scratch' = scratch \ {b} /\ UNCHANGED job
       ELSE Return(Main) /\ UNCHANGED scratch
    /\ UNCHANGED <<controllerVars, tables, units, faults, requests>>

\* Mutant of CleanupEntry: cleanup frees the slot, stopped or not.
CleanupEntryReleases ==
    /\ At(Main, "cleanupEntry")
    /\ Remove(job[Main].box)
    /\ active' = active \ {job[Main].box}
    /\ Goto(Main, "drain") /\ job' = [job EXCEPT ![Main] = NoJob]
    /\ UNCHANGED <<queued, pending, host, requests>>

\* The entry goes, no slot is released, and the queue is drained.
CleanupEntry ==
    /\ At(Main, "cleanupEntry")
    /\ Remove(job[Main].box)
    /\ Goto(Main, "drain") /\ job' = [job EXCEPT ![Main] = NoJob]
    /\ UNCHANGED <<controllerVars, pending, host, requests>>
-----------------------------------------------------------------------------
(* The watchdog thread of request n                                         *)

\* Mutant of WatchdogWakes: the slot goes before the unit is stopped.
WatchdogWakesAndReleases(n) ==
    /\ Expiry /\ At(n, "sleep")
    /\ IF states[job[n].box] = "STARTING"
       THEN Goto(n, "release") /\ UNCHANGED job
       ELSE Return(n)
    /\ UNCHANGED <<controllerVars, tables, host, requests>>

\* The sleep of ttl + 2 seconds is over; "active" is a status no code writes.
WatchdogWakes(n) ==
    /\ Expiry /\ At(n, "sleep")
    /\ IF states[job[n].box] = "STARTING"
       THEN Goto(n, "stop") /\ UNCHANGED job
       ELSE Return(n)
    /\ UNCHANGED <<controllerVars, tables, host, requests>>

\* systemctl stop, its result ignored.
WatchdogStops(n) ==
    /\ At(n, "stop")
    /\ \/ NoFault /\ units' = [units EXCEPT ![job[n].box] = Stopped(@)]
       \/ Fault /\ UNCHANGED units
    /\ Goto(n, "markTimedOut")
    /\ UNCHANGED <<controllerVars, tables, scratch, requests, job>>

WatchdogMarks(n) ==
    /\ At(n, "markTimedOut")
    /\ states' = [states EXCEPT ![job[n].box] =
                    IF @ = "ABSENT" THEN @ ELSE "TIMED_OUT"]
    /\ Goto(n, "release")
    /\ UNCHANGED <<controllerVars, pending, paths, host, requests, job>>
-----------------------------------------------------------------------------
(* systemd: the box's process ends by itself, or RuntimeMaxSec fails it      *)

UnitExits(b) ==
    /\ units[b].st = "active"
    /\ units' = [units EXCEPT ![b] = NoUnit]
    /\ UNCHANGED <<controllerVars, tables, scratch, faults, requests, pc, job>>

UnitTimesOut(b) ==
    /\ Expiry /\ units[b].st = "active"
    /\ units' = [units EXCEPT ![b].st = "failed"]
    /\ UNCHANGED <<controllerVars, tables, scratch, faults, requests, pc, job>>
-----------------------------------------------------------------------------
\* The steps of thread t inside spawn_box, drain_queue and release.
Shared(t) ==
    \/ CheckSpawn(t) \/ MakeScratch(t) \/ RunUnit(t) \/ InsertStarting(t)
    \/ UndoReservation(t) \/ DrainNext(t) \/ DrainEnds(t) \/ TakeParams(t)
    \/ RemoveQueuedEntry(t) \/ ReleaseSlot(t)

\* The server thread, once it has a request.
Serve ==
    \/ Shared(Main)
    \/ AdmitNow \/ AdmitQueued \/ AdmitRefused \/ KeepParams \/ MarkQueued
    \/ CancelFind \/ CancelQueue \/ CancelParams \/ CancelEntry
    \/ KillUnit \/ MarkKilled \/ CleanupUnit \/ CleanupScratch \/ CleanupEntry

Client == ReceiveDrain \/ \E b \in BoxIds :
    ReceiveSpawn(b) \/ Receive("kill", b) \/ Receive("cleanup", b)

Watchdog(n) == Shared(n) \/ WatchdogWakes(n) \/ WatchdogStops(n) \/ WatchdogMarks(n)

Systemd(b) == UnitExits(b) \/ UnitTimesOut(b)

Next ==
    \/ Client \/ Serve
    \/ \E n \in Watchdogs : Watchdog(n)
    \/ \E b \in BoxIds : Systemd(b)

Spec == Init /\ [][Next]_vars

\* The operating system runs every thread that can run and every sleep ends;
\* clients need not send anything, and boxes need not end.
FairSpec == Spec /\ WF_vars(Serve) /\ \A n \in Watchdogs : WF_vars(Watchdog(n))
-----------------------------------------------------------------------------
Labels == {"idle", "admit", "keepParams", "markQueued", "check", "mkScratch",
           "runUnit", "insert", "undo", "drain", "take", "unmark", "cancelFind",
           "cancelQueue", "cancelParams", "cancelEntry", "kill", "markKilled",
           "release", "cleanup", "rmScratch", "cleanupEntry", "unborn", "sleep",
           "stop", "markTimedOut", "done", "dead"}

TypeOK ==
    /\ active \subseteq BoxIds /\ queued \in Seq(BoxIds)
    /\ pending \in [BoxIds -> 0..MaxRequests]
    /\ states \in [BoxIds -> Statuses] /\ paths \subseteq BoxIds
    /\ units \in [BoxIds -> [st : {"none", "active", "failed"}, req : 0..MaxRequests]]
    /\ scratch \subseteq BoxIds
    /\ requests \in Seq([box : BoxIds, enforceable : BOOLEAN])
    /\ pc \in [Threads -> Labels]
    /\ job \in [Threads -> [box : BoxIds \cup {None}, req : 0..MaxRequests,
                           from : {"none", "admit", "drain"}]]
    /\ faults \in 0..MaxFaults

Idle == At(Main, "idle")
Alive == ~At(Main, "dead")

Running == {b \in BoxIds : units[b].st = "active"}

\* Some thread will still ask the controller for the next queued box.
Draining == \E t \in Threads : At(t, "drain") \/ job[t].from = "drain"

\* No lost wake-up: while a slot is free and a request waits, a thread is in
\* drain_queue.  Nothing else ever starts a queued box, so a path that frees
\* a slot and does not drain (admit_spawn after a failed start does not)
\* would strand the queue.
WorkConserving ==
    Alive /\ queued # <<>> /\ ~Controller!Full => Draining

\* No id has been admitted twice.
OncePerId == \A m, n \in DOMAIN requests : requests[m].box = requests[n].box => m = n

\* A killed box holds no slot once its request is answered, and so will not
\* be started either: whatever fails, as long as no id is used again.
KilledHoldsNoSlot == Idle /\ OncePerId => \A b \in active : states[b] # "KILLED"

\* Between requests a box that waits in the queue has its parameters and its
\* QUEUED entry, whatever the watchdogs drained meanwhile and whatever failed.
QueueIsBacked == OncePerId /\ Idle => \A b \in Range(queued) :
    /\ states[b] = "QUEUED"
    /\ pending[b] # 0 /\ requests[pending[b]].box = b

\* No external command has failed either: the histories outside the
\* disagreements that the README lists under 5.
Regular == faults = 0 /\ OncePerId

\* What `metrics` adds up: an entry counts from the start of its unit on,
\* and stops counting before its slot is given back.
Metered == {b \in BoxIds : states[b] \notin {"ABSENT", "QUEUED", "KILLED", "TIMED_OUT"}}

\* A running box, and one whose reservations are metered, holds one of the
\* slots, so the limit bounds what runs and what `metrics` can show.
RunningHoldsSlot == Regular => Running \cup Metered \subseteq active

\* A slot is given back only when the box that held it does not run.
ReleasedIsStopped == [][\A b \in BoxIds :
    Regular /\ b \in active /\ b \notin active' => units[b].st # "active"]_vars
-----------------------------------------------------------------------------
(* What the repository says of the helper and the code does not keep.       *)

\* viper-helper.rs:1074 asserts that the QUEUED entry its guard saw is still
\* there when the arm looks it up again.
NeverPanics == Alive

\* README.md:233: "A successful `kill` or TTL expiry frees one slot": when
\* the watchdog of an id that is used once is through and no request is being
\* served, the id has no slot.
ExpiryFreesSlot == Idle => \A n \in DOMAIN requests :
    At(n, "done") => requests[n].box \notin active

\* admission.rs:10: a queued box "is retained in FIFO order": between
\* requests a QUEUED entry is in the deque, or a thread is starting it.
QueuedIsRetained == Idle => \A b \in BoxIds : states[b] = "QUEUED" =>
    b \in Range(queued) \/ \E t \in Threads : job[t].box = b
-----------------------------------------------------------------------------
\* Whatever the watchdogs do, a request is answered (no look-up waits, and
\* drain_queue ends although other threads take from the same queue), and
\* every watchdog thread ends, also one that drains for other boxes.
ThreadsFinish ==
    /\ ~Idle ~> Idle \/ ~Alive
    /\ \A n \in Watchdogs : At(n, "sleep") ~> At(n, "done") \/ ~Alive
=============================================================================
