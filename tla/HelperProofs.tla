----------------------------- MODULE HelperProofs -----------------------------
(***************************************************************************)
(* The helper for every number of boxes, slots, requests, watchdogs,       *)
(* crashes and failing commands, in four parts.                            *)
(*                                                                         *)
(* The threads use the admission controller by its methods only, so that   *)
(* what AdmissionProofs says of the controller holds of the helper, and a  *)
(* slot is never free beside a waiting request unless a thread drains.     *)
(*                                                                         *)
(* Box by box, what its slot, its entries in the two tables, its unit and  *)
(* the threads that handle it have to do with each other: a box that runs  *)
(* holds a slot, one whose kill was answered holds none, a queued one has  *)
(* its parameters, and what is released has stopped.                       *)
(*                                                                         *)
(* The start-up: a process that could not reconcile every orphan never     *)
(* answers a request.                                                      *)
(*                                                                         *)
(* The second part again, across restarts: one that serves has a slot or a *)
(* record for every box that runs.                                         *)
(***************************************************************************)
EXTENDS HelperRestart, TLAPS

Proofs == INSTANCE AdmissionProofs

\* The controller of Helper is the one AdmissionProofs is about.
LEMMA SameController ==
    /\ Controller!Init <=> Proofs!Init
    /\ [Controller!Next]_controllerVars <=> [Proofs!Next]_(Proofs!admissionVars)
BY DEF Controller!Init, Proofs!Init, Controller!Next, Proofs!Next,
       controllerVars, Proofs!admissionVars,
       Controller!StartNext, Proofs!StartNext, Controller!AdmitStart, Proofs!AdmitStart,
       Controller!AdmitQueue, Proofs!AdmitQueue, Controller!Release, Proofs!Release,
       Controller!CancelQueued, Proofs!CancelQueued,
       Controller!Full, Proofs!Full, Controller!Known, Proofs!Known,
       Controller!Cardinality, Proofs!Cardinality, Controller!Range, Proofs!Range,
       Controller!RemoveAt, Proofs!RemoveAt
-----------------------------------------------------------------------------
(* The inductive invariant.                                                 *)

\* The places inside drain_queue, and those inside spawn_box.
TakeLabels == {"take", "unmark"}
SpawnLabels == {"check", "mkScratch", "runUnit", "insert", "undo"}

\* Where a thread has a box, and who can be inside spawn_box: a thread that
\* drains, or the server thread for a request that found the queue empty.
\* Only the server thread adds to the queue, so for that request it is empty
\* until its spawn_box returns; this is why a failed start need not drain.
Placed(t) ==
    /\ pc[t] \in {"admit"} \cup TakeLabels \cup SpawnLabels => job[t].box \in BoxIds
    /\ At(t, "admit") => t = Main /\ Len(requests) < MaxRequests
    /\ job[t].from = "drain" => pc[t] \in TakeLabels \cup SpawnLabels
    /\ pc[t] \in TakeLabels => job[t].from = "drain"
    /\ pc[t] \in SpawnLabels /\ job[t].from # "drain" => t = Main /\ queued = <<>>

Places == \A t \in Threads : Placed(t)

UnitType == [st : {"none", "active", "failed"}, req : 0..MaxRequests]
RequestType == [box : BoxIds, enforceable : BOOLEAN]
JobType == [box : BoxIds \cup {None}, req : 0..MaxRequests, from : {"none", "admit", "drain"}]

\* What TypeOK says of the variables of the helper besides the controller's.
\* The places L of a thread are a parameter: HelperRestart has two more.
HelperTypes(L) ==
    /\ pending \in [BoxIds -> 0..MaxRequests]
    /\ states \in [BoxIds -> Statuses] /\ paths \subseteq BoxIds
    /\ units \in [BoxIds -> UnitType] /\ scratch \subseteq BoxIds
    /\ requests \in Seq(RequestType)
    /\ pc \in [Threads -> L] /\ job \in [Threads -> JobType]
    /\ faults \in 0..MaxFaults

Core(L) == Proofs!Inv /\ HelperTypes(L) /\ Places

Inv == Core(Labels) /\ WorkConserving

LEMMA InvGivesTypes == Inv => TypeOK
BY DEF Inv, Core, TypeOK, HelperTypes, UnitType, RequestType, JobType, Proofs!Inv, Proofs!TypeOK

LEMMA InitInv == Init => Inv
<1> SUFFICES ASSUME Init PROVE Inv
  OBVIOUS
<1> USE HelperAssumption DEF Init
<1>1. Proofs!Inv
  BY SameController, Proofs!InitInv DEF Proofs!LimitAssumption
<1>2. HelperTypes(Labels)
  BY DEF HelperTypes, UnitType, RequestType, JobType, Statuses, NoUnit, NoJob, Labels, Threads, Watchdogs, Main
<1>3. Places
  BY DEF Places, Placed, At, NoJob, TakeLabels, SpawnLabels
<1>4. WorkConserving
  BY DEF WorkConserving, Controller!Init
<1> QED BY <1>1, <1>2, <1>3, <1>4 DEF Inv, Core
-----------------------------------------------------------------------------
\* Whatever a thread does to the controller is one call of one method.
LEMMA ControllerStep ==
    ASSUME NEW L, Core(L), [Next]_vars
    PROVE  [Controller!Next]_controllerVars
<1> USE DEF Controller!Next
<1>1. CASE UNCHANGED vars
  BY <1>1 DEF vars, controllerVars
<1>2. CASE Client
  BY <1>2 DEF Client, ReceiveDrain, ReceiveSpawn, Receive
<1>3. ASSUME NEW t \in Threads, Shared(t)
      PROVE  [Controller!Next]_controllerVars
  <2>1. CASE UndoReservation(t)
    <3>1. job[t].box \in BoxIds
      BY <2>1 DEF UndoReservation, Core, Places, Placed, At, SpawnLabels
    <3> QED BY <2>1, <3>1 DEF UndoReservation
  <2>2. CASE ReleaseSlot(t)
    <3>1. active \subseteq BoxIds
      BY DEF Core, Proofs!Inv, Proofs!TypeOK
    <3> QED BY <2>2, <3>1 DEF ReleaseSlot, Controller!Release
  <2>3. CASE DrainNext(t)
    BY <2>3 DEF DrainNext
  <2>4. CASE \/ CheckSpawn(t) \/ MakeScratch(t) \/ RunUnit(t) \/ InsertStarting(t)
             \/ DrainEnds(t) \/ TakeParams(t) \/ RemoveQueuedEntry(t)
    BY <2>4 DEF CheckSpawn, MakeScratch, RunUnit, InsertStarting, DrainEnds,
                TakeParams, RemoveQueuedEntry
  <2> QED BY <1>3, <2>1, <2>2, <2>3, <2>4 DEF Shared
<1>4. CASE Serve
  <2>1. CASE AdmitNow \/ AdmitQueued
    <3>1. job[Main].box \in BoxIds
      BY <2>1 DEF AdmitNow, AdmitQueued, Core, Places, Placed, At, Threads
    <3> QED BY <2>1, <3>1 DEF AdmitNow, AdmitQueued
  <2>2. CASE CancelQueue
    <3>1. CASE Controller!CancelQueued(job[Main].box)
      <4>1. Controller!Range(queued) \subseteq BoxIds
        BY DEF Controller!Range, Core, Proofs!Inv, Proofs!TypeOK
      <4> QED BY <3>1, <4>1 DEF Controller!CancelQueued
    <3> QED BY <2>2, <3>1 DEF CancelQueue
  <2>3. CASE \/ AdmitRefused \/ KeepParams \/ MarkQueued
             \/ CancelFind \/ CancelParams \/ CancelEntry
             \/ KillUnit \/ MarkKilled \/ CleanupUnit \/ CleanupScratch \/ CleanupEntry
    BY <2>3 DEF AdmitRefused, KeepParams, MarkQueued, CancelFind, CancelParams,
                CancelEntry, KillUnit, MarkKilled, CleanupUnit, CleanupScratch, CleanupEntry
  <2> QED BY <1>3, <1>4, <2>1, <2>2, <2>3 DEF Serve, Threads
<1>5. ASSUME NEW n \in Watchdogs, Watchdog(n)
      PROVE  [Controller!Next]_controllerVars
  BY <1>3, <1>5 DEF Watchdog, WatchdogWakes, WatchdogStops, WatchdogMarks, Threads
<1>6. ASSUME NEW b \in BoxIds, Systemd(b)
      PROVE  [Controller!Next]_controllerVars
  BY <1>6 DEF Systemd, UnitExits, UnitTimesOut
<1> QED BY <1>1, <1>2, <1>4, <1>5, <1>6 DEF Next

LEMMA ControllerInv ==
    ASSUME NEW L, Core(L), [Next]_vars
    PROVE  Proofs!Inv'
BY ControllerStep, SameController, HelperAssumption, Proofs!NextInv
   DEF Core, Proofs!LimitAssumption

LEMMA PlacesStep ==
    ASSUME NEW L, Core(L), [Next]_vars
    PROVE  Places'
<1> SUFFICES ASSUME NEW u \in Threads PROVE Placed(u)'
  BY DEF Places
<1>0. /\ Placed(u) /\ Main \in Threads /\ Placed(Main)
      /\ pc \in [Threads -> L] /\ job \in [Threads -> JobType]
      /\ requests \in Seq(RequestType)
      /\ queued \in Seq(BoxIds) /\ HelperTypes(L)
  BY DEF Core, HelperTypes, Places, Threads, Proofs!Inv, Proofs!TypeOK
<1> USE <1>0 DEF Placed, At, Goto, Return, NoJob, TakeLabels, SpawnLabels, JobType
<1>1. CASE UNCHANGED vars
  BY <1>1 DEF vars
<1>2. ASSUME NEW b \in BoxIds, ReceiveSpawn(b) PROVE Placed(u)'
  BY <1>2 DEF ReceiveSpawn, controllerVars
<1>3. ASSUME NEW b \in BoxIds, NEW m \in {"kill", "cleanup"}, Receive(m, b) PROVE Placed(u)'
  BY <1>3 DEF Receive, controllerVars
<1>4. CASE ReceiveDrain
  BY <1>4 DEF ReceiveDrain, controllerVars
<1>5. ASSUME NEW t \in Threads, Shared(t) PROVE Placed(u)'
  <2>0. Placed(t)
    BY DEF Core, Places
  <2> USE <2>0
  <2>1. CASE CheckSpawn(t)
    BY <2>1 DEF CheckSpawn, controllerVars
  <2>2. CASE MakeScratch(t)
    BY <2>2 DEF MakeScratch, controllerVars
  <2>3. CASE RunUnit(t)
    BY <2>3 DEF RunUnit, controllerVars
  <2>4. CASE InsertStarting(t)
    BY <2>4 DEF InsertStarting, controllerVars
  <2>5. CASE UndoReservation(t)
    BY <2>5 DEF UndoReservation, controllerVars, Controller!Release
  <2>6. CASE DrainNext(t)
    BY <2>6 DEF DrainNext, Controller!StartNext
  <2>7. CASE DrainEnds(t)
    BY <2>7 DEF DrainEnds, controllerVars
  <2>8. CASE TakeParams(t)
    <3>1. /\ job[t].box \in BoxIds /\ job[t].from = "drain"
          /\ queued' = queued /\ requests' = requests
      BY <2>8 DEF TakeParams, controllerVars
    <3>2. CASE pending[job[t].box] # 0
      <4>1. /\ pc' = [pc EXCEPT ![t] = "unmark"]
            /\ job' = [job EXCEPT ![t].req = pending[job[t].box]]
        BY <2>8, <3>2 DEF TakeParams
      <4>2. /\ job'[t].box = job[t].box /\ job'[t].from = job[t].from
            /\ pc'[t] = "unmark"
        BY <4>1
      <4>3. CASE u = t
        BY <3>1, <4>2, <4>3
      <4>4. CASE u # t
        BY <3>1, <4>1, <4>4
      <4> QED BY <4>3, <4>4
    <3>3. CASE pending[job[t].box] = 0
      <4>1. pc' = [pc EXCEPT ![t] = "drain"] /\ job' = [job EXCEPT ![t] = NoJob]
        BY <2>8, <3>3 DEF TakeParams
      <4> QED BY <3>1, <4>1
    <3> QED BY <3>2, <3>3
  <2>9. CASE RemoveQueuedEntry(t)
    BY <2>9 DEF RemoveQueuedEntry, controllerVars
  <2>10. CASE ReleaseSlot(t)
    BY <2>10 DEF ReleaseSlot, controllerVars, Controller!Release
  <2> QED BY <1>5, <2>1, <2>2, <2>3, <2>4, <2>5, <2>6, <2>7, <2>8, <2>9, <2>10 DEF Shared
<1>6. CASE AdmitNow
  BY <1>6 DEF AdmitNow, NewRequest, Controller!AdmitStart
<1>7. CASE AdmitQueued
  BY <1>7 DEF AdmitQueued, NewRequest, Controller!AdmitQueue
<1>8. CASE AdmitRefused \/ KeepParams \/ MarkQueued
  BY <1>8 DEF AdmitRefused, KeepParams, MarkQueued, controllerVars
<1>9. CASE CancelFind
  BY <1>9 DEF CancelFind, controllerVars
<1>10. CASE CancelQueue
  BY <1>10 DEF CancelQueue, controllerVars, Controller!CancelQueued
<1>11. CASE CancelParams \/ CancelEntry
  BY <1>11 DEF CancelParams, CancelEntry, controllerVars
<1>12. CASE KillUnit \/ MarkKilled
  BY <1>12 DEF KillUnit, MarkKilled, controllerVars
<1>13. CASE CleanupUnit \/ CleanupScratch \/ CleanupEntry
  BY <1>13 DEF CleanupUnit, CleanupScratch, CleanupEntry, controllerVars
<1>14. ASSUME NEW n \in Watchdogs, WatchdogWakes(n) \/ WatchdogStops(n) \/ WatchdogMarks(n)
       PROVE  Placed(u)'
  BY <1>14 DEF WatchdogWakes, WatchdogStops, WatchdogMarks, controllerVars, Threads
<1>15. ASSUME NEW b \in BoxIds, Systemd(b) PROVE Placed(u)'
  BY <1>15 DEF Systemd, UnitExits, UnitTimesOut, controllerVars
<1> QED
  BY <1>1, <1>2, <1>3, <1>4, <1>5, <1>6, <1>7, <1>8, <1>9, <1>10, <1>11, <1>12,
     <1>13, <1>14, <1>15
  DEF Next, Client, Serve, Watchdog, Threads

LEMMA TypesStep ==
    ASSUME NEW L, Labels \subseteq L, Core(L), [Next]_vars
    PROVE  HelperTypes(L)'
<1>0. /\ Places /\ Main \in Threads /\ Placed(Main)
      /\ pc \in [Threads -> L] /\ job \in [Threads -> JobType]
      /\ HelperTypes(L) /\ Watchdogs \subseteq 0..MaxRequests /\ 0 \in 0..MaxRequests
  BY HelperAssumption DEF Core, HelperTypes, Places, Threads, Watchdogs, Main
<1> USE <1>0 DEF HelperTypes, controllerVars, tables, entries, host
<1>a. ASSUME NEW t \in Threads, NEW l \in Labels, Goto(t, l) PROVE pc' \in [Threads -> L]
  BY <1>a DEF Goto
<1>b. ASSUME NEW t \in Threads, Return(t) PROVE pc' \in [Threads -> L] /\ job' \in [Threads -> JobType]
  BY <1>b DEF Return, Goto, NoJob, JobType, Labels
<1>c. ASSUME NEW t \in Threads, job' = [job EXCEPT ![t] = NoJob] PROVE job' \in [Threads -> JobType]
  BY <1>c DEF NoJob, JobType
<1>d. ASSUME NEW b, NEW s \in Statuses \ {"STARTING"}, Enter(b, s)
      PROVE states' \in [BoxIds -> Statuses] /\ paths' \subseteq BoxIds
  BY <1>d DEF Enter
<1>e. ASSUME NEW b, Remove(b)
      PROVE states' \in [BoxIds -> Statuses] /\ paths' \subseteq BoxIds
  BY <1>d, <1>e DEF Remove, Statuses
<1>f. ASSUME Fault PROVE faults' \in 0..MaxFaults
  BY <1>f, HelperAssumption DEF Fault
<1>g. ASSUME NEW b \in BoxIds, NEW u \in UnitType, units' = [units EXCEPT ![b] = u]
      PROVE  units' \in [BoxIds -> UnitType]
  BY <1>g
<1>h. ASSUME NEW b, units' = [units EXCEPT ![b] = Stopped(@)]
      PROVE  units' \in [BoxIds -> UnitType]
  <2>1. CASE b \in BoxIds
    <3>1. Stopped(units[b]) \in UnitType
      BY <2>1 DEF Stopped, NoUnit, UnitType
    <3> QED BY <1>g, <1>h, <2>1, <3>1
  <2> QED BY <1>h, <2>1
<1>i. ASSUME NEW t \in Threads, NEW n \in 0..MaxRequests, job' = [job EXCEPT ![t].req = n]
      PROVE  job' \in [Threads -> JobType]
  <2>1. [job[t] EXCEPT !.req = n] \in JobType
    BY DEF JobType
  <2> QED BY <1>i, <2>1
<1>1. CASE UNCHANGED vars
  BY <1>1 DEF vars
<1>2. ASSUME NEW b \in BoxIds, ReceiveSpawn(b) PROVE HelperTypes(L)'
  BY <1>2, <1>a DEF ReceiveSpawn, JobType, Labels
<1>3. ASSUME NEW b \in BoxIds, NEW m \in {"kill", "cleanup"}, Receive(m, b) PROVE HelperTypes(L)'
  BY <1>3, <1>a DEF Receive, JobType, Labels
<1>4. CASE ReceiveDrain
  BY <1>4, <1>a DEF ReceiveDrain, Labels
<1>5. ASSUME NEW t \in Threads, Shared(t) PROVE HelperTypes(L)'
  <2>0. Placed(t)
    BY DEF Places
  <2> USE <2>0 DEF Placed
  <2>1. CASE CheckSpawn(t)
    BY <2>1, <1>a DEF CheckSpawn, Labels
  <2>2. CASE MakeScratch(t)
    BY <2>2, <1>a DEF MakeScratch, Labels, At, SpawnLabels
  <2>3. CASE RunUnit(t)
    <3>1. /\ job[t].box \in BoxIds /\ job[t].req \in 0..MaxRequests
          /\ units' \in {units, [units EXCEPT ![job[t].box] =
                                   [st |-> "active", req |-> job[t].req]]}
          /\ faults' \in 0..MaxFaults
          /\ Goto(t, "insert") \/ Goto(t, "undo")
      BY <2>3, <1>f DEF RunUnit, NoFault, At, SpawnLabels, JobType
    <3>2. units' \in [BoxIds -> UnitType]
      <4>1. [st |-> "active", req |-> job[t].req] \in UnitType
        BY <3>1 DEF UnitType
      <4> QED BY <3>1, <4>1, <1>g
    <3> QED BY <2>3, <3>1, <3>2, <1>a DEF RunUnit, Labels
  <2>4. CASE InsertStarting(t)
    <3>1. job[t].box \in BoxIds /\ job[t].req \in 0..MaxRequests
      BY <2>4 DEF InsertStarting, At, SpawnLabels, JobType
    <3>2. job' \in [Threads -> JobType]
      BY <2>4, <3>1 DEF InsertStarting, NoJob, JobType
    <3>3. pc' \in [Threads -> L]
      BY <2>4 DEF InsertStarting, Labels
    <3>4. states' \in [BoxIds -> Statuses] /\ paths' \subseteq BoxIds
      BY <2>4, <3>1 DEF InsertStarting, Enter, Statuses
    <3> QED BY <2>4, <3>2, <3>3, <3>4 DEF InsertStarting
  <2>5. CASE UndoReservation(t)
    BY <2>5, <1>a, <1>b, <1>c DEF UndoReservation, Labels
  <2>6. CASE DrainNext(t)
    <3>1. Head(queued) \in BoxIds
      BY <2>6 DEF DrainNext, Controller!StartNext, Core, Proofs!Inv, Proofs!TypeOK
    <3> QED BY <2>6, <3>1, <1>a DEF DrainNext, JobType, Labels
  <2>7. CASE DrainEnds(t)
    BY <2>7, <1>b DEF DrainEnds
  <2>8. CASE TakeParams(t)
    <3>1. job[t].box \in BoxIds /\ pending[job[t].box] \in 0..MaxRequests
      BY <2>8 DEF TakeParams, At, TakeLabels
    <3>2. pending' \in [BoxIds -> 0..MaxRequests]
      BY <2>8 DEF TakeParams
    <3>3. job' \in [Threads -> JobType]
      BY <2>8, <3>1, <1>c, <1>i DEF TakeParams
    <3>4. pc' \in [Threads -> L]
      BY <2>8, <1>a DEF TakeParams, Labels
    <3> QED BY <2>8, <3>2, <3>3, <3>4 DEF TakeParams
  <2>9. CASE RemoveQueuedEntry(t)
    BY <2>9, <1>a, <1>e DEF RemoveQueuedEntry, Labels
  <2>10. CASE ReleaseSlot(t)
    BY <2>10, <1>a, <1>b, <1>c DEF ReleaseSlot, Labels
  <2> QED BY <1>5, <2>1, <2>2, <2>3, <2>4, <2>5, <2>6, <2>7, <2>8, <2>9, <2>10 DEF Shared
<1>6. CASE AdmitNow \/ AdmitQueued
  <2>1. job[Main].box \in BoxIds /\ Len(requests) < MaxRequests /\ NewRequest("admit")
    BY <1>6 DEF AdmitNow, AdmitQueued, Placed, At
  <2>2. requests' \in Seq(RequestType)
    BY <2>1, HelperAssumption DEF NewRequest, RequestType
  <2>3. Len(requests) + 1 \in 0..MaxRequests
    BY <2>1, HelperAssumption
  <2>4. job' \in [Threads -> JobType]
    <3>1. job' = [[job EXCEPT ![Main].req = Len(requests) + 1] EXCEPT ![Main].from = "admit"]
      BY <2>1 DEF NewRequest
    <3> QED BY <2>3, <3>1 DEF JobType
  <2>5. pc' \in [Threads -> L]
    BY <1>6, <1>a DEF AdmitNow, AdmitQueued, Labels
  <2> QED BY <1>6, <2>2, <2>4, <2>5 DEF AdmitNow, AdmitQueued
<1>7. CASE AdmitRefused
  BY <1>7, <1>b DEF AdmitRefused
<1>8. CASE KeepParams
  BY <1>8, <1>a DEF KeepParams, JobType, Labels
<1>9. CASE MarkQueued
  BY <1>9, <1>b, <1>d DEF MarkQueued, Statuses
<1>10. CASE CancelFind
  <2>1. pc' \in [Threads -> L] /\ job' \in [Threads -> JobType]
    BY <1>10, <1>a DEF CancelFind, Labels, NoJob, JobType
  <2> QED BY <1>10, <2>1 DEF CancelFind
<1>11. CASE CancelQueue
  BY <1>11, <1>a DEF CancelQueue, Labels
<1>12. CASE CancelParams
  BY <1>12, <1>a DEF CancelParams, Labels
<1>13. CASE CancelEntry
  BY <1>13, <1>b, <1>e DEF CancelEntry
<1>14. CASE KillUnit
  <2>1. units' \in [BoxIds -> UnitType]
    BY <1>14, <1>h DEF KillUnit
  <2>2. faults' \in 0..MaxFaults /\ pc' \in [Threads -> L] /\ job' \in [Threads -> JobType]
    BY <1>14, <1>a, <1>b, <1>f DEF KillUnit, NoFault, Labels
  <2> QED BY <1>14, <2>1, <2>2 DEF KillUnit
<1>15. CASE MarkKilled
  <2>1. states' \in [BoxIds -> Statuses]
    BY <1>15 DEF MarkKilled, Statuses
  <2>2. pc' \in [Threads -> L] /\ job' \in [Threads -> JobType]
    BY <1>15, <1>a, <1>b DEF MarkKilled, Labels
  <2> QED BY <1>15, <2>1, <2>2 DEF MarkKilled
<1>16. CASE CleanupUnit
  <2>1. units' \in [BoxIds -> UnitType]
    <3>1. CASE UNCHANGED units
      BY <3>1
    <3>2. CASE units' = [units EXCEPT ![job[Main].box] = IF @.st = "failed" THEN NoUnit ELSE @]
      <4>1. NoUnit \in UnitType
        BY DEF NoUnit, UnitType
      <4> QED BY <3>2, <4>1
    <3> QED BY <1>16, <3>1, <3>2 DEF CleanupUnit
  <2>2. faults' \in 0..MaxFaults /\ pc' \in [Threads -> L] /\ job' \in [Threads -> JobType]
    BY <1>16, <1>a, <1>b, <1>f DEF CleanupUnit, NoFault, Labels
  <2> QED BY <1>16, <2>1, <2>2 DEF CleanupUnit
<1>17. CASE CleanupScratch
  BY <1>17, <1>a, <1>b DEF CleanupScratch, Labels
<1>18. CASE CleanupEntry
  BY <1>18, <1>a, <1>c, <1>e DEF CleanupEntry, Labels
<1>19. ASSUME NEW n \in Watchdogs, WatchdogWakes(n) \/ WatchdogStops(n) \/ WatchdogMarks(n)
       PROVE  HelperTypes(L)'
  <2>1. n \in Threads
    BY DEF Threads
  <2>2. CASE WatchdogWakes(n)
    BY <2>1, <2>2, <1>a, <1>b DEF WatchdogWakes, Labels
  <2>3. CASE WatchdogStops(n)
    <3>1. units' \in [BoxIds -> UnitType]
      BY <2>3, <1>h DEF WatchdogStops
    <3> QED BY <2>1, <2>3, <3>1, <1>a, <1>f DEF WatchdogStops, NoFault, Labels
  <2>4. CASE WatchdogMarks(n)
    <3>1. states' \in [BoxIds -> Statuses]
      BY <2>4 DEF WatchdogMarks, Statuses
    <3> QED BY <2>1, <2>4, <3>1, <1>a DEF WatchdogMarks, Labels
  <2> QED BY <1>19, <2>2, <2>3, <2>4
<1>20. ASSUME NEW b \in BoxIds, Systemd(b) PROVE HelperTypes(L)'
  <2>1. units' \in [BoxIds -> UnitType]
    <3>1. CASE UnitExits(b)
      <4>1. NoUnit \in UnitType
        BY DEF NoUnit, UnitType
      <4> QED BY <1>g, <3>1, <4>1 DEF UnitExits
    <3>2. CASE UnitTimesOut(b)
      <4>1. units' = [units EXCEPT ![b] = [units[b] EXCEPT !.st = "failed"]]
        BY <3>2 DEF UnitTimesOut
      <4>2. [units[b] EXCEPT !.st = "failed"] \in UnitType
        BY DEF UnitType
      <4> QED BY <1>g, <4>1, <4>2
    <3> QED BY <1>20, <3>1, <3>2 DEF Systemd
  <2> QED BY <1>20, <2>1 DEF Systemd, UnitExits, UnitTimesOut
<1> QED
  BY <1>1, <1>2, <1>3, <1>4, <1>5, <1>6, <1>7, <1>8, <1>9, <1>10, <1>11, <1>12,
     <1>13, <1>14, <1>15, <1>16, <1>17, <1>18, <1>19, <1>20
  DEF Next, Client, Serve, Watchdog, Threads

\* No step leaves a slot free beside a waiting request without a thread that
\* drains: a thread goes on draining, or ends because the controller is full
\* or the queue empty, or is not draining and frees nothing.
LEMMA WorkStep ==
    ASSUME Inv, [Next]_vars
    PROVE  WorkConserving'
<1> DEFINE Drains(t) == At(t, "drain") \/ job[t].from = "drain"
<1> SUFFICES ASSUME Alive', queued' # <<>>, ~Controller!Full'
             PROVE  \E t \in Threads : Drains(t)'
  BY DEF WorkConserving, Draining
<1>0. /\ Main \in Threads /\ Watchdogs \subseteq Threads
      /\ pc \in [Threads -> Labels] /\ job \in [Threads -> JobType]
      /\ queued \in Seq(BoxIds) /\ WorkConserving
      /\ \A t \in Threads : Placed(t)
  BY DEF Inv, Core, HelperTypes, Places, Threads, Proofs!Inv, Proofs!TypeOK
<1> USE <1>0
\* Thread t steps, and drains after it if it did before.
<1>a. ASSUME NEW t \in Threads, pc[t] # "dead",
             UNCHANGED active, queued # <<>>,
             \A u \in Threads \ {t} : pc'[u] = pc[u] /\ job'[u] = job[u],
             Drains(t) => Drains(t)'
      PROVE  \E u \in Threads : Drains(u)'
  <2>1. Alive
    BY <1>a DEF Alive, At
  <2>2. ~Controller!Full
    BY <1>a DEF Controller!Full
  <2>3. PICK u \in Threads : Drains(u)
    BY <1>a, <2>1, <2>2 DEF WorkConserving, Draining
  <2> QED BY <1>a, <2>3 DEF At
\* Thread t steps from a place outside drain_queue and spawn_box.
<1>b. ASSUME NEW t \in Threads,
             pc[t] \notin {"dead", "drain"} \cup TakeLabels \cup SpawnLabels,
             UNCHANGED active, queued # <<>>,
             \A u \in Threads \ {t} : pc'[u] = pc[u] /\ job'[u] = job[u]
      PROVE  \E u \in Threads : Drains(u)'
  BY <1>a, <1>b DEF Placed, At
<1> USE DEF At, Goto, Return, TakeLabels, SpawnLabels, controllerVars
<1>1. CASE UNCHANGED vars
  BY <1>a, <1>1 DEF vars, Alive
<1>2. ASSUME NEW b \in BoxIds, ReceiveSpawn(b) PROVE \E u \in Threads : Drains(u)'
  <2>1. /\ pc[Main] = "idle" /\ UNCHANGED <<active, queued>>
        /\ \A u \in Threads \ {Main} : pc'[u] = pc[u] /\ job'[u] = job[u]
    BY <1>2 DEF ReceiveSpawn
  <2> QED BY <1>b, <2>1
<1>3. ASSUME NEW b \in BoxIds, NEW m \in {"kill", "cleanup"}, Receive(m, b)
      PROVE  \E u \in Threads : Drains(u)'
  <2>1. /\ pc[Main] = "idle" /\ UNCHANGED <<active, queued>>
        /\ \A u \in Threads \ {Main} : pc'[u] = pc[u] /\ job'[u] = job[u]
    BY <1>3 DEF Receive
  <2> QED BY <1>b, <2>1
<1>4. CASE ReceiveDrain
  BY <1>4 DEF ReceiveDrain
<1>5. ASSUME NEW t \in Threads, Shared(t) PROVE \E u \in Threads : Drains(u)'
  <2>1. CASE CheckSpawn(t)
    BY <1>a, <2>1 DEF CheckSpawn
  <2>2. CASE MakeScratch(t)
    BY <1>a, <2>2 DEF MakeScratch
  <2>3. CASE RunUnit(t)
    BY <1>a, <2>3 DEF RunUnit
  <2>4. CASE InsertStarting(t)
    <3>1. job[t].from = "drain"
      BY <2>4 DEF InsertStarting, Placed
    <3> QED BY <2>4, <3>1 DEF InsertStarting
  <2>5. CASE UndoReservation(t)
    <3>1. UNCHANGED queued
      BY <2>5 DEF UndoReservation, Controller!Release
    <3>2. job[t].from = "drain"
      BY <2>5, <3>1 DEF UndoReservation, Placed
    <3> QED BY <2>5, <3>2 DEF UndoReservation
  <2>6. CASE DrainNext(t)
    BY <2>6 DEF DrainNext
  <2>7. CASE DrainEnds(t)
    BY <2>7 DEF DrainEnds, Controller!Full
  <2>8. CASE TakeParams(t)
    <3>1. CASE pending[job[t].box] # 0
      <4>1. job[t].from = "drain"
        BY <2>8 DEF TakeParams, Placed
      <4>2. job' = [job EXCEPT ![t].req = pending[job[t].box]]
        BY <2>8, <3>1 DEF TakeParams
      <4>3. job'[t].from = "drain"
        BY <4>1, <4>2 DEF JobType
      <4> QED BY <4>3
    <3>2. CASE pending[job[t].box] = 0
      BY <2>8, <3>2 DEF TakeParams
    <3> QED BY <3>1, <3>2
  <2>9. CASE RemoveQueuedEntry(t)
    BY <1>a, <2>9 DEF RemoveQueuedEntry
  <2>10. CASE ReleaseSlot(t)
    <3>1. CASE Goto(t, "drain")
      BY <3>1
    <3>2. CASE Return(t) /\ UNCHANGED controllerVars
      <4>1. /\ pc[t] = "release" /\ UNCHANGED <<active, queued>>
            /\ \A u \in Threads \ {t} : pc'[u] = pc[u] /\ job'[u] = job[u]
        BY <2>10, <3>2 DEF ReleaseSlot
      <4> QED BY <1>b, <4>1
    <3> QED BY <2>10, <3>1, <3>2 DEF ReleaseSlot
  <2> QED BY <1>5, <2>1, <2>2, <2>3, <2>4, <2>5, <2>6, <2>7, <2>8, <2>9, <2>10 DEF Shared
<1>6. CASE AdmitNow
  BY <1>6 DEF AdmitNow, Controller!AdmitStart
<1>7. CASE AdmitQueued
  <2>1. /\ pc[Main] = "admit" /\ UNCHANGED active /\ queued # <<>>
        /\ \A u \in Threads \ {Main} : pc'[u] = pc[u] /\ job'[u] = job[u]
    BY <1>7 DEF AdmitQueued, NewRequest, Controller!AdmitQueue, Controller!Full
  <2> QED BY <1>b, <2>1
<1>8. CASE CancelFind
  <2>1. /\ pc[Main] = "cancelFind" /\ UNCHANGED <<active, queued>>
        /\ \A u \in Threads \ {Main} : pc'[u] = pc[u] /\ job'[u] = job[u]
    BY <1>8 DEF CancelFind, Alive
  <2> QED BY <1>b, <2>1
<1>9. CASE CancelQueue
  <2>1. /\ pc[Main] = "cancelQueue" /\ UNCHANGED active /\ queued # <<>>
        /\ \A u \in Threads \ {Main} : pc'[u] = pc[u] /\ job'[u] = job[u]
    BY <1>9 DEF CancelQueue, Controller!CancelQueued
  <2> QED BY <1>b, <2>1
<1>10. CASE \/ AdmitRefused \/ KeepParams \/ MarkQueued \/ CancelParams \/ CancelEntry
            \/ KillUnit \/ MarkKilled \/ CleanupUnit \/ CleanupScratch
  <2>1. /\ pc[Main] \in {"admit", "keepParams", "markQueued", "cancelParams", "cancelEntry",
                         "kill", "markKilled", "cleanup", "rmScratch"}
        /\ UNCHANGED <<active, queued>>
        /\ \A u \in Threads \ {Main} : pc'[u] = pc[u] /\ job'[u] = job[u]
    BY <1>10 DEF AdmitRefused, KeepParams, MarkQueued, CancelParams, CancelEntry,
                 KillUnit, MarkKilled, CleanupUnit, CleanupScratch
  <2> QED BY <1>b, <2>1
<1>11. CASE CleanupEntry
  BY <1>11 DEF CleanupEntry
<1>12. ASSUME NEW n \in Watchdogs, WatchdogWakes(n) \/ WatchdogStops(n) \/ WatchdogMarks(n)
       PROVE  \E u \in Threads : Drains(u)'
  <2>1. /\ pc[n] \in {"sleep", "stop", "markTimedOut"}
        /\ UNCHANGED <<active, queued>>
        /\ \A u \in Threads \ {n} : pc'[u] = pc[u] /\ job'[u] = job[u]
    BY <1>12 DEF WatchdogWakes, WatchdogStops, WatchdogMarks
  <2> QED BY <1>b, <2>1
<1>13. ASSUME NEW b \in BoxIds, Systemd(b) PROVE \E u \in Threads : Drains(u)'
  BY <1>a, <1>13 DEF Systemd, UnitExits, UnitTimesOut, Alive
<1> QED
  BY <1>1, <1>2, <1>3, <1>4, <1>5, <1>6, <1>7, <1>8, <1>9, <1>10, <1>11, <1>12, <1>13
  DEF Next, Client, Serve, Watchdog
-----------------------------------------------------------------------------
LEMMA Invariance == Spec => []Inv
<1>1. Inv /\ [Next]_vars => Inv'
  <2> SUFFICES ASSUME Inv, [Next]_vars PROVE Inv'
    OBVIOUS
  <2> QED BY ControllerInv, TypesStep, PlacesStep, WorkStep DEF Inv, Core
<1> QED BY <1>1, InitInv, PTL DEF Spec

\* Every variable of the helper keeps its type.
THEOREM HelperTypeCorrect == Spec => []TypeOK
BY Invariance, InvGivesTypes, PTL

\* However server thread and watchdogs interleave and whatever fails, a slot
\* is never left free beside a waiting request unless a thread is draining
\* the queue and will start it.
THEOREM HelperWorkConserving == Spec => []WorkConserving
<1>1. Inv => WorkConserving
  BY DEF Inv
<1> QED BY <1>1, Invariance, PTL

\* All threads together use the controller as its specification says, one
\* method at a time, so the helper never gives out more slots than it has and
\* an id is never queued twice or queued while it holds a slot.
THEOREM HelperObeysController == Spec => Controller!Spec
<1>1. Init => Controller!Init
  BY DEF Init
<1>2. Inv /\ [Next]_vars => [Controller!Next]_controllerVars
  BY ControllerStep DEF Inv
<1> QED BY <1>1, <1>2, Invariance, PTL DEF Spec, Controller!Spec, controllerVars,
                                            Controller!admissionVars

THEOREM HelperRespectsCapacity ==
    Spec => [](Controller!CapacityRespected /\ Controller!OnePlace)
<1>1. Inv => Controller!CapacityRespected /\ Controller!OnePlace
  BY DEF Inv, Core, Proofs!Inv, Proofs!CapacityRespected, Controller!CapacityRespected,
         Proofs!OnePlace, Controller!OnePlace, Proofs!Cardinality, Controller!Cardinality,
         Proofs!Range, Controller!Range, Proofs!IsInjective, Controller!IsInjective
<1> QED BY <1>1, Invariance, PTL
-----------------------------------------------------------------------------
(* The life of a box whose id is admitted once.                             *)

\* The places from the reservation to the start of a box, and those of a
\* thread that ends one.
HoldLabels == TakeLabels \cup SpawnLabels
StopLabels == {"sleep", "stop", "markTimedOut", "kill", "markKilled", "release",
               "cleanup", "rmScratch", "cleanupEntry"}

\* The boxes of the admitted requests; those among them whose spawn_box came
\* to its end, so that their watchdog is born; the boxes without a watchdog.
Asked == {requests[n].box : n \in DOMAIN requests}
Started == {requests[n].box : n \in {m \in DOMAIN requests : pc[m] # "unborn"}}
Unstarted == {b \in BoxIds : \A n \in DOMAIN requests :
                 requests[n].box = b => pc[n] \in {"unborn", "dead"}}
Waiting == Range(queued)

IsRequest(n, b) == n \in DOMAIN requests /\ requests[n].box = b

\* Threads die together, and watchdogs are born in the order of requests.
Dies == \A t \in Threads :
    /\ At(t, "dead") => At(Main, "dead")
    /\ At(Main, "dead") => pc[t] \in {"dead", "done", "unborn"}
Births ==
    /\ DOMAIN requests \subseteq Watchdogs
    /\ \A n \in Watchdogs : n > Len(requests) => pc[n] \in {"unborn", "dead"}

\* One thread starts a box, holding the slot, and no thread ends it before.
ThreadLife(t) ==
    /\ pc[t] \in HoldLabels =>
          /\ job[t].box \in active \cap Unstarted \cap Asked
          /\ pc[t] \notin {"insert", "undo"} => units[job[t].box].st = "none"
    /\ pc[t] \in SpawnLabels \cup {"unmark", "keepParams", "markQueued"} =>
          IsRequest(job[t].req, job[t].box)
    /\ pc[t] \in StopLabels => job[t].box \in Started
    /\ pc[t] \in {"cancelParams", "cancelEntry"} => t = Main /\ job[t].box \notin Waiting
Apart == \A t, u \in Threads :
    pc[t] \in HoldLabels /\ pc[u] \in HoldLabels /\ job[t].box = job[u].box => t = u

\* The tables follow: nothing is known of a box before its request, a waiting
\* box was not started, an entry with a running state is of a started box.
BoxLife(b) ==
    /\ b \notin Asked => /\ b \notin active \cup Waiting
                         /\ states[b] = "ABSENT" /\ units[b].st = "none"
    /\ b \in Waiting => b \in Unstarted /\ units[b].st = "none"
    /\ states[b] \notin {"ABSENT", "QUEUED"} => b \in Started
    /\ pending[b] # 0 => IsRequest(pending[b], b)

\* A slot is held by a killed box only until its request is answered.
KillFrees(b) ==
    states[b] = "KILLED" /\ b \in active => At(Main, "release") /\ job[Main].box = b

\* What a waiting box has at each step of its request.
Backed(b) ==
    b \in Waiting =>
      \/ states[b] = "QUEUED" /\ pending[b] # 0
      \/ At(Main, "keepParams") /\ job[Main].box = b
      \/ At(Main, "markQueued") /\ job[Main].box = b /\ pending[b] # 0

Life ==
    /\ Dies /\ Births /\ Apart
    /\ \A t \in Threads : ThreadLife(t)
    /\ \A b \in BoxIds : BoxLife(b) /\ KillFrees(b) /\ Backed(b)

Lives == OncePerId => Life

\* Without faults: a thread that is about to give a slot back has seen to it
\* that the unit does not run, and that the entry does not say so.
ThreadStops(t) ==
    /\ pc[t] \in {"undo", "markKilled", "markTimedOut", "release"} =>
          units[job[t].box].st # "active"
    /\ pc[t] = "release" => states[job[t].box] # "STARTING"

Stops == Regular => \A t \in Threads : ThreadStops(t)
-----------------------------------------------------------------------------
\* What each method of the controller does to the set of waiting boxes.
LEMMA QueueSteps ==
    ASSUME NEW L, Core(L)
    PROVE  /\ Waiting \subseteq BoxIds /\ active \subseteq BoxIds /\ active \cap Waiting = {}
           /\ \A b \in BoxIds : Controller!AdmitQueue(b) => Waiting' = Waiting \cup {b}
           /\ Controller!StartNext =>
                 Head(queued) \in Waiting /\ Waiting' = Waiting \ {Head(queued)}
           /\ \A b \in BoxIds : Controller!CancelQueued(b) => Waiting' = Waiting \ {b}
<1>0. /\ queued \in Seq(BoxIds) /\ active \subseteq BoxIds
      /\ Proofs!IsInjective(queued) /\ active \cap Proofs!Range(queued) = {}
  BY DEF Core, Proofs!Inv, Proofs!TypeOK, Proofs!OnePlace
<1>1. Waiting = Proofs!Range(queued) /\ Waiting' = Proofs!Range(queued')
  BY DEF Waiting, Range, Proofs!Range
<1>2. Waiting \subseteq BoxIds
  BY <1>0 DEF Waiting, Range
<1>3. ASSUME NEW b \in BoxIds, Controller!AdmitQueue(b) PROVE Waiting' = Waiting \cup {b}
  <2>1. queued' = Append(queued, b) /\ b \notin Proofs!Range(queued)
    BY <1>3 DEF Controller!AdmitQueue, Controller!Known, Controller!Range, Proofs!Range
  <2>2. Proofs!Range(Append(queued, b)) = Proofs!Range(queued) \cup {b}
    BY <1>0, <2>1, HelperAssumption, Proofs!AppendFresh DEF Proofs!LimitAssumption
  <2> QED BY <1>1, <2>1, <2>2
<1>4. ASSUME Controller!StartNext
      PROVE  Head(queued) \in Waiting /\ Waiting' = Waiting \ {Head(queued)}
  <2>1. queued # <<>> /\ queued' = Tail(queued)
    BY <1>4 DEF Controller!StartNext
  <2> QED BY <1>0, <1>1, <2>1, HelperAssumption, Proofs!TailInjective DEF Proofs!LimitAssumption
<1>5. ASSUME NEW b \in BoxIds, Controller!CancelQueued(b) PROVE Waiting' = Waiting \ {b}
  <2>1. PICK i \in DOMAIN queued : queued[i] = b /\ queued' = Controller!RemoveAt(queued, i)
    BY <1>5 DEF Controller!CancelQueued
  <2>2. i \in 1..Len(queued) /\ queued' = Proofs!RemoveAt(queued, i)
    BY <1>0, <2>1 DEF Controller!RemoveAt, Proofs!RemoveAt
  <2>3. Proofs!Range(queued') = Proofs!Range(queued) \ {queued[i]}
    BY <1>0, <2>2, HelperAssumption, Proofs!RemoveAtInjective DEF Proofs!LimitAssumption
  <2> QED BY <1>1, <2>1, <2>3
<1> QED BY <1>0, <1>1, <1>2, <1>3, <1>4, <1>5

\* A thread that steps from one place to another, neither of them outside its
\* life, changes none of the sets.
LEMMA SameLives ==
    ASSUME NEW L, Core(L), Life, NEW t \in Threads, NEW l,
           pc[t] \notin {"unborn", "dead", "done"}, l \notin {"unborn", "dead"},
           Goto(t, l), UNCHANGED requests
    PROVE  /\ Asked' = Asked /\ Started' = Started /\ Unstarted' = Unstarted
           /\ Dies' /\ Births'
<1>1. pc \in [Threads -> L] /\ requests \in Seq(RequestType) /\ Main \in Threads
      /\ pc' = [pc EXCEPT ![t] = l] /\ Dies /\ Births
  BY DEF Core, HelperTypes, Threads, Life, Goto
<1>2. Dies'
  BY <1>1 DEF Dies, At
<1>3. Births'
  BY <1>1 DEF Births, Threads, Watchdogs
<1>4. Asked' = Asked
  BY DEF Asked
<1>5. \A n \in DOMAIN requests :
         /\ pc'[n] = "unborn" <=> pc[n] = "unborn"
         /\ pc'[n] \in {"unborn", "dead"} <=> pc[n] \in {"unborn", "dead"}
  BY <1>1 DEF Births, Threads
<1>6. Started' = Started
  BY <1>5 DEF Started
<1>7. Unstarted' = Unstarted
  BY <1>5 DEF Unstarted
<1> QED BY <1>2, <1>3, <1>4, <1>6, <1>7

\* What the proofs below use of the types.
LEMMA Shapes ==
    ASSUME NEW L, Core(L), Life
    PROVE  /\ pc \in [Threads -> L] /\ job \in [Threads -> JobType]
           /\ states \in [BoxIds -> Statuses] /\ units \in [BoxIds -> UnitType]
           /\ pending \in [BoxIds -> 0..MaxRequests]
           /\ Main \in Threads /\ Watchdogs \subseteq Threads
           /\ active \subseteq BoxIds /\ Waiting \subseteq BoxIds /\ active \cap Waiting = {}
           /\ \A t \in Threads : ThreadLife(t) /\ Placed(t)
           /\ \A b \in BoxIds : BoxLife(b) /\ KillFrees(b) /\ Backed(b)
           /\ Apart
BY QueueSteps DEF Core, HelperTypes, Places, Threads, Life

LEMMA StartedBoxes ==
    ASSUME NEW L, Core(L)
    PROVE  Started \subseteq BoxIds
<1>1. requests \in Seq(RequestType)
  BY DEF Core, HelperTypes
<1>2. \A n \in DOMAIN requests : requests[n] \in RequestType
  BY <1>1
<1>3. \A r \in RequestType : r.box \in BoxIds
  BY DEF RequestType
<1> QED BY <1>2, <1>3 DEF Started

\* A started box has a watchdog, so nobody is about to start it.
LEMMA NotBoth ==
    ASSUME NEW L, Core(L), Life, NEW t \in Threads, pc[t] \notin {"unborn", "dead", "done"}
    PROVE  Started \cap Unstarted = {}
BY DEF Core, HelperTypes, Life, Dies, Births, At, Started, Unstarted, Threads

\* The steps inside spawn_box up to the last.
LEMMA SpawnLives ==
    ASSUME NEW L, Core(L), Life, NEW t \in Threads,
           CheckSpawn(t) \/ MakeScratch(t) \/ RunUnit(t)
    PROVE  Life'
<1>1. PICK l \in SpawnLabels : Goto(t, l)
  BY DEF CheckSpawn, MakeScratch, RunUnit, SpawnLabels
<1>2. /\ UNCHANGED <<active, queued, pending, states, requests, job>>
      /\ pc[t] \in {"check", "mkScratch", "runUnit"}
      /\ l \notin {"insert", "undo"} => UNCHANGED units
  BY <1>1, Shapes DEF CheckSpawn, MakeScratch, RunUnit, At, Goto, controllerVars, tables, entries, host
<1>3. \A b \in BoxIds \ {job[t].box} : units'[b].st = units[b].st
  BY Shapes DEF CheckSpawn, MakeScratch, RunUnit, host
<1> USE Shapes, <1>1, <1>2, <1>3 DEF At, Goto, HoldLabels, TakeLabels, SpawnLabels, StopLabels
<1>4. /\ Asked' = Asked /\ Started' = Started /\ Unstarted' = Unstarted
      /\ Dies' /\ Births' /\ Waiting' = Waiting
  BY SameLives DEF Waiting
<1>5. Apart'
  BY DEF Apart
<1>6. ASSUME NEW u \in Threads PROVE ThreadLife(u)'
  <2>1. CASE u = t
    BY <1>4, <2>1 DEF ThreadLife, IsRequest
  <2>2. CASE u # t
    BY <1>4, <2>2 DEF ThreadLife, IsRequest, Apart
  <2> QED BY <2>1, <2>2
<1>7. ASSUME NEW b \in BoxIds PROVE BoxLife(b)' /\ KillFrees(b)' /\ Backed(b)'
  <2>1. job[t].box \in active \cap Asked
    BY DEF ThreadLife
  <2>2. BoxLife(b)'
    BY <1>4, <2>1 DEF BoxLife, IsRequest
  <2>3. KillFrees(b)' /\ Backed(b)'
    BY <1>4 DEF KillFrees, Backed
  <2> QED BY <2>2, <2>3
<1> QED BY <1>4, <1>5, <1>6, <1>7 DEF Life

\* The watchdog of the request is born.
LEMMA InsertLives ==
    ASSUME NEW L, Core(L), OncePerId, Life, NEW t \in Threads, InsertStarting(t)
    PROVE  Life'
<1> DEFINE b == job[t].box
           n == job[t].req
<1> USE Shapes DEF At, HoldLabels, TakeLabels, SpawnLabels, StopLabels
<1>1. /\ pc[t] = "insert" /\ b \in active \cap Unstarted \cap Asked /\ IsRequest(n, b)
      /\ b \in BoxIds /\ UNCHANGED <<active, queued, pending, units, requests>>
      /\ states' = [states EXCEPT ![b] = "STARTING"]
  BY DEF InsertStarting, ThreadLife, Enter, controllerVars, host
<1>2. n \in Threads \ {t} /\ pc[n] = "unborn" /\ \A m \in DOMAIN requests : requests[m].box = b => m = n
  BY <1>1 DEF Life, Births, Dies, Unstarted, IsRequest, OncePerId
<1>3. PICK l \in {"drain", "idle"} : pc' = [pc EXCEPT ![n] = "sleep", ![t] = l]
  BY DEF InsertStarting
<1>4. /\ pc'[t] \in {"drain", "idle"} /\ pc'[n] = "sleep" /\ job'[n].box = b
      /\ \A u \in Threads \ {t, n} : pc'[u] = pc[u] /\ job'[u] = job[u]
  BY <1>2, <1>3 DEF InsertStarting
<1> HIDE DEF b, n
<1>5. Asked' = Asked /\ Waiting' = Waiting
  BY <1>1 DEF Asked, Waiting
<1>6. Started' = Started \cup {b}
  <2>1. \A m \in DOMAIN requests : pc'[m] # "unborn" <=> pc[m] # "unborn" \/ m = n
    BY <1>1, <1>2, <1>4 DEF Life, Births
  <2> QED BY <1>1, <2>1 DEF Started, IsRequest
<1>7. Unstarted' = Unstarted \ {b}
  BY <1>1, <1>2, <1>4 DEF Unstarted, IsRequest, Life, Births
<1>8. Dies' /\ Births'
  BY <1>1, <1>2, <1>4 DEF Life, Dies, Births, Watchdogs, IsRequest
<1>9. Apart'
  BY <1>4 DEF Apart
<1>10. ASSUME NEW u \in Threads PROVE ThreadLife(u)'
  <2>1. CASE u = t
    BY <1>4, <2>1 DEF ThreadLife
  <2>2. CASE u = n
    BY <1>4, <1>6, <2>2 DEF ThreadLife
  <2>3. CASE u \notin {t, n}
    <3>1. pc[u] \in HoldLabels => job[u].box # b
      BY <1>1, <2>3 DEF Apart, b
    <3> QED BY <1>1, <1>4, <1>5, <1>6, <1>7, <2>3, <3>1 DEF ThreadLife, IsRequest
  <2> QED BY <2>1, <2>2, <2>3
<1>11. ASSUME NEW c \in BoxIds PROVE BoxLife(c)' /\ KillFrees(c)' /\ Backed(c)'
  <2>1. CASE c = b
    BY <1>1, <1>5, <1>6, <2>1 DEF BoxLife, KillFrees, Backed, IsRequest
  <2>2. CASE c # b
    <3>1. BoxLife(c)'
      BY <1>1, <1>5, <1>6, <1>7, <2>2 DEF BoxLife, IsRequest
    <3>2. n # Main
      BY <1>1, HelperAssumption DEF Life, Births, IsRequest, Watchdogs, Main
    <3> QED BY <1>1, <1>4, <1>5, <2>2, <3>1, <3>2 DEF KillFrees, Backed
  <2> QED BY <2>1, <2>2
<1> QED BY <1>8, <1>9, <1>10, <1>11 DEF Life

\* The slot of the one thread that was starting the box, or of a started one.
LEMMA ReleaseLives ==
    ASSUME NEW L, Core(L), Life, NEW t \in Threads,
           UndoReservation(t) \/ ReleaseSlot(t)
    PROVE  Life'
<1> USE Shapes DEF At, HoldLabels, TakeLabels, SpawnLabels, StopLabels
<1>1. /\ pc[t] \in {"undo", "release"}
      /\ UNCHANGED <<queued, pending, states, units, requests>>
      /\ active' = active \ {job[t].box}
  BY DEF UndoReservation, ReleaseSlot, tables, entries, host, controllerVars, Controller!Release
<1>2. PICK l \in {"drain", "idle", "done"} : Goto(t, l) /\ job' = [job EXCEPT ![t] = NoJob]
  BY DEF UndoReservation, ReleaseSlot, Return
<1>3. /\ Asked' = Asked /\ Started' = Started /\ Unstarted' = Unstarted
      /\ Dies' /\ Births' /\ Waiting' = Waiting
  BY <1>1, <1>2, SameLives DEF Waiting
<1>4. Started \cap Unstarted = {}
  BY <1>1, NotBoth
<1> USE DEF Goto
<1>5. Apart'
  BY <1>2 DEF Apart
<1>6. ASSUME NEW u \in Threads PROVE ThreadLife(u)'
  <2>1. CASE u = t
    BY <1>2, <2>1 DEF ThreadLife
  <2>2. CASE u # t
    <3>1. pc[u] \in HoldLabels => job[u].box # job[t].box
      BY <1>1, <1>4, <2>2 DEF ThreadLife, Apart
    <3> QED BY <1>1, <1>2, <1>3, <2>2, <3>1 DEF ThreadLife, IsRequest
  <2> QED BY <2>1, <2>2
<1>7. ASSUME NEW b \in BoxIds PROVE BoxLife(b)' /\ KillFrees(b)' /\ Backed(b)'
  <2>1. BoxLife(b)'
    BY <1>1, <1>3 DEF BoxLife, IsRequest
  <2>2. KillFrees(b)' /\ Backed(b)'
    BY <1>1, <1>2, <1>3 DEF KillFrees, Backed
  <2> QED BY <2>1, <2>2
<1> QED BY <1>3, <1>5, <1>6, <1>7 DEF Life

\* A thread takes the oldest waiting box, or stops draining.
LEMMA DrainLives ==
    ASSUME NEW L, Core(L), Life, NEW t \in Threads,
           DrainNext(t) \/ DrainEnds(t)
    PROVE  Life'
<1> USE Shapes DEF At, HoldLabels, TakeLabels, SpawnLabels, StopLabels
<1>1. pc[t] = "drain" /\ UNCHANGED <<pending, states, units, requests>>
  BY DEF DrainNext, DrainEnds, tables, entries, host
<1>2. PICK l \in {"take", "idle", "done"} : Goto(t, l)
  BY DEF DrainNext, DrainEnds, Return
<1>3. /\ Asked' = Asked /\ Started' = Started /\ Unstarted' = Unstarted
      /\ Dies' /\ Births'
  BY <1>1, <1>2, SameLives
<1>4. Started \cap Unstarted = {}
  BY <1>1, NotBoth
<1>5. CASE DrainNext(t)
  <2>1. PICK b \in Waiting : /\ active' = active \cup {b} /\ Waiting' = Waiting \ {b}
                            /\ job' = [job EXCEPT ![t] = [box |-> b, req |-> 0, from |-> "drain"]]
    BY <1>5, QueueSteps DEF DrainNext, Controller!StartNext
  <2>2. /\ pc' = [pc EXCEPT ![t] = "take"] /\ job'[t].box = b
        /\ \A u \in Threads \ {t} : job'[u] = job[u]
    BY <1>5, <2>1 DEF DrainNext, Goto
  <2>3. b \in Unstarted /\ b \in Asked /\ units[b].st = "none" /\ b \notin active
    BY DEF BoxLife
  <2>4. \A u \in Threads : pc[u] \in HoldLabels => job[u].box # b
    BY <2>3 DEF ThreadLife
  <2>5. Apart'
    BY <2>2, <2>4 DEF Apart
  <2>6. ASSUME NEW u \in Threads PROVE ThreadLife(u)'
    <3>1. CASE u = t
      BY <1>1, <1>3, <2>1, <2>2, <2>3, <3>1 DEF ThreadLife
    <3>2. CASE u # t
      BY <1>1, <1>3, <2>1, <2>2, <3>2 DEF ThreadLife, IsRequest
    <3> QED BY <3>1, <3>2
  <2>7. ASSUME NEW c \in BoxIds PROVE BoxLife(c)' /\ KillFrees(c)' /\ Backed(c)'
    <3>1. BoxLife(c)'
      BY <1>1, <1>3, <2>1, <2>3 DEF BoxLife, IsRequest
    <3>2. KillFrees(c)' /\ Backed(c)'
      BY <1>1, <1>4, <2>1, <2>2, <2>3 DEF KillFrees, Backed, BoxLife
    <3> QED BY <3>1, <3>2
  <2> QED BY <1>3, <2>5, <2>6, <2>7 DEF Life
<1>6. CASE DrainEnds(t)
  <2>1. /\ UNCHANGED <<active, queued>> /\ Waiting' = Waiting
        /\ job' = [job EXCEPT ![t] = NoJob] /\ pc'[t] \in {"idle", "done"}
        /\ \A u \in Threads \ {t} : pc'[u] = pc[u]
    BY <1>6 DEF DrainEnds, Return, Goto, controllerVars, Waiting
  <2>2. Apart'
    BY <2>1 DEF Apart
  <2>3. ASSUME NEW u \in Threads PROVE ThreadLife(u)'
    BY <1>1, <1>3, <2>1 DEF ThreadLife, IsRequest
  <2>4. ASSUME NEW c \in BoxIds PROVE BoxLife(c)' /\ KillFrees(c)' /\ Backed(c)'
    BY <1>1, <1>3, <2>1 DEF BoxLife, IsRequest, KillFrees, Backed
  <2> QED BY <1>3, <2>2, <2>3, <2>4 DEF Life
<1> QED BY <1>5, <1>6

\* A thread outside spawn_box and drain_queue steps to another such place: it
\* may stop a unit, cancel a waiting box, or write the entry of a box that
\* does not wait (any more).
LEMMA OutsideLives ==
    ASSUME NEW L, Core(L), Life, NEW t \in Threads, NEW l, Goto(t, l),
           pc[t] \notin HoldLabels \cup {"unborn", "done", "dead", "keepParams", "markQueued", "release"},
           l \notin HoldLabels \cup {"unborn", "dead", "keepParams", "markQueued"},
           \A u \in Threads \ {t} : job'[u] = job[u],
           l \in StopLabels => job'[t].box \in Started,
           l \in {"cancelParams", "cancelEntry"} => t = Main /\ job'[t].box \notin Waiting',
           UNCHANGED <<active, requests>>, Waiting' \subseteq Waiting,
           \A b \in BoxIds :
             /\ units[b].st = "none" => units'[b].st = "none"
             /\ pending'[b] = pending[b] \/ (pending'[b] = 0 /\ b \notin Waiting)
             /\ \/ states'[b] = states[b]
                \/ states'[b] = "ABSENT" /\ b \notin Waiting
                \/ b \in Started /\ states'[b] = "TIMED_OUT"
                \/ b \in Started /\ t = Main /\ l = "release" /\ job'[t].box = b
    PROVE  Life'
<1> USE Shapes DEF At, Goto, HoldLabels, TakeLabels, SpawnLabels, StopLabels
<1>1. /\ Asked' = Asked /\ Started' = Started /\ Unstarted' = Unstarted
      /\ Dies' /\ Births'
  BY SameLives
<1>2. Started \cap Unstarted = {} /\ Started \subseteq Asked
  BY NotBoth DEF Started, Asked
<1>3. Apart'
  BY DEF Apart
<1>4. ASSUME NEW u \in Threads PROVE ThreadLife(u)'
  <2>1. CASE u = t
    BY <1>1, <2>1 DEF ThreadLife
  <2>2. CASE u # t
    BY <1>1, <2>2 DEF ThreadLife, IsRequest
  <2> QED BY <2>1, <2>2
<1>5. ASSUME NEW b \in BoxIds PROVE BoxLife(b)' /\ KillFrees(b)' /\ Backed(b)'
  <2>1. BoxLife(b)'
    BY <1>1, <1>2 DEF BoxLife, IsRequest
  <2>2. KillFrees(b)'
    BY <1>1, <1>2 DEF KillFrees
  <2>3. Backed(b)'
    BY <1>1, <1>2 DEF Backed, BoxLife
  <2> QED BY <2>1, <2>2, <2>3
<1> QED BY <1>1, <1>3, <1>4, <1>5 DEF Life

\* drain_queue takes the parameters and removes the entry of the box it holds.
LEMMA TakeLives ==
    ASSUME NEW L, Core(L), Life, NEW t \in Threads,
           TakeParams(t) \/ RemoveQueuedEntry(t)
    PROVE  Life'
<1> DEFINE b == job[t].box
<1> USE Shapes DEF At, HoldLabels, TakeLabels, SpawnLabels, StopLabels
<1>1. /\ pc[t] \in {"take", "unmark"} /\ UNCHANGED <<active, queued, units, requests>>
      /\ b \in BoxIds /\ b \in Asked /\ b \in active /\ Waiting' = Waiting
  BY DEF TakeParams, RemoveQueuedEntry, controllerVars, entries, host, ThreadLife, Waiting
<1>2. PICK l \in {"unmark", "drain", "check"} : Goto(t, l)
  BY DEF TakeParams, RemoveQueuedEntry
<1>3. /\ Asked' = Asked /\ Started' = Started /\ Unstarted' = Unstarted
      /\ Dies' /\ Births'
  BY <1>1, <1>2, SameLives
<1>4. /\ states' \in {states, [states EXCEPT ![b] = "ABSENT"]}
      /\ pending' \in {pending, [pending EXCEPT ![b] = 0]}
  BY DEF TakeParams, RemoveQueuedEntry, Remove, Enter, entries
<1>5. /\ \A u \in Threads \ {t} : job'[u] = job[u]
      /\ l # "drain" => job'[t].box = b /\ IsRequest(job'[t].req, b)
  <2>1. CASE RemoveQueuedEntry(t)
    BY <1>1, <2>1 DEF RemoveQueuedEntry, ThreadLife
  <2>2. CASE TakeParams(t) /\ pending[b] # 0
    <3>1. job' = [job EXCEPT ![t].req = pending[b]] /\ IsRequest(pending[b], b)
      BY <1>1, <2>2 DEF TakeParams, BoxLife
    <3> QED BY <3>1 DEF JobType
  <2>3. CASE TakeParams(t) /\ pending[b] = 0
    BY <1>2, <2>3 DEF TakeParams, Goto
  <2> QED BY <2>1, <2>2, <2>3
<1>6. pc[t] = "take" => l \in {"unmark", "drain"}
  BY <1>2 DEF TakeParams, RemoveQueuedEntry, Goto
<1> HIDE DEF b
<1> USE DEF Goto
<1>7. Apart'
  BY <1>1, <1>2, <1>5 DEF Apart, b
<1>8. ASSUME NEW u \in Threads PROVE ThreadLife(u)'
  <2>1. CASE u = t
    BY <1>1, <1>2, <1>3, <1>5, <2>1 DEF ThreadLife, b, IsRequest
  <2>2. CASE u # t
    BY <1>1, <1>2, <1>3, <1>5, <2>2 DEF ThreadLife, IsRequest
  <2> QED BY <2>1, <2>2
<1>9. ASSUME NEW c \in BoxIds PROVE BoxLife(c)' /\ KillFrees(c)' /\ Backed(c)'
  <2>1. BoxLife(c)'
    BY <1>1, <1>3, <1>4 DEF BoxLife, IsRequest
  <2>2. KillFrees(c)' /\ Backed(c)'
    BY <1>1, <1>2, <1>3, <1>4, <1>5 DEF KillFrees, Backed
  <2> QED BY <2>1, <2>2
<1> QED BY <1>3, <1>7, <1>8, <1>9 DEF Life

\* A request is admitted: the first one for its box.
LEMMA AdmitLives ==
    ASSUME NEW L, Core(L), Life, AdmitNow \/ AdmitQueued, OncePerId'
    PROVE  Life'
<1> DEFINE b == job[Main].box
           n == Len(requests) + 1
<1> USE Shapes DEF At, HoldLabels, TakeLabels, SpawnLabels, StopLabels
<1>1. /\ pc[Main] = "admit" /\ b \in BoxIds /\ Len(requests) < MaxRequests
      /\ UNCHANGED <<pending, states, units>>
  BY DEF AdmitNow, AdmitQueued, tables, entries, host, Placed
<1>2. PICK e \in Enforceable :
        /\ requests' = Append(requests, [box |-> b, enforceable |-> e])
        /\ job' = [job EXCEPT ![Main].req = n, ![Main].from = "admit"]
  BY DEF AdmitNow, AdmitQueued, NewRequest
<1>3. requests \in Seq(RequestType) /\ Len(requests) \in Nat
  BY DEF Core, HelperTypes
<1>4. /\ DOMAIN requests = 1..Len(requests) /\ DOMAIN requests' = DOMAIN requests \cup {n}
      /\ n \notin DOMAIN requests /\ requests'[n].box = b
      /\ \A m \in DOMAIN requests : requests'[m] = requests[m]
  BY <1>2, <1>3
<1>5. /\ n \in Watchdogs /\ n # Main /\ pc[n] = "unborn"
  BY <1>1, <1>3, HelperAssumption DEF Life, Births, Dies, Watchdogs, Main
<1>6. job'[Main].box = b /\ job'[Main].req = n /\ \A u \in Threads \ {Main} : job'[u] = job[u]
  <2>1. job' = [[job EXCEPT ![Main].req = n] EXCEPT ![Main].from = "admit"]
    BY <1>2
  <2> QED BY <2>1 DEF JobType
<1>7. PICK l \in {"check", "keepParams"} : pc' = [pc EXCEPT ![Main] = l]
  BY DEF AdmitNow, AdmitQueued, Goto
<1>8. /\ l = "check" => active' = active \cup {b} /\ Waiting' = Waiting
      /\ l = "keepParams" => active' = active /\ Waiting' = Waiting \cup {b}
  <2>1. CASE AdmitNow
    BY <1>7, <2>1 DEF AdmitNow, Goto, Controller!AdmitStart, Waiting
  <2>2. CASE AdmitQueued
    BY <1>1, <1>7, <2>2, QueueSteps DEF AdmitQueued, Goto, Controller!AdmitQueue
  <2> QED BY <2>1, <2>2
<1> HIDE DEF b, n
<1>9. b \notin Asked
  BY <1>4 DEF Asked, OncePerId
<1>10. Asked' = Asked \cup {b}
  BY <1>4 DEF Asked
<1>11. \A m \in DOMAIN requests' : /\ pc'[m] = "unborn" <=> pc[m] = "unborn"
                                   /\ pc'[m] \in {"unborn", "dead"} <=> pc[m] \in {"unborn", "dead"}
  BY <1>1, <1>4, <1>5, <1>7 DEF Life, Births
<1>12. Started' = Started
  BY <1>4, <1>5, <1>11 DEF Started
<1>13. Unstarted' = Unstarted /\ b \in Unstarted
  BY <1>1, <1>4, <1>5, <1>9, <1>11 DEF Unstarted, Asked
<1>14. Dies' /\ Births'
  <2>1. Dies'
    BY <1>1, <1>7 DEF Life, Dies
  <2>2. DOMAIN requests' \subseteq Watchdogs
    BY <1>4, <1>5 DEF Life, Births
  <2>3. Len(requests') = Len(requests) + 1
    BY <1>2, <1>3
  <2>4. \A m \in Watchdogs : pc'[m] = pc[m]
    BY <1>7, HelperAssumption DEF Watchdogs, Main
  <2>5. \A m \in Watchdogs : m > Len(requests') => m > Len(requests)
    BY <1>3, <2>3, HelperAssumption DEF Watchdogs
  <2>6. Births'
    BY <2>2, <2>4, <2>5 DEF Life, Births
  <2> QED BY <2>1, <2>6
<1>15. \A m, c : IsRequest(m, c) => IsRequest(m, c)'
  BY <1>4 DEF IsRequest
<1>16. b \notin active /\ b \notin Waiting /\ states[b] = "ABSENT" /\ units[b].st = "none"
  BY <1>1, <1>9 DEF BoxLife
<1>17. \A u \in Threads : pc[u] \in HoldLabels => job[u].box # b
  BY <1>16 DEF ThreadLife
<1>18. Apart'
  BY <1>6, <1>7, <1>17 DEF Apart
<1>19. ASSUME NEW u \in Threads PROVE ThreadLife(u)'
  <2>1. CASE u = Main
    BY <1>1, <1>4, <1>6, <1>7, <1>8, <1>10, <1>13, <1>16, <2>1 DEF ThreadLife, IsRequest
  <2>2. CASE u # Main
    <3>1. pc'[u] = pc[u] /\ job'[u] = job[u]
      BY <1>6, <1>7, <2>2
    <3> QED BY <1>1, <1>7, <1>8, <1>10, <1>12, <1>13, <1>15, <2>2, <3>1 DEF ThreadLife
  <2> QED BY <2>1, <2>2
<1>20. ASSUME NEW c \in BoxIds PROVE BoxLife(c)' /\ KillFrees(c)' /\ Backed(c)'
  <2>1. BoxLife(c)'
    BY <1>1, <1>7, <1>8, <1>10, <1>12, <1>13, <1>15, <1>16 DEF BoxLife
  <2>2. KillFrees(c)' /\ Backed(c)'
    BY <1>1, <1>6, <1>7, <1>8, <1>16 DEF KillFrees, Backed
  <2> QED BY <2>1, <2>2
<1> QED BY <1>14, <1>18, <1>19, <1>20 DEF Life

\* A queued request gets its parameters, and then its entry.
LEMMA QueueLives ==
    ASSUME NEW L, Core(L), Life, KeepParams \/ MarkQueued
    PROVE  Life'
<1> DEFINE b == job[Main].box
           n == job[Main].req
<1> USE Shapes DEF At, HoldLabels, TakeLabels, SpawnLabels, StopLabels
<1>1. /\ pc[Main] \in {"keepParams", "markQueued"} /\ IsRequest(n, b) /\ n # 0 /\ b \in Asked
      /\ UNCHANGED <<active, queued, units, requests>> /\ Waiting' = Waiting
  BY HelperAssumption DEF KeepParams, MarkQueued, controllerVars, host, ThreadLife, Waiting,
                          Life, Births, Watchdogs, IsRequest, Asked
<1>2. \/ /\ pc[Main] = "keepParams" /\ Goto(Main, "markQueued") /\ job' = job
         /\ states' = states /\ pending' = [pending EXCEPT ![b] = n]
      \/ /\ pc[Main] = "markQueued" /\ Goto(Main, "idle") /\ job' = [job EXCEPT ![Main] = NoJob]
         /\ states' = [states EXCEPT ![b] = "QUEUED"] /\ pending' = pending
  BY DEF KeepParams, MarkQueued, Enter, entries, Return
<1> HIDE DEF b, n
<1>3. /\ Asked' = Asked /\ Started' = Started /\ Unstarted' = Unstarted
      /\ Dies' /\ Births'
  <2>1. PICK l \in {"markQueued", "idle"} : Goto(Main, l)
    BY <1>2
  <2> QED BY <1>1, <2>1, SameLives
<1> USE DEF Goto
<1>4. Apart'
  BY <1>1, <1>2 DEF Apart
<1>5. ASSUME NEW u \in Threads PROVE ThreadLife(u)'
  <2>1. CASE u = Main
    BY <1>1, <1>2, <2>1 DEF ThreadLife, IsRequest, b, n
  <2>2. CASE u # Main
    BY <1>1, <1>2, <1>3, <2>2 DEF ThreadLife, IsRequest
  <2> QED BY <2>1, <2>2
<1>6. ASSUME NEW c \in BoxIds PROVE BoxLife(c)' /\ KillFrees(c)' /\ Backed(c)'
  <2>1. BoxLife(c)'
    BY <1>1, <1>2, <1>3 DEF BoxLife, IsRequest
  <2>2. KillFrees(c)'
    BY <1>1, <1>2 DEF KillFrees
  <2>3. Backed(c)'
    BY <1>1, <1>2 DEF Backed, b
  <2> QED BY <2>1, <2>2, <2>3
<1> QED BY <1>3, <1>4, <1>5, <1>6 DEF Life

\* Nothing but the units changes, and none is loaded.
LEMMA SystemdLives ==
    ASSUME NEW L, Core(L), Life,
           UNCHANGED <<active, queued, pending, states, requests, pc, job>>,
           \A b \in BoxIds : units[b].st = "none" => units'[b].st = "none"
    PROVE  Life'
<1> USE Shapes
<1>1. /\ Asked' = Asked /\ Started' = Started /\ Unstarted' = Unstarted /\ Waiting' = Waiting
      /\ Dies' /\ Births' /\ Apart'
  BY DEF Asked, Started, Unstarted, Waiting, Life, Dies, Births, Apart, At
<1>2. ASSUME NEW u \in Threads PROVE ThreadLife(u)'
  BY <1>1 DEF ThreadLife, IsRequest, HoldLabels, TakeLabels, SpawnLabels
<1>3. ASSUME NEW c \in BoxIds PROVE BoxLife(c)' /\ KillFrees(c)' /\ Backed(c)'
  BY <1>1 DEF BoxLife, IsRequest, KillFrees, Backed, At
<1> QED BY <1>1, <1>2, <1>3 DEF Life

\* The panic of the server thread ends every thread where it is.
LEMMA CancelFindLives ==
    ASSUME NEW L, Core(L), Life, CancelFind
    PROVE  Life'
<1> USE Shapes DEF At, HoldLabels, TakeLabels, SpawnLabels, StopLabels
<1>1. /\ pc[Main] = "cancelFind" /\ UNCHANGED <<active, queued, pending, states, units, requests>>
      /\ Waiting' = Waiting /\ Asked' = Asked
  BY DEF CancelFind, controllerVars, tables, entries, host, Waiting, Asked
<1>2. CASE states[job[Main].box] = "QUEUED"
  BY <1>1, <1>2, OutsideLives DEF CancelFind
<1>3. CASE states[job[Main].box] # "QUEUED"
  <2>1. pc' = [t \in Threads |-> "dead"]
    BY <1>3 DEF CancelFind
  <2>2. \A n \in DOMAIN requests : pc'[n] = "dead"
    BY <2>1 DEF Life, Births
  <2>3. Started \subseteq Started' /\ Unstarted' = BoxIds
    BY <1>1, <2>2 DEF Started, Unstarted
  <2>4. Dies' /\ Births' /\ Apart'
    BY <1>1, <2>1 DEF Life, Dies, Births, Apart
  <2>5. ASSUME NEW u \in Threads PROVE ThreadLife(u)'
    BY <2>1 DEF ThreadLife
  <2>6. ASSUME NEW c \in BoxIds PROVE BoxLife(c)' /\ KillFrees(c)' /\ Backed(c)'
    BY <1>1, <2>3 DEF BoxLife, IsRequest, KillFrees, Backed
  <2> QED BY <2>4, <2>5, <2>6 DEF Life
<1> QED BY <1>2, <1>3

\* Cancelling takes the queued box out of the three places, the queue first.
LEMMA CancelLives ==
    ASSUME NEW L, Core(L), Life, CancelQueue \/ CancelParams \/ CancelEntry
    PROVE  Life'
<1> DEFINE b == job[Main].box
<1> USE Shapes DEF At, Goto, HoldLabels, StopLabels, TakeLabels, SpawnLabels
<1>1. CASE CancelQueue
  <2>1. /\ pc[Main] = "cancelQueue" /\ Goto(Main, "cancelParams")
        /\ UNCHANGED <<active, pending, states, units, requests, job>>
    BY <1>1 DEF CancelQueue, tables, entries, host, controllerVars, Controller!CancelQueued
  <2>2. Waiting' \subseteq Waiting /\ b \notin Waiting'
    <3>1. CASE Controller!CancelQueued(b)
      <4>1. b \in Waiting
        BY <3>1 DEF Controller!CancelQueued, Controller!Range, Waiting, Range
      <4> QED BY <3>1, <4>1, QueueSteps
    <3>2. CASE b \notin Range(queued) /\ UNCHANGED controllerVars
      BY <3>2 DEF Waiting, controllerVars
    <3> QED BY <1>1, <3>1, <3>2 DEF CancelQueue
  <2> QED BY <2>1, <2>2, OutsideLives
<1>2. CASE CancelParams
  <2>1. /\ pc[Main] = "cancelParams" /\ Goto(Main, "cancelEntry")
        /\ UNCHANGED <<active, queued, states, units, requests, job>>
        /\ Waiting' = Waiting /\ b \notin Waiting
        /\ pending' = [pending EXCEPT ![b] = 0]
    BY <1>2 DEF CancelParams, entries, host, controllerVars, Waiting, ThreadLife
  <2> QED BY <2>1, OutsideLives
<1>3. CASE CancelEntry
  <2>1. /\ pc[Main] = "cancelEntry" /\ Goto(Main, "idle")
        /\ UNCHANGED <<active, queued, pending, units, requests>>
        /\ Waiting' = Waiting /\ b \notin Waiting
        /\ states' = [states EXCEPT ![b] = "ABSENT"]
        /\ job' = [job EXCEPT ![Main] = NoJob]
    BY <1>3 DEF CancelEntry, Return, Remove, Enter, host, controllerVars, Waiting, ThreadLife
  <2> QED BY <2>1, OutsideLives
<1> QED BY <1>1, <1>2, <1>3

\* kill and cleanup of a started box.
LEMMA KillLives ==
    ASSUME NEW L, Core(L), Life,
           KillUnit \/ MarkKilled \/ CleanupUnit \/ CleanupScratch \/ CleanupEntry
    PROVE  Life'
<1> DEFINE b == job[Main].box
<1> USE Shapes DEF At, Goto, HoldLabels, StopLabels, TakeLabels, SpawnLabels
<1>1. /\ pc[Main] \in {"kill", "markKilled", "cleanup", "rmScratch", "cleanupEntry"}
      /\ UNCHANGED <<active, queued, pending, requests>> /\ Waiting' = Waiting
      /\ b \in Started
  BY DEF KillUnit, MarkKilled, CleanupUnit, CleanupScratch, CleanupEntry,
         controllerVars, tables, host, Waiting, ThreadLife
<1>2. b \notin Waiting
  BY <1>1, NotBoth DEF BoxLife
<1>3. CASE KillUnit
  <2>1. states' = states
    BY <1>3 DEF KillUnit, tables, entries
  <2>2. PICK l \in {"markKilled", "idle"} : Goto(Main, l)
    BY <1>3 DEF KillUnit, Return
  <2>3. \/ job' = job
        \/ job' = [job EXCEPT ![Main] = NoJob] /\ Goto(Main, "idle")
    BY <1>3 DEF KillUnit, Return
  <2>4. \A c \in BoxIds : units[c].st = "none" => units'[c].st = "none"
    BY <1>3 DEF KillUnit, Stopped, NoUnit
  <2> QED BY <1>1, <2>1, <2>2, <2>3, <2>4, OutsideLives
<1>4. CASE MarkKilled
  <2>1. units' = units
    BY <1>4 DEF MarkKilled, host
  <2>2. CASE states[b] = "ABSENT"
    BY <1>1, <1>4, <2>1, <2>2, OutsideLives DEF MarkKilled, Return
  <2>3. CASE states[b] # "ABSENT"
    <3>1. pc[Main] = "markKilled" /\ Goto(Main, "release") /\ job' = job
      BY <1>4, <2>3 DEF MarkKilled
    <3>2. \A c \in BoxIds : states'[c] = states[c] \/ (c \in Started /\ job'[Main].box = c)
      BY <1>1, <1>4, <2>3 DEF MarkKilled
    <3> HIDE DEF b
    <3>3. job'[Main].box \in Started
      BY <1>1, <3>1 DEF b
    <3> QED BY <1>1, <2>1, <3>1, <3>2, <3>3, OutsideLives
  <2> QED BY <2>2, <2>3
<1>5. CASE CleanupUnit
  <2>1. states' = states
    BY <1>5 DEF CleanupUnit, tables, entries
  <2>2. PICK l \in {"rmScratch", "idle"} : Goto(Main, l)
    BY <1>5 DEF CleanupUnit, Return
  <2>3. \/ job' = job
        \/ job' = [job EXCEPT ![Main] = NoJob] /\ Goto(Main, "idle")
    BY <1>5 DEF CleanupUnit, Return
  <2>4. \A c \in BoxIds : units[c].st = "none" => units'[c].st = "none"
    BY <1>5 DEF CleanupUnit, NoUnit
  <2> QED BY <1>1, <2>1, <2>2, <2>3, <2>4, OutsideLives
<1>6. CASE CleanupScratch
  <2>1. states' = states /\ units' = units
    BY <1>6 DEF CleanupScratch, tables, entries
  <2>2. PICK l \in {"cleanupEntry", "idle"} : Goto(Main, l)
    BY <1>6 DEF CleanupScratch, Return
  <2>3. \/ job' = job
        \/ job' = [job EXCEPT ![Main] = NoJob] /\ Goto(Main, "idle")
    BY <1>6 DEF CleanupScratch, Return
  <2> QED BY <1>1, <2>1, <2>2, <2>3, OutsideLives
<1>7. CASE CleanupEntry
  <2>1. /\ units' = units /\ Goto(Main, "drain")
        /\ states' = [states EXCEPT ![b] = "ABSENT"]
        /\ job' = [job EXCEPT ![Main] = NoJob]
    BY <1>7 DEF CleanupEntry, Remove, Enter, host
  <2> QED BY <1>1, <1>2, <2>1, OutsideLives
<1> QED BY <1>3, <1>4, <1>5, <1>6, <1>7

\* The watchdog of a box outside drain_queue.
LEMMA WatchdogLives ==
    ASSUME NEW L, Core(L), Life, NEW n \in Watchdogs,
           WatchdogWakes(n) \/ WatchdogStops(n) \/ WatchdogMarks(n)
    PROVE  Life'
<1> USE Shapes DEF At, Goto, HoldLabels, StopLabels, TakeLabels, SpawnLabels
<1>1. /\ pc[n] \in {"sleep", "stop", "markTimedOut"} /\ job[n].box \in Started
      /\ UNCHANGED <<active, queued, pending, requests>> /\ Waiting' = Waiting
      /\ n # Main /\ n \in Threads
  BY HelperAssumption DEF WatchdogWakes, WatchdogStops, WatchdogMarks, controllerVars, tables,
                          host, Waiting, ThreadLife, Watchdogs, Main
<1>2. PICK l \in {"stop", "markTimedOut", "release", "done"} : Goto(n, l)
  BY <1>1 DEF WatchdogWakes, WatchdogStops, WatchdogMarks, Return
<1>3. \/ job' = job
      \/ job' = [job EXCEPT ![n] = NoJob] /\ Goto(n, "done")
  BY <1>1 DEF WatchdogWakes, WatchdogStops, WatchdogMarks, Return
<1>4. \A c \in BoxIds : units[c].st = "none" => units'[c].st = "none"
  BY DEF WatchdogWakes, WatchdogStops, WatchdogMarks, Stopped, NoUnit, host
<1>5. \A c \in BoxIds : states'[c] = states[c] \/ (c \in Started /\ states'[c] = "TIMED_OUT")
  BY <1>1 DEF WatchdogWakes, WatchdogStops, WatchdogMarks, tables, entries
<1> QED BY <1>1, <1>2, <1>3, <1>4, <1>5, OutsideLives

\* The server thread takes a request, or refuses one.
LEMMA ReceiveLives ==
    ASSUME NEW L, Core(L), Life, Client \/ AdmitRefused
    PROVE  Life'
<1> USE Shapes DEF At, Goto, HoldLabels, StopLabels, TakeLabels, SpawnLabels
<1>1. /\ pc[Main] \in {"idle", "admit"} /\ Waiting' = Waiting
      /\ UNCHANGED <<active, queued, pending, states, units, requests>>
  BY DEF Client, ReceiveDrain, ReceiveSpawn, Receive, AdmitRefused, controllerVars, tables,
         entries, host, Waiting
<1>2. ASSUME NEW b \in BoxIds, ReceiveSpawn(b) PROVE Life'
  BY <1>1, <1>2, OutsideLives DEF ReceiveSpawn
<1>3. ASSUME NEW b \in BoxIds, NEW m \in {"kill", "cleanup"}, Receive(m, b) PROVE Life'
  <2>1. PICK l \in {"cancelFind", m} : Goto(Main, l) /\ (l = m => b \in Started)
    BY <1>3 DEF Receive, BoxLife
  <2>2. job' = [job EXCEPT ![Main].box = b]
    BY <1>3 DEF Receive
  <2>3. job'[Main].box = b /\ \A u \in Threads \ {Main} : job'[u] = job[u]
    BY <2>2 DEF JobType
  <2> QED BY <1>1, <2>1, <2>3, OutsideLives
<1>4. CASE ReceiveDrain
  BY <1>1, <1>4, OutsideLives DEF ReceiveDrain
<1>5. CASE AdmitRefused
  BY <1>1, <1>5, OutsideLives DEF AdmitRefused, Return
<1> QED BY <1>2, <1>3, <1>4, <1>5 DEF Client

\* An id that has been admitted twice has been so ever since.
LEMMA OnceBefore ==
    ASSUME NEW L, Core(L), [Next]_vars, OncePerId'
    PROVE  OncePerId
<1>1. CASE UNCHANGED requests
  BY <1>1 DEF OncePerId
<1>2. CASE AdmitNow \/ AdmitQueued
  <2>1. requests \in Seq(RequestType)
    BY DEF Core, HelperTypes
  <2>2. PICK r : requests' = Append(requests, r)
    BY <1>2 DEF AdmitNow, AdmitQueued, NewRequest
  <2>3. \A m \in DOMAIN requests : m \in DOMAIN requests' /\ requests'[m] = requests[m]
    BY <2>1, <2>2
  <2> QED BY <2>3 DEF OncePerId
<1> QED
  BY <1>1, <1>2
  DEF Next, vars, Client, ReceiveDrain, ReceiveSpawn, Receive, Serve, Shared, CheckSpawn,
      MakeScratch, RunUnit, InsertStarting, UndoReservation, DrainNext, DrainEnds,
      TakeParams, RemoveQueuedEntry, ReleaseSlot, AdmitRefused, KeepParams, MarkQueued,
      CancelFind, CancelQueue, CancelParams, CancelEntry, KillUnit, MarkKilled, CleanupUnit,
      CleanupScratch, CleanupEntry, Watchdog, WatchdogWakes, WatchdogStops, WatchdogMarks,
      Systemd, UnitExits, UnitTimesOut

LEMMA LivesStep ==
    ASSUME NEW L, Core(L), Lives, [Next]_vars
    PROVE  Lives'
<1> SUFFICES ASSUME OncePerId' PROVE Life'
  BY DEF Lives
<1>0. OncePerId /\ Life
  BY OnceBefore DEF Lives
<1> USE <1>0
<1>1. CASE UNCHANGED vars
  BY <1>1, SystemdLives DEF vars
<1>2. ASSUME NEW t \in Threads, Shared(t) PROVE Life'
  BY <1>2, SpawnLives, InsertLives, ReleaseLives, DrainLives, TakeLives DEF Shared
<1>3. CASE Serve
  BY <1>2, <1>3, AdmitLives, QueueLives, ReceiveLives, CancelFindLives, CancelLives, KillLives
     DEF Serve, Threads
<1>4. ASSUME NEW n \in Watchdogs, Watchdog(n) PROVE Life'
  BY <1>2, <1>4, WatchdogLives DEF Watchdog, Threads
<1>5. ASSUME NEW b \in BoxIds, Systemd(b) PROVE Life'
  <2>1. UNCHANGED <<active, queued, pending, states, requests, pc, job>>
    BY <1>5 DEF Systemd, UnitExits, UnitTimesOut, controllerVars, tables, entries
  <2>2. \A c \in BoxIds : units[c].st = "none" => units'[c].st = "none"
    BY <1>5, Shapes DEF Systemd, UnitExits, UnitTimesOut, NoUnit, UnitType
  <2> QED BY <2>1, <2>2, SystemdLives
<1> QED BY <1>1, <1>3, <1>4, <1>5, ReceiveLives DEF Next
-----------------------------------------------------------------------------
(* Regular histories.                                                       *)


\* What a step of a regular history keeps: a box that begins to run, or to be
\* metered, holds a slot, and one that loses its slot does neither.
Kept ==
    /\ \A t \in Threads : ThreadStops(t)'
    /\ Running' \ active' \subseteq Running \ active
    /\ Metered' \ active' \subseteq Metered \ active
    /\ (active \ active') \cap (Running \cup Metered) = {}

\* A step of thread t that starts nothing and takes no slot away.
LEMMA CalmKeeps ==
    ASSUME NEW L, Core(L), Life, \A u \in Threads : ThreadStops(u),
           NEW t \in Threads, active \subseteq active',
           \A u \in Threads \ {t} : pc'[u] = pc[u] /\ job'[u] = job[u],
           \A b \in BoxIds : /\ units'[b].st = "active" => units[b].st = "active"
                            /\ states'[b] \in {states[b], "ABSENT", "QUEUED", "KILLED", "TIMED_OUT"},
           ThreadStops(t)'
    PROVE  Kept
<1>2. ASSUME NEW u \in Threads \ {t} PROVE ThreadStops(u)'
  BY StartedBoxes, Shapes DEF ThreadStops, ThreadLife, HoldLabels, SpawnLabels, StopLabels
<1>3. Running' \subseteq Running /\ Metered' \subseteq Metered
  BY DEF Running, Metered
<1> QED BY <1>2, <1>3 DEF Kept

\* A thread that starts a box holds its slot, and no other thread is about to
\* give that slot back.
LEMMA StartKeeps ==
    ASSUME NEW L, Core(L), Life, \A u \in Threads : ThreadStops(u), Regular',
           NEW t \in Threads, RunUnit(t) \/ InsertStarting(t)
    PROVE  Kept
<1> DEFINE b == job[t].box
<1> USE Shapes DEF At, Goto, HoldLabels, TakeLabels, SpawnLabels, StopLabels
<1>1. /\ pc[t] \in {"runUnit", "insert"} /\ active' = active
      /\ b \in active /\ b \in Unstarted /\ Started \cap Unstarted = {}
  BY NotBoth DEF RunUnit, InsertStarting, controllerVars, ThreadLife
<1>2. /\ \A c \in BoxIds \ {b} : units'[c].st = units[c].st /\ states'[c] = states[c]
      /\ states'[b] # states[b] => pc[t] = "insert"
      /\ units'[b].st # units[b].st => pc[t] = "runUnit" /\ Goto(t, "insert")
  <2>1. CASE RunUnit(t)
    <3>1. UNCHANGED states /\ faults' # faults + 1
      BY <2>1, HelperAssumption DEF RunUnit, tables, entries, Regular, Core, HelperTypes
    <3> QED BY <2>1, <3>1 DEF RunUnit, Fault
  <2>2. CASE InsertStarting(t)
    BY <2>2 DEF InsertStarting, Enter, host
  <2> QED BY <2>1, <2>2
<1>3. ASSUME NEW u \in Threads PROVE ThreadStops(u)'
  <2>1. CASE u # t /\ pc'[u] = pc[u] /\ job'[u] = job[u]
    <3>1. pc[u] \in {"undo", "markKilled", "markTimedOut", "release"} => job[u].box # b
      BY <1>1, <2>1 DEF ThreadLife, Apart
    <3>3. pc[u] \in {"undo", "markKilled", "markTimedOut", "release"} => job[u].box \in BoxIds \ {b}
      BY <3>1, StartedBoxes DEF ThreadLife
    <3> HIDE DEF b
    <3> QED BY <1>2, <2>1, <3>3 DEF ThreadStops
  <2>2. CASE RunUnit(t) /\ u = t
    <3>1. pc'[t] = "undo" => units' = units /\ units[b].st # "active"
      <4>1. faults' # faults + 1
        BY HelperAssumption DEF Regular, Core, HelperTypes
      <4>2. units[b].st = "none"
        BY <2>2 DEF RunUnit, ThreadLife
      <4> QED BY <2>2, <4>1, <4>2 DEF RunUnit, Fault
    <3>2. pc'[t] \in {"insert", "undo"} /\ job' = job
      BY <2>2 DEF RunUnit
    <3> QED BY <2>2, <3>1, <3>2 DEF ThreadStops
  <2>3. CASE InsertStarting(t) /\ pc'[u] \in {"sleep", "idle", "drain"}
    BY <2>3 DEF ThreadStops
  <2>4. InsertStarting(t) /\ u = t => pc'[u] \in {"sleep", "idle", "drain"}
    BY DEF InsertStarting
  <2>5. \/ u = t
        \/ pc'[u] = pc[u] /\ job'[u] = job[u]
        \/ InsertStarting(t) /\ pc'[u] = "sleep"
    BY DEF InsertStarting, RunUnit
  <2> QED BY <2>1, <2>2, <2>3, <2>4, <2>5
<1>4. Running' \subseteq Running \cup {b} /\ Metered' \subseteq Metered \cup {b}
  BY <1>1, <1>2 DEF Running, Metered
<1> QED BY <1>1, <1>3, <1>4 DEF Kept

\* A slot given back is of a box that was stopped, or never started.
LEMMA ReleaseKeeps ==
    ASSUME NEW L, Core(L), Life, \A u \in Threads : ThreadStops(u),
           NEW t \in Threads, UndoReservation(t) \/ ReleaseSlot(t)
    PROVE  Kept
<1> DEFINE b == job[t].box
<1> USE Shapes DEF At, Goto, HoldLabels, TakeLabels, SpawnLabels, StopLabels
<1>1. /\ pc[t] \in {"undo", "release"} /\ UNCHANGED <<states, units>>
      /\ active' = active \ {b}
      /\ pc'[t] \in {"idle", "drain", "done"}
      /\ \A u \in Threads \ {t} : pc'[u] = pc[u] /\ job'[u] = job[u]
  BY DEF UndoReservation, ReleaseSlot, tables, entries, host, controllerVars,
         Controller!Release, Return
<1>2. b \notin Running \cup Metered
  <2>1. units[b].st # "active"
    BY <1>1 DEF ThreadStops
  <2>2. b \in BoxIds => states[b] # "STARTING"
    BY <1>1, NotBoth DEF ThreadStops, ThreadLife, BoxLife
  <2> QED BY <2>1, <2>2 DEF Running, Metered, Statuses
<1>3. ASSUME NEW u \in Threads PROVE ThreadStops(u)'
  BY <1>1 DEF ThreadStops
<1>4. Running' = Running /\ Metered' = Metered
  BY <1>1 DEF Running, Metered
<1> QED BY <1>1, <1>2, <1>3, <1>4 DEF Kept

\* kill and the watchdogs stop a unit and mark its entry before they release.
LEMMA StopKeeps ==
    ASSUME NEW L, Core(L), Life, \A u \in Threads : ThreadStops(u), Regular',
           NEW t \in Threads,
           \/ t = Main /\ (KillUnit \/ MarkKilled)
           \/ WatchdogStops(t) \/ WatchdogMarks(t)
    PROVE  Kept
<1> DEFINE b == job[t].box
<1> USE Shapes, StartedBoxes DEF At, Goto, Return
<1>0. faults' # faults + 1
  BY HelperAssumption DEF Regular, Core, HelperTypes
<1>1. CASE t = Main /\ KillUnit
  <2>1. /\ b \in BoxIds /\ UNCHANGED <<active, states>>
        /\ \A c \in BoxIds : units'[c].st = "active" => units[c].st = "active"
    BY <1>1 DEF KillUnit, Stopped, NoUnit, controllerVars, tables, entries, ThreadLife, StopLabels
  <2>2. \/ pc'[t] = "idle"
        \/ pc'[t] = "markKilled" /\ units'[b].st # "active" /\ job' = job
    BY <1>0, <1>1, <2>1 DEF KillUnit, Fault, Stopped, NoUnit
  <2>3. \A u \in Threads \ {t} : pc'[u] = pc[u] /\ job'[u] = job[u]
    BY <1>1 DEF KillUnit
  <2>4. ThreadStops(t)'
    BY <2>2 DEF ThreadStops
  <2> QED BY <2>1, <2>3, <2>4, CalmKeeps
<1>2. CASE t = Main /\ MarkKilled
  <2>1. /\ UNCHANGED <<active, units>> /\ pc[t] = "markKilled" /\ b \in BoxIds
        /\ \A c \in BoxIds : states'[c] \in {states[c], "KILLED"}
    BY <1>2 DEF MarkKilled, controllerVars, host, ThreadLife, StopLabels
  <2>2. \/ pc'[t] = "idle"
        \/ pc'[t] = "release" /\ states'[b] = "KILLED" /\ job' = job
    BY <1>2, <2>1 DEF MarkKilled
  <2>3. \A u \in Threads \ {t} : pc'[u] = pc[u] /\ job'[u] = job[u]
    BY <1>2 DEF MarkKilled
  <2>4. ThreadStops(t)'
    BY <2>1, <2>2 DEF ThreadStops
  <2> QED BY <2>1, <2>3, <2>4, CalmKeeps
<1>3. CASE WatchdogStops(t)
  <2>1. /\ b \in BoxIds /\ UNCHANGED <<active, states, job>> /\ Goto(t, "markTimedOut")
        /\ units' = [units EXCEPT ![b] = Stopped(@)]
    BY <1>0, <1>3 DEF WatchdogStops, Fault, controllerVars, tables, entries, ThreadLife, StopLabels
  <2>2. /\ \A c \in BoxIds : units'[c].st = "active" => units[c].st = "active"
        /\ units'[b].st # "active"
    BY <2>1 DEF Stopped, NoUnit
  <2>3. ThreadStops(t)'
    BY <2>1, <2>2 DEF ThreadStops
  <2> QED BY <2>1, <2>2, <2>3, CalmKeeps
<1>4. CASE WatchdogMarks(t)
  <2>1. /\ b \in BoxIds /\ UNCHANGED <<active, units, job>> /\ Goto(t, "release")
        /\ pc[t] = "markTimedOut"
        /\ states' = [states EXCEPT ![b] = IF @ = "ABSENT" THEN @ ELSE "TIMED_OUT"]
    BY <1>4 DEF WatchdogMarks, controllerVars, host, ThreadLife, StopLabels
  <2>2. /\ \A c \in BoxIds : states'[c] \in {states[c], "TIMED_OUT"}
        /\ states'[b] # "STARTING"
    BY <2>1
  <2>3. ThreadStops(t)'
    BY <2>1, <2>2 DEF ThreadStops
  <2> QED BY <2>1, <2>2, <2>3, CalmKeeps
<1> QED BY <1>1, <1>2, <1>3, <1>4

\* The other steps bring no thread to a place where it ends a box.
LEMMA OtherKeeps ==
    ASSUME NEW L, Core(L), Life, \A u \in Threads : ThreadStops(u), NEW t \in Threads,
           pc'[t] \notin {"undo", "markKilled", "markTimedOut", "release"},
           \A u \in Threads \ {t} : pc'[u] = pc[u] /\ job'[u] = job[u],
           active \subseteq active',
           \A b \in BoxIds : /\ units'[b].st = "active" => units[b].st = "active"
                            /\ states'[b] \in {states[b], "ABSENT", "QUEUED", "KILLED", "TIMED_OUT"}
    PROVE  Kept
<1>1. ThreadStops(t)'
  BY DEF ThreadStops
<1> QED BY <1>1, CalmKeeps

LEMMA KeepsStep ==
    ASSUME NEW L, Core(L), Life, \A u \in Threads : ThreadStops(u), [Next]_vars, Regular'
    PROVE  Kept
<1> USE Shapes DEF At, Goto, Return
<1>1. CASE UNCHANGED vars
  BY <1>1 DEF vars, Kept, ThreadStops, Running, Metered
<1>2. CASE Client \/ AdmitRefused
  <2>1. /\ pc[Main] \in {"idle", "admit"} /\ UNCHANGED <<active, states, units>>
        /\ \A u \in Threads \ {Main} : pc'[u] = pc[u] /\ job'[u] = job[u]
        /\ pc'[Main] \in {"admit", "drain", "cancelFind", "kill", "cleanup", "idle"}
    BY <1>2 DEF Client, ReceiveDrain, ReceiveSpawn, Receive, AdmitRefused, controllerVars,
                tables, entries, host
  <2> QED BY <2>1, OtherKeeps
<1>3. ASSUME NEW t \in Threads, Shared(t) PROVE Kept
  <2>1. CASE CheckSpawn(t) \/ MakeScratch(t)
    <3>1. /\ pc[t] \in {"check", "mkScratch"} /\ UNCHANGED <<active, states, units, job>>
          /\ \A u \in Threads \ {t} : pc'[u] = pc[u]
          /\ pc'[t] \in {"mkScratch", "runUnit", "undo"}
      BY <2>1 DEF CheckSpawn, MakeScratch, controllerVars, tables, entries, host
    <3>2. units[job[t].box].st = "none"
      BY <3>1 DEF ThreadLife, HoldLabels, SpawnLabels
    <3>3. ThreadStops(t)'
      BY <3>1, <3>2 DEF ThreadStops
    <3> QED BY <3>1, <3>3, CalmKeeps
  <2>2. CASE DrainNext(t) \/ DrainEnds(t)
    <3>1. /\ UNCHANGED <<states, units>> /\ active \subseteq active'
          /\ \A u \in Threads \ {t} : pc'[u] = pc[u] /\ job'[u] = job[u]
          /\ pc'[t] \in {"take", "idle", "done"}
      BY <2>2 DEF DrainNext, DrainEnds, Controller!StartNext, controllerVars, tables, entries, host
    <3> QED BY <3>1, OtherKeeps
  <2>3. CASE TakeParams(t) \/ RemoveQueuedEntry(t)
    <3>1. /\ UNCHANGED <<active, units>>
          /\ \A u \in Threads \ {t} : pc'[u] = pc[u] /\ job'[u] = job[u]
          /\ pc'[t] \in {"unmark", "check", "drain"}
          /\ \A b \in BoxIds : states'[b] \in {states[b], "ABSENT"}
      BY <2>3 DEF TakeParams, RemoveQueuedEntry, Remove, Enter, controllerVars, entries, host
    <3> QED BY <3>1, OtherKeeps
  <2> QED BY <1>3, <2>1, <2>2, <2>3, StartKeeps, ReleaseKeeps DEF Shared
<1>4. CASE AdmitNow \/ AdmitQueued
  <2>1. /\ UNCHANGED <<states, units>> /\ active \subseteq active'
        /\ \A u \in Threads \ {Main} : pc'[u] = pc[u] /\ job'[u] = job[u]
        /\ pc'[Main] \in {"check", "keepParams"}
    BY <1>4 DEF AdmitNow, AdmitQueued, NewRequest, Controller!AdmitStart, Controller!AdmitQueue,
                tables, entries, host
  <2> QED BY <2>1, OtherKeeps
<1>5. CASE KeepParams \/ MarkQueued \/ CancelQueue \/ CancelParams \/ CancelEntry
  <2>1. /\ UNCHANGED <<active, units>>
        /\ \A u \in Threads \ {Main} : pc'[u] = pc[u] /\ job'[u] = job[u]
        /\ pc'[Main] \in {"markQueued", "cancelParams", "cancelEntry", "idle"}
        /\ \A b \in BoxIds : states'[b] \in {states[b], "ABSENT", "QUEUED"}
    BY <1>5 DEF KeepParams, MarkQueued, CancelQueue, CancelParams, CancelEntry, Remove, Enter,
                controllerVars, entries, tables, host, Controller!CancelQueued
  <2> QED BY <2>1, OtherKeeps
<1>6. CASE CancelFind
  <2>1. UNCHANGED <<active, states, units>>
    BY <1>6 DEF CancelFind, controllerVars, tables, entries, host
  <2>2. CASE job' = job /\ Goto(Main, "cancelQueue")
    BY <2>1, <2>2, OtherKeeps
  <2>3. CASE pc' = [t \in Threads |-> "dead"]
    BY <2>1, <2>3 DEF Kept, ThreadStops, Running, Metered
  <2> QED BY <1>6, <2>2, <2>3 DEF CancelFind
<1>7. CASE CleanupUnit \/ CleanupScratch \/ CleanupEntry
  <2>1. /\ active' = active
        /\ \A u \in Threads \ {Main} : pc'[u] = pc[u] /\ job'[u] = job[u]
        /\ pc'[Main] \in {"rmScratch", "cleanupEntry", "drain", "idle"}
    BY <1>7 DEF CleanupUnit, CleanupScratch, CleanupEntry, controllerVars
  <2>2. \A b \in BoxIds : units'[b].st = "active" => units[b].st = "active"
    BY <1>7 DEF CleanupUnit, CleanupScratch, CleanupEntry, NoUnit, host
  <2>3. \A b \in BoxIds : states'[b] \in {states[b], "ABSENT"}
    BY <1>7 DEF CleanupUnit, CleanupScratch, CleanupEntry, Remove, Enter, tables, entries
  <2> QED BY <2>1, <2>2, <2>3, OtherKeeps
<1>8. ASSUME NEW n \in Watchdogs, Watchdog(n) PROVE Kept
  <2>1. CASE WatchdogWakes(n)
    <3>1. /\ UNCHANGED <<active, states, units>> /\ pc'[n] \in {"stop", "idle", "done"}
          /\ \A u \in Threads \ {n} : pc'[u] = pc[u] /\ job'[u] = job[u]
      BY <2>1 DEF WatchdogWakes, controllerVars, tables, entries, host
    <3> QED BY <3>1, OtherKeeps
  <2> QED BY <1>3, <1>8, <2>1, StopKeeps DEF Watchdog, Threads
<1>9. ASSUME NEW b \in BoxIds, Systemd(b) PROVE Kept
  <2>1. /\ UNCHANGED <<active, states, pc, job>>
        /\ \A c \in BoxIds : units'[c].st = "active" => units[c].st = "active"
    BY <1>9 DEF Systemd, UnitExits, UnitTimesOut, controllerVars, tables, entries, NoUnit, UnitType
  <2>2. ThreadStops(Main)'
    BY <2>1, StartedBoxes DEF ThreadStops, ThreadLife, HoldLabels, SpawnLabels, StopLabels
  <2> QED BY <2>1, <2>2, CalmKeeps
<1> QED
  BY <1>1, <1>2, <1>3, <1>4, <1>5, <1>6, <1>7, <1>8, <1>9, StopKeeps DEF Next, Serve
-----------------------------------------------------------------------------
SlotInv == Lives /\ Stops /\ RunningHoldsSlot

LEMMA InitSlotInv == Init => SlotInv
<1> SUFFICES ASSUME Init PROVE SlotInv
  OBVIOUS
<1> USE HelperAssumption DEF Init, Main, Watchdogs, Threads, At, NoUnit
<1>1. Asked = {} /\ Started = {} /\ Unstarted = BoxIds /\ Waiting = {} /\ active = {}
  BY DEF Asked, Started, Unstarted, Waiting, Range, Controller!Init
<1>2. Dies /\ Births /\ Apart
  BY DEF Dies, Births, Apart, HoldLabels, TakeLabels, SpawnLabels
<1>3. ASSUME NEW t \in Threads PROVE ThreadLife(t) /\ ThreadStops(t)
  BY DEF ThreadLife, ThreadStops, HoldLabels, TakeLabels, SpawnLabels, StopLabels
<1>4. ASSUME NEW b \in BoxIds PROVE BoxLife(b) /\ KillFrees(b) /\ Backed(b)
  BY <1>1 DEF BoxLife, KillFrees, Backed
<1>5. Running \cup Metered = {}
  BY DEF Running, Metered
<1> QED BY <1>2, <1>3, <1>4, <1>5 DEF SlotInv, Lives, Life, Stops, RunningHoldsSlot

\* A history that is regular after a step was so before it.
LEMMA RegularBefore ==
    ASSUME NEW L, Core(L), [Next]_vars, Regular'
    PROVE  Regular
<1>1. OncePerId
  BY OnceBefore DEF Regular
<1>2. faults \in Nat
  BY HelperAssumption DEF Core, HelperTypes
<1>3. faults' \in {faults, faults + 1}
  BY DEF Next, vars, Client, ReceiveDrain, ReceiveSpawn, Receive, Serve, Shared, CheckSpawn,
      MakeScratch, RunUnit, InsertStarting, UndoReservation, DrainNext, DrainEnds,
      TakeParams, RemoveQueuedEntry, ReleaseSlot, AdmitNow, AdmitQueued, AdmitRefused,
      KeepParams, MarkQueued, CancelFind, CancelQueue, CancelParams, CancelEntry, KillUnit,
      MarkKilled, CleanupUnit, CleanupScratch, CleanupEntry, Watchdog, WatchdogWakes,
      WatchdogStops, WatchdogMarks, Systemd, UnitExits, UnitTimesOut, host, Fault, NoFault
<1> QED BY <1>1, <1>2, <1>3 DEF Regular

LEMMA SlotStep ==
    ASSUME NEW L, Core(L), Lives, Stops, [Next]_vars
    PROVE  /\ Lives' /\ Stops'
           /\ Regular' => Kept
<1>1. Lives'
  BY LivesStep
<1>2. Regular' => Kept
  BY RegularBefore, KeepsStep DEF Lives, Stops, Regular
<1>3. Stops'
  BY <1>2 DEF Stops, Kept
<1> QED BY <1>1, <1>2, <1>3

LEMMA SlotInvariance == Spec => []SlotInv
<1>1. Inv /\ SlotInv /\ [Next]_vars => SlotInv'
  <2> SUFFICES ASSUME Inv, SlotInv, [Next]_vars PROVE SlotInv'
    OBVIOUS
  <2>1. Lives' /\ Stops' /\ (Regular' => Regular /\ Kept)
    BY SlotStep, RegularBefore DEF Inv, SlotInv
  <2>2. RunningHoldsSlot'
    BY <2>1 DEF RunningHoldsSlot, Kept, SlotInv
  <2> QED BY <2>1, <2>2 DEF SlotInv
<1> QED BY <1>1, InitSlotInv, Invariance, PTL DEF Spec

\* Whatever fails and however the threads interleave, a box whose id is used
\* once and that was killed holds no slot when its request is answered.
THEOREM HelperKilledHoldsNoSlot == Spec => []KilledHoldsNoSlot
<1>1. Inv /\ SlotInv => KilledHoldsNoSlot
  <2> SUFFICES ASSUME Inv, SlotInv, Idle, OncePerId, NEW b \in active PROVE states[b] # "KILLED"
    BY DEF KilledHoldsNoSlot
  <2>1. b \in BoxIds
    BY DEF Inv, Core, Proofs!Inv, Proofs!TypeOK
  <2> QED BY <2>1 DEF SlotInv, Lives, Life, KillFrees, Idle, At
<1> QED BY <1>1, Invariance, SlotInvariance, PTL

\* Between requests every waiting box has what drain_queue needs to start it.
THEOREM HelperQueueIsBacked == Spec => []QueueIsBacked
<1>1. Inv /\ SlotInv => QueueIsBacked
  <2> SUFFICES ASSUME Inv, SlotInv, Idle, OncePerId, NEW b \in Range(queued)
               PROVE  states[b] = "QUEUED" /\ pending[b] # 0 /\ requests[pending[b]].box = b
    BY DEF QueueIsBacked
  <2>1. b \in Waiting /\ b \in BoxIds
    BY DEF Inv, Core, Proofs!Inv, Proofs!TypeOK, Waiting, Range
  <2> QED BY <2>1 DEF SlotInv, Lives, Life, Backed, BoxLife, IsRequest, Idle, At
<1> QED BY <1>1, Invariance, SlotInvariance, PTL

\* Without faults and reused ids the limit bounds the boxes that run and the
\* ones that `metrics` counts, at every point of every thread.
THEOREM HelperRunningHoldsSlot == Spec => []RunningHoldsSlot
<1>1. SlotInv => RunningHoldsSlot
  BY DEF SlotInv
<1> QED BY <1>1, SlotInvariance, PTL

\* Only two steps give a slot back.
LEMMA ReleasedBy ==
    ASSUME [Next]_vars, NEW b \in active, b \notin active'
    PROVE  \E t \in Threads : UndoReservation(t) \/ ReleaseSlot(t)
BY DEF Next, vars, Client, ReceiveDrain, ReceiveSpawn, Receive, Serve, Shared, CheckSpawn,
       MakeScratch, RunUnit, InsertStarting, DrainNext, DrainEnds, TakeParams,
       RemoveQueuedEntry, AdmitNow, AdmitQueued, AdmitRefused, KeepParams, MarkQueued,
       CancelFind, CancelQueue, CancelParams, CancelEntry, KillUnit, MarkKilled, CleanupUnit,
       CleanupScratch, CleanupEntry, Watchdog, WatchdogWakes, WatchdogStops, WatchdogMarks,
       Systemd, UnitExits, UnitTimesOut, controllerVars, Threads, Controller!AdmitStart,
       Controller!AdmitQueue, Controller!StartNext, Controller!CancelQueued

\* No thread ever gives back the slot of a box that still runs.
THEOREM HelperReleasedIsStopped == Spec => ReleasedIsStopped
<1>1. Inv /\ SlotInv /\ [Next]_vars =>
        [\A b \in BoxIds : Regular /\ b \in active /\ b \notin active' => units[b].st # "active"]_vars
  <2> SUFFICES ASSUME Inv, SlotInv, [Next]_vars, Regular,
                      NEW b \in BoxIds, b \in active, b \notin active'
               PROVE  units[b].st # "active"
    OBVIOUS
  <2>1. Core(Labels) /\ Life /\ \A t \in Threads : ThreadStops(t)
    BY DEF Inv, SlotInv, Lives, Stops, Regular
  <2>2. Kept
    BY <2>1, ReleasedBy, ReleaseKeeps
  <2> QED BY <2>2 DEF Kept, Running
<1> QED BY <1>1, Invariance, SlotInvariance, PTL DEF Spec, ReleasedIsStopped
-----------------------------------------------------------------------------
(* The start-up.                                                            *)

\* The places of main before the socket is bound.
StartLabels == {"list", "reconcile"}

Starting == pc[Main] \in StartLabels

\* Every thread has a place, and every box a unit, if only NoUnit.
Functional ==
    /\ pc = [t \in Threads |-> pc[t]]
    /\ units = [b \in BoxIds |-> units[b]]

\* A process that starts has no watchdogs yet, so that nothing but main,
\* systemd and what the old process left behind touches the units.
Quiet == Starting => LineageDir /\ \A n \in Watchdogs : pc[n] \in {"unborn", "done"}

\* What still runs was listed, is recorded, or came after the listing.
Swept == At(Main, "reconcile") => Running \subseteq orphans \cup Recorded \cup late

StartInv == Functional /\ Quiet /\ Swept

LEMMA InitStartInv == RestartInit => StartInv
BY DEF RestartInit, Init, StartInv, Functional, Quiet, Swept, Starting, StartLabels, At,
       Threads, Main, Watchdogs

\* While main starts, no step of the helper is a step of one of its threads.
LEMMA HelperStep ==
    ASSUME Functional, Quiet, Next
    PROVE  /\ Functional'
           /\ Starting => UNCHANGED pc /\ Running' \subseteq Running
           /\ Starting' => Starting
<1>0. Main \in Threads /\ Watchdogs \subseteq Threads /\ Main \notin Watchdogs
  BY HelperAssumption DEF Main, Threads, Watchdogs
<1> USE <1>0 DEF Functional, Starting, StartLabels, At, Goto, Return
<1>1. CASE Client
  BY <1>1 DEF Client, ReceiveDrain, ReceiveSpawn, Receive, host
<1>2. ASSUME NEW t \in Threads, Shared(t)
      PROVE  /\ Functional'
             /\ Starting => UNCHANGED pc /\ Running' \subseteq Running
             /\ Starting' => Starting
  <2>1. ~Starting
    <3>1. pc[t] \notin StartLabels \cup {"unborn", "done"}
      BY <1>2 DEF Shared, CheckSpawn, MakeScratch, RunUnit, InsertStarting, UndoReservation,
                  DrainNext, DrainEnds, TakeParams, RemoveQueuedEntry, ReleaseSlot
    <3> QED BY <3>1 DEF Quiet, Threads
  <2>2. CASE CheckSpawn(t) \/ MakeScratch(t)
    BY <2>1, <2>2 DEF CheckSpawn, MakeScratch, host
  <2>3. CASE RunUnit(t)
    BY <2>1, <2>3 DEF RunUnit
  <2>4. CASE InsertStarting(t)
    BY <2>1, <2>4 DEF InsertStarting, host
  <2>5. CASE UndoReservation(t) \/ ReleaseSlot(t)
    BY <2>1, <2>5 DEF UndoReservation, ReleaseSlot, host
  <2>6. CASE DrainNext(t) \/ DrainEnds(t) \/ RemoveQueuedEntry(t)
    BY <2>1, <2>6 DEF DrainNext, DrainEnds, RemoveQueuedEntry, host
  <2>7. CASE TakeParams(t)
    BY <2>1, <2>7 DEF TakeParams, host
  <2> QED BY <1>2, <2>2, <2>3, <2>4, <2>5, <2>6, <2>7 DEF Shared
<1>3. CASE Serve
  <2>1. CASE AdmitNow \/ AdmitQueued \/ AdmitRefused \/ KeepParams \/ MarkQueued
    BY <2>1 DEF AdmitNow, AdmitQueued, AdmitRefused, KeepParams, MarkQueued, NewRequest, host
  <2>2. CASE CancelFind
    BY <2>2 DEF CancelFind, host
  <2>3. CASE CancelQueue \/ CancelParams \/ CancelEntry
    BY <2>3 DEF CancelQueue, CancelParams, CancelEntry, host
  <2>4. CASE KillUnit
    BY <2>4 DEF KillUnit
  <2>5. CASE CleanupUnit
    BY <2>5 DEF CleanupUnit
  <2>6. CASE MarkKilled \/ CleanupScratch \/ CleanupEntry
    BY <2>6 DEF MarkKilled, CleanupScratch, CleanupEntry, host
  <2> QED BY <1>2, <1>3, <2>1, <2>2, <2>3, <2>4, <2>5, <2>6 DEF Serve
<1>4. ASSUME NEW n \in Watchdogs, Watchdog(n)
      PROVE  /\ Functional'
             /\ Starting => UNCHANGED pc /\ Running' \subseteq Running
             /\ Starting' => Starting
  <2>1. CASE WatchdogWakes(n) \/ WatchdogMarks(n)
    BY <2>1 DEF WatchdogWakes, WatchdogMarks, host, Quiet
  <2>2. CASE WatchdogStops(n)
    BY <2>2 DEF WatchdogStops, Quiet
  <2> QED BY <1>2, <1>4, <2>1, <2>2 DEF Watchdog
<1>5. ASSUME NEW b \in BoxIds, Systemd(b)
      PROVE  /\ Functional'
             /\ Starting => UNCHANGED pc /\ Running' \subseteq Running
             /\ Starting' => Starting
  BY <1>5 DEF Systemd, UnitExits, UnitTimesOut, Running, NoUnit
<1> QED BY <1>1, <1>3, <1>4, <1>5 DEF Next

\* One orphan is stopped, or the start is over.
LEMMA OrphanStep ==
    ASSUME StartInv, NEW b \in BoxIds, ReconcileOrphan(b)
    PROVE  StartInv' /\ pc'[Main] \in {"reconcile", "dead"}
<1>0. Main \in Threads /\ Watchdogs \subseteq Threads /\ Main \notin Watchdogs
  BY HelperAssumption DEF Main, Threads, Watchdogs
<1>1. CASE Goto(Main, "dead")
  <2>1. units' \in {units, [units EXCEPT ![b] = NoUnit]}
    BY DEF ReconcileOrphan
  <2> QED BY <1>0, <1>1, <2>1 DEF Goto, StartInv, Functional, Quiet, Swept, Starting, StartLabels, At
<1>2. CASE ~Goto(Main, "dead")
  <2>1. /\ pc[Main] = "reconcile" /\ UNCHANGED <<pc, late>>
        /\ units' = [units EXCEPT ![b] = NoUnit] /\ orphans' = orphans \ {b}
    BY <1>2 DEF ReconcileOrphan, At, lateVars
  <2>2. Running' \subseteq Running \ {b}
    BY <2>1 DEF StartInv, Functional, Running, NoUnit
  <2> QED BY <2>1, <2>2 DEF StartInv, Functional, Quiet, Swept, Starting, At
<1> QED BY <1>1, <1>2

LEMMA StartStep ==
    ASSUME StartInv, [RestartNext]_allVars
    PROVE  /\ StartInv'
           /\ At(Main, "reconcile") /\ At(Main, "idle")' => Running \subseteq Recorded \cup late
<1>0. Main \in Threads /\ Watchdogs \subseteq Threads /\ Main \notin Watchdogs
  BY HelperAssumption DEF Main, Threads, Watchdogs
<1> USE <1>0
<1>1. CASE Next /\ UNCHANGED restartVars
  BY <1>1, HelperStep
     DEF StartInv, Quiet, Swept, restartVars, lateVars, Starting, StartLabels, At
<1>2. CASE Restart
  <2>1. /\ pc' = [t \in Threads |-> pc'[t]] /\ UNCHANGED units
        /\ \A n \in Watchdogs : pc'[n] \in {"unborn", "done"}
        /\ pc'[Main] # "reconcile"
        /\ pc'[Main] = "list" => LineageDir
        /\ LineageDir => pc'[Main] # "idle"
    BY <1>2 DEF Restart, host
  <2> QED BY <2>1 DEF StartInv, Functional, Quiet, Swept, Starting, StartLabels, At
<1>3. CASE ListUnits
  <2>1. UNCHANGED units /\ pc[Main] = "list" /\ Running' = Running
    BY <1>3 DEF ListUnits, At, Running
  <2>2. \/ Goto(Main, "reconcile") /\ orphans' = Running \ Recorded
        \/ Goto(Main, "dead")
    BY <1>3 DEF ListUnits
  <2> QED BY <2>1, <2>2 DEF Goto, StartInv, Functional, Quiet, Swept, Starting, StartLabels, At
<1>4. ASSUME NEW b \in BoxIds, ReconcileOrphan(b)
      PROVE  StartInv' /\ ~At(Main, "idle")'
  BY <1>4, OrphanStep DEF At
<1>5. CASE StartServing
  BY <1>5 DEF StartServing, Goto, StartInv, Functional, Quiet, Swept, Starting, StartLabels, At, host
<1>6. ASSUME NEW r \in inFlight, LateStart(r)
      PROVE  StartInv' /\ UNCHANGED pc
  <2>1. UNCHANGED <<pc, orphans>>
    BY <1>6 DEF LateStart
  <2>2. CASE UNCHANGED <<units, late>>
    BY <2>1, <2>2 DEF StartInv, Functional, Quiet, Swept, Starting, At, Running
  <2>3. CASE /\ units' = [units EXCEPT ![r.box] = [st |-> "active", req |-> r.req]]
             /\ late' = late \cup {r.box}
    <3>1. Running' \subseteq Running \cup {r.box}
      BY <2>3 DEF StartInv, Functional, Running
    <3> QED BY <2>1, <2>3, <3>1 DEF StartInv, Functional, Quiet, Swept, Starting, At
  <2> QED BY <1>6, <2>2, <2>3 DEF LateStart
<1>7. CASE UNCHANGED allVars
  BY <1>7 DEF allVars, vars, restartVars, lateVars, StartInv, Functional, Quiet, Swept,
              Starting, At, Running
<1> QED BY <1>1, <1>2, <1>3, <1>4, <1>5, <1>6, <1>7 DEF RestartNext, StartUp, At

\* However often the helper crashes and whatever fails meanwhile, a process
\* that finds the lineage directory answers its first request only when every
\* unit it listed and has no record of is stopped.
THEOREM RestartFailsClosed == RestartSpec => FailsClosed
<1>1. StartInv /\ [RestartNext]_allVars => StartInv'
  BY StartStep
<1>2. StartInv /\ [RestartNext]_allVars =>
        [At(Main, "reconcile") /\ At(Main, "idle")' => Running \subseteq Recorded \cup late]_allVars
  BY StartStep
<1> QED BY <1>1, <1>2, InitStartInv, PTL DEF RestartSpec, FailsClosed
-----------------------------------------------------------------------------
(* What the limit and the records cover across restarts.  A box that an     *)
(* earlier process knew is forgotten by every table, so that neither the    *)
(* helper nor a systemd-run that outlived it can confuse it with a new one; *)
(* the rest is the second part above, which a restart re-enters.            *)

AllLabels == Labels \cup StartLabels

\* A box that was asked for and is in no table and in no thread's hands any
\* more: what a restart makes of every box.
Forgotten(b) ==
    /\ b \in Asked /\ b \notin active \cup Waiting /\ states[b] = "ABSENT"
    /\ \A t \in Threads : job[t].box = b => At(t, "admit")

\* A systemd-run that outlived its helper is for a forgotten box.
Sent == inFlight \subseteq [box : BoxIds, req : 0..MaxRequests]
Outlived == OncePerId => \A r \in inFlight : Forgotten(r.box)

\* NoOrphanSurvives while requests are served, and not only between them.
Serving == ~Starting /\ Alive
Covered == LineageDir /\ Regular /\ Serving => Running \subseteq active \cup Recorded \cup late

OrphanInv == Core(AllLabels) /\ Sent /\ Lives /\ Stops /\ Outlived /\ Covered

\* No step of the helper gets at a forgotten box.
LEMMA ForgottenStep ==
    ASSUME NEW L, Core(L), Life, Next, OncePerId', NEW b \in BoxIds, Forgotten(b)
    PROVE  Forgotten(b)'
<1>0. /\ b \in Asked /\ b \notin active /\ b \notin Waiting /\ states[b] = "ABSENT"
      /\ \A t \in Threads : job[t].box = b => pc[t] = "admit"
      /\ b # None
  BY HelperAssumption DEF Forgotten, At
<1> USE Shapes, <1>0 DEF Forgotten, At, Goto, Return, NoJob
<1>1. CASE Client
  <2>1. /\ UNCHANGED <<active, queued, states, requests>>
        /\ \A u \in Threads \ {Main} : pc'[u] = pc[u] /\ job'[u] = job[u]
    BY <1>1 DEF Client, ReceiveDrain, ReceiveSpawn, Receive, controllerVars, tables, entries
  <2>2. Asked' = Asked /\ Waiting' = Waiting
    BY <2>1 DEF Asked, Waiting
  <2>3. job'[Main].box = b => pc'[Main] = "admit"
    BY <1>1 DEF Client, ReceiveDrain, ReceiveSpawn, Receive, JobType
  <2> QED BY <2>1, <2>2, <2>3
<1>2. ASSUME NEW t \in Threads, Shared(t) PROVE Forgotten(b)'
  <2>1. /\ requests' = requests /\ Asked' = Asked /\ pc[t] # "admit" /\ job[t].box # b
    BY <1>2 DEF Shared, CheckSpawn, MakeScratch, RunUnit, InsertStarting, UndoReservation,
                DrainNext, DrainEnds, TakeParams, RemoveQueuedEntry, ReleaseSlot, host, Asked
  <2>2. CASE CheckSpawn(t) \/ MakeScratch(t) \/ RunUnit(t)
    BY <2>1, <2>2 DEF CheckSpawn, MakeScratch, RunUnit, controllerVars, tables, entries, Waiting
  <2>3. CASE InsertStarting(t)
    <3>1. UNCHANGED <<active, queued>> /\ states'[b] = states[b]
      BY <2>1, <2>3 DEF InsertStarting, Enter, controllerVars
    <3>2. \A u \in Threads : \/ job'[u].box \in {job[t].box, None}
                             \/ job'[u] = job[u] /\ pc'[u] = pc[u]
      BY <2>3 DEF InsertStarting
    <3> QED BY <2>1, <3>1, <3>2 DEF Waiting
  <2>4. CASE UndoReservation(t) \/ ReleaseSlot(t) \/ DrainEnds(t)
    <3>1. /\ active' \subseteq active /\ UNCHANGED <<queued, states>>
          /\ job' = [job EXCEPT ![t] = NoJob] /\ \A u \in Threads \ {t} : pc'[u] = pc[u]
      BY <2>4 DEF UndoReservation, ReleaseSlot, DrainEnds, controllerVars, tables, entries,
                  Controller!Release
    <3> QED BY <2>1, <3>1 DEF Waiting
  <2>5. CASE DrainNext(t)
    BY <2>1, <2>5, QueueSteps DEF DrainNext, Controller!StartNext, tables, entries
  <2>6. CASE TakeParams(t)
    <3>1. UNCHANGED <<active, queued, states>>
      BY <2>6 DEF TakeParams, controllerVars, entries
    <3>2. job'[t].box \in {job[t].box, None} /\ \A u \in Threads \ {t} : job'[u] = job[u] /\ pc'[u] = pc[u]
      BY <2>6 DEF TakeParams, JobType
    <3> QED BY <2>1, <3>1, <3>2 DEF Waiting
  <2>7. CASE RemoveQueuedEntry(t)
    BY <2>1, <2>7 DEF RemoveQueuedEntry, Remove, Enter, controllerVars, Waiting
  <2> QED BY <1>2, <2>2, <2>3, <2>4, <2>5, <2>6, <2>7 DEF Shared
<1>3. CASE AdmitNow \/ AdmitQueued
  <2>1. PICK e : requests' = Append(requests, [box |-> job[Main].box, enforceable |-> e])
    BY <1>3 DEF AdmitNow, AdmitQueued, NewRequest
  <2>2. requests \in Seq(RequestType)
    BY DEF Core, HelperTypes
  <2>3. /\ \A m \in DOMAIN requests : m \in DOMAIN requests' /\ requests'[m] = requests[m]
        /\ Len(requests) + 1 \in DOMAIN requests' /\ Len(requests) + 1 \notin DOMAIN requests
        /\ requests'[Len(requests) + 1].box = job[Main].box
    BY <2>1, <2>2
  <2>4. job[Main].box \notin Asked /\ Asked \subseteq Asked'
    BY <2>3 DEF Asked, OncePerId
  <2>5. job[Main].box \in BoxIds /\ job[Main].box # b
    BY <1>3, <2>4 DEF AdmitNow, AdmitQueued, Placed
  <2>6. b \notin active' /\ b \notin Waiting' /\ states' = states
    BY <1>3, <2>5, QueueSteps
       DEF AdmitNow, AdmitQueued, Controller!AdmitStart, Controller!AdmitQueue, tables, entries, Waiting
  <2>7. job'[Main].box = job[Main].box /\ \A u \in Threads \ {Main} : job'[u] = job[u] /\ pc'[u] = pc[u]
    <3>1. \E m : job' = [[job EXCEPT ![Main].req = m] EXCEPT ![Main].from = "admit"]
      BY <1>3 DEF AdmitNow, AdmitQueued, NewRequest
    <3>2. \A u \in Threads \ {Main} : job'[u] = job[u] /\ pc'[u] = pc[u]
      BY <1>3, <3>1 DEF AdmitNow, AdmitQueued
    <3> QED BY <3>1, <3>2 DEF JobType
  <2> QED BY <2>4, <2>5, <2>6, <2>7
<1>4. CASE AdmitRefused
  BY <1>4 DEF AdmitRefused, controllerVars, tables, entries, Waiting, Asked
<1>5. CASE KeepParams \/ MarkQueued \/ CancelQueue \/ CancelParams \/ CancelEntry
  <2>1. pc[Main] # "admit" /\ job[Main].box # b /\ requests' = requests /\ active' = active
    BY <1>5 DEF KeepParams, MarkQueued, CancelQueue, CancelParams, CancelEntry, controllerVars,
                Controller!CancelQueued
  <2>2. Waiting' \subseteq Waiting /\ Asked' = Asked
    <3>1. CASE CancelQueue
      <4>1. CASE Controller!CancelQueued(job[Main].box)
        <5>1. job[Main].box \in BoxIds
          BY <4>1 DEF Controller!CancelQueued, Controller!Range, Waiting, Range
        <5> QED BY <2>1, <4>1, <5>1, QueueSteps DEF Asked
      <4> QED BY <2>1, <3>1, <4>1 DEF CancelQueue, controllerVars, Waiting, Asked
    <3> QED BY <1>5, <2>1, <3>1 DEF KeepParams, MarkQueued, CancelParams, CancelEntry,
                                    controllerVars, Waiting, Asked
  <2>3. states'[b] = states[b]
    BY <1>5, <2>1 DEF KeepParams, MarkQueued, CancelQueue, CancelParams, CancelEntry, Remove,
                      Enter, tables, entries
  <2>4. /\ job'[Main].box \in {job[Main].box, None}
        /\ \A u \in Threads \ {Main} : job'[u] = job[u] /\ pc'[u] = pc[u]
    BY <1>5 DEF KeepParams, MarkQueued, CancelQueue, CancelParams, CancelEntry
  <2> QED BY <2>1, <2>2, <2>3, <2>4
<1>6. CASE CancelFind
  BY <1>6 DEF CancelFind, controllerVars, tables, entries, Waiting, Asked
<1>7. CASE KillUnit \/ MarkKilled \/ CleanupUnit \/ CleanupScratch \/ CleanupEntry
  <2>1. /\ pc[Main] # "admit" /\ job[Main].box # b
        /\ UNCHANGED <<active, queued, requests>>
        /\ job'[Main].box \in {job[Main].box, None}
        /\ \A u \in Threads \ {Main} : job'[u] = job[u] /\ pc'[u] = pc[u]
    BY <1>7 DEF KillUnit, MarkKilled, CleanupUnit, CleanupScratch, CleanupEntry, controllerVars
  <2>2. states'[b] = states[b]
    BY <1>7, <2>1 DEF KillUnit, MarkKilled, CleanupUnit, CleanupScratch, CleanupEntry, Remove,
                      Enter, tables, entries
  <2> QED BY <2>1, <2>2 DEF Waiting, Asked
<1>8. ASSUME NEW n \in Watchdogs, WatchdogWakes(n) \/ WatchdogStops(n) \/ WatchdogMarks(n)
      PROVE  Forgotten(b)'
  <2>1. /\ pc[n] # "admit" /\ n \in Threads /\ job[n].box # b
        /\ UNCHANGED <<active, queued, requests>>
        /\ job'[n].box \in {job[n].box, None}
        /\ \A u \in Threads \ {n} : job'[u] = job[u] /\ pc'[u] = pc[u]
    BY <1>8 DEF WatchdogWakes, WatchdogStops, WatchdogMarks, controllerVars
  <2>2. states'[b] = states[b]
    BY <1>8, <2>1 DEF WatchdogWakes, WatchdogStops, WatchdogMarks, tables, entries
  <2> QED BY <2>1, <2>2 DEF Waiting, Asked
<1>9. ASSUME NEW c \in BoxIds, Systemd(c) PROVE Forgotten(b)'
  BY <1>9 DEF Systemd, UnitExits, UnitTimesOut, controllerVars, tables, entries, Waiting, Asked
<1> QED
  BY <1>1, <1>2, <1>3, <1>4, <1>5, <1>6, <1>7, <1>8, <1>9 DEF Next, Serve, Watchdog, Threads

\* main moves on before it serves: no thread, box or table is affected.
LEMMA MainLives ==
    ASSUME NEW L, Core(L), Life, Starting, Quiet,
           NEW l \in {"reconcile", "idle", "dead"}, pc' \in {pc, [pc EXCEPT ![Main] = l]},
           UNCHANGED <<active, queued, pending, states, requests, job>>,
           \A b \in BoxIds : units[b].st = "none" => units'[b].st = "none"
    PROVE  Life'
<1> USE Shapes DEF HoldLabels, TakeLabels, SpawnLabels, StopLabels, Starting, StartLabels, At
<1>1. /\ pc'[Main] \in {"list", "reconcile", "idle", "dead"}
      /\ Main \notin Watchdogs
      /\ \A u \in Watchdogs : pc'[u] = pc[u] /\ pc[u] \in {"unborn", "done"}
  BY HelperAssumption DEF Quiet, Main, Watchdogs
<1>2. /\ Asked' = Asked /\ Waiting' = Waiting /\ DOMAIN requests \subseteq Watchdogs
  BY DEF Asked, Waiting, Life, Births
<1>3. Started' = Started /\ Unstarted' = Unstarted
  BY <1>1, <1>2 DEF Started, Unstarted
<1>4. Dies' /\ Births' /\ Apart'
  BY <1>1, <1>2 DEF Life, Dies, Births, Apart, Threads
<1>5. ASSUME NEW u \in Threads PROVE ThreadLife(u)'
  BY <1>1 DEF ThreadLife, Threads
<1>6. ASSUME NEW b \in BoxIds PROVE BoxLife(b)' /\ KillFrees(b)' /\ Backed(b)'
  BY <1>1, <1>2, <1>3 DEF BoxLife, KillFrees, Backed, IsRequest
<1> QED BY <1>4, <1>5, <1>6 DEF Life

\* A restart forgets every box.
LEMMA RestartLives ==
    ASSUME NEW L, Core(L), OncePerId, Life, Restart
    PROVE  Life' /\ \A b \in Asked : b \in BoxIds => Forgotten(b)'
<1> USE HelperAssumption, Shapes DEF HoldLabels, TakeLabels, SpawnLabels, StopLabels, At, NoJob
<1>1. /\ active' = {} /\ queued' = <<>> /\ pending' = [b \in BoxIds |-> 0]
      /\ states' = [b \in BoxIds |-> "ABSENT"] /\ job' = [t \in Threads |-> NoJob]
      /\ UNCHANGED <<units, requests>>
  BY DEF Restart, host
<1>2. /\ pc'[Main] \in {"list", "idle"} /\ Main \notin Watchdogs /\ Main \notin DOMAIN requests
      /\ \A n \in Watchdogs : pc'[n] = IF n \in DOMAIN requests THEN "done" ELSE "unborn"
  BY DEF Restart, Main, Threads, Watchdogs, Life, Births
<1>3. /\ Asked' = Asked /\ Waiting' = {} /\ DOMAIN requests \subseteq Watchdogs
  BY <1>1 DEF Asked, Waiting, Range, Life, Births
<1>4. Started' = Asked
  BY <1>1, <1>2, <1>3 DEF Started, Asked
<1>5. Dies' /\ Births' /\ Apart'
  <2>1. \A n \in Watchdogs : n > Len(requests) => n \notin DOMAIN requests
    BY DEF Core, HelperTypes, Watchdogs
  <2> QED BY <1>1, <1>2, <1>3, <2>1 DEF Dies, Births, Apart, Threads
<1>6. ASSUME NEW u \in Threads PROVE ThreadLife(u)'
  BY <1>1, <1>2 DEF ThreadLife, Threads
<1>7. ASSUME NEW b \in BoxIds PROVE BoxLife(b)' /\ KillFrees(b)' /\ Backed(b)'
  BY <1>1, <1>3, <1>4 DEF BoxLife, KillFrees, Backed
<1>8. ASSUME NEW b \in Asked, b \in BoxIds PROVE Forgotten(b)'
  BY <1>1, <1>3, <1>8 DEF Forgotten
<1> QED BY <1>5, <1>6, <1>7, <1>8 DEF Life

\* The types and places across a restart and the start-up.
LEMMA RestartCore ==
    ASSUME Core(AllLabels), Sent, Quiet, [RestartNext]_allVars
    PROVE  Core(AllLabels)'
<1>0. /\ Main \in Threads /\ Labels \subseteq AllLabels /\ None \notin BoxIds
      /\ StartLabels \subseteq AllLabels
  BY HelperAssumption DEF Threads, AllLabels
<1>1. CASE Next /\ UNCHANGED restartVars
  BY <1>0, <1>1, ControllerInv, TypesStep, PlacesStep DEF Core
<1>2. CASE UNCHANGED allVars
  <2>1. UNCHANGED vars
    BY <1>2 DEF allVars
  <2> QED BY <1>0, <2>1, ControllerInv, TypesStep, PlacesStep DEF Core
<1>3. CASE Restart
  <2>1. Proofs!Inv'
    BY <1>3, HelperAssumption, Proofs!FreshInv DEF Restart, Proofs!LimitAssumption
  <2>2. /\ pc' \in [Threads -> {"list", "idle", "done", "unborn"}]
        /\ job' = [t \in Threads |-> NoJob]
    BY <1>3 DEF Restart
  <2>3. {"list", "idle", "done", "unborn"} \subseteq AllLabels
    BY DEF AllLabels, Labels, StartLabels
  <2>4. HelperTypes(AllLabels)'
    <3>1. NoJob \in JobType /\ "ABSENT" \in Statuses /\ 0 \in 0..MaxRequests
      BY HelperAssumption DEF NoJob, JobType, Statuses
    <3>2. /\ pending' = [b \in BoxIds |-> 0] /\ states' = [b \in BoxIds |-> "ABSENT"]
          /\ paths' = {} /\ UNCHANGED <<units, scratch, faults, requests>>
      BY <1>3 DEF Restart, host
    <3>3. pc' \in [Threads -> AllLabels] /\ job' \in [Threads -> JobType]
      BY <2>2, <2>3, <3>1
    <3> QED BY <3>1, <3>2, <3>3 DEF HelperTypes, Core
  <2>5. Places'
    BY <2>2 DEF Places, Placed, At, NoJob, TakeLabels, SpawnLabels
  <2> QED BY <2>1, <2>4, <2>5 DEF Core
<1>4. ASSUME UNCHANGED <<active, queued, pending, states, paths, requests, job>>,
             units' \in [BoxIds -> UnitType], scratch' \subseteq BoxIds, faults' \in 0..MaxFaults,
             pc' = pc \/ (Starting /\ \E l \in {"reconcile", "idle", "dead"} : Goto(Main, l))
      PROVE  Core(AllLabels)'
  <2>1. Proofs!Inv'
    BY <1>4 DEF Core, Proofs!Inv, Proofs!TypeOK, Proofs!CapacityRespected, Proofs!OnePlace,
                Proofs!Range, Proofs!IsInjective, Proofs!Cardinality
  <2>2. HelperTypes(AllLabels)'
    BY <1>0, <1>4 DEF Core, HelperTypes, Goto, AllLabels, Labels, StartLabels
  <2>3. Places'
    BY <1>0, <1>4 DEF Core, HelperTypes, Places, Placed, Goto, At, TakeLabels, SpawnLabels,
                      Starting, StartLabels
  <2> QED BY <2>1, <2>2, <2>3 DEF Core
<1>5. Fault => faults' \in 0..MaxFaults
  BY HelperAssumption DEF Fault, Core, HelperTypes
<1>6. CASE StartUp
  <2>1. CASE ListUnits \/ StartServing
    <3>1. /\ UNCHANGED <<active, queued, pending, states, paths, requests, job, units, scratch>>
          /\ faults' \in 0..MaxFaults /\ Starting
          /\ \E l \in {"reconcile", "idle", "dead"} : Goto(Main, l)
      BY <2>1, <1>5 DEF ListUnits, StartServing, NoFault, controllerVars, tables, entries, host,
                        Core, HelperTypes, Starting, StartLabels, At
    <3> QED BY <3>1, <1>4 DEF Core, HelperTypes
  <2>2. ASSUME NEW b \in BoxIds, ReconcileOrphan(b) PROVE Core(AllLabels)'
    <3>1. /\ UNCHANGED <<active, queued, pending, states, paths, requests, job>>
          /\ units' \in {units, [units EXCEPT ![b] = NoUnit]} /\ scratch' \in {scratch, scratch \ {b}}
          /\ faults' \in 0..MaxFaults /\ Starting
          /\ pc' = pc \/ Goto(Main, "dead")
      BY <2>2, <1>5 DEF ReconcileOrphan, NoFault, controllerVars, tables, entries,
                        Core, HelperTypes, Starting, StartLabels, At
    <3>2. units \in [BoxIds -> UnitType] /\ NoUnit \in UnitType
      BY HelperAssumption DEF Core, HelperTypes, NoUnit, UnitType
    <3>3. units' \in [BoxIds -> UnitType]
      BY <3>1, <3>2
    <3> QED BY <3>1, <3>3, <1>4 DEF Core, HelperTypes
  <2> QED BY <1>6, <2>1, <2>2 DEF StartUp
<1>7. ASSUME NEW r \in inFlight, LateStart(r) PROVE Core(AllLabels)'
  <2>1. [st |-> "active", req |-> r.req] \in UnitType
    BY DEF Sent, UnitType
  <2>2. units \in [BoxIds -> UnitType]
    BY DEF Core, HelperTypes
  <2>3. units' \in [BoxIds -> UnitType]
    BY <1>7, <2>1, <2>2 DEF LateStart
  <2>4. UNCHANGED <<active, queued, pending, states, paths, requests, job, pc, scratch, faults>>
    BY <1>7 DEF LateStart, controllerVars, tables, entries
  <2> QED BY <2>3, <2>4, <1>4 DEF Core, HelperTypes
<1> QED BY <1>1, <1>2, <1>3, <1>6, <1>7 DEF RestartNext

\* Whatever outlives its helper was about to start an admitted box.
LEMMA RestartSent ==
    ASSUME Core(AllLabels), Sent, [RestartNext]_allVars
    PROVE  Sent'
<1>1. CASE Restart
  <2>1. \A t \in Threads : At(t, "runUnit") =>
          [box |-> job[t].box, req |-> job[t].req] \in [box : BoxIds, req : 0..MaxRequests]
    BY DEF Core, HelperTypes, JobType, Places, Placed, At, SpawnLabels
  <2>2. inFlight' = inFlight \cup {[box |-> job[t].box, req |-> job[t].req] :
                                      t \in {u \in Threads : At(u, "runUnit")}}
    BY <1>1 DEF Restart
  <2> QED BY <2>1, <2>2 DEF Sent
<1>2. CASE StartUp \/ UNCHANGED inFlight
  <2>1. inFlight' = inFlight
    BY <1>2 DEF StartUp, ListUnits, StartServing, ReconcileOrphan, restartVars, lateVars
  <2> QED BY <2>1 DEF Sent
<1>3. ASSUME NEW r \in inFlight, LateStart(r) PROVE Sent'
  <2>1. inFlight' \subseteq inFlight
    BY <1>3 DEF LateStart
  <2> QED BY <2>1 DEF Sent
<1> QED BY <1>1, <1>2, <1>3 DEF RestartNext, restartVars, lateVars, allVars

\* A systemd-run of the old process starts a box nobody knows.
LEMMA LateLives ==
    ASSUME NEW L, Core(L), Life, Stops, NEW b \in BoxIds, Forgotten(b),
           UNCHANGED <<active, queued, pending, states, requests, pc, job, faults>>,
           \A c \in BoxIds \ {b} : units'[c] = units[c]
    PROVE  Life' /\ Stops'
<1> USE Shapes DEF Forgotten, HoldLabels, TakeLabels, SpawnLabels, StopLabels, At
<1>1. /\ Asked' = Asked /\ Started' = Started /\ Unstarted' = Unstarted /\ Waiting' = Waiting
      /\ Dies' /\ Births' /\ Apart'
  BY DEF Asked, Started, Unstarted, Waiting, Life, Dies, Births, Apart
<1>2. ASSUME NEW u \in Threads PROVE ThreadLife(u)' /\ (ThreadStops(u) => ThreadStops(u)')
  BY <1>1, StartedBoxes DEF ThreadLife, ThreadStops, IsRequest
<1>3. ASSUME NEW c \in BoxIds PROVE BoxLife(c)' /\ KillFrees(c)' /\ Backed(c)'
  BY <1>1 DEF BoxLife, IsRequest, KillFrees, Backed
<1>4. Stops'
  BY <1>2 DEF Stops, Regular, OncePerId
<1> QED BY <1>1, <1>2, <1>3, <1>4 DEF Life

\* Every step of every process keeps the invariant.
LEMMA OrphanStepInv ==
    ASSUME StartInv, OrphanInv, [RestartNext]_allVars
    PROVE  OrphanInv'
<1>0. /\ Main \in Threads /\ Main \notin Watchdogs /\ Quiet /\ Core(AllLabels) /\ Sent
      /\ Core(AllLabels)' /\ Sent'
  BY RestartCore, RestartSent, HelperAssumption DEF Threads, Main, Watchdogs, StartInv, OrphanInv
<1> USE <1>0
<1>1. CASE Next /\ UNCHANGED restartVars
  <2>1. Lives' /\ Stops' /\ (Regular' => Regular /\ Kept) /\ (OncePerId' => OncePerId /\ Life)
    BY <1>1, SlotStep, RegularBefore, OnceBefore DEF OrphanInv, Lives
  <2>2. Outlived'
    <3>1. inFlight' = inFlight
      BY <1>1 DEF restartVars, lateVars
    <3> QED BY <1>1, <2>1, <3>1, ForgottenStep DEF OrphanInv, Outlived, Sent
  <2>3. Covered'
    <3> SUFFICES ASSUME LineageDir, Regular', Serving'
                 PROVE  Running' \subseteq active' \cup Recorded \cup late'
      BY DEF Covered
    <3>1. Regular /\ Kept /\ late' = late
      BY <1>1, <2>1 DEF restartVars, lateVars
    <3>2. Serving
      <4>1. ~Starting
        BY <1>1, HelperStep DEF Serving, StartInv, Starting
      <4>2. Alive
        <5> SUFFICES ASSUME pc[Main] = "dead" PROVE pc'[Main] = "dead"
          BY DEF Serving, Alive, At
        <5>1. \A t \in Threads : pc[t] \in {"dead", "done", "unborn"}
          BY <2>1, <3>1 DEF Regular, Life, Dies, At, OrphanInv, Lives
        <5> QED
          BY <1>1, <5>1
          DEF Next, Client, ReceiveDrain, ReceiveSpawn, Receive, Serve, Shared, CheckSpawn,
              MakeScratch, RunUnit, InsertStarting, UndoReservation, DrainNext, DrainEnds,
              TakeParams, RemoveQueuedEntry, ReleaseSlot, AdmitNow, AdmitQueued, AdmitRefused,
              KeepParams, MarkQueued, CancelFind, CancelQueue, CancelParams, CancelEntry,
              KillUnit, MarkKilled, CleanupUnit, CleanupScratch, CleanupEntry, Watchdog,
              WatchdogWakes, WatchdogStops, WatchdogMarks, Systemd, UnitExits, UnitTimesOut,
              At, Threads
      <4> QED BY <4>1, <4>2 DEF Serving
    <3> QED BY <3>1, <3>2 DEF OrphanInv, Covered, Kept
  <2> QED BY <2>1, <2>2, <2>3 DEF OrphanInv
<1>2. CASE UNCHANGED allVars
  <2>1. UNCHANGED vars /\ UNCHANGED <<inFlight, late>>
    BY <1>2 DEF allVars, restartVars, lateVars
  <2>2. Lives' /\ Stops'
    BY <2>1, SlotStep DEF OrphanInv
  <2>3. Outlived' /\ Covered'
    BY <2>1 DEF vars, OrphanInv, Outlived, OncePerId, Forgotten, Asked, Waiting, At, Covered,
                Regular, Serving, Starting, Alive, Running
  <2> QED BY <2>2, <2>3 DEF OrphanInv
<1>3. CASE Restart
  <2>1. /\ UNCHANGED <<requests, faults>> /\ OncePerId' = OncePerId
        /\ inFlight' = inFlight \cup {[box |-> job[t].box, req |-> job[t].req] :
                                          t \in {u \in Threads : At(u, "runUnit")}}
    BY <1>3 DEF Restart, host, OncePerId
  <2>2. OncePerId => Life' /\ \A b \in Asked : b \in BoxIds => Forgotten(b)'
    BY <1>3, RestartLives DEF OrphanInv, Lives
  <2>3. Lives'
    BY <2>1, <2>2 DEF Lives
  <2>4. Stops' /\ Covered'
    <3>1. /\ \A t \in Threads : pc'[t] \in {"list", "idle", "done", "unborn"}
          /\ LineageDir => pc'[Main] = "list"
      <4>1. pc' = [t \in Threads |->
                     CASE t = Main -> IF LineageDir THEN "list" ELSE "idle"
                       [] t \in DOMAIN requests -> "done"
                       [] OTHER -> "unborn"]
        BY <1>3 DEF Restart
      <4>2. Main \notin DOMAIN requests
        BY DEF Core, HelperTypes, Main
      <4> QED BY <4>1, <4>2
    <3>2. Stops'
      BY <3>1 DEF Stops, ThreadStops
    <3> QED BY <3>1, <3>2 DEF Covered, Serving, Starting, StartLabels, At
  <2>5. OncePerId => \A r \in inFlight' : r.box \in Asked
    <3>1. ASSUME OncePerId, NEW t \in Threads, At(t, "runUnit") PROVE job[t].box \in Asked
      BY <3>1 DEF OrphanInv, Lives, Life, ThreadLife, At, HoldLabels, SpawnLabels
    <3> QED BY <2>1, <3>1 DEF OrphanInv, Outlived, Forgotten
  <2>6. Outlived'
    BY <2>1, <2>2, <2>5 DEF Outlived, Sent
  <2> QED BY <2>3, <2>4, <2>6 DEF OrphanInv
<1>4. ASSUME Starting, NEW l \in {"reconcile", "idle", "dead"}, pc' \in {pc, [pc EXCEPT ![Main] = l]},
             UNCHANGED <<active, queued, pending, states, requests, job, inFlight>>,
             \A b \in BoxIds : units[b].st = "none" => units'[b].st = "none"
      PROVE  Lives' /\ Stops' /\ Outlived'
  <2>1. OncePerId' = OncePerId /\ Asked' = Asked /\ Waiting' = Waiting
    BY <1>4 DEF OncePerId, Asked, Waiting
  <2>2. Lives'
    BY <1>4, <2>1, MainLives DEF OrphanInv, Lives
  <2>3. \A t \in Threads : pc'[t] \in {"unborn", "done", "list", "reconcile", "idle", "dead"}
    BY <1>4 DEF Quiet, Starting, StartLabels, Threads, Core, HelperTypes
  <2>4. Stops'
    BY <2>3 DEF Stops, ThreadStops
  <2>5. \A t \in Threads : pc[t] # "admit"
    BY <1>4 DEF Quiet, Starting, StartLabels, Threads
  <2>6. Outlived'
    BY <1>4, <2>1, <2>5 DEF OrphanInv, Outlived, Forgotten, At
  <2> QED BY <2>2, <2>4, <2>6
<1>5. CASE StartUp
  <2>1. CASE ListUnits \/ StartServing
    <3>1. /\ UNCHANGED <<active, queued, pending, states, requests, job, inFlight, units>>
          /\ \E l \in {"reconcile", "idle", "dead"} : Goto(Main, l) /\ (l = "idle" => StartServing)
          /\ Starting
      BY <2>1 DEF ListUnits, StartServing, controllerVars, tables, entries, host, restartVars,
                  lateVars, Starting, StartLabels, At
    <3>2. Lives' /\ Stops' /\ Outlived'
      BY <3>1, <1>4 DEF Goto
    <3>3. CASE StartServing
      <4>1. Running \subseteq Recorded \cup late
        BY <3>3 DEF StartServing, StartInv, Swept
      <4> QED BY <3>1, <3>2, <3>3, <4>1
              DEF StartServing, restartVars, lateVars, Running, Covered, OrphanInv
    <3>4. CASE ~StartServing
      <4>1. ~Serving'
        BY <3>1, <3>4 DEF Serving, Starting, StartLabels, Alive, At, Goto, Core, HelperTypes
      <4> QED BY <3>2, <4>1 DEF Covered, OrphanInv
    <3> QED BY <3>3, <3>4
  <2>2. ASSUME NEW b \in BoxIds, ReconcileOrphan(b) PROVE OrphanInv'
    <3>1. /\ UNCHANGED <<active, queued, pending, states, requests, job, inFlight>>
          /\ pc' = pc \/ Goto(Main, "dead")
          /\ units' \in {units, [units EXCEPT ![b] = NoUnit]}
          /\ Starting
      BY <2>2 DEF ReconcileOrphan, controllerVars, tables, entries, lateVars, Starting,
                  StartLabels, At
    <3>2. \A c \in BoxIds : units[c].st = "none" => units'[c].st = "none"
      BY <3>1 DEF NoUnit, Core, HelperTypes
    <3>3. Lives' /\ Stops' /\ Outlived'
      BY <3>1, <3>2, <1>4 DEF Goto
    <3>4. ~Serving'
      BY <3>1 DEF Serving, Starting, StartLabels, Alive, At, Goto, Core, HelperTypes
    <3> QED BY <3>3, <3>4 DEF Covered, OrphanInv
  <2> QED BY <1>5, <2>1, <2>2 DEF StartUp
<1>6. ASSUME NEW r \in inFlight, LateStart(r) PROVE OrphanInv'
  <2>1. /\ UNCHANGED <<active, queued, pending, states, requests, pc, job, faults>>
        /\ inFlight' \subseteq inFlight
        /\ \/ UNCHANGED <<units, late>>
           \/ /\ \A c \in BoxIds \ {r.box} : units'[c] = units[c]
              /\ late' = late \cup {r.box}
    BY <1>6 DEF LateStart, controllerVars, tables, entries, Core, HelperTypes
  <2>2. OncePerId' = OncePerId /\ Asked' = Asked /\ Waiting' = Waiting
    BY <2>1 DEF OncePerId, Asked, Waiting
  <2>3. \A c \in BoxIds \ {r.box} : units'[c] = units[c]
    BY <2>1
  <2>4. Lives' /\ Stops'
    <3>1. CASE ~OncePerId
      BY <2>2, <3>1 DEF Lives, Stops, Regular
    <3>2. CASE OncePerId
      BY <2>1, <2>3, <3>2, LateLives DEF OrphanInv, Outlived, Lives, Sent
    <3> QED BY <3>1, <3>2
  <2>5. Outlived'
    BY <2>1, <2>2 DEF OrphanInv, Outlived, Forgotten, At
  <2>6. Covered'
    <3>1. Running' \cup late' \subseteq Running \cup late' /\ late \subseteq late'
      BY <2>1 DEF Running
    <3> QED BY <2>1, <2>2, <3>1 DEF OrphanInv, Covered, Regular, Serving, Starting, Alive, At
  <2> QED BY <2>4, <2>5, <2>6 DEF OrphanInv
<1> QED BY <1>1, <1>2, <1>3, <1>5, <1>6 DEF RestartNext

LEMMA InitOrphanInv == RestartInit => OrphanInv
<1> SUFFICES ASSUME RestartInit PROVE OrphanInv
  OBVIOUS
<1>1. Inv /\ SlotInv
  BY InitInv, InitSlotInv DEF RestartInit
<1>2. Core(AllLabels)
  BY <1>1 DEF Inv, Core, HelperTypes, AllLabels
<1>3. inFlight = {} /\ Running = {}
  BY DEF RestartInit, Init, Running, NoUnit
<1> QED BY <1>1, <1>2, <1>3 DEF SlotInv, OrphanInv, Sent, Outlived, Covered

\* With a lineage directory, across any number of crashes at any point and of
\* late systemd-runs: in a regular history every running box has a slot, a
\* record, or was started behind the back of the start-up's listing.
THEOREM RestartLeavesNoOrphan == RestartSpec => []NoOrphanSurvives
<1>1. StartInv /\ OrphanInv /\ [RestartNext]_allVars => StartInv' /\ OrphanInv'
  BY StartStep, OrphanStepInv
<1>2. OrphanInv => NoOrphanSurvives
  BY DEF OrphanInv, Covered, Serving, Starting, StartLabels, Alive, At, NoOrphanSurvives
<1> QED BY <1>1, <1>2, InitStartInv, InitOrphanInv, PTL DEF RestartSpec
=============================================================================
