----------------------------- MODULE HelperRestart -----------------------------
(***************************************************************************)
(* The helper across restarts (main and reconcile_orphaned_boxes of        *)
(* viper-helper.rs).  A crash, or the panic of the server thread, loses    *)
(* both tables, the controller and every watchdog; systemd keeps the units *)
(* and the file system the scratch directories.  Before it binds its       *)
(* socket the new process lists the active units and stops and cleans up   *)
(* those without a lineage record; any failure ends the start.             *)
(***************************************************************************)
EXTENDS Helper

CONSTANTS
    Recorded,    (* boxes with a lineage record; written outside the helper *)
    LineageDir,  (* does the lineage directory exist?                      *)
    MaxCrashes   (* bound: restarts                                        *)

ASSUME RestartAssumption ==
    Recorded \subseteq BoxIds /\ LineageDir \in BOOLEAN /\ MaxCrashes \in Nat

VARIABLES
    orphans,     (* listed units that are still to be reconciled           *)
    crashes,     (* restarts so far                                        *)
    inFlight,    (* box and request of each systemd-run that outlived the  *)
                 (* helper that ran it                                     *)
    late         (* history: boxes such a one started since the listing    *)

lateVars == <<inFlight, late>>
restartVars == <<orphans, crashes, lateVars>>
allVars == <<vars, restartVars>>

RestartInit ==
    /\ Init
    /\ orphans = {} /\ crashes = 0
    /\ inFlight = {} /\ late = {}

\* A new process: main builds empty tables.  It lists units only if the
\* lineage directory exists, and serves at once otherwise.
Restart ==
    /\ crashes < MaxCrashes /\ crashes' = crashes + 1
    /\ active' = {} /\ queued' = <<>>
    /\ pending' = [b \in BoxIds |-> 0]
    /\ states' = [b \in BoxIds |-> "ABSENT"] /\ paths' = {}
    /\ job' = [t \in Threads |-> NoJob]
    /\ pc' = [t \in Threads |->
                CASE t = Main -> IF LineageDir THEN "list" ELSE "idle"
                  [] t \in DOMAIN requests -> "done"
                  [] OTHER -> "unborn"]
    /\ orphans' = {}
    /\ inFlight' = inFlight \cup {[box |-> job[t].box, req |-> job[t].req] :
                                   t \in {u \in Threads : At(u, "runUnit")}}
    /\ UNCHANGED <<host, requests, late>>

\* A systemd-run that outlived the helper gets to systemd, or never does.
LateStart(r) ==
    /\ r \in inFlight /\ inFlight' = inFlight \ {r}
    /\ \/ /\ units[r.box].st = "none"
          /\ units' = [units EXCEPT ![r.box] = [st |-> "active", req |-> r.req]]
          /\ late' = late \cup {r.box}
       \/ UNCHANGED <<units, late>>
    /\ UNCHANGED <<controllerVars, tables, scratch, faults, requests, pc, job,
                   orphans, crashes>>

\* Mutant of ListUnits: the recorded boxes are the ones to stop.
ListUnitsInverted ==
    /\ At(Main, "list")
    /\ \/ /\ NoFault /\ orphans' = Running \cap Recorded
          /\ Goto(Main, "reconcile")
       \/ Fault /\ UNCHANGED orphans /\ Goto(Main, "dead")
    /\ late' = {}
    /\ UNCHANGED <<controllerVars, tables, units, scratch, requests, job, crashes,
                   inFlight>>

\* systemctl list-units --state=active: failed units are not listed.
ListUnits ==
    /\ At(Main, "list")
    /\ \/ /\ NoFault /\ orphans' = Running \ Recorded
          /\ Goto(Main, "reconcile")
       \/ Fault /\ UNCHANGED orphans /\ Goto(Main, "dead")
    /\ late' = {}
    /\ UNCHANGED <<controllerVars, tables, units, scratch, requests, job, crashes,
                   inFlight>>

\* Mutant of ReconcileOrphan: a failed stop does not end the start.
ReconcileOrphanIgnoresFailure(b) ==
    /\ At(Main, "reconcile") /\ b \in orphans
    /\ scratch' = scratch \ {b} /\ orphans' = orphans \ {b}
    /\ \/ NoFault /\ units' = [units EXCEPT ![b] = NoUnit]
       \/ Fault /\ UNCHANGED units
    /\ UNCHANGED <<controllerVars, tables, requests, pc, job, crashes, lateVars>>

\* One orphan: stop, reset-failed, remove the scratch directory (which may be
\* gone already), append to the audit log.  stop fails when the unit ended
\* after it was listed; a fault is the failure of any of the four.
ReconcileOrphan(b) ==
    /\ At(Main, "reconcile") /\ b \in orphans
    /\ LET stopped == [units EXCEPT ![b] = NoUnit]
           removed == scratch \ {b}
       IN \/ /\ NoFault /\ units' = stopped /\ scratch' = removed
             /\ IF units[b].st # "none"
                THEN orphans' = orphans \ {b} /\ UNCHANGED pc
                ELSE orphans' = {} /\ Goto(Main, "dead")
          \/ /\ Fault /\ units' \in {units, stopped} /\ scratch' \in {scratch, removed}
             /\ orphans' = {} /\ Goto(Main, "dead")
    /\ UNCHANGED <<controllerVars, tables, requests, job, crashes, lateVars>>

\* bind_unix_socket: the first request can come in.
StartServing ==
    /\ At(Main, "reconcile") /\ orphans = {}
    /\ Goto(Main, "idle")
    /\ UNCHANGED <<controllerVars, tables, host, requests, job, restartVars>>

StartUp == ListUnits \/ StartServing \/ \E b \in BoxIds : ReconcileOrphan(b)

RestartNext ==
    \/ Next /\ UNCHANGED restartVars
    \/ Restart \/ StartUp
    \/ \E r \in inFlight : LateStart(r)

RestartSpec == RestartInit /\ [][RestartNext]_allVars

\* FairSpec of Helper, with the start as a part of the server thread.  Nobody
\* need restart a helper, and a systemd-run of the old one need not go on.
RestartFairSpec ==
    /\ RestartSpec
    /\ WF_allVars((Serve /\ UNCHANGED restartVars) \/ StartUp)
    /\ \A n \in Watchdogs : WF_allVars(Watchdog(n) /\ UNCHANGED restartVars)
-----------------------------------------------------------------------------
\* After a restart that found the lineage directory, whatever the old process
\* was doing when it died, a running box holds a slot of the new process, or
\* has a lineage record, or was started after the listing by a systemd-run of
\* the old process (in the histories that Helper calls regular).
NoOrphanSurvives ==
    LineageDir /\ At(Main, "idle") /\ Regular => Running \subseteq active \cup Recorded \cup late

\* A start that could not clean up every orphan does not serve: requests are
\* answered only once every orphan it listed is stopped.
FailsClosed == [][
    At(Main, "reconcile") /\ At(Main, "idle")' => Running \subseteq Recorded \cup late]_allVars
=============================================================================
