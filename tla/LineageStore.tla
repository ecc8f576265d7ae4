----------------------------- MODULE LineageStore -----------------------------
(***************************************************************************)
(* The lineage store (lineage.rs): one JSON file per box, written through  *)
(* a temporary file and a rename, and an index of it in memory.  One       *)
(* process, the writer, registers boxes, may fail in every system call,    *)
(* and may crash between any two of them.  Another one, the starting       *)
(* helper, opens the same directory meanwhile: read_dir promises it the    *)
(* files that are there from the beginning to the end of the scan, and no  *)
(* more.                                                                   *)
(*                                                                         *)
(* A policy is what a child may not exceed: the gateways it can reach, and *)
(* a limit that stands for ttl, CPU quota and memory, which are compared   *)
(* alike.  Records that validate_record refuses never get further.         *)
(***************************************************************************)
EXTENDS Naturals, FiniteSets

CONSTANTS
    Boxes,      (* box ids                                                 *)
    None,       (* no box, no record                                       *)
    Gateways,   (* gateway references                                      *)
    MaxLimit,   (* bound: limits of a policy                               *)
    MaxCrashes, (* bound: crashes of the writer                            *)
    MaxFailures (* bound: system calls of the writer that fail             *)

Policies == [gateways : SUBSET Gateways, limit : 0..MaxLimit]

ASSUME LineageAssumption ==
    None \notin Boxes \cup Policies /\ {MaxLimit, MaxCrashes, MaxFailures} \subseteq Nat

Records == [parent : Boxes \cup {None}, policy : Policies]

\* Every box has a record, the empty one without a file (or index entry).
NoRecord == [parent |-> None, policy |-> None]

VARIABLES
    disk,       (* box -> record in <box>.json                             *)
    temps,      (* temporary files: <<box, sequence>>                      *)
    index,      (* box -> record in the writer's memory                    *)
    pc, job,    (* the writer's place in register, and its locals          *)
    sequence,   (* WRITE_SEQUENCE of the writer's process                  *)
    crashes, failures,  (* so far                                          *)
    returned,   (* history: boxes whose register returned Ok               *)
    scan        (* the helper's open: where it is, what it has read, which *)
                (* files it must still see; history: the boxes that were   *)
                (* registered when it began                                *)

writerVars == <<index, pc, job, sequence>>
ends == <<crashes, failures>>
vars == <<disk, temps, writerVars, ends, returned, scan>>

Known(records) == {b \in Boxes : records[b] # NoRecord}

NoJob == [box |-> None, record |-> NoRecord, sequence |-> 0]
NoScan == [at |-> "off", seen |-> [b \in Boxes |-> NoRecord], due |-> {},
           promised |-> {}]

Init ==
    /\ disk = [b \in Boxes |-> NoRecord]
    /\ temps = {}
    /\ index = [b \in Boxes |-> NoRecord]
    /\ pc = "down" /\ job = NoJob /\ sequence = 0
    /\ crashes = 0 /\ failures = 0 /\ returned = {}
    /\ scan = NoScan

\* PolicySnapshot::is_narrower_than
Narrower(child, parent) ==
    child.gateways \subseteq parent.gateways /\ child.limit <= parent.limit

\* Mutant of Fits: any known parent will do.
FitsKnown(record, records) ==
    record.parent # None => record.parent \in Known(records)

\* The parent is known, and the policy does not broaden it.
Fits(record, records) ==
    record.parent # None =>
        /\ record.parent \in Known(records)
        /\ Narrower(record.policy, records[record.parent].policy)

\* What open checks of the records it has read.
Consistent(records) == \A b \in Known(records) : Fits(records[b], records)
-----------------------------------------------------------------------------
(* The writer                                                               *)

\* open; nobody else writes, so the scan and the checks are one step.
Open ==
    /\ pc = "down"
    /\ IF Consistent(disk) THEN pc' = "idle" /\ index' = disk
                           ELSE pc' = "broken" /\ UNCHANGED index
    /\ UNCHANGED <<disk, temps, job, sequence, ends, returned, scan>>

\* Mutant of Register: a known box is registered again.
RegisterAgain(b) == \E record \in Records :
    /\ pc = "idle" /\ record.parent # b /\ Fits(record, index)
    /\ job' = [box |-> b, record |-> record, sequence |-> sequence]
    /\ sequence' = sequence + 1
    /\ pc' = "create"
    /\ UNCHANGED <<disk, temps, index, ends, returned, scan>>

\* register, as far as its checks: an existing record is immutable, and a
\* child may not broaden its parent.  A refused one changes nothing.
Register(b) == \E record \in Records :
    /\ pc = "idle" /\ b \notin Known(index) /\ Fits(record, index)
    /\ job' = [box |-> b, record |-> record, sequence |-> sequence]
    /\ sequence' = sequence + 1
    /\ pc' = "create"
    /\ UNCHANGED <<disk, temps, index, ends, returned, scan>>

\* Mutants of Fails: the record stays in the index that was told of it too
\* early; the failed attempt is not given up.
FailsKnown ==
    /\ pc \in {"create", "write", "rename"} /\ failures < MaxFailures
    /\ failures' = failures + 1
    /\ index' = [index EXCEPT ![job.box] = job.record]
    /\ pc' = "idle" /\ job' = NoJob
    /\ UNCHANGED <<disk, temps, sequence, crashes, returned, scan>>

FailsBusy ==
    /\ pc \in {"create", "write", "rename"} /\ failures < MaxFailures
    /\ failures' = failures + 1
    /\ pc' = "idle"
    /\ UNCHANGED <<disk, temps, index, job, sequence, crashes, returned, scan>>

\* An error of any system call: register returns it, and cleans up nothing.
Fails ==
    /\ pc \in {"create", "write", "rename"} /\ failures < MaxFailures
    /\ failures' = failures + 1
    /\ pc' = "idle" /\ job' = NoJob
    /\ UNCHANGED <<disk, temps, index, sequence, crashes, returned, scan>>

Temporary == <<job.box, job.sequence>>

\* create_new: the file that an earlier process left under the same sequence
\* number makes the call fail (which counts to no bound).
CreateTemp ==
    /\ pc = "create"
    /\ IF Temporary \in temps
       THEN pc' = "idle" /\ job' = NoJob /\ UNCHANGED temps
       ELSE pc' = "write" /\ temps' = temps \cup {Temporary} /\ UNCHANGED job
    /\ UNCHANGED <<disk, index, sequence, ends, returned, scan>>

\* write_all, sync_all: the temporary file is complete.
WriteTemp ==
    /\ pc = "write"
    /\ pc' = "rename"
    /\ UNCHANGED <<disk, temps, index, job, sequence, ends, returned, scan>>

\* Mutant of Rename: the caller is told before the file is in place.
RenameReturnsEarly ==
    /\ pc = "rename"
    /\ temps' = temps \ {Temporary}
    /\ index' = [index EXCEPT ![job.box] = job.record]
    /\ returned' = returned \cup {job.box}
    /\ pc' = "insert"
    /\ UNCHANGED <<disk, job, sequence, ends, scan>>

Rename ==
    /\ pc = "rename"
    /\ disk' = [disk EXCEPT ![job.box] = job.record]
    /\ temps' = temps \ {Temporary}
    /\ pc' = "insert"
    /\ UNCHANGED <<index, job, sequence, ends, returned, scan>>

Insert ==
    /\ pc = "insert"
    /\ index' = [index EXCEPT ![job.box] = job.record]
    /\ returned' = returned \cup {job.box}
    /\ pc' = "idle" /\ job' = NoJob
    /\ UNCHANGED <<disk, temps, sequence, ends, scan>>

\* The process dies; the next one starts to count at zero.
Crash ==
    /\ pc \notin {"down", "broken"} /\ crashes < MaxCrashes
    /\ crashes' = crashes + 1
    /\ pc' = "down" /\ job' = NoJob /\ sequence' = 0
    /\ index' = [b \in Boxes |-> NoRecord]
    /\ UNCHANGED <<disk, temps, failures, returned, scan>>

Writer == Open \/ Fails \/ CreateTemp \/ WriteTemp \/ Rename \/ Insert \/ Crash
            \/ \E b \in Boxes : Register(b)
-----------------------------------------------------------------------------
(* The helper's open, concurrent with the writer                            *)

ScanBegins ==
    /\ scan.at = "off"
    /\ scan' = [NoScan EXCEPT !.at = "reading", !.due = Known(disk),
                              !.promised = returned]
    /\ UNCHANGED <<disk, temps, writerVars, ends, returned>>

\* A file is read: one that was there when the scan began, or one that came
\* since and read_dir happens to return.
ScanReads(b) ==
    /\ scan.at = "reading" /\ b \in Known(disk) \ Known(scan.seen)
    /\ scan' = [scan EXCEPT !.seen[b] = disk[b], !.due = @ \ {b}]
    /\ UNCHANGED <<disk, temps, writerVars, ends, returned>>

\* Mutant of ScanFails: a file that cannot be read is left out.
ScanSkips ==
    /\ scan.at = "reading" /\ scan.due # {}
    /\ \E b \in scan.due : scan' = [scan EXCEPT !.due = @ \ {b}]
    /\ UNCHANGED <<disk, temps, writerVars, ends, returned>>

\* A file cannot be read: the start fails.
ScanFails ==
    /\ scan.at = "reading" /\ scan.due # {}
    /\ scan' = [scan EXCEPT !.at = "failed"]
    /\ UNCHANGED <<disk, temps, writerVars, ends, returned>>

\* All that must be seen has been: the records are checked.
ScanEnds ==
    /\ scan.at = "reading" /\ scan.due = {}
    /\ scan' = [scan EXCEPT !.at = IF Consistent(scan.seen) THEN "open" ELSE "failed"]
    /\ UNCHANGED <<disk, temps, writerVars, ends, returned>>

Scanner == ScanBegins \/ ScanFails \/ ScanEnds \/ \E b \in Boxes : ScanReads(b)

Next == Writer \/ Scanner

Spec == Init /\ [][Next]_vars
-----------------------------------------------------------------------------
MaybeRecords == [Boxes -> Records \cup {NoRecord}]

TypeOK ==
    /\ disk \in MaybeRecords /\ index \in MaybeRecords
    /\ temps \subseteq Boxes \X Nat
    /\ pc \in {"down", "broken", "idle", "create", "write", "rename", "insert"}
    /\ (pc \in {"down", "broken", "idle"}) = (job = NoJob)
    /\ job \in [box : Boxes \cup {None}, record : Records \cup {NoRecord}, sequence : Nat]
    /\ sequence \in Nat /\ crashes \in 0..MaxCrashes
    /\ failures \in 0..MaxFailures
    /\ returned \subseteq Boxes
    /\ scan \in [at : {"off", "reading", "failed", "open"}, seen : MaybeRecords,
                 due : SUBSET Boxes, promised : SUBSET Boxes]

\* Fail-closed never means locked out: whatever step the writer died in, the
\* directory it leaves can be opened again.
Reopens == Consistent(disk)

\* Registered is durable: no crash of the process takes back a record whose
\* register returned.
RegisteredIsDurable == returned \subseteq Known(disk)

\* A record, once on disk, is never replaced, not even by a later process
\* that registers the same box with another policy.
RecordsAreImmutable == [][\A b \in Known(disk) : disk'[b] = disk[b]]_disk

\* The boxes on the way from b to the root of its lineage: those in every set
\* that has b, and with a box also its parent.
Ancestors(b) ==
    {a \in Boxes : \A line \in SUBSET Boxes :
        b \in line /\ (\A x \in line : disk[x].parent \in line \cup {None}) => a \in line}

\* No chain of registrations broadens a policy: a box is within the policy of
\* every ancestor, all of them are known, and it is never its own ancestor.
LineageNarrows == \A b \in Known(disk) : \A a \in Ancestors(b) :
    /\ a \in Known(disk) /\ Narrower(disk[b].policy, disk[a].policy)
    /\ disk[a].parent # b

\* A helper whose start succeeds knows every box that was registered when it
\* began, so that it stops none of them as an orphan, and it knows each of
\* them with its policy.
ScanIsComplete == scan.at = "open" =>
    \A b \in scan.promised : b \in Known(scan.seen) /\ scan.seen[b] = disk[b]
=============================================================================
