----------------------------- MODULE LineageProofs -----------------------------
(***************************************************************************)
(* The lineage store for every number of boxes, crashes and failing system *)
(* calls: the directory can always be opened, records last and never       *)
(* change, no chain of them broadens a policy, and a scan that succeeds    *)
(* knows every registered box.                                             *)
(***************************************************************************)
EXTENDS LineageStore, TLAPS

\* While the writer serves, its index is what is on disk, except between the
\* rename and the insertion of a record.
IndexMatches ==
    /\ pc \in {"idle", "create", "write", "rename"} => index = disk
    /\ pc = "insert" => disk = [index EXCEPT ![job.box] = job.record]

\* The record on its way to the disk is new there, and fits.
JobFits ==
    /\ pc \in {"create", "write", "rename", "insert"} =>
          job.box \in Boxes /\ job.record \in Records
    /\ pc \in {"create", "write", "rename"} =>
          job.box \notin Known(disk) /\ Fits(job.record, disk)

\* What the scan has read is on disk, and what it was promised it has read or
\* still must.
ScanMatches ==
    /\ \A b \in Known(scan.seen) : scan.seen[b] = disk[b]
    /\ scan.promised \subseteq Known(scan.seen) \cup scan.due
    /\ scan.at = "open" => scan.due = {}

Inv == /\ TypeOK /\ IndexMatches /\ JobFits /\ ScanMatches
       /\ Reopens /\ RegisteredIsDurable

LEMMA InitInv == Init => Inv
<1> SUFFICES ASSUME Init PROVE Inv
  OBVIOUS
<1> USE LineageAssumption DEF Init, NoJob, NoScan
<1>1. TypeOK
  BY DEF TypeOK, MaybeRecords
<1>2. Known(disk) = {} /\ Known(scan.seen) = {}
  BY DEF Known
<1>3. IndexMatches /\ JobFits /\ ScanMatches
  BY <1>2 DEF IndexMatches, JobFits, ScanMatches
<1>4. Reopens /\ RegisteredIsDurable
  BY <1>2 DEF Reopens, Consistent, RegisteredIsDurable
<1> QED BY <1>1, <1>3, <1>4 DEF Inv
-----------------------------------------------------------------------------
\* A record is never the empty one.
LEMMA NoRecordIsNone == NoRecord \notin Records
BY LineageAssumption DEF Records, NoRecord

\* A record written for b makes b known, and leaves the others as they are.
LEMMA KnownWith ==
    ASSUME NEW records \in MaybeRecords, NEW b \in Boxes, NEW r \in Records
    PROVE  /\ [records EXCEPT ![b] = r] \in MaybeRecords
           /\ Known([records EXCEPT ![b] = r]) = Known(records) \cup {b}
BY NoRecordIsNone DEF MaybeRecords, Known

\* New records that fit leave the directory consistent: a box that was not
\* known was nobody's parent.
LEMMA ConsistentWith ==
    ASSUME NEW records \in MaybeRecords, NEW b \in Boxes \ Known(records), NEW r \in Records,
           Consistent(records), Fits(r, records)
    PROVE  Consistent([records EXCEPT ![b] = r])
<1> DEFINE with == [records EXCEPT ![b] = r]
<1>1. Known(with) = Known(records) \cup {b}
  BY KnownWith
<1>2. \A a \in Known(records) : with[a] = records[a]
  BY DEF MaybeRecords, Known
<1>3. with[b] = r
  BY DEF MaybeRecords
<1> HIDE DEF with
<1>4. ASSUME NEW q, Fits(q, records) PROVE Fits(q, with)
  BY <1>1, <1>2, <1>4 DEF Fits
<1>5. \A a \in Known(records) : Fits(with[a], with)
  BY <1>2, <1>4 DEF Consistent
<1> QED BY <1>1, <1>3, <1>4, <1>5 DEF Consistent, with
-----------------------------------------------------------------------------
LEMMA TypeStep ==
    ASSUME Inv, [Next]_vars
    PROVE  TypeOK'
<1> USE LineageAssumption DEF Inv, TypeOK, writerVars, ends
<1>1. CASE Open
  BY <1>1 DEF Open
<1>2. ASSUME NEW b \in Boxes, Register(b) PROVE TypeOK'
  BY <1>2 DEF Register, NoJob
<1>3. CASE Fails
  BY <1>3 DEF Fails, NoJob
<1>4. CASE CreateTemp
  BY <1>4 DEF CreateTemp, NoJob, JobFits, Temporary
<1>5. CASE WriteTemp
  BY <1>5 DEF WriteTemp
<1>6. CASE Rename
  <2>1. disk' \in MaybeRecords
    BY <1>6, KnownWith DEF Rename, JobFits
  <2> QED BY <1>6, <2>1 DEF Rename
<1>7. CASE Insert
  BY <1>7, KnownWith DEF Insert, NoJob, JobFits
<1>8. CASE Crash
  BY <1>8 DEF Crash, NoJob, MaybeRecords
<1>9. CASE ScanBegins
  BY <1>9 DEF ScanBegins, NoScan, MaybeRecords, Known
<1>10. ASSUME NEW b \in Boxes, ScanReads(b) PROVE TypeOK'
  BY <1>10 DEF ScanReads, MaybeRecords, Known
<1>11. CASE ScanFails
  BY <1>11 DEF ScanFails
<1>12. CASE ScanEnds
  BY <1>12 DEF ScanEnds
<1>13. CASE UNCHANGED vars
  BY <1>13 DEF vars
<1> QED BY <1>1, <1>2, <1>3, <1>4, <1>5, <1>6, <1>7, <1>8, <1>9, <1>10, <1>11, <1>12, <1>13
        DEF Next, Writer, Scanner

\* Only Rename changes the directory, and only by a new record that fits.
LEMMA DiskStep ==
    ASSUME Inv, [Next]_vars
    PROVE  /\ Reopens' /\ Known(disk) \subseteq Known(disk)'
           /\ \A b \in Known(disk) : disk'[b] = disk[b]
<1>1. CASE Rename
  <2>1. /\ disk \in MaybeRecords /\ job.box \in Boxes \ Known(disk) /\ job.record \in Records
        /\ Consistent(disk) /\ Fits(job.record, disk)
        /\ disk' = [disk EXCEPT ![job.box] = job.record]
    BY <1>1 DEF Rename, Inv, TypeOK, JobFits, Reopens
  <2>2. Consistent(disk')
    BY <2>1, ConsistentWith
  <2>3. Known(disk') = Known(disk) \cup {job.box}
    BY <2>1, KnownWith
  <2>4. \A b \in Known(disk) : disk'[b] = disk[b]
    BY <2>1 DEF MaybeRecords, Known
  <2>5. Reopens' /\ Known(disk)' = Known(disk')
    BY <2>2 DEF Reopens, Consistent, Known, Fits
  <2> QED BY <2>3, <2>4, <2>5
<1>2. CASE UNCHANGED disk
  <2>1. Reopens' /\ Known(disk)' = Known(disk)
    BY <1>2 DEF Inv, Reopens, Consistent, Known, Fits
  <2> QED BY <1>2, <2>1
<1>3. Rename \/ UNCHANGED disk
  BY DEF Next, Writer, Scanner, Open, Register, Fails, CreateTemp, WriteTemp, Insert, Crash,
         ScanBegins, ScanReads, ScanFails, ScanEnds, vars
<1> QED BY <1>1, <1>2, <1>3

LEMMA WriterStep ==
    ASSUME Inv, [Next]_vars
    PROVE  IndexMatches' /\ JobFits' /\ RegisteredIsDurable'
<1>0. Known(disk) \subseteq Known(disk)' /\ TypeOK /\ IndexMatches /\ JobFits /\ RegisteredIsDurable
  BY DiskStep DEF Inv
<1>a. UNCHANGED disk => Known(disk)' = Known(disk)
  BY DEF Known
<1>b. ASSUME NEW r, UNCHANGED disk, Fits(r, disk) PROVE Fits(r, disk)'
  BY <1>b DEF Fits, Known
<1> USE <1>0, <1>a DEF IndexMatches, JobFits, RegisteredIsDurable, ends, writerVars
<1>1. CASE Open
  BY <1>1 DEF Open
<1>2. ASSUME NEW b \in Boxes, Register(b) PROVE IndexMatches' /\ JobFits' /\ RegisteredIsDurable'
  <2>1. PICK record \in Records :
          /\ pc = "idle" /\ b \notin Known(index) /\ Fits(record, index) /\ pc' = "create"
          /\ job' = [box |-> b, record |-> record, sequence |-> sequence]
          /\ UNCHANGED <<disk, index, returned>>
    BY <1>2 DEF Register
  <2>2. index = disk
    BY <2>1
  <2>3. job'.box = b /\ job'.record = record
    BY <2>1
  <2>4. Fits(record, disk)'
    BY <2>1, <2>2, <1>b
  <2> QED BY <2>1, <2>2, <2>3, <2>4
<1>3. CASE Fails
  BY <1>3 DEF Fails
<1>4. CASE CreateTemp
  <2>1. /\ UNCHANGED <<disk, index, returned>> /\ pc = "create"
        /\ pc' = "idle" \/ (pc' = "write" /\ UNCHANGED job)
    BY <1>4 DEF CreateTemp
  <2>2. pc' = "write" => Fits(job.record, disk)' /\ UNCHANGED job
    BY <2>1, <1>b
  <2> QED BY <2>1, <2>2
<1>5. CASE WriteTemp
  <2>1. UNCHANGED <<disk, index, returned, job>> /\ pc = "write" /\ pc' = "rename"
    BY <1>5 DEF WriteTemp
  <2>2. Fits(job.record, disk)'
    BY <2>1, <1>b
  <2> QED BY <2>1, <2>2
<1>6. CASE Rename
  BY <1>6 DEF Rename
<1>7. CASE Insert
  <2>1. /\ pc = "insert" /\ pc' = "idle" /\ UNCHANGED disk
        /\ index' = [index EXCEPT ![job.box] = job.record]
        /\ returned' = returned \cup {job.box}
    BY <1>7 DEF Insert
  <2>2. /\ index \in MaybeRecords /\ job.box \in Boxes /\ job.record \in Records
        /\ disk = [index EXCEPT ![job.box] = job.record]
    BY <2>1 DEF TypeOK
  <2>3. Known(disk) = Known(index) \cup {job.box}
    BY <2>2, KnownWith
  <2> QED BY <2>1, <2>2, <2>3
<1>8. CASE Crash
  BY <1>8 DEF Crash
<1>9. CASE Scanner \/ UNCHANGED vars
  <2>1. UNCHANGED <<disk, index, returned, job, pc>>
    BY <1>9 DEF Scanner, ScanBegins, ScanReads, ScanFails, ScanEnds, vars
  <2>2. Fits(job.record, disk) => Fits(job.record, disk)'
    BY <2>1, <1>b
  <2> QED BY <2>1, <2>2
<1> QED BY <1>1, <1>2, <1>3, <1>4, <1>5, <1>6, <1>7, <1>8, <1>9 DEF Next, Writer

LEMMA ScanStep ==
    ASSUME Inv, [Next]_vars
    PROVE  ScanMatches'
<1>0. /\ TypeOK /\ ScanMatches /\ RegisteredIsDurable
      /\ \A b \in Known(disk) : disk'[b] = disk[b]
  BY DiskStep DEF Inv
<1>1. \A b \in Known(scan.seen) : b \in Known(disk) /\ scan.seen[b] = disk'[b]
  BY <1>0 DEF ScanMatches, Known
<1>2. CASE UNCHANGED scan
  BY <1>0, <1>1, <1>2 DEF ScanMatches, Known
<1>3. CASE ScanBegins
  <2>1. /\ scan'.seen = [b \in Boxes |-> NoRecord] /\ scan'.due = Known(disk)
        /\ scan'.promised = returned /\ scan'.at = "reading"
    BY <1>3 DEF ScanBegins, NoScan
  <2>2. Known(scan'.seen) = {}
    BY <2>1 DEF Known
  <2> QED BY <1>0, <2>1, <2>2 DEF ScanMatches, RegisteredIsDurable, Known
<1>4. ASSUME NEW b \in Boxes, ScanReads(b) PROVE ScanMatches'
  <2>1. /\ scan.at = "reading" /\ b \in Known(disk) /\ disk' = disk
        /\ scan' = [scan EXCEPT !.seen[b] = disk[b], !.due = @ \ {b}]
    BY <1>4 DEF ScanReads
  <2>2. /\ scan'.seen = [scan.seen EXCEPT ![b] = disk[b]]
        /\ scan'.due = scan.due \ {b} /\ scan'.promised = scan.promised /\ scan'.at = scan.at
    BY <2>1, <1>0 DEF TypeOK
  <2>3. scan.seen \in MaybeRecords /\ disk[b] \in Records
    BY <2>1, <1>0 DEF TypeOK, MaybeRecords, Known
  <2>4. Known(scan'.seen) = Known(scan.seen) \cup {b}
    BY <2>2, <2>3, KnownWith
  <2>5. \A q \in Known(scan'.seen) : scan'.seen[q] = disk'[q]
    BY <1>1, <2>1, <2>2, <2>3, <2>4 DEF MaybeRecords
  <2>6. scan'.promised \subseteq Known(scan'.seen) \cup scan'.due
    BY <1>0, <2>2, <2>4 DEF ScanMatches
  <2> QED BY <2>1, <2>2, <2>5, <2>6 DEF ScanMatches, Known
<1>5. CASE ScanFails \/ ScanEnds
  <2>1. /\ scan'.seen = scan.seen /\ scan'.due = scan.due /\ scan'.promised = scan.promised
        /\ scan'.at = "open" => scan.due = {}
    BY <1>5, <1>0 DEF ScanFails, ScanEnds, TypeOK
  <2> QED BY <1>0, <1>1, <2>1 DEF ScanMatches, Known
<1>6. CASE Writer \/ UNCHANGED vars
  BY <1>2, <1>6 DEF Writer, Open, Register, Fails, CreateTemp, WriteTemp, Rename, Insert,
                    Crash, vars
<1> QED BY <1>3, <1>4, <1>5, <1>6 DEF Next, Scanner

LEMMA NextInv == Inv /\ [Next]_vars => Inv'
BY TypeStep, DiskStep, WriterStep, ScanStep DEF Inv

LEMMA Invariance == Spec => []Inv
BY InitInv, NextInv, PTL DEF Spec
-----------------------------------------------------------------------------
\* Every variable keeps its type, and a writer between requests has no job.
THEOREM LineageTypes == Spec => []TypeOK
<1>1. Inv => TypeOK
  BY DEF Inv
<1> QED BY <1>1, Invariance, PTL

\* Whatever step of register the writer died or failed in, the directory it
\* leaves can be opened again: no child ever gets there before its parent.
THEOREM LineageReopens == Spec => []Reopens
<1>1. Inv => Reopens
  BY DEF Inv
<1> QED BY <1>1, Invariance, PTL

\* No crash of the process and no failing call takes back a record whose
\* register returned.
THEOREM LineageIsDurable == Spec => []RegisteredIsDurable
<1>1. Inv => RegisteredIsDurable
  BY DEF Inv
<1> QED BY <1>1, Invariance, PTL

\* A record on disk is never replaced, not even by a later process.
THEOREM LineageIsImmutable == Spec => RecordsAreImmutable
<1>1. Inv /\ [Next]_vars => [\A b \in Known(disk) : disk'[b] = disk[b]]_disk
  BY DiskStep
<1> QED BY <1>1, Invariance, PTL DEF Spec, RecordsAreImmutable

\* A scan that succeeds, at whatever moments it reads the files, has read
\* every box that was registered when it began, and what is on disk of it.
THEOREM LineageScanIsComplete == Spec => []ScanIsComplete
<1>1. Inv => ScanIsComplete
  BY DEF Inv, ScanMatches, ScanIsComplete
<1> QED BY <1>1, Invariance, PTL
-----------------------------------------------------------------------------
(* Chains of records.                                                       *)

\* With a box, also its parent.
Closed(line) == \A x \in line : disk[x].parent \in line \cup {None}

\* Above every box there is a line of boxes without it: the boxes that were
\* known when it was registered are one.
Rooted == \A b \in Known(disk) : \E line \in SUBSET (Known(disk) \ {b}) :
    Closed(line) /\ disk[b].parent \in line \cup {None}

LEMMA RootedStep == ASSUME Inv, Rooted, [Next]_vars PROVE Rooted'
<1>1. CASE UNCHANGED disk
  BY <1>1 DEF Rooted, Known, Closed
<1>2. CASE Rename
  <2>1. /\ disk \in MaybeRecords /\ job.box \in Boxes \ Known(disk) /\ job.record \in Records
        /\ Fits(job.record, disk) /\ disk' = [disk EXCEPT ![job.box] = job.record]
    BY <1>2 DEF Rename, Inv, TypeOK, JobFits
  <2>2. Known(disk)' = Known(disk) \cup {job.box}
    <3>1. Known(disk') = Known(disk) \cup {job.box}
      BY <2>1, KnownWith
    <3> QED BY <3>1 DEF Known
  <2>3. \A b \in Known(disk) : disk'[b] = disk[b]
    BY <1>2, DiskStep
  <2>4. ASSUME NEW line \in SUBSET Known(disk), Closed(line) PROVE Closed(line)'
    BY <2>3, <2>4 DEF Closed
  <2>5. ASSUME NEW b \in Known(disk)
        PROVE  \E line \in SUBSET (Known(disk)' \ {b}) :
                  Closed(line)' /\ disk'[b].parent \in line \cup {None}
    <3>1. PICK line \in SUBSET (Known(disk) \ {b}) :
            Closed(line) /\ disk[b].parent \in line \cup {None}
      BY DEF Rooted
    <3> QED BY <2>2, <2>3, <2>4, <3>1
  <2>6. \E line \in SUBSET (Known(disk)' \ {job.box}) :
           Closed(line)' /\ disk'[job.box].parent \in line \cup {None}
    <3>1. PICK line : line = Known(disk)
      OBVIOUS
    <3>2. line \in SUBSET (Known(disk)' \ {job.box})
      BY <2>1, <2>2, <3>1
    <3>3. Closed(line)
      BY <3>1 DEF Closed, Inv, Reopens, Consistent, Fits
    <3>4. disk'[job.box].parent \in line \cup {None}
      <4>1. disk'[job.box] = job.record
        BY <2>1 DEF MaybeRecords
      <4> QED BY <2>1, <3>1, <4>1 DEF Fits
    <3> QED BY <2>4, <3>1, <3>2, <3>3, <3>4
  <2> QED BY <2>2, <2>5, <2>6 DEF Rooted
<1>3. Rename \/ UNCHANGED disk
  BY DEF Next, Writer, Scanner, Open, Register, Fails, CreateTemp, WriteTemp, Insert, Crash,
         ScanBegins, ScanReads, ScanFails, ScanEnds, vars
<1> QED BY <1>1, <1>2, <1>3

\* A policy within one that is within a third is within the third.
LEMMA NarrowerTransitive ==
    ASSUME NEW p \in Policies, NEW q \in Policies, NEW r \in Policies,
           Narrower(p, q), Narrower(q, r)
    PROVE  Narrower(p, r)
BY LineageAssumption DEF Policies, Narrower

\* However long the chain of registrations, whatever crashes and failures lie
\* between them, a box is within the policies of all its ancestors, each of
\* them has a record, and it is none of them itself.
THEOREM LineageIsNarrow == Spec => []LineageNarrows
<1>1. Init => Rooted
  BY DEF Init, Rooted, Known
<1>2. Inv /\ Rooted => LineageNarrows
  <2> SUFFICES ASSUME Inv, Rooted, NEW b \in Known(disk), NEW a \in Ancestors(b)
               PROVE  /\ a \in Known(disk) /\ Narrower(disk[b].policy, disk[a].policy)
                      /\ disk[a].parent # b
    BY DEF LineageNarrows
  <2>1. \A line \in SUBSET Boxes : b \in line /\ Closed(line) => a \in line
    BY DEF Ancestors, Closed
  <2>2. /\ \A x \in Known(disk) : disk[x] \in Records /\ disk[x].policy \in Policies
        /\ Known(disk) \subseteq Boxes /\ None \notin Boxes
    BY LineageAssumption DEF Inv, TypeOK, MaybeRecords, Known, Records
  <2>3. \A x \in Known(disk) : disk[x].parent # None =>
           disk[x].parent \in Known(disk) /\ Narrower(disk[x].policy, disk[disk[x].parent].policy)
    BY DEF Inv, Reopens, Consistent, Fits
  <2>4. a \in Known(disk) /\ Narrower(disk[b].policy, disk[a].policy)
    <3> DEFINE line == {x \in Known(disk) : Narrower(disk[b].policy, disk[x].policy)}
    <3>1. Narrower(disk[b].policy, disk[b].policy)
      BY <2>2, LineageAssumption DEF Policies, Narrower
    <3>2. ASSUME NEW x \in line PROVE disk[x].parent \in line \cup {None}
      BY <2>2, <2>3, NarrowerTransitive
    <3> QED BY <2>1, <2>2, <3>1, <3>2 DEF Closed
  <2>5. disk[a].parent # b
    <3>1. PICK line \in SUBSET (Known(disk) \ {b}) :
            Closed(line) /\ disk[b].parent \in line \cup {None}
      BY DEF Rooted
    <3>2. Closed(line \cup {b}) /\ line \cup {b} \in SUBSET Boxes
      BY <2>2, <3>1 DEF Closed
    <3>3. a \in line \cup {b}
      BY <2>1, <3>2
    <3> QED BY <2>2, <3>1, <3>3 DEF Closed
  <2> QED BY <2>4, <2>5
<1> QED BY <1>1, <1>2, Invariance, RootedStep, PTL DEF Spec
=============================================================================
