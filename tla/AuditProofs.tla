----------------------------- MODULE AuditProofs -----------------------------
(***************************************************************************)
(* The audit log for every number of helpers, events, pieces, failing      *)
(* calls and crashes: what append_jsonl returned Ok for can be read back,  *)
(* but for one event a fault.  And utc_timestamp for every clock: it gives *)
(* the date of the calendar.                                               *)
(***************************************************************************)
EXTENDS AuditLog, FiniteSetTheorems, SequenceTheorems, WellFoundedInduction, TLAPS

Marks == {Newline} \cup {Piece(e, k) : e \in Helpers \X Nat, k \in Nat \ {0}}

\* What is written behind the first i pieces of the file continues a line.
Torn(i) == i > 0 /\ file[i] # Newline

\* How much of the file was there before the event that h writes, if nobody
\* else has written since.
Start(h) == Len(file) - (writer[h].next - 1)

\* What h has written of its event is at the end of the file.
Block(h) ==
    /\ Start(h) >= 0
    /\ \A k \in 1..writer[h].next - 1 : file[Start(h) + k] = Piece(Event(h), k)

Alone(h) == h \in Writing /\ Event(h) \notin overlapped

Lone == \A h \in Helpers : Alone(h) => Writing = {h} /\ Block(h)

Lost == {e \in accepted \ overlapped : ~Readable(e)}

\* A fault has left a line without its end, and the event that goes behind it
\* is not counted as lost yet.
Owing ==
    \/ Writing = {} /\ Torn(Len(file))
    \/ \E h \in Helpers : Alone(h) /\ Torn(Start(h))

Debt == IF Owing THEN 1 ELSE 0

\* All of the invariant but the count of lost events.
Steady ==
    /\ TypeOK /\ file \in Seq(Marks) /\ IsFiniteSet(accepted)
    /\ \A h \in Helpers : writer[h].pc # "accept" => writer[h].event >= 1
    /\ \A h \in Helpers : writer[h].pc = "open" => writer[h].next = 1
    /\ Lone

AuditInv == Steady /\ Cardinality(Lost) + Debt <= faults
-----------------------------------------------------------------------------
LEMMA MarksOf ==
    /\ Newline \in Marks
    /\ \A e \in Helpers \X Nat, k \in Nat \ {0} : Piece(e, k) \in Marks /\ Piece(e, k) # Newline
<1>1. ASSUME NEW e \in Helpers \X Nat, NEW k \in Nat \ {0} PROVE Piece(e, k) # Newline
  <2>1. Piece(e, k).piece = k /\ Newline.piece = 0
    BY DEF Piece, Newline
  <2> QED BY <2>1
<1> QED BY <1>1 DEF Marks

\* A line of a file f, position by position.
IsLine(f, i, e) ==
    (\A k \in 1..Pieces : f[i + k] = Piece(e, k)) /\ f[i + Pieces + 1] = Newline

LEMMA LineOf ==
    ASSUME NEW e, NEW f \in Seq(Marks), NEW i \in 0..Len(f) - Pieces - 1
    PROVE  SubSeq(f, i + 1, i + Pieces + 1) = Line(e) <=> IsLine(f, i, e)
<1>1. Len(f) \in Nat /\ Pieces \in Nat /\ i \in Nat
  BY AuditAssumption
<1>2. SubSeq(f, i + 1, i + Pieces + 1) = [k \in 1..Pieces + 1 |-> f[i + k]]
  <2>1. 1 + (i + Pieces + 1) - (i + 1) = Pieces + 1
    BY <1>1
  <2>2. \A k \in 1..Pieces + 1 : k + (i + 1) - 1 = i + k
    BY <1>1
  <2>3. SubSeq(f, i + 1, i + Pieces + 1) \in Seq(Marks)
        /\ Len(SubSeq(f, i + 1, i + Pieces + 1)) = Pieces + 1
        /\ \A k \in 1..Pieces + 1 : SubSeq(f, i + 1, i + Pieces + 1)[k] = f[i + k]
    BY <1>1, <2>1, <2>2
  <2> QED BY <2>3, LenProperties
<1>3. Pieces + 1 \in 1..Pieces + 1 /\ 1..Pieces \subseteq 1..Pieces + 1
      /\ \A k \in 1..Pieces + 1 : k \in 1..Pieces \/ k = Pieces + 1
  BY <1>1
<1>4. /\ \A k \in 1..Pieces : Line(e)[k] = Piece(e, k)
      /\ Line(e)[Pieces + 1] = Newline
      /\ Line(e) = [k \in 1..Pieces + 1 |-> Line(e)[k]]
  BY <1>1, <1>3 DEF Line
<1>5. i + (Pieces + 1) = i + Pieces + 1
  BY <1>1
<1>6. ASSUME SubSeq(f, i + 1, i + Pieces + 1) = Line(e) PROVE IsLine(f, i, e)
  <2>1. \A k \in 1..Pieces + 1 : f[i + k] = Line(e)[k]
    BY <1>2, <1>6
  <2> QED BY <1>3, <1>4, <1>5, <2>1 DEF IsLine
<1>7. ASSUME IsLine(f, i, e) PROVE SubSeq(f, i + 1, i + Pieces + 1) = Line(e)
  <2>1. \A k \in 1..Pieces + 1 : f[i + k] = Line(e)[k]
    BY <1>3, <1>4, <1>5, <1>7 DEF IsLine
  <2> QED BY <1>2, <1>4, <2>1
<1> QED BY <1>6, <1>7

\* What can be read back stays so, whatever is written behind it.
LEMMA ReadableStays ==
    ASSUME file \in Seq(Marks), NEW m \in Marks, file' = Append(file, m), NEW e, Readable(e)
    PROVE  Readable(e)'
<1>1. PICK i \in 0..Len(file) - Pieces - 1 : IsLine(file, i, e) /\ (i > 0 => file[i] = Newline)
  BY LineOf DEF Readable
<1>2. /\ file' \in Seq(Marks) /\ Len(file') = Len(file) + 1
      /\ \A j \in 1..Len(file) : file'[j] = file[j]
  BY AppendProperties
<1>3. /\ Len(file) \in Nat /\ i \in 0..Len(file') - Pieces - 1
      /\ i + Pieces + 1 \in 1..Len(file) /\ (i > 0 => i \in 1..Len(file))
      /\ \A k \in 1..Pieces : i + k \in 1..Len(file)
  BY <1>2, AuditAssumption, LenProperties
<1>4. \A f : f = file' => IsLine(f, i, e) /\ (i > 0 => f[i] = Newline)
  BY <1>1, <1>2, <1>3 DEF IsLine
<1> QED BY <1>2, <1>3, <1>4, LineOf DEF Readable

\* The line that ends an event of which all has been written.
LEMMA ReadableLine ==
    ASSUME file \in Seq(Marks), file' = Append(file, Newline), NEW e,
           NEW i \in Nat, Len(file) = i + Pieces, ~Torn(i),
           \A k \in 1..Pieces : file[i + k] = Piece(e, k)
    PROVE  Readable(e)'
<1>1. /\ file' \in Seq(Marks) /\ Len(file') = Len(file) + 1
      /\ \A j \in 1..Len(file) : file'[j] = file[j]
      /\ file'[Len(file) + 1] = Newline
  BY AppendProperties, MarksOf
<1>2. /\ Pieces \in Nat /\ i \in 0..Len(file') - Pieces - 1 /\ i + Pieces + 1 = Len(file) + 1
      /\ (i > 0 => i \in 1..Len(file)) /\ \A k \in 1..Pieces : i + k \in 1..Len(file)
  BY <1>1, AuditAssumption
<1>3. \A f : f = file' => IsLine(f, i, e) /\ (i > 0 => f[i] = Newline)
  BY <1>1, <1>2 DEF IsLine, Torn
<1> QED BY <1>1, <1>2, <1>3, LineOf DEF Readable
-----------------------------------------------------------------------------
Writers == [pc : {"accept", "open", "write", "reply"}, event : 0..MaxEvents, next : 1..Pieces + 1]

\* What a step of h does to its place; the other helpers stay where they are.
LEMMA GotoIs ==
    ASSUME TypeOK, NEW h \in Helpers, NEW to \in {"accept", "open", "write", "reply"}, GotoPc(h, to)
    PROVE  /\ writer' \in [Helpers -> Writers] /\ \A q \in Helpers \ {h} : writer'[q] = writer[q]
           /\ writer'[h].pc = to /\ writer'[h].event = writer[h].event
           /\ writer'[h].next = writer[h].next
<1>1. writer \in [Helpers -> Writers] /\ writer' = [writer EXCEPT ![h].pc = to]
  BY DEF TypeOK, Writers, GotoPc
<1>2. [writer[h] EXCEPT !.pc = to] \in Writers
  BY <1>1 DEF Writers
<1> QED BY <1>1, <1>2 DEF Writers

LEMMA HandleIs ==
    ASSUME TypeOK, NEW h \in Helpers, Handle(h)
    PROVE  /\ writer' \in [Helpers -> Writers] /\ \A q \in Helpers \ {h} : writer'[q] = writer[q]
           /\ writer[h].pc = "accept" /\ writer'[h].pc = "open" /\ writer'[h].next = 1
           /\ writer'[h].event >= 1 /\ UNCHANGED <<file, accepted, overlapped, faults, now>>
<1>1. /\ writer \in [Helpers -> Writers] /\ writer[h].event < MaxEvents
      /\ writer' = [writer EXCEPT ![h] = [pc |-> "open", event |-> writer[h].event + 1, next |-> 1]]
  BY DEF TypeOK, Writers, Handle
<1>2. [pc |-> "open", event |-> writer[h].event + 1, next |-> 1] \in Writers
  BY <1>1, AuditAssumption DEF Writers
<1>3. writer[h].event + 1 >= 1
  BY <1>1 DEF Writers
<1> QED BY <1>1, <1>2, <1>3 DEF Handle

LEMMA WriteIs ==
    ASSUME TypeOK, NEW h \in Helpers, Write(h)
    PROVE  /\ writer' \in [Helpers -> Writers] /\ \A q \in Helpers \ {h} : writer'[q] = writer[q]
           /\ writer[h].pc = "write" /\ writer'[h].pc = "write"
           /\ writer'[h].event = writer[h].event /\ writer'[h].next = writer[h].next + 1
           /\ writer[h].next \in 1..Pieces /\ file' = Append(file, Piece(Event(h), writer[h].next))
           /\ UNCHANGED <<accepted, overlapped, faults, now>>
<1>1. /\ writer \in [Helpers -> Writers] /\ writer[h].next \in 1..Pieces
      /\ writer' = [writer EXCEPT ![h].next = writer[h].next + 1]
  BY AuditAssumption DEF TypeOK, Writers, Write
<1>2. PICK n \in 1..Pieces + 1 : n = writer[h].next + 1
  BY <1>1, AuditAssumption
<1>3. [writer[h] EXCEPT !.next = n] \in Writers /\ writer' = [writer EXCEPT ![h].next = n]
  BY <1>1, <1>2 DEF Writers
<1> QED BY <1>1, <1>2, <1>3 DEF Writers, Write

\* What a helper that writes, writes: one of its events, and it has got as far
\* as to one of the pieces.
LEMMA EventTyped ==
    ASSUME Steady, NEW h \in Helpers, writer[h].pc # "accept"
    PROVE  /\ Event(h) \in Helpers \X (1..MaxEvents) /\ Event(h) \in Helpers \X Nat
           /\ writer[h].next \in 1..Pieces + 1
<1>1. writer[h] \in Writers /\ writer[h].event >= 1
  BY DEF Steady, TypeOK, Writers
<1>2. writer[h].event \in 1..MaxEvents /\ writer[h].event \in Nat
  BY <1>1, AuditAssumption DEF Writers
<1> QED BY <1>1, <1>2 DEF Event, Writers

\* A helper that leaves the file, or does not come to it, leaves whoever
\* writes on its own where it is.
LEMMA LoneStays ==
    ASSUME Steady, NEW h \in Helpers, file' = file, overlapped' = overlapped,
           \A q \in Helpers \ {h} : writer'[q] = writer[q], writer'[h].pc # "write"
    PROVE  Lone' /\ \A q \in Helpers : Alone(q)' => Alone(q) /\ Start(q)' = Start(q)
<1>1. ASSUME NEW q \in Helpers, Alone(q)'
      PROVE  Alone(q) /\ Start(q)' = Start(q) /\ Writing' = {q} /\ Block(q)'
  <2>1. q # h /\ writer'[q] = writer[q]
    BY <1>1 DEF Alone, Writing
  <2>2. Alone(q) /\ Event(q)' = Event(q) /\ Start(q)' = Start(q)
    BY <1>1, <2>1 DEF Alone, Writing, Event, Start
  <2>3. Writing = {q} /\ Block(q)
    BY <2>2 DEF Steady, Lone
  <2>4. Writing' = {q}
    BY <1>1, <2>3 DEF Alone, Writing
  <2>5. Block(q)'
    BY <2>1, <2>2, <2>3 DEF Block
  <2> QED BY <2>2, <2>4, <2>5
<1> QED BY <1>1 DEF Lone

\* After an Open a helper is on its own only when nobody was writing.
LEMMA LoneOpen ==
    ASSUME Steady, NEW h \in Helpers, Open(h)
    PROVE  Lone' /\ \A q \in Helpers :
               Alone(q)' => q = h /\ Writing = {} /\ Start(q)' = Len(file)
<1>1. /\ \A q \in Helpers \ {h} : writer'[q] = writer[q]
      /\ writer'[h].pc = "write" /\ writer'[h].event = writer[h].event
      /\ writer'[h].next = 1 /\ file' = file
  BY GotoIs DEF Steady, Open
<1>2. Writing' = Writing \cup {h} /\ \A q \in Helpers : Event(q)' = Event(q)
  BY <1>1 DEF Writing, Event
<1>3. ASSUME NEW q \in Helpers, Alone(q)'
      PROVE  q = h /\ Writing = {} /\ Start(q)' = Len(file) /\ Writing' = {q} /\ Block(q)'
  <2>1. Writing = {}
    BY <1>2, <1>3 DEF Alone, Open
  <2>2. q = h /\ Writing' = {q}
    BY <1>2, <1>3, <2>1 DEF Alone
  <2>3. Len(file) \in Nat
    BY LenProperties DEF Steady
  <2>4. Start(q)' = Len(file)
    BY <1>1, <2>2, <2>3 DEF Start
  <2>5. Block(q)'
    BY <1>1, <2>2, <2>3, <2>4 DEF Block
  <2> QED BY <2>1, <2>2, <2>4, <2>5
<1> QED BY <1>3 DEF Lone

\* Nobody but the helper that writes is on its own.
LEMMA LoneWrite ==
    ASSUME Steady, NEW h \in Helpers, Write(h)
    PROVE  Lone' /\ \A q \in Helpers :
               Alone(q)' => Alone(q) /\ Start(q)' = Start(q) /\ Start(q) \in 0..Len(file)
<1>1. /\ \A q \in Helpers \ {h} : writer'[q] = writer[q]
      /\ writer[h].pc = "write" /\ writer'[h].pc = "write"
      /\ writer'[h].event = writer[h].event /\ writer'[h].next = writer[h].next + 1
      /\ writer[h].next \in 1..Pieces /\ file' = Append(file, Piece(Event(h), writer[h].next))
      /\ overlapped' = overlapped
  BY WriteIs DEF Steady
<1>2. Writing' = Writing /\ h \in Writing /\ \A q \in Helpers : Event(q)' = Event(q)
  BY <1>1 DEF Writing, Event
<1>3. Piece(Event(h), writer[h].next) \in Marks
  BY <1>1, EventTyped, MarksOf, AuditAssumption
<1>4. /\ Len(file') = Len(file) + 1 /\ Len(file) \in Nat
      /\ \A j \in 1..Len(file) : file'[j] = file[j]
      /\ file'[Len(file) + 1] = Piece(Event(h), writer[h].next)
  BY <1>1, <1>3, AppendProperties, LenProperties DEF Steady
<1>5. ASSUME NEW q \in Helpers, Alone(q)'
      PROVE  /\ Alone(q) /\ Start(q)' = Start(q) /\ Start(q) \in 0..Len(file)
             /\ Writing' = {q} /\ Block(q)'
  <2>1. Alone(q) /\ Writing = {q} /\ Block(q)
    BY <1>1, <1>2, <1>5 DEF Alone, Steady, Lone
  <2>2. q = h /\ Writing' = {q}
    BY <1>2, <2>1
  <2>3. PICK n \in 1..Pieces : n = writer[h].next /\ writer'[h].next = n + 1
    BY <1>1
  <2>4. PICK s \in Nat : s = Start(h) /\ s + n = Len(file) + 1
    BY <1>4, <2>1, <2>2, <2>3 DEF Block, Start
  <2>5. Start(h)' = s
    BY <1>4, <2>3, <2>4 DEF Start
  <2>6. ASSUME NEW k \in 1..n PROVE file'[s + k] = Piece(Event(h), k)
    <3>1. CASE k = n
      BY <1>4, <2>3, <2>4, <3>1
    <3>2. CASE k # n
      <4>1. k \in 1..n - 1 /\ s + k \in 1..Len(file)
        BY <1>4, <2>4, <3>2
      <4> QED BY <1>4, <2>1, <2>2, <2>3, <2>4, <4>1 DEF Block
    <3> QED BY <3>1, <3>2
  <2>7. Event(h)' = Event(h) /\ (n + 1) - 1 = n /\ s \in 0..Len(file)
    BY <1>2, <1>4, <2>4
  <2>8. Block(h)'
    BY <2>3, <2>5, <2>6, <2>7 DEF Block
  <2> QED BY <2>1, <2>2, <2>4, <2>5, <2>7, <2>8
<1> QED BY <1>5 DEF Lone

\* Nobody is on its own after an EndLine.
LEMMA LoneEndLine ==
    ASSUME Steady, NEW h \in Helpers, EndLine(h)
    PROVE  Lone' /\ \A q \in Helpers : ~Alone(q)'
<1>1. /\ \A q \in Helpers \ {h} : writer'[q] = writer[q] /\ h \in Writing
      /\ writer'[h].pc = "reply" /\ overlapped' = overlapped
  BY GotoIs DEF Steady, EndLine, Writing
<1>2. ASSUME NEW q \in Helpers, Alone(q)' PROVE FALSE
  <2>1. q # h /\ Alone(q)
    BY <1>1, <1>2 DEF Alone, Writing, Event
  <2>2. Writing = {q}
    BY <2>1 DEF Steady, Lone
  <2> QED BY <1>1, <2>1, <2>2
<1> QED BY <1>2 DEF Lone
-----------------------------------------------------------------------------
LEMMA SteadyNext ==
    ASSUME Steady, Next
    PROVE  Steady'
<1> USE DEF Writers
<1>1. PICK h \in Helpers : \/ Handle(h) \/ Open(h) \/ Write(h) \/ EndLine(h)
                           \/ AppendFails(h) \/ Reply(h) \/ Restart(h)
  BY DEF Next
<1>2. /\ TypeOK /\ file \in Seq(Marks) /\ IsFiniteSet(accepted) /\ writer \in [Helpers -> Writers]
      /\ \A q \in Helpers : writer[q].pc # "accept" => writer[q].event >= 1
      /\ \A q \in Helpers : writer[q].pc = "open" => writer[q].next = 1
  BY DEF Steady, TypeOK
<1>3. now' = now /\ faults' \in 0..MaxFaults
  BY <1>1, <1>2, AuditAssumption
     DEF TypeOK, Handle, Open, Write, EndLine, AppendFails, Reply, Restart
<1>4. /\ writer' \in [Helpers -> Writers] /\ \A q \in Helpers \ {h} : writer'[q] = writer[q]
      /\ writer'[h].pc # "accept" => writer'[h].event >= 1
      /\ writer'[h].pc = "open" => writer'[h].next = 1
  <2>1. CASE Handle(h)
    BY <1>2, <2>1, HandleIs
  <2>2. CASE Write(h)
    BY <1>2, <2>2, WriteIs
  <2>3. ASSUME NEW to \in {"accept", "write", "reply"}, GotoPc(h, to),
               to # "accept" => writer[h].pc # "accept"
        PROVE  /\ writer' \in [Helpers -> Writers] /\ \A q \in Helpers \ {h} : writer'[q] = writer[q]
               /\ writer'[h].pc # "accept" => writer'[h].event >= 1
               /\ writer'[h].pc = "open" => writer'[h].next = 1
    BY <1>2, <2>3, GotoIs
  <2>4. CASE Open(h)
    BY <2>3, <2>4 DEF Open
  <2>5. CASE EndLine(h) \/ AppendFails(h)
    BY <2>3, <2>5 DEF EndLine, AppendFails
  <2>6. CASE Reply(h) \/ Restart(h)
    BY <2>3, <2>6 DEF Reply, Restart
  <2> QED BY <1>1, <2>1, <2>2, <2>4, <2>5, <2>6
<1>5. \A q \in Helpers : /\ writer'[q].pc # "accept" => writer'[q].event >= 1
                         /\ writer'[q].pc = "open" => writer'[q].next = 1
  BY <1>2, <1>4
<1>6. file' \in Seq(Marks)
  <2>1. CASE Write(h)
    <3>1. Piece(Event(h), writer[h].next) \in Marks
      BY <1>2, <2>1, EventTyped, MarksOf, WriteIs, AuditAssumption
    <3> QED BY <1>2, <2>1, <3>1, AppendProperties DEF Write
  <2>2. CASE EndLine(h)
    BY <1>2, <2>2, MarksOf, AppendProperties DEF EndLine
  <2>3. CASE ~Write(h) /\ ~EndLine(h)
    BY <1>1, <1>2, <2>3 DEF Handle, Open, AppendFails, Reply, Restart
  <2> QED BY <2>1, <2>2, <2>3
<1>7. IsFiniteSet(accepted') /\ accepted' \subseteq Helpers \X (1..MaxEvents)
  <2>1. CASE EndLine(h)
    <3>1. accepted' = accepted \cup {Event(h)} /\ Event(h) \in Helpers \X (1..MaxEvents)
      BY <2>1, EventTyped DEF EndLine
    <3> QED BY <1>2, <3>1, FS_AddElement DEF TypeOK
  <2>2. CASE ~EndLine(h)
    BY <1>1, <1>2, <2>2 DEF TypeOK, Handle, Open, Write, AppendFails, Reply, Restart
  <2> QED BY <2>1, <2>2
<1>8. overlapped' \subseteq Helpers \X (1..MaxEvents)
  <2>1. CASE Open(h)
    <3>1. \A q \in Writing \cup {h} : Event(q) \in Helpers \X (1..MaxEvents)
      BY <2>1, EventTyped DEF Open, Writing
    <3> QED BY <1>2, <2>1, <3>1 DEF TypeOK, Open
  <2>2. CASE ~Open(h)
    BY <1>1, <1>2, <2>2 DEF TypeOK, Handle, Write, EndLine, AppendFails, Reply, Restart
  <2> QED BY <2>1, <2>2
<1>9. Lone'
  <2>1. CASE Open(h) \/ Write(h) \/ EndLine(h)
    BY <2>1, LoneOpen, LoneWrite, LoneEndLine
  <2>2. CASE Handle(h)
    BY <1>2, <2>2, HandleIs, LoneStays
  <2>3. CASE AppendFails(h) \/ Reply(h) \/ Restart(h)
    <3>1. writer'[h].pc # "write"
      BY <1>2, <2>3, GotoIs DEF AppendFails, Reply, Restart
    <3> QED BY <1>4, <2>3, <3>1, LoneStays DEF AppendFails, Reply, Restart
  <2> QED BY <1>1, <2>1, <2>2, <2>3
<1>10. TypeOK'
  BY <1>2, <1>3, <1>4, <1>7, <1>8 DEF TypeOK
<1> QED BY <1>4, <1>5, <1>6, <1>7, <1>9, <1>10 DEF Steady
-----------------------------------------------------------------------------
\* There are finitely many lost events, and their number is a number.
LEMMA LostIsFinite ==
    ASSUME IsFiniteSet(accepted)
    PROVE  IsFiniteSet(Lost) /\ Cardinality(Lost) \in Nat
<1>1. Lost \subseteq accepted
  BY DEF Lost
<1> QED BY <1>1, FS_Subset, FS_CardinalityType

\* A step after which no more events are lost and no fault is owing that was
\* not, keeps the count.
LEMMA CountStays ==
    ASSUME AuditInv, Steady', Lost' \subseteq Lost, Owing' => Owing,
           faults' = faults
    PROVE  AuditInv'
<1>1. Cardinality(Lost') <= Cardinality(Lost)
  BY LostIsFinite, FS_Subset DEF AuditInv, Steady
<1>2. /\ IsFiniteSet(Lost)' /\ Cardinality(Lost)' \in Nat /\ Cardinality(Lost) \in Nat
      /\ faults \in Nat
  <2>1. IsFiniteSet(accepted') /\ IsFiniteSet(accepted) /\ faults \in 0..MaxFaults
    BY DEF AuditInv, Steady, TypeOK
  <2>2. IsFiniteSet(Lost)' /\ Cardinality(Lost)' \in Nat
    <3>1. Lost' \subseteq Lost /\ IsFiniteSet(Lost)
      BY <2>1, LostIsFinite
    <3> QED BY <3>1, FS_Subset, FS_CardinalityType
  <2> QED BY <2>1, <2>2, LostIsFinite, AuditAssumption
<1>3. /\ Debt \in {0, 1} /\ Debt' \in {0, 1} /\ (Debt' = 1 => Debt = 1)
  BY DEF Debt
<1>4. Cardinality(Lost)' + Debt' <= faults'
  BY <1>1, <1>2, <1>3 DEF AuditInv
<1> QED BY <1>4 DEF AuditInv

\* A fault leaves at most one event owing.
LEMMA CountFault ==
    ASSUME AuditInv, Steady', Lost' = Lost, faults' = faults + 1
    PROVE  AuditInv'
<1>1. Cardinality(Lost) \in Nat /\ faults \in Nat
  BY LostIsFinite, AuditAssumption DEF AuditInv, Steady, TypeOK
<1>2. Debt \in {0, 1} /\ Debt' \in {0, 1}
  BY DEF Debt
<1>3. Cardinality(Lost)' + Debt' <= faults'
  BY <1>1, <1>2 DEF AuditInv
<1> QED BY <1>3 DEF AuditInv

\* The file is not touched, nor is anything accepted.
LEMMA LostStays ==
    ASSUME file' = file, accepted' = accepted, overlapped \subseteq overlapped'
    PROVE  Lost' \subseteq Lost /\ (overlapped' = overlapped => Lost' = Lost)
<1>1. \A e : Readable(e)' <=> Readable(e)
  BY DEF Readable
<1> QED BY <1>1 DEF Lost

LEMMA CountHandle ==
    ASSUME AuditInv, Steady', NEW h \in Helpers, Handle(h) \/ Reply(h)
    PROVE  AuditInv'
<1>1. /\ UNCHANGED <<file, accepted, overlapped, faults>>
      /\ \A q \in Helpers \ {h} : writer'[q] = writer[q]
      /\ writer[h].pc # "write" /\ writer'[h].pc # "write"
  BY HandleIs, GotoIs DEF AuditInv, Steady, Reply
<1>2. Writing' = Writing
  BY <1>1 DEF Writing
<1>3. Owing' => Owing
  BY <1>1, <1>2, LoneStays DEF AuditInv, Owing, Torn
<1> QED BY <1>1, <1>3, LostStays, CountStays

LEMMA CountOpen ==
    ASSUME AuditInv, Steady', NEW h \in Helpers, Open(h)
    PROVE  AuditInv'
<1>1. /\ UNCHANGED <<file, accepted, faults>> /\ overlapped \subseteq overlapped'
      /\ h \in Writing'
  BY GotoIs DEF AuditInv, Steady, Open, Writing
<1>2. Owing' => Owing
  <2>1. SUFFICES ASSUME NEW q \in Helpers, Alone(q)', Torn(Start(q))' PROVE Owing
    BY <1>1 DEF Owing
  <2>2. Writing = {} /\ Start(q)' = Len(file)
    BY <2>1, LoneOpen DEF AuditInv
  <2> QED BY <1>1, <2>1, <2>2 DEF Owing, Torn
<1> QED BY <1>1, <1>2, LostStays, CountStays

LEMMA CountWrite ==
    ASSUME AuditInv, Steady', NEW h \in Helpers, Write(h)
    PROVE  AuditInv'
<1>1. /\ UNCHANGED <<accepted, overlapped, faults>> /\ h \in Writing' /\ file \in Seq(Marks)
      /\ writer[h].next \in 1..Pieces /\ file' = Append(file, Piece(Event(h), writer[h].next))
  BY WriteIs DEF AuditInv, Steady, Writing
<1>2. PICK m \in Marks : file' = Append(file, m)
  <2>1. Piece(Event(h), writer[h].next) \in Marks
    BY <1>1, EventTyped, MarksOf, WriteIs, AuditAssumption DEF AuditInv, Steady
  <2> QED BY <1>1, <2>1
<1>3. \A j \in 1..Len(file) : file'[j] = file[j]
  BY <1>1, <1>2, AppendProperties
<1>4. Owing' => Owing
  <2>1. SUFFICES ASSUME NEW q \in Helpers, Alone(q)', Torn(Start(q))' PROVE Owing
    BY <1>1 DEF Owing
  <2>2. Alone(q) /\ Start(q)' = Start(q) /\ Start(q) \in 0..Len(file)
    BY <2>1, LoneWrite DEF AuditInv
  <2>3. Torn(Start(q))
    BY <1>1, <1>3, <2>1, <2>2, LenProperties DEF Torn
  <2> QED BY <2>2, <2>3 DEF Owing
<1>5. \A e : Readable(e) => Readable(e)'
  BY <1>1, <1>2, ReadableStays
<1>6. Lost' \subseteq Lost
  BY <1>1, <1>5 DEF Lost
<1> QED BY <1>1, <1>4, <1>6, CountStays

\* The line that is ended is lost only where a fault is owing, and none is
\* owing behind it.
LEMMA CountEndLine ==
    ASSUME AuditInv, Steady', NEW h \in Helpers, EndLine(h)
    PROVE  AuditInv'
<1>1. /\ file' = Append(file, Newline) /\ accepted' = accepted \cup {Event(h)}
      /\ UNCHANGED <<overlapped, faults>> /\ h \in Writing /\ file \in Seq(Marks)
      /\ writer[h].next = Pieces + 1
  <2>1. writer[h].next \in 1..Pieces + 1 /\ writer[h].next > Pieces
    BY EventTyped DEF AuditInv, Steady, EndLine
  <2>2. writer[h].next = Pieces + 1
    BY <2>1, AuditAssumption
  <2> QED BY <2>2 DEF AuditInv, Steady, EndLine, Writing
<1>2. ~Owing'
  <2>1. Len(file') = Len(file) + 1 /\ file'[Len(file) + 1] = Newline
    BY <1>1, MarksOf, AppendProperties
  <2>2. \A q \in Helpers : ~Alone(q)'
    BY LoneEndLine DEF AuditInv
  <2> QED BY <2>1, <2>2 DEF Owing, Torn
<1>3. Lost' \subseteq Lost \cup {Event(h)}
  <2>1. \A e : Readable(e) => Readable(e)'
    BY <1>1, MarksOf, ReadableStays
  <2> QED BY <1>1, <2>1 DEF Lost
<1>4. ASSUME Event(h) \in Lost' PROVE Owing
  <2>1. Alone(h)
    BY <1>1, <1>4 DEF Lost, Alone
  <2>2. Block(h) /\ ~Readable(Event(h))'
    <3>1. \A e : e \in Lost' => ~Readable(e)'
      BY DEF Lost
    <3>2. Event(h)' = Event(h)
      BY GotoIs DEF AuditInv, Steady, EndLine, Event
    <3> QED BY <1>4, <2>1, <3>1, <3>2 DEF AuditInv, Steady, Lone
  <2>3. PICK i \in Nat : i = Start(h) /\ Len(file) = i + Pieces
    <3>1. Len(file) \in Nat /\ Start(h) = Len(file) - Pieces /\ Start(h) >= 0
      BY <1>1, <2>2, AuditAssumption, LenProperties DEF Block, Start
    <3>2. Start(h) \in Nat /\ Len(file) = Start(h) + Pieces
      BY <3>1, AuditAssumption
    <3> QED BY <3>2
  <2>4. \A k \in 1..Pieces : file[i + k] = Piece(Event(h), k)
    BY <1>1, <2>2, <2>3, AuditAssumption DEF Block
  <2>5. PICK e : e = Event(h)
    OBVIOUS
  <2>6. ~Readable(e)'
    <3>1. Event(h)' = Event(h)
      BY GotoIs DEF AuditInv, Steady, EndLine, Event
    <3> QED BY <2>2, <2>5, <3>1 DEF Readable
  <2>7. Torn(i)
    BY <1>1, <2>3, <2>4, <2>5, <2>6, ReadableLine
  <2> QED BY <2>1, <2>3, <2>7 DEF Owing
<1>5. CASE Event(h) \notin Lost'
  BY <1>1, <1>2, <1>3, <1>5, CountStays
<1>6. CASE Event(h) \in Lost'
  <2>1. Debt = 1 /\ Debt' = 0
    BY <1>2, <1>4, <1>6 DEF Debt
  <2>2. /\ IsFiniteSet(Lost) /\ Cardinality(Lost) \in Nat
        /\ IsFiniteSet(Lost') /\ Cardinality(Lost') \in Nat /\ faults \in Nat
    <3>1. IsFiniteSet(Lost) /\ Cardinality(Lost) \in Nat /\ faults \in Nat
      BY LostIsFinite, AuditAssumption DEF AuditInv, Steady, TypeOK
    <3>2. IsFiniteSet(Lost \cup {Event(h)})
      BY <3>1, FS_AddElement
    <3> QED BY <1>3, <3>1, <3>2, FS_Subset, FS_CardinalityType
  <2>3. Cardinality(Lost') <= Cardinality(Lost) + 1
    <3>1. /\ IsFiniteSet(Lost \cup {Event(h)})
          /\ Cardinality(Lost \cup {Event(h)}) <= Cardinality(Lost) + 1
      <4>1. /\ IsFiniteSet(Lost \cup {Event(h)})
            /\ \/ Cardinality(Lost \cup {Event(h)}) = Cardinality(Lost)
               \/ Cardinality(Lost \cup {Event(h)}) = Cardinality(Lost) + 1
        BY <2>2, FS_AddElement, Zenon
      <4> QED BY <2>2, <4>1
    <3>2. Cardinality(Lost') <= Cardinality(Lost \cup {Event(h)})
      BY <1>3, <3>1, FS_Subset
    <3>3. Cardinality(Lost \cup {Event(h)}) \in Nat
      BY <3>1, FS_CardinalityType
    <3> QED BY <2>2, <3>1, <3>2, <3>3
  <2>4. Cardinality(Lost)' + Debt' <= faults'
    BY <1>1, <2>1, <2>2, <2>3 DEF AuditInv
  <2> QED BY <2>4 DEF AuditInv
<1> QED BY <1>5, <1>6

LEMMA CountFails ==
    ASSUME AuditInv, Steady', NEW h \in Helpers, AppendFails(h) \/ Restart(h)
    PROVE  AuditInv'
BY LostStays, CountFault DEF AppendFails, Restart
-----------------------------------------------------------------------------
LEMMA AuditInit ==
    ASSUME Init
    PROVE  AuditInv
<1>1. /\ file = <<>> /\ accepted = {} /\ overlapped = {} /\ faults = 0
      /\ \A h \in Helpers : writer[h].pc = "accept"
  BY DEF Init
<1>2. Writing = {} /\ Lost = {} /\ \A h \in Helpers : ~Alone(h)
  BY <1>1 DEF Writing, Lost, Alone
<1>3. TypeOK
  <2>1. /\ 0 \in 0..MaxEvents /\ 0 \in 0..MaxFaults /\ 1 \in 1..Pieces + 1
    BY AuditAssumption
  <2>2. now \in Int \X Seconds
    BY AuditAssumption DEF Init
  <2> QED BY <2>1, <2>2 DEF Init, TypeOK
<1>4. Steady
  <2>1. file \in Seq(Marks) /\ IsFiniteSet(accepted)
    BY <1>1, EmptySeq, FS_EmptySet
  <2> QED BY <1>1, <1>2, <1>3, <2>1 DEF Steady, Lone
<1>5. ~Owing
  BY <1>1, <1>2, EmptySeq DEF Owing, Torn
<1>6. Cardinality(Lost) + Debt <= faults
  <2>1. Cardinality(Lost) = 0
    BY <1>2, FS_EmptySet
  <2> QED BY <1>1, <1>5, <2>1 DEF Debt
<1> QED BY <1>4, <1>6 DEF AuditInv

LEMMA AuditNext ==
    ASSUME AuditInv, [Next]_vars
    PROVE  AuditInv'
<1>1. CASE Next
  <2>1. Steady'
    BY <1>1, SteadyNext DEF AuditInv
  <2>2. PICK h \in Helpers : \/ Handle(h) \/ Open(h) \/ Write(h) \/ EndLine(h)
                             \/ AppendFails(h) \/ Reply(h) \/ Restart(h)
    BY <1>1 DEF Next
  <2> QED BY <2>1, <2>2, CountHandle, CountOpen, CountWrite, CountEndLine, CountFails
<1>2. CASE UNCHANGED vars
  <2>1. UNCHANGED <<file, writer, accepted, overlapped, faults, now>>
    BY <1>2 DEF vars
  <2>2. /\ Writing' = Writing /\ \A i : Torn(i)' <=> Torn(i)
        /\ \A h \in Helpers : /\ Event(h)' = Event(h) /\ Start(h)' = Start(h)
    BY <2>1 DEF Writing, Torn, Event, Start
  <2>3. \A h \in Helpers : (Alone(h)' <=> Alone(h)) /\ (Block(h)' <=> Block(h))
    BY <2>1, <2>2 DEF Alone, Block
  <2>4. Steady'
    BY <2>1, <2>2, <2>3 DEF AuditInv, Steady, TypeOK, Lone
  <2>5. Owing' => Owing
    BY <2>1, <2>2, <2>3 DEF Owing, Torn
  <2> QED BY <2>1, <2>4, <2>5, LostStays, CountStays
<1> QED BY <1>1, <1>2

LEMMA AuditInvHolds == Spec => []AuditInv
<1> QED BY AuditInit, AuditNext, PTL DEF Spec

\* Every event that is written is one of a request that was handled, and no
\* more than its pieces are.
THEOREM AuditTypeOK == Spec => []TypeOK
<1>1. AuditInv => TypeOK
  BY DEF AuditInv, Steady
<1> QED BY <1>1, AuditInvHolds, PTL

\* A fault costs at most one accepted event, however many helpers, events and
\* pieces there are: the event that goes behind the line a fault has torn is
\* counted against it, and its own end of line makes good for the next.
THEOREM AuditAcceptedIsReadable == Spec => []AcceptedIsReadable
<1>1. AuditInv => AcceptedIsReadable
  <2>1. SUFFICES ASSUME AuditInv PROVE Cardinality(Lost) <= faults
    BY DEF AcceptedIsReadable, Lost
  <2>2. Cardinality(Lost) \in Nat /\ faults \in Nat
    BY <2>1, LostIsFinite, AuditAssumption DEF AuditInv, Steady, TypeOK
  <2>3. Debt \in {0, 1}
    BY DEF Debt
  <2> QED BY <2>1, <2>2, <2>3 DEF AuditInv
<1> QED BY <1>1, AuditInvHolds, PTL
-----------------------------------------------------------------------------
(* The calendar.  A date of utc_timestamp, an era of 400 years at a time,   *)
(* against the one that counts days year by year and month by month.        *)

\* Induction, with a set for what is shown.
LEMMA NatBySteps ==
    ASSUME NEW S, 0 \in S, \A n \in Nat : n \in S => n + 1 \in S
    PROVE  Nat \subseteq S
<1>1. SUFFICES ASSUME Nat \ S # {} PROVE FALSE
  OBVIOUS
<1>2. PICK n \in Nat \ S : \A m \in Nat \ S : <<m, n>> \notin OpToRel(<, Nat)
  BY <1>1, NatLessThanWellFounded, WFMin
<1>3. PICK m \in Nat : m + 1 = n
  <2>1. n # 0 /\ n - 1 \in Nat /\ (n - 1) + 1 = n
    OBVIOUS
  <2> QED BY <2>1
<1>4. <<m, n>> \in OpToRel(<, Nat)
  BY <1>3 DEF OpToRel
<1> QED BY <1>2, <1>3, <1>4

\* The leap years before a year, from the year 0 on.
LeapsBefore(y) == (y - 1) \div 4 - (y - 1) \div 100 + (y - 1) \div 400

LEMMA LeapStep ==
    ASSUME NEW y \in Nat, y >= 1
    PROVE  LeapsBefore(y + 1) = IF Leap(y) THEN LeapsBefore(y) + 1 ELSE LeapsBefore(y)
BY SMTT(30) DEF LeapsBefore, Leap

\* Those from 1970 on, as the calendar counts them: 477 are before.
LEMMA LeapCount ==
    ASSUME NEW n \in Nat
    PROVE  LET L == {l \in 1970..1970 + n - 1 : Leap(l)}
           IN  IsFiniteSet(L) /\ Cardinality(L) = LeapsBefore(1970 + n) - 477
<1> DEFINE L(k) == {l \in 1970..1970 + k - 1 : Leap(l)}
           S == {k \in Nat : IsFiniteSet(L(k)) /\ Cardinality(L(k)) = LeapsBefore(1970 + k) - 477}
<1>1. 0 \in S
  <2>1. L(0) = {} 
    OBVIOUS
  <2>2. LeapsBefore(1970 + 0) = 477
    BY DEF LeapsBefore
  <2> QED BY <2>1, <2>2, FS_EmptySet
<1>2. ASSUME NEW k \in Nat, k \in S PROVE k + 1 \in S
  <2>1. PICK y \in Nat : y = 1970 + k /\ y >= 1 /\ 1970 + (k + 1) = y + 1
    OBVIOUS
  <2>2. L(k + 1) = IF Leap(y) THEN L(k) \cup {y} ELSE L(k)
    <3>1. 1970..1970 + (k + 1) - 1 = (1970..1970 + k - 1) \cup {y}
      BY <2>1
    <3> QED BY <3>1
  <2>3. IsFiniteSet(L(k)) /\ Cardinality(L(k)) = LeapsBefore(y) - 477 /\ y \notin L(k)
    BY <1>2, <2>1
  <2> HIDE DEF L
  <2>4. IsFiniteSet(L(k + 1)) /\ Cardinality(L(k + 1)) = LeapsBefore(y + 1) - 477
    <3>1. LeapsBefore(y) \in Int
      BY <2>1 DEF LeapsBefore
    <3>2. CASE Leap(y)
      BY <2>1, <2>2, <2>3, <3>1, <3>2, LeapStep, FS_AddElement
    <3>3. CASE ~Leap(y)
      BY <2>1, <2>2, <2>3, <3>3, LeapStep
    <3> QED BY <3>2, <3>3
  <2> QED BY <2>1, <2>4
<1> HIDE DEF L
<1>3. n \in S
  <2> HIDE DEF S
  <2> QED BY <1>1, <1>2, NatBySteps
<1>4. IsFiniteSet(L(n)) /\ Cardinality(L(n)) = LeapsBefore(1970 + n) - 477
  BY <1>3
<1> QED BY <1>4 DEF L

\* The days of an era, its years, and the days of a year.
EraDays == {doe \in Nat : doe < 146097}
Years == 0..399
YearDays == 0..365

\* The quotient finds the year, and a year has a day 365 only if the February
\* at its end has 29 days.
LEMMA YearOfDay ==
    ASSUME NEW doe \in EraDays, NEW y, y = YearOfEra(doe)
    PROVE  y \in Years /\ DayOfYear(doe, y) \in YearDays
BY SMTT(60) DEF YearOfEra, DayOfYear, EraDays, Years, YearDays

LEMMA LastDayOfYear ==
    ASSUME NEW doe \in EraDays, NEW y \in Years, y = YearOfEra(doe), DayOfYear(doe, y) = 365
    PROVE  Leap(y + 1)
BY SMTT(60) DEF YearOfEra, DayOfYear, Leap, EraDays, Years

LeapDay(y) == IF Leap(y) THEN 1 ELSE 0

Sums(y, f) == f = [k \in 0..12 |-> IF k = 0 THEN 0 ELSE f[k - 1] + MonthLength(y, k)]

\* The days of a year before each of its months.
LEMMA DaysBefore ==
    ASSUME NEW y
    PROVE  /\ DaysOfMonths(y, 1) = 0 /\ DaysOfMonths(y, 2) = 31
           /\ DaysOfMonths(y, 3) = 59 + LeapDay(y) /\ DaysOfMonths(y, 4) = 90 + LeapDay(y)
           /\ DaysOfMonths(y, 5) = 120 + LeapDay(y) /\ DaysOfMonths(y, 6) = 151 + LeapDay(y)
           /\ DaysOfMonths(y, 7) = 181 + LeapDay(y) /\ DaysOfMonths(y, 8) = 212 + LeapDay(y)
           /\ DaysOfMonths(y, 9) = 243 + LeapDay(y) /\ DaysOfMonths(y, 10) = 273 + LeapDay(y)
           /\ DaysOfMonths(y, 11) = 304 + LeapDay(y) /\ DaysOfMonths(y, 12) = 334 + LeapDay(y)
<1>0. PICK d \in {0, 1} : d = LeapDay(y)
  BY DEF LeapDay
<1>1. /\ MonthLength(y, 1) = 31 /\ MonthLength(y, 2) = 28 + d /\ MonthLength(y, 3) = 31
      /\ MonthLength(y, 4) = 30 /\ MonthLength(y, 5) = 31 /\ MonthLength(y, 6) = 30
      /\ MonthLength(y, 7) = 31 /\ MonthLength(y, 8) = 31 /\ MonthLength(y, 9) = 30
      /\ MonthLength(y, 10) = 31 /\ MonthLength(y, 11) = 30 /\ MonthLength(y, 12) = 31
  BY <1>0 DEF MonthLength, LeapDay
<1>2. \E f : Sums(y, f)
  <2> DEFINE f == [k \in 0..12 |->
                     IF k = 0 THEN 0 ELSE IF k = 1 THEN 31 ELSE IF k = 2 THEN 59 + d
                     ELSE IF k = 3 THEN 90 + d ELSE IF k = 4 THEN 120 + d
                     ELSE IF k = 5 THEN 151 + d ELSE IF k = 6 THEN 181 + d
                     ELSE IF k = 7 THEN 212 + d ELSE IF k = 8 THEN 243 + d
                     ELSE IF k = 9 THEN 273 + d ELSE IF k = 10 THEN 304 + d
                     ELSE IF k = 11 THEN 334 + d ELSE 365 + d]
  <2>1. ASSUME NEW k \in 0..12
        PROVE  f[k] = IF k = 0 THEN 0 ELSE f[k - 1] + MonthLength(y, k)
    <3>1. \/ k = 0 \/ k = 1 \/ k = 2 \/ k = 3 \/ k = 4 \/ k = 5 \/ k = 6
          \/ k = 7 \/ k = 8 \/ k = 9 \/ k = 10 \/ k = 11 \/ k = 12
      OBVIOUS
    <3> QED BY <1>0, <1>1, <3>1
  <2>2. f = [k \in 0..12 |-> f[k]]
    OBVIOUS
  <2> HIDE DEF f
  <2>3. f = [k \in 0..12 |-> IF k = 0 THEN 0 ELSE f[k - 1] + MonthLength(y, k)]
    BY <2>1, <2>2
  <2> QED BY <2>3 DEF Sums
<1>3. PICK f : f = CHOOSE g : Sums(y, g)
  OBVIOUS
<1>4. \A m : DaysOfMonths(y, m) = f[m - 1]
  BY <1>3 DEF DaysOfMonths, Sums
<1>5. \A k \in 0..12 : f[k] = IF k = 0 THEN 0 ELSE f[k - 1] + MonthLength(y, k)
  BY <1>2, <1>3 DEF Sums
<1>6. /\ f[0] = 0 /\ f[1] = f[0] + 31 /\ f[2] = f[1] + (28 + d) /\ f[3] = f[2] + 31
      /\ f[4] = f[3] + 30 /\ f[5] = f[4] + 31 /\ f[6] = f[5] + 30 /\ f[7] = f[6] + 31
      /\ f[8] = f[7] + 31 /\ f[9] = f[8] + 30 /\ f[10] = f[9] + 31 /\ f[11] = f[10] + 30
  BY <1>1, <1>5
<1>7. /\ f[0] = 0 /\ f[1] = 31 /\ f[2] = 59 + d /\ f[3] = 90 + d /\ f[4] = 120 + d
      /\ f[5] = 151 + d /\ f[6] = 181 + d /\ f[7] = 212 + d /\ f[8] = 243 + d
      /\ f[9] = 273 + d /\ f[10] = 304 + d /\ f[11] = 334 + d
  BY <1>6
<1> QED BY <1>0, <1>4, <1>7

\* The days before a date, in its year, from the day of the year that begins in
\* March.
DaysInto(doy, month, y) == IF month <= 2 THEN doy - 306 ELSE doy + 59 + LeapDay(y)

\* The month and the day.
LEMMA DateOfDay ==
    ASSUME NEW doy \in YearDays, NEW y, doy = 365 => Leap(y),
           NEW month, month = Month(MonthPrime(doy)),
           NEW day, day = DayOfMonth(doy, MonthPrime(doy))
    PROVE  /\ month \in 1..12 /\ (month <= 2 <=> doy >= 306) /\ (doy = 365 => month = 2)
           /\ day \in 1..MonthLength(y, month)
           /\ DaysOfMonths(y, month) \in Int /\ DaysInto(doy, month, y) \in Int
           /\ DaysOfMonths(y, month) + day - 1 = DaysInto(doy, month, y)
<1>1. PICK mp \in 0..11 : mp = MonthPrime(doy) /\ mp = (5 * doy + 2) \div 153
  <2>1. MonthPrime(doy) \in 0..11 /\ MonthPrime(doy) = (5 * doy + 2) \div 153
    BY SMT DEF MonthPrime, YearDays
  <2> QED BY <2>1
<1>2. \/ mp = 0 \/ mp = 1 \/ mp = 2 \/ mp = 3 \/ mp = 4 \/ mp = 5
      \/ mp = 6 \/ mp = 7 \/ mp = 8 \/ mp = 9 \/ mp = 10 \/ mp = 11
  BY <1>1
<1>3. PICK d \in {0, 1} : d = LeapDay(y) /\ (doy = 365 => d = 1)
  BY DEF LeapDay
<1>4. MonthLength(y, 2) = 28 + d
  BY <1>3 DEF MonthLength, LeapDay
<1>5. /\ month = IF mp < 10 THEN mp + 3 ELSE mp - 9
      /\ day = doy - (153 * mp + 2) \div 5 + 1
      /\ DaysInto(doy, month, y) = IF month <= 2 THEN doy - 306 ELSE doy + 59 + d
  BY <1>1, <1>3 DEF Month, DayOfMonth, DaysInto
<1> QED BY <1>1, <1>2, <1>3, <1>4, <1>5, DaysBefore, SMTT(60) DEF MonthLength, YearDays

\* The time of day.
LEMMA TimeOfDay ==
    ASSUME NEW t \in Seconds
    PROVE  /\ t \div 3600 \in 0..23 /\ (t % 3600) \div 60 \in 0..59 /\ t % 60 \in 0..59
           /\ 3600 * (t \div 3600) + 60 * ((t % 3600) \div 60) + (t % 60) = t
<1>1. t \in Nat /\ t < 86400
  BY SMT DEF Seconds
<1>2. PICK h \in Nat, r \in Nat : r < 3600 /\ h = t \div 3600 /\ r = t % 3600 /\ t = 3600 * h + r
  <2>1. t \div 3600 \in Nat /\ t % 3600 \in Nat /\ t % 3600 < 3600 /\ t = 3600 * (t \div 3600) + (t % 3600)
    BY <1>1, SMT
  <2> DEFINE h == t \div 3600
             r == t % 3600
  <2>2. h \in Nat /\ r \in Nat /\ r < 3600 /\ h = t \div 3600 /\ r = t % 3600 /\ t = 3600 * h + r
    BY <2>1
  <2> HIDE DEF h, r
  <2> QED BY <2>2
<1>3. r % 60 = t % 60
  BY <1>2, SMT
<1>4. r = 60 * (r \div 60) + (r % 60) /\ r \div 60 \in 0..59 /\ r % 60 \in 0..59
  BY <1>2, SMT
<1>5. h \in 0..23
  BY <1>1, <1>2, SMT
<1> QED BY <1>2, <1>3, <1>4, <1>5

\* The days of the years since 1970, leap days and all.
DaysTo(y) == 365 * (y - 1970) + (LeapsBefore(y) - 477)

\* No date is before 1970, and the days of the years and those of the last year
\* add up.
LEMMA DaysAddUp ==
    ASSUME NEW d \in Nat, NEW era \in Nat, era = Era(Shifted(d)),
           NEW doe \in EraDays, doe = DayOfEra(Shifted(d)),
           NEW yoe \in Years, NEW doy \in YearDays, doy = DayOfYear(doe, yoe),
           NEW month \in 1..12, month <= 2 <=> doy >= 306,
           NEW y, y = Year(era, yoe, month)
    PROVE  y \in Nat /\ y >= 1970 /\ DaysTo(y) + DaysInto(doy, month, y) = d
<1>0. d + 719468 = 146097 * era + 365 * yoe + yoe \div 4 - yoe \div 100 + doy
  BY SMT DEF Era, DayOfEra, Shifted, DayOfYear, EraDays, Years, YearDays
<1>1. PICK Y \in Nat : Y = yoe + era * 400
  BY SMT DEF Years
<1>2. LeapsBefore(Y + 1) = yoe \div 4 - yoe \div 100 + 97 * era
  BY <1>1, SMTT(60) DEF LeapsBefore, Years
<1>3. Y >= 1969 /\ (Y = 1969 => doy >= 306)
  BY <1>0, <1>1, SMTT(60) DEF Years, YearDays
<1>4. CASE month <= 2
  <2>1. y = Y + 1
    BY <1>1, <1>4, SMT DEF Year, Years
  <2> QED BY <1>0, <1>1, <1>2, <1>3, <1>4, <2>1, SMT DEF DaysTo, DaysInto, Years, YearDays
<1>5. CASE ~(month <= 2)
  <2>1. y = Y /\ Y >= 1970
    BY <1>1, <1>3, <1>5, SMT DEF Year, Years
  <2>2. LeapsBefore(Y + 1) = LeapsBefore(Y) + LeapDay(Y)
    BY <2>1, LeapStep DEF LeapDay, LeapsBefore
  <2>3. LeapsBefore(Y) \in Int /\ LeapDay(Y) \in {0, 1}
    BY <2>1 DEF LeapsBefore, LeapDay
  <2> QED BY <1>0, <1>1, <1>2, <1>3, <1>5, <2>1, <2>2, <2>3, SMT
          DEF DaysTo, DaysInto, Years, YearDays
<1> QED BY <1>4, <1>5

LEMMA DateIsRight ==
    ASSUME NEW d \in Nat, NEW t \in Seconds, NEW clock, Elapsed(clock) = <<d, t>>,
           NEW date, date = utc_timestamp(clock)
    PROVE  /\ date.year >= 1970 /\ date.month \in 1..12
           /\ date.day \in 1..MonthLength(date.year, date.month)
           /\ date.hour \in 0..23 /\ date.minute \in 0..59 /\ date.second \in 0..59
           /\ DayNumber(date.year, date.month, date.day) = d
           /\ 3600 * date.hour + 60 * date.minute + date.second = t
<1>1. PICK era \in Nat, doe \in EraDays : era = Era(Shifted(d)) /\ doe = DayOfEra(Shifted(d))
  <2>1. Era(Shifted(d)) \in Nat /\ DayOfEra(Shifted(d)) \in EraDays
    BY SMT DEF Era, Shifted, DayOfEra, EraDays
  <2> QED BY <2>1
<1>2. PICK yoe \in Years, doy \in YearDays : yoe = YearOfEra(doe) /\ doy = DayOfYear(doe, yoe)
  BY YearOfDay
<1>3. PICK month, day, year :
        /\ month = Month(MonthPrime(doy)) /\ day = DayOfMonth(doy, MonthPrime(doy))
        /\ year = Year(era, yoe, month)
  OBVIOUS
<1>4. /\ date.year = year /\ date.month = month /\ date.day = day
      /\ date.hour = t \div 3600 /\ date.minute = (t % 3600) \div 60 /\ date.second = t % 60
  BY <1>1, <1>2, <1>3 DEF utc_timestamp
<1>5. doy = 365 => Leap(year)
  <2>1. SUFFICES ASSUME doy = 365 PROVE Leap(year)
    OBVIOUS
  <2>2. month = 2
    BY <1>3, <2>1, SMT DEF Month, MonthPrime
  <2>3. year = (yoe + 1) + era * 400
    BY <1>3, <2>2, SMT DEF Year, Years
  <2>4. Leap(yoe + 1)
    BY <1>2, <2>1, LastDayOfYear
  <2> QED BY <2>3, <2>4, SMTT(60) DEF Leap, Years
<1>6. /\ month \in 1..12 /\ (month <= 2 <=> doy >= 306) /\ day \in 1..MonthLength(year, month)
      /\ DaysOfMonths(year, month) \in Int /\ DaysInto(doy, month, year) \in Int
      /\ DaysOfMonths(year, month) + day - 1 = DaysInto(doy, month, year)
  BY <1>3, <1>5, DateOfDay
<1>7. year \in Nat /\ year >= 1970 /\ DaysTo(year) + DaysInto(doy, month, year) = d
  BY <1>1, <1>2, <1>3, <1>6, DaysAddUp
<1>8. Cardinality({l \in 1970..year - 1 : Leap(l)}) = LeapsBefore(year) - 477
  <2>1. PICK n \in Nat : year = 1970 + n /\ 1970 + n - 1 = year - 1
    BY <1>7, SMT
  <2> QED BY <2>1, LeapCount
<1>9. DayNumber(year, month, day) = d
  <2>1. LeapsBefore(year) \in Int /\ day \in Int
    BY <1>6, <1>7 DEF LeapsBefore, MonthLength
  <2>2. DayNumber(year, month, day)
          = 365 * (year - 1970) + (LeapsBefore(year) - 477) + DaysOfMonths(year, month) + day - 1
    BY <1>8 DEF DayNumber
  <2> QED BY <1>6, <1>7, <2>1, <2>2, SMT DEF DaysTo
<1>10. /\ date.hour \in 0..23 /\ date.minute \in 0..59 /\ date.second \in 0..59
       /\ 3600 * date.hour + 60 * date.minute + date.second = t
  BY <1>4, TimeOfDay, SMT
<1> QED BY <1>4, <1>6, <1>7, <1>9, <1>10

\* Whatever the clock says, the timestamp of an event is a date that exists and
\* the one the calendar has for that day, with no end to the years.
THEOREM AuditTimestampIsDate == Spec => []TimestampIsDate
<1>1. TypeOK => TimestampIsDate
  <2>1. SUFFICES ASSUME now \in Int \X Seconds PROVE TimestampIsDate
    BY DEF TypeOK
  <2>2. PICK d \in Nat, t \in Seconds : Elapsed(now) = <<d, t>>
    <3>1. now[1] \in Int /\ now[2] \in Seconds /\ now = <<now[1], now[2]>> /\ 0 \in Seconds
      BY <2>1 DEF Seconds
    <3>2. CASE now[1] < 0
      BY <3>1, <3>2 DEF Elapsed
    <3>3. CASE ~(now[1] < 0)
      <4>1. now[1] \in Nat
        BY <3>1, <3>3
      <4> QED BY <3>1, <3>3, <4>1 DEF Elapsed
    <3> QED BY <3>2, <3>3
  <2>3. PICK date : date = utc_timestamp(now)
    OBVIOUS
  <2> QED BY <2>2, <2>3, DateIsRight DEF TimestampIsDate
<1> QED BY <1>1, AuditTypeOK, PTL
=============================================================================
