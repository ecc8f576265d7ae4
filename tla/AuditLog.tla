------------------------------- MODULE AuditLog -------------------------------
(***************************************************************************)
(* The audit log of the helper (append_jsonl and utc_timestamp of          *)
(* observability.rs, serve of viper-helper.rs).  The file is opened for    *)
(* every event, and written without a buffer: the JSON text piece by       *)
(* piece, then the end of the line.  A helper appends one event at a time, *)
(* but nothing keeps two helper processes from having the same file, which *)
(* happens when one takes the socket of another (module Cli).              *)
(***************************************************************************)
EXTENDS Integers, Sequences, FiniteSets

CONSTANTS
    Helpers,      (* helper processes                                      *)
    Pieces,       (* pieces a JSON text is written in                      *)
    MaxEvents,    (* bound: requests per helper                            *)
    MaxFaults,    (* bound: failing calls and crashes                      *)
    Clocks,       (* <<day since 1970, second of the day>>                 *)
    Working       (* bound: the clock at which requests come               *)

Seconds == {s \in Nat : s < 86400}  \* of a day

ASSUME AuditAssumption ==
    /\ Pieces \in Nat \ {0} /\ {MaxEvents, MaxFaults} \subseteq Nat
    /\ Clocks \subseteq Int \X Seconds /\ Working \in Clocks

VARIABLES
    file,         (* what has been written: pieces of events and newlines  *)
    writer,       (* helper -> how far it is with its current event        *)
    accepted,     (* events whose append_jsonl returned Ok                 *)
    overlapped,   (* events written while another helper was writing       *)
    faults,
    now           (* the time                                              *)

vars == <<file, writer, accepted, overlapped, faults, now>>

Newline == [event |-> <<>>, piece |-> 0]

Piece(e, k) == [event |-> e, piece |-> k]

Init ==
    /\ file = <<>> /\ accepted = {} /\ overlapped = {} /\ faults = 0
    /\ writer = [h \in Helpers |-> [pc |-> "accept", event |-> 0, next |-> 1]]
    /\ now \in Clocks

Event(h) == <<h, writer[h].event>>

Writing == {h \in Helpers : writer[h].pc = "write"}

GotoPc(h, pc) == writer' = [writer EXCEPT ![h].pc = pc]

\* A request has been read and handled.
Handle(h) ==
    /\ writer[h].pc = "accept" /\ writer[h].event < MaxEvents /\ now = Working
    /\ writer' = [writer EXCEPT ![h] = [pc |-> "open", event |-> @.event + 1, next |-> 1]]
    /\ UNCHANGED <<file, accepted, overlapped, faults, now>>

Open(h) ==
    /\ writer[h].pc = "open"
    /\ GotoPc(h, "write")
    /\ overlapped' = IF Writing = {} THEN overlapped
                     ELSE overlapped \cup {Event(q) : q \in Writing \cup {h}}
    /\ UNCHANGED <<file, accepted, faults, now>>

\* Each write call of serde_json goes to the end of the file.
Write(h) ==
    /\ writer[h].pc = "write" /\ writer[h].next <= Pieces
    /\ file' = Append(file, Piece(Event(h), writer[h].next))
    /\ writer' = [writer EXCEPT ![h].next = @ + 1]
    /\ UNCHANGED <<accepted, overlapped, faults, now>>

\* Mutant of EndLine: the event is written without an end of line.
EndLineNot(h) ==
    /\ writer[h].pc = "write" /\ writer[h].next > Pieces
    /\ accepted' = accepted \cup {Event(h)}
    /\ GotoPc(h, "reply")
    /\ UNCHANGED <<file, overlapped, faults, now>>

EndLine(h) ==
    /\ writer[h].pc = "write" /\ writer[h].next > Pieces
    /\ file' = Append(file, Newline)
    /\ accepted' = accepted \cup {Event(h)}
    /\ GotoPc(h, "reply")
    /\ UNCHANGED <<overlapped, faults, now>>

\* Mutant of AppendFails: the event is tried again, as a new one.
AppendFailsAgain(h) ==
    /\ faults < MaxFaults /\ faults' = faults + 1
    /\ writer[h].pc \in {"open", "write"}
    /\ writer' = [writer EXCEPT ![h] = [pc |-> "open", event |-> @.event + 1, next |-> 1]]
    /\ UNCHANGED <<file, accepted, overlapped, now>>

\* open or a write fails: serve only logs it.  What was written remains.
AppendFails(h) ==
    /\ faults < MaxFaults /\ faults' = faults + 1
    /\ writer[h].pc \in {"open", "write"}
    /\ GotoPc(h, "reply")
    /\ UNCHANGED <<file, accepted, overlapped, now>>

\* The reply is sent after the event, whatever became of it.
Reply(h) ==
    /\ writer[h].pc = "reply"
    /\ GotoPc(h, "accept")
    /\ UNCHANGED <<file, accepted, overlapped, faults, now>>

\* The process dies and is started again.
Restart(h) ==
    /\ faults < MaxFaults /\ faults' = faults + 1
    /\ writer[h].pc # "accept"
    /\ GotoPc(h, "accept")
    /\ UNCHANGED <<file, accepted, overlapped, now>>

Next == \E h \in Helpers :
    Handle(h) \/ Open(h) \/ Write(h) \/ EndLine(h) \/ AppendFails(h) \/ Reply(h) \/ Restart(h)

Spec == Init /\ [][Next]_vars
-----------------------------------------------------------------------------
(* utc_timestamp: the civil calendar from the number of days, counted in    *)
(* eras of 400 years that begin on a first of March.  / on i64 is \div here *)
(* since nothing is negative; a clock before 1970 counts as 1970.           *)

\* Days since the first of March of the year 0, their era, and where in it.
Shifted(days) == days + 719468

Era(z) == z \div 146097

DayOfEra(z) == z - Era(z) * 146097

\* Mutant of YearOfEra: a leap year every four years.
YearOfEraJulian(doe) == (doe - doe \div 1460) \div 365

YearOfEra(doe) ==
    (doe - doe \div 1460 + doe \div 36524 - doe \div 146096) \div 365

\* The years and their months begin in March.
DayOfYear(doe, yoe) == doe - (365 * yoe + yoe \div 4 - yoe \div 100)

MonthPrime(doy) == (5 * doy + 2) \div 153

Month(mp) == IF mp < 10 THEN mp + 3 ELSE mp - 9

DayOfMonth(doy, mp) == doy - (153 * mp + 2) \div 5 + 1

Year(era, yoe, month) == yoe + era * 400 + (IF month <= 2 THEN 1 ELSE 0)

Elapsed(clock) == IF clock[1] < 0 THEN <<0, 0>> ELSE clock

utc_timestamp(clock) ==
    LET t == Elapsed(clock)
        z == Shifted(t[1])
        yoe == YearOfEra(DayOfEra(z))
        doy == DayOfYear(DayOfEra(z), yoe)
        mp == MonthPrime(doy)
    IN [year |-> Year(Era(z), yoe, Month(mp)), month |-> Month(mp), day |-> DayOfMonth(doy, mp),
        hour |-> t[2] \div 3600, minute |-> (t[2] % 3600) \div 60, second |-> t[2] % 60]
-----------------------------------------------------------------------------
TypeOK ==
    /\ now \in Int \X Seconds /\ faults \in 0..MaxFaults
    /\ writer \in [Helpers -> [pc : {"accept", "open", "write", "reply"},
                               event : 0..MaxEvents, next : 1..Pieces + 1]]
    /\ accepted \subseteq Helpers \X (1..MaxEvents)
    /\ overlapped \subseteq Helpers \X (1..MaxEvents)

\* The line of an event, and whether the file holds it on a line of its own.
Line(e) == [k \in 1..Pieces + 1 |-> IF k > Pieces THEN Newline ELSE Piece(e, k)]

Readable(e) == \E i \in 0..Len(file) - Pieces - 1 :
    /\ SubSeq(file, i + 1, i + Pieces + 1) = Line(e)
    /\ i > 0 => file[i] = Newline

\* An event for which append_jsonl returned Ok can be read back, unless two
\* processes wrote at the same time: a failed write or a crash, which leaves a
\* line without its end, costs at most one later event, which goes behind it.
AcceptedIsReadable ==
    Cardinality({e \in accepted \ overlapped : ~Readable(e)}) <= faults

Leap(y) == y % 4 = 0 /\ (y % 100 # 0 \/ y % 400 = 0)

MonthLength(y, m) ==
    IF m = 2 THEN IF Leap(y) THEN 29 ELSE 28
    ELSE IF m \in {4, 6, 9, 11} THEN 30 ELSE 31

\* The days since 1970 of a date, month by month and year by year.
DaysOfMonths(y, m) ==
    LET sum[k \in 0..12] == IF k = 0 THEN 0 ELSE sum[k - 1] + MonthLength(y, k)
    IN sum[m - 1]

DayNumber(y, m, d) ==
    365 * (y - 1970) + Cardinality({l \in 1970..y - 1 : Leap(l)})
      + DaysOfMonths(y, m) + d - 1

\* The timestamp is a date that exists, and the one of the clock.
TimestampIsDate ==
    LET t == utc_timestamp(now) IN
    /\ t.year >= 1970 /\ t.month \in 1..12 /\ t.day \in 1..MonthLength(t.year, t.month)
    /\ t.hour \in 0..23 /\ t.minute \in 0..59 /\ t.second \in 0..59
    /\ <<DayNumber(t.year, t.month, t.day), 3600 * t.hour + 60 * t.minute + t.second>>
         = Elapsed(now)
=============================================================================
