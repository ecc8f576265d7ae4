----------------------------- MODULE GatewayProofs -----------------------------
(***************************************************************************)
(* The model gateway for every number of connections, every budget and     *)
(* every set of configuration files: an accepted configuration never leads *)
(* to a panic, the budget bounds how often the provider is contacted, the  *)
(* relay never waits for a background thread that has ended, the frames of *)
(* a call arrive in order with the numbers of their items, and a caller    *)
(* that sees no number missing has lost nothing.                           *)
(***************************************************************************)
EXTENDS ModelGateway, FiniteSetTheorems, SequenceTheorems, TLAPS

\* The configuration stays one that was accepted, and every contact has been
\* paid for with a unit of the budget.
Inv ==
    /\ config \in ConfigFiles /\ Loads(config) /\ NeverPanics
    /\ remaining \in 0..Budget /\ IsFiniteSet(contacted) /\ BudgetBounds

LEMMA InitInv == Init => Inv
BY FS_EmptySet, GatewayAssumption DEF Init, Inv, NeverPanics, BudgetBounds

\* What load and resolved_api_key check is what the matches rely on.
LEMMA LoadedHasArm ==
    ASSUME config \in ConfigFiles, Loads(config), Implemented
    PROVE  HasArm
BY GatewayAssumption DEF Loads, Implemented, HasArm, provider

\* A unit is taken for each contact, and one contact is one element more.
LEMMA ContactIsCharged ==
    ASSUME Inv, Charge, contacted' = contacted \cup {job.call}
    PROVE  remaining' \in 0..Budget /\ IsFiniteSet(contacted') /\ BudgetBounds'
<1>1. /\ IsFiniteSet(contacted') /\ Cardinality(contacted') <= Cardinality(contacted) + 1
      /\ Cardinality(contacted) \in Nat /\ Cardinality(contacted') \in Nat
  <2>1. IsFiniteSet(contacted) /\ Cardinality(contacted) \in Nat
    BY FS_CardinalityType DEF Inv
  <2>2. /\ IsFiniteSet(contacted \cup {job.call})
        /\ \/ Cardinality(contacted \cup {job.call}) = Cardinality(contacted)
           \/ Cardinality(contacted \cup {job.call}) = Cardinality(contacted) + 1
    BY <2>1, FS_AddElement
  <2> QED BY <2>1, <2>2
<1>2. remaining \in 1..Budget /\ remaining' = remaining - 1
  BY GatewayAssumption DEF Inv, Charge
<1> QED BY <1>1, <1>2, GatewayAssumption DEF Inv, BudgetBounds

\* Every step that contacts nobody keeps the bound, with or without a charge.
LEMMA NoContact ==
    ASSUME Inv, UNCHANGED contacted, Charge \/ UNCHANGED remaining
    PROVE  remaining' \in 0..Budget /\ IsFiniteSet(contacted') /\ BudgetBounds'
<1>1. Cardinality(contacted) \in Nat
  BY FS_CardinalityType DEF Inv
<1> QED BY <1>1, GatewayAssumption DEF Inv, Charge, BudgetBounds

LEMMA NextInv == Inv /\ [Next]_vars => Inv'
<1> SUFFICES ASSUME Inv, [Next]_vars PROVE Inv'
  OBVIOUS
<1> USE DEF Inv, NeverPanics
<1>1. CASE StartStream \/ CallProvider
  <2>1. HasArm
    BY <1>1, LoadedHasArm DEF StartStream, CallProvider
  <2>2. Charge /\ contacted' = contacted \cup {job.call}
    BY <1>1, <2>1 DEF StartStream, CallProvider
  <2>3. config' = config /\ pc' # "panicked"
    BY <1>1, <2>1 DEF StartStream, CallProvider
  <2> QED BY <2>2, <2>3, ContactIsCharged
<1>2. CASE RefuseCharged \/ RefuseFree \/ RefuseExhausted
  <2>1. /\ config' = config /\ contacted' = contacted /\ pc' # "panicked"
        /\ Charge \/ remaining' = remaining
    BY <1>2 DEF RefuseCharged, RefuseFree, RefuseExhausted, Refuse
  <2> QED BY <2>1, NoContact
<1>3. CASE Accept \/ ReadFails
  <2>1. UNCHANGED <<config, contacted, remaining>> /\ pc' # "panicked"
    BY <1>3 DEF Accept, ReadFails, Close
  <2> QED BY <2>1, NoContact
<1>4. CASE RelayDelta \/ RelayError \/ RelayTimesOut
  <2>1. UNCHANGED <<config, contacted, remaining>> /\ pc' # "panicked"
    BY <1>4 DEF RelayDelta, RelayError, RelayTimesOut, StreamFails, Close
  <2> QED BY <2>1, NoContact
<1>5. CASE Write \/ WriteFails
  <2>1. UNCHANGED <<config, contacted, remaining>> /\ pc' # "panicked"
    BY <1>5 DEF Write, WriteFails, AfterWrite, Close
  <2> QED BY <2>1, NoContact
<1>6. ASSUME NEW c \in Calls, Reader(c) PROVE Inv'
  <2>1. UNCHANGED <<config, contacted, remaining, pc>>
    BY <1>6 DEF Reader, OllamaLine, OpenAiLine, AnthropicLine, ReaderFails, SendItem, Send
  <2> QED BY <2>1, NoContact
<1>7. ASSUME NEW c \in Calls, Caller(c) PROVE Inv'
  <2>1. UNCHANGED <<config, contacted, remaining, pc>>
    BY <1>7 DEF Caller, Connect, SendLine, Receives, ReadFrame, SeeClosed, GiveUp
  <2> QED BY <2>1, NoContact
<1>8. CASE UNCHANGED vars
  BY <1>8, NoContact DEF vars
<1> QED BY <1>1, <1>2, <1>3, <1>4, <1>5, <1>6, <1>7, <1>8 DEF Next, Server
-----------------------------------------------------------------------------
\* Whatever files an administrator may write: one that load and
\* resolved_api_key let pass has an arm for every request that passes the
\* checks of serve_stream and handle, so no expect or unreachable!() of the
\* matches on the provider ends the gateway.
THEOREM GatewayNeverPanics == Spec => []NeverPanics
<1>1. Inv => NeverPanics
  BY DEF Inv
<1> QED BY <1>1, InitInv, NextInv, PTL DEF Spec

\* However many callers there are, and however their calls end, the provider
\* is contacted for no more of them than units of max_requests were spent.
THEOREM GatewayBudgetBounds == Spec => []BudgetBounds
<1>1. Inv => BudgetBounds
  BY DEF Inv
<1> QED BY <1>1, InitInv, NextInv, PTL DEF Spec
-----------------------------------------------------------------------------
(* The hand-over between a background thread and the relay loop.            *)

FrameType == [seq : Nat, delta : Nat, done : BOOLEAN, error : BOOLEAN, whole : BOOLEAN]
ItemType == [delta : Nat, done : BOOLEAN, failed : BOOLEAN]

JobType == [call : Calls \cup {None}, seq : Nat, ioFailed : BOOLEAN, out : FrameType]

StreamTypes ==
    /\ job \in JobType /\ (pc # "accept" => job.call \in Calls)
    /\ reader \in [Calls -> {"none", "running", "ended"}]
    /\ made \in [Calls -> Nat]
    /\ chan \in [Calls -> Seq(ItemType)]
    /\ backlog \in Seq(Calls)

\* The last of the items in a channel ends the stream.
Ends(items) == items # <<>> /\ (items[Len(items)].done \/ items[Len(items)].failed)

\* While the relay loop of a call runs, its thread does, or the item that
\* ends the stream is still in the channel: the loop is left when it is taken.
HandOver == \A c \in Calls : Receiving(c) =>
    reader[c] = "running" \/ (reader[c] = "ended" /\ Ends(chan[c]))

StreamInv == StreamTypes /\ HandOver

\* Taking the first of several items leaves the last one where it is.
LEMMA TailEnds ==
    ASSUME NEW items \in Seq(ItemType), Ends(items)
    PROVE  Ends(Tail(items)) \/ Head(items).done \/ Head(items).failed
<1>1. CASE Len(items) = 1
  BY <1>1 DEF Ends
<1>2. CASE Len(items) # 1
  <2>1. Len(items) \in Nat /\ Len(items) > 1
    <3>1. Len(items) \in Nat
      OBVIOUS
    <3>2. Len(items) # 0
      BY DEF Ends
    <3> QED BY <1>2, <3>1, <3>2
  <2>2. /\ Tail(items) \in Seq(ItemType) /\ Len(Tail(items)) = Len(items) - 1
        /\ Tail(items)[Len(items) - 1] = items[Len(items)]
    BY <2>1, HeadTailProperties DEF Ends
  <2>3. Tail(items) # <<>>
    <3>1. Len(Tail(items)) # 0
      BY <2>1, <2>2
    <3>2. Len(<<>>) = 0
      OBVIOUS
    <3> QED BY <3>1, <3>2, Zenon
  <2> QED BY <2>2, <2>3 DEF Ends
<1> QED BY <1>1, <1>2

LEMMA NoJobType == NoJob \in JobType /\ NoJob.call = None
<1>1. Torn \in FrameType
  BY DEF Torn, Frame, FrameType
<1> QED BY <1>1 DEF NoJob, JobType

LEMMA InitStream == Init => StreamInv
BY NoJobType DEF Init, StreamInv, StreamTypes, HandOver, Receiving

LEMMA StreamNext == StreamInv /\ [Next]_vars => StreamInv'
<1> SUFFICES ASSUME StreamInv, [Next]_vars PROVE StreamInv'
  OBVIOUS
<1> USE DEF StreamInv, StreamTypes, Receiving
\* A step of the server thread after which no relay loop runs.
<1>a. ASSUME UNCHANGED <<reader, made>>, StreamTypes',
             pc' \in {"accept", "read", "panicked"} \/ (pc' = "write" /\ job'.out.done)
      PROVE  StreamInv'
  BY <1>a DEF HandOver
\* A connection is closed.
<1>b. ASSUME Close, UNCHANGED <<reader, made, backlog>>, chan' \in [Calls -> Seq(ItemType)]
      PROVE  StreamInv'
  BY NoJobType, <1>a, <1>b DEF Close
\* A final frame is to be written.
<1>c. ASSUME NEW frame \in FrameType, frame.done, job' = [job EXCEPT !.out = frame], pc' = "write",
             pc # "accept", UNCHANGED <<reader, made, backlog>>,
             chan' \in [Calls -> Seq(ItemType)]
      PROVE  StreamInv'
  <2>1. job' \in JobType /\ job'.call = job.call /\ job'.out = frame
    BY <1>c DEF JobType
  <2> QED BY <2>1, <1>a, <1>c
<1>1. CASE Accept
  <2>1. Head(backlog) \in Calls /\ Tail(backlog) \in Seq(Calls)
    BY <1>1 DEF Accept
  <2>2. job' \in JobType /\ job'.call \in Calls
    BY <1>1, <2>1, NoJobType DEF Accept, JobType
  <2> QED BY <1>1, <2>1, <2>2, <1>a DEF Accept, streamVars
<1>2. CASE ReadFails
  BY <1>2, <1>b DEF ReadFails, streamVars, peerVars
<1>3. CASE RefuseFree \/ RefuseExhausted \/ RefuseCharged
  <2>1. Frame(0, 0, TRUE, TRUE) \in FrameType /\ Frame(0, 0, TRUE, TRUE).done
    BY DEF Frame, FrameType
  <2> QED BY <1>3, <2>1, <1>c
          DEF RefuseFree, RefuseExhausted, RefuseCharged, HasRequest, Refuse, streamVars, peerVars
<1>4. CASE StartStream
  BY <1>4 DEF StartStream, HasRequest, HandOver, peerVars
<1>5. CASE CallProvider
  <2>1. CASE HasArm
    <3>1. PICK accepted \in BOOLEAN, answer \in TextAnswers \cup EmbedAnswers :
             Respond(accepted, answer)
      <4>1. ASSUME NEW a \in TextAnswers PROVE AcceptsText(a) \in BOOLEAN
        <5>1. AcceptsText(a) = (a \in (IF provider = "ollama" THEN {"whole", "empty"}
                                       ELSE {"whole", "unfinished"}))
          BY DEF AcceptsText
        <5> QED BY <5>1
      <4>2. \A a \in EmbedAnswers : AcceptsEmbedding(a) \in BOOLEAN
        BY DEF AcceptsEmbedding
      <4> QED BY <1>5, <2>1, <4>1, <4>2 DEF CallProvider
    <3> DEFINE frame == Frame(0, IF accepted /\ answer # "empty" THEN 1 ELSE 0, TRUE, ~accepted)
    <3>2. frame \in FrameType /\ frame.done
      BY DEF Frame, FrameType
    <3>3. job' = [job EXCEPT !.out = frame]
      BY <3>1 DEF Respond
    <3> HIDE DEF frame
    <3> QED BY <1>5, <2>1, <3>2, <3>3, <1>c DEF CallProvider, HasRequest, streamVars, peerVars
  <2>2. CASE ~HasArm
    BY <1>5, <2>2, <1>a DEF CallProvider, HasRequest, streamVars, peerVars
  <2> QED BY <2>1, <2>2
<1>6. CASE RelayDelta
  <2> DEFINE d == job.call
             item == Head(chan[d])
             frame == Frame(job.seq, item.delta, item.done, FALSE)
  <2>1. /\ pc = "relay" /\ chan[d] # <<>> /\ ~item.failed /\ pc' = "write"
        /\ chan' = [chan EXCEPT ![d] = Tail(@)] /\ UNCHANGED <<reader, made, backlog>>
        /\ job' = [job EXCEPT !.out = frame, !.seq = @ + 1]
    BY <1>6 DEF RelayDelta, peerVars
  <2>2. /\ d \in Calls /\ chan[d] \in Seq(ItemType) /\ item \in ItemType
        /\ Tail(chan[d]) \in Seq(ItemType)
    BY <2>1
  <2>3. frame \in FrameType /\ frame.done = item.done
    BY <2>2 DEF Frame, FrameType, ItemType, JobType
  <2>4. job' \in JobType /\ job'.call = d /\ job'.out.done = item.done
    <3> HIDE DEF frame
    <3> DEFINE sent == [job EXCEPT !.out = frame]
    <3>1. job' = [sent EXCEPT !.seq = job.seq + 1]
      BY <2>1
    <3>2. sent \in JobType /\ sent.call = d /\ sent.out = frame
      BY <2>3 DEF JobType
    <3>3. job.seq + 1 \in Nat
      BY DEF JobType
    <3> HIDE DEF sent
    <3> QED BY <2>3, <3>1, <3>2, <3>3 DEF JobType
  <2>5. StreamTypes'
    BY <2>1, <2>2, <2>4
  <2>6. reader[d] = "running" \/ (reader[d] = "ended" /\ Ends(chan[d]))
    BY <2>1, <2>2 DEF HandOver
  <2>7. item.done \/ reader[d] = "running" \/ (reader[d] = "ended" /\ Ends(Tail(chan[d])))
    BY <2>1, <2>2, <2>6, TailEnds
  <2>8. HandOver'
    BY <2>1, <2>2, <2>4, <2>7 DEF HandOver
  <2> QED BY <2>5, <2>8
<1>7. CASE RelayError \/ RelayTimesOut
  <2>1. /\ pc = "relay" /\ chan' = [chan EXCEPT ![job.call] = <<>>]
        /\ UNCHANGED <<reader, made, backlog>>
        /\ \/ Close
           \/ /\ job' = [job EXCEPT !.out = Frame(job.seq, 0, TRUE, TRUE)]
              /\ pc' = "write"
    BY <1>7 DEF RelayError, RelayTimesOut, StreamFails, DropReceiver, peerVars
  <2>2. chan' \in [Calls -> Seq(ItemType)]
    BY <2>1
  <2>3. Frame(job.seq, 0, TRUE, TRUE) \in FrameType /\ Frame(job.seq, 0, TRUE, TRUE).done
    BY DEF Frame, FrameType, JobType
  <2> QED BY <2>1, <2>2, <2>3, <1>b, <1>c
<1>8. CASE Write \/ WriteFails
  <2>1. PICK ok \in BOOLEAN : AfterWrite(ok)
    BY <1>8 DEF Write, WriteFails
  <2>2. pc = "write" /\ UNCHANGED <<reader, made, chan, backlog>>
    BY <1>8 DEF Write, WriteFails, streamVars, peerVars
  <2>3. CASE job.out.done
    BY <2>1, <2>2, <2>3, <1>b DEF AfterWrite
  <2>4. CASE ~job.out.done
    <3>1. pc' = "relay" /\ job' \in JobType /\ job'.call = job.call
      BY <2>1, <2>4 DEF AfterWrite, JobType
    <3> QED BY <2>2, <2>4, <3>1 DEF HandOver
  <2> QED BY <2>3, <2>4
<1>9. ASSUME NEW c \in Calls, Reader(c) PROVE StreamInv'
  <2>1. PICK item \in ItemType, last \in BOOLEAN :
          /\ reader[c] = "running" /\ made' \in [Calls -> Nat]
          /\ last => item.done \/ item.failed
          /\ Send(c, item, last)
    <3>1. ASSUME NEW text \in BOOLEAN, NEW last \in BOOLEAN, SendItem(c, text, last)
          PROVE  /\ Item(IF text THEN made[c] + 1 ELSE 0, last, FALSE) \in ItemType
                 /\ Item(IF text THEN made[c] + 1 ELSE 0, last, FALSE).done = last
                 /\ made' \in [Calls -> Nat]
      BY <3>1 DEF SendItem, Item, ItemType
    <3>2. Item(0, FALSE, TRUE) \in ItemType /\ Item(0, FALSE, TRUE).failed
      BY DEF Item, ItemType
    <3>3. CASE ReaderFails(c)
      BY <3>2, <3>3 DEF ReaderFails
    <3>4. CASE OllamaLine(c) \/ OpenAiLine(c) \/ AnthropicLine(c)
      <4>1. PICK text \in BOOLEAN, last \in BOOLEAN : SendItem(c, text, last)
        BY <3>4 DEF OllamaLine, OpenAiLine, AnthropicLine
      <4>2. reader[c] = "running"
        BY <3>4 DEF OllamaLine, OpenAiLine, AnthropicLine
      <4> QED BY <3>1, <4>1, <4>2 DEF SendItem
    <3> QED BY <1>9, <3>3, <3>4 DEF Reader
  <2>2. UNCHANGED <<pc, job, backlog>>
    BY <2>1 DEF Send, peerVars
  <2>3. Append(chan[c], item) \in Seq(ItemType) /\ (last => Ends(Append(chan[c], item)))
    <3>1. chan[c] \in Seq(ItemType)
      OBVIOUS
    <3>2. /\ Append(chan[c], item) \in Seq(ItemType)
          /\ Len(Append(chan[c], item)) = Len(chan[c]) + 1
          /\ Append(chan[c], item)[Len(chan[c]) + 1] = item
      BY <3>1, AppendProperties
    <3>3. Append(chan[c], item) # <<>>
      <4>1. Len(Append(chan[c], item)) # 0
        BY <3>1, <3>2
      <4>2. Len(<<>>) = 0
        OBVIOUS
      <4> QED BY <4>1, <4>2, Zenon
    <3> QED BY <2>1, <3>2, <3>3 DEF Ends
  <2>4. StreamTypes'
    BY <2>1, <2>2, <2>3 DEF Send
  <2>5. ASSUME NEW q \in Calls, Receiving(q)'
        PROVE  (reader[q] = "running" \/ (reader[q] = "ended" /\ Ends(chan[q])))'
    <3>1. Receiving(q)
      BY <2>2, <2>5
    <3>2. CASE q = c
      BY <2>1, <2>3, <3>1, <3>2 DEF Send
    <3>3. CASE q # c
      BY <2>1, <3>1, <3>3 DEF Send, HandOver
    <3> QED BY <3>2, <3>3
  <2> QED BY <2>4, <2>5 DEF HandOver
<1>10. CASE UNCHANGED vars
  BY <1>10 DEF vars, HandOver
<1>11. ASSUME NEW c \in Calls, Caller(c) PROVE StreamInv'
  <2>1. UNCHANGED <<pc, job, reader, made, chan>> /\ backlog' \in Seq(Calls)
    <3>1. Append(backlog, c) \in Seq(Calls)
      BY AppendProperties
    <3>2. CASE Connect(c)
      BY <3>1, <3>2 DEF Connect, streamVars
    <3>3. CASE SendLine(c)
      BY <3>3 DEF SendLine, streamVars
    <3>4. CASE ReadFrame(c)
      BY <3>4 DEF ReadFrame, streamVars
    <3>5. CASE SeeClosed(c) \/ GiveUp(c)
      BY <3>5 DEF SeeClosed, GiveUp, streamVars
    <3> QED BY <1>11, <3>2, <3>3, <3>4, <3>5 DEF Caller, Receives
  <2> QED BY <2>1 DEF HandOver
<1> QED BY <1>1, <1>2, <1>3, <1>4, <1>5, <1>6, <1>7, <1>8, <1>9, <1>10, <1>11
        DEF Next, Server

\* However provider, relay and time-outs interleave, the relay never finds
\* the channel empty with no thread to fill it: every background thread that
\* ends has left an item that ends the relay as well.
THEOREM GatewayReaderLeavesAnItem == Spec => []ReaderLeavesAnItem
<1>1. StreamInv => ReaderLeavesAnItem
  BY DEF StreamInv, StreamTypes, HandOver, Receiving, Ends, ReaderLeavesAnItem
<1> QED BY <1>1, InitStream, StreamNext, PTL DEF Spec
-----------------------------------------------------------------------------
(* Each connection is served once, so that a call has one relay at most and *)
(* nothing is on its wire before.                                           *)

Waiting == Range(backlog)

\* Connections the server thread has yet to read from.
Fresh == {c \in Calls : caller[c].st = "idle" \/ c \in Waiting \/ (pc = "read" /\ job.call = c)}

CallTypes ==
    /\ caller \in [Calls -> [form : Forms, sent : BOOLEAN,
                             st : {"idle", "connected", "ok", "failed", "gone"}]]
    /\ sock \in [Calls -> Seq(FrameType)] /\ got \in [Calls -> Seq(FrameType)]
    /\ pc \in {"accept", "read", "relay", "write", "panicked"}

Once ==
    /\ IsInjective(backlog) /\ job.call \notin Waiting
    /\ \A c \in Calls : caller[c].st = "idle" => c \notin Waiting /\ c # job.call

Untouched ==
    /\ \A c \in Fresh : got[c] = <<>> /\ sock[c] = <<>> /\ made[c] = 0 /\ reader[c] = "none"
    /\ pc = "read" => job.seq = 0

Served == CallTypes /\ Once /\ Untouched

\* What happens to the backlog.
LEMMA BacklogSteps ==
    ASSUME NEW s \in Seq(Calls), IsInjective(s)
    PROVE  /\ s # <<>> => /\ Head(s) \in Range(s) /\ IsInjective(Tail(s))
                          /\ Range(Tail(s)) = Range(s) \ {Head(s)}
           /\ \A c \in Calls \ Range(s) : /\ IsInjective(Append(s, c))
                                          /\ Range(Append(s, c)) = Range(s) \cup {c}
<1> USE DEF Range, IsInjective
<1>1. ASSUME s # <<>>
      PROVE  /\ Head(s) \in Range(s) /\ IsInjective(Tail(s))
             /\ Range(Tail(s)) = Range(s) \ {Head(s)}
  <2>1. /\ Len(s) \in Nat \ {0} /\ DOMAIN s = 1..Len(s) /\ DOMAIN Tail(s) = 1..(Len(s) - 1)
        /\ \A i \in 1..(Len(s) - 1) : Tail(s)[i] = s[i + 1]
        /\ Head(s) = s[1]
    BY <1>1, EmptySeq, LenProperties, HeadTailProperties
  <2>2. IsInjective(Tail(s))
    BY <2>1
  <2>3. \A i \in DOMAIN s : i = 1 \/ (i - 1 \in DOMAIN Tail(s) /\ Tail(s)[i - 1] = s[i])
    BY <2>1
  <2>4. \A i \in DOMAIN Tail(s) : i + 1 \in DOMAIN s /\ s[i + 1] # s[1]
    BY <2>1
  <2>5. Range(Tail(s)) = Range(s) \ {Head(s)}
    <3>1. \A x \in Range(Tail(s)) : x \in Range(s) /\ x # Head(s)
      BY <2>1, <2>4
    <3>2. \A x \in Range(s) : x # Head(s) => x \in Range(Tail(s))
      BY <2>1, <2>3
    <3>3. Head(s) \notin Range(Tail(s))
      BY <3>1
    <3> HIDE DEF Range
    <3> QED BY <3>1, <3>2, <3>3
  <2>6. Head(s) \in Range(s)
    BY <2>1
  <2> QED BY <2>2, <2>5, <2>6
<1>2. ASSUME NEW c \in Calls \ Range(s)
      PROVE  IsInjective(Append(s, c)) /\ Range(Append(s, c)) = Range(s) \cup {c}
  <2>1. /\ Len(s) \in Nat /\ DOMAIN s = 1..Len(s) /\ DOMAIN Append(s, c) = 1..(Len(s) + 1)
        /\ \A i \in 1..Len(s) : Append(s, c)[i] = s[i]
        /\ Append(s, c)[Len(s) + 1] = c
    BY LenProperties, AppendProperties
  <2>2. IsInjective(Append(s, c))
    BY <2>1
  <2>3. \A i \in DOMAIN Append(s, c) : i = Len(s) + 1 \/ i \in DOMAIN s
    BY <2>1
  <2> QED BY <2>1, <2>2, <2>3
<1> QED BY <1>1, <1>2

LEMMA InitServed == Init => Served
<1> SUFFICES ASSUME Init PROVE Served
  OBVIOUS
<1>1. backlog = <<>> /\ Waiting = {} /\ job.call = None
  BY NoJobType DEF Init, Waiting, Range
<1> QED BY <1>1, GatewayAssumption
        DEF Init, Served, CallTypes, Once, Untouched, Fresh, Forms, IsInjective

LEMMA ServedNext ==
    ASSUME StreamInv, Served, [Next]_vars
    PROVE  Served' /\ Fresh' \subseteq Fresh
<1>0. /\ backlog \in Seq(Calls) /\ None \notin Calls /\ Waiting \subseteq Calls
      /\ job \in JobType /\ CallTypes /\ Once /\ Untouched
      /\ pc # "accept" => job.call \in Calls
      /\ pc \in {"relay", "write"} => job.call \notin Fresh
  BY GatewayAssumption DEF StreamInv, StreamTypes, Served, CallTypes, Once, Fresh, Waiting, Range
<1> USE <1>0
\* Nothing happens on a connection that is still to be read from.
<1>b. ASSUME CallTypes', Once', Fresh' \subseteq Fresh, pc' = "read" => job'.seq = 0,
             \A c \in Fresh' : /\ got'[c] = got[c] /\ sock'[c] = sock[c]
                               /\ made'[c] = made[c] /\ reader'[c] = reader[c]
      PROVE  Served' /\ Fresh' \subseteq Fresh
  BY <1>b DEF Served, Untouched
\* The server thread is done with reading the request of a connection.
<1>a. ASSUME pc' # "read", pc' \in {"accept", "read", "relay", "write", "panicked"},
             job'.call \in {job.call, None}, UNCHANGED peerVars, sock' = sock, made' = made,
             \A c \in Calls : reader'[c] # reader[c] => pc = "read" /\ c = job.call
      PROVE  Served' /\ Fresh' \subseteq Fresh
  <2>1. backlog' = backlog /\ caller' = caller /\ got' = got /\ Waiting' = Waiting
    BY <1>a DEF peerVars, Waiting
  <2>2. Once' /\ CallTypes'
    BY <1>a, <1>0, <2>1 DEF Once, CallTypes
  <2>3. Fresh' \subseteq Fresh /\ (pc = "read" => job.call \notin Fresh')
    BY <1>a, <2>1 DEF Fresh, Once
  <2>4. \A c \in Fresh' : reader'[c] = reader[c]
    BY <1>a, <2>3 DEF Fresh
  <2> QED BY <1>a, <1>b, <2>1, <2>2, <2>3, <2>4
<1>1. CASE Accept
  <2>1. /\ backlog # <<>> /\ backlog' = Tail(backlog) /\ pc = "accept" /\ pc' = "read"
        /\ job' = [NoJob EXCEPT !.call = Head(backlog)]
        /\ UNCHANGED <<caller, sock, got, made, reader>>
    BY <1>1 DEF Accept, streamVars
  <2>2. job'.call = Head(backlog) /\ job'.seq = 0
    BY <2>1 DEF NoJob
  <2>3. Head(backlog) \in Waiting /\ Waiting' = Waiting \ {Head(backlog)} /\ IsInjective(backlog')
    BY <2>1, BacklogSteps DEF Once, Waiting
  <2>4. Once' /\ CallTypes'
    BY <2>1, <2>2, <2>3 DEF Once, CallTypes
  <2>5. Fresh' \subseteq Fresh
    BY <2>1, <2>2, <2>3 DEF Fresh
  <2> QED BY <1>b, <2>1, <2>2, <2>4, <2>5
<1>2. CASE ReadFails
  BY <1>2, <1>a, NoJobType DEF ReadFails, Close, streamVars
<1>3. CASE RefuseFree \/ RefuseExhausted \/ RefuseCharged
  BY <1>3, <1>a DEF RefuseFree, RefuseExhausted, RefuseCharged, Refuse, streamVars, JobType
<1>4. CASE StartStream
  <2>1. /\ pc = "read" /\ pc' \in {"relay", "panicked"} /\ UNCHANGED <<job, made, peerVars, sock>>
        /\ reader' \in {reader, [reader EXCEPT ![job.call] = "running"]}
    BY <1>4 DEF StartStream, HasRequest
  <2>2. \A c \in Calls : reader'[c] # reader[c] => c = job.call
    BY <2>1 DEF StreamInv, StreamTypes
  <2> QED BY <2>1, <2>2, <1>a
<1>5. CASE CallProvider
  <2>1. /\ pc' \in {"write", "panicked"} /\ UNCHANGED <<streamVars, peerVars, sock>>
        /\ job'.call = job.call
    BY <1>5 DEF CallProvider, Respond, JobType
  <2> QED BY <2>1, <1>a DEF streamVars
<1>6. CASE RelayDelta \/ RelayError \/ RelayTimesOut
  <2>1. /\ pc' \in {"write", "accept"} /\ UNCHANGED <<peerVars, sock, made, reader>>
        /\ job'.call \in {job.call, None}
    BY <1>6, NoJobType DEF RelayDelta, RelayError, RelayTimesOut, StreamFails, Close, JobType
  <2> QED BY <2>1, <1>a
<1>7. CASE Write \/ WriteFails
  <2>1. /\ pc = "write" /\ pc' \in {"relay", "accept"} /\ job'.call \in {job.call, None}
        /\ UNCHANGED <<backlog, caller, got, made, reader>>
    BY <1>7, NoJobType DEF Write, WriteFails, AfterWrite, Close, JobType, streamVars, peerVars
  <2>2. PICK frames \in Seq(FrameType) : sock' = [sock EXCEPT ![job.call] = frames]
    <3>1. job.call \in Calls /\ sock[job.call] \in Seq(FrameType) /\ job.out \in FrameType
          /\ Torn \in FrameType
      BY <2>1, <1>0 DEF CallTypes, JobType, Torn, Frame, FrameType
    <3>2. CASE sock' = sock
      BY <3>1, <3>2 DEF CallTypes
    <3>3. CASE sock' # sock
      <4>1. PICK rest \in {<<>>, <<Torn>>, <<job.out>>} :
              \/ sock' = [sock EXCEPT ![job.call] = @ \o rest]
              \/ sock' = [sock EXCEPT ![job.call] = Append(@, job.out)]
        BY <1>7, <3>3 DEF Write, WriteFails
      <4>2. /\ sock[job.call] \o rest \in Seq(FrameType)
            /\ Append(sock[job.call], job.out) \in Seq(FrameType)
        <5>1. <<>> \in Seq(FrameType) /\ <<Torn>> \in Seq(FrameType) /\ <<job.out>> \in Seq(FrameType)
          BY <3>1
        <5>2. rest \in Seq(FrameType)
          BY <5>1
        <5> QED BY <3>1, <5>2
      <4> QED BY <4>1, <4>2
    <3> QED BY <3>2, <3>3
  <2>3. CallTypes' /\ Waiting' = Waiting
    BY <2>1, <2>2 DEF CallTypes, Waiting
  <2>4. Once'
    BY <2>1, <2>3, <1>0 DEF Once
  <2>5. Fresh' \subseteq Fresh
    BY <2>1, <2>3 DEF Fresh
  <2>6. \A c \in Fresh : sock'[c] = sock[c]
    BY <2>1, <2>2, <1>0 DEF CallTypes, Fresh
  <2> QED BY <1>b, <2>1, <2>3, <2>4, <2>5, <2>6
<1>8. ASSUME NEW c \in Calls, Reader(c) PROVE Served' /\ Fresh' \subseteq Fresh
  <2>1. /\ UNCHANGED <<backlog, caller, got, sock, pc, job>> /\ reader[c] = "running"
        /\ \A d \in Calls \ {c} : made'[d] = made[d] /\ reader'[d] = reader[d]
    <3>1. PICK item : \E last \in BOOLEAN : Send(c, item, last)
      BY <1>8 DEF Reader, OllamaLine, OpenAiLine, AnthropicLine, ReaderFails, SendItem
    <3>2. /\ reader[c] = "running"
          /\ made' \in {made, [made EXCEPT ![c] = made[c] + 1]}
      BY <1>8 DEF Reader, OllamaLine, OpenAiLine, AnthropicLine, ReaderFails, SendItem
    <3>3. /\ UNCHANGED <<backlog, caller, got, sock, pc, job>>
          /\ \E end \in {"running", "ended", reader[c]} : reader' = [reader EXCEPT ![c] = end]
      BY <3>1 DEF Send, peerVars
    <3>4. reader \in [Calls -> {"none", "running", "ended"}] /\ made \in [Calls -> Nat]
      BY DEF StreamInv, StreamTypes
    <3> QED BY <3>2, <3>3, <3>4
  <2>2. Waiting' = Waiting /\ Fresh' = Fresh
    BY <2>1 DEF Waiting, Fresh
  <2>3. c \notin Fresh
    BY <2>1 DEF Untouched
  <2>4. CallTypes' /\ Once'
    BY <2>1, <2>2 DEF CallTypes, Once
  <2>5. \A d \in Fresh' : made'[d] = made[d] /\ reader'[d] = reader[d]
    BY <2>1, <2>2, <2>3 DEF Fresh
  <2>6. pc' = "read" => job'.seq = 0
    BY <2>1 DEF Untouched
  <2> QED BY <1>b, <2>1, <2>2, <2>4, <2>5, <2>6
<1>9. ASSUME NEW c \in Calls, Connect(c) PROVE Served' /\ Fresh' \subseteq Fresh
  <2>1. /\ caller[c].st = "idle" /\ backlog' = Append(backlog, c)
        /\ UNCHANGED <<job, pc, made, reader, sock, got>>
        /\ \E f \in Forms :
             caller' = [caller EXCEPT ![c] = [form |-> f, st |-> "connected", sent |-> FALSE]]
    BY <1>9 DEF Connect, streamVars
  <2>2. c \notin Waiting /\ c # job.call
    BY <2>1 DEF Once
  <2>3. Waiting' = Waiting \cup {c} /\ IsInjective(backlog')
    BY <2>1, <2>2, BacklogSteps DEF Once, Waiting
  <2>4. CallTypes' /\ caller'[c].st = "connected" /\ \A d \in Calls \ {c} : caller'[d] = caller[d]
    BY <2>1 DEF CallTypes
  <2>5. Once'
    BY <2>1, <2>2, <2>3, <2>4 DEF Once
  <2>6. Fresh' \subseteq Fresh
    BY <2>1, <2>3, <2>4 DEF Fresh
  <2>7. pc' = "read" => job'.seq = 0
    BY <2>1 DEF Untouched
  <2> QED BY <1>b, <2>1, <2>4, <2>5, <2>6, <2>7
<1>10. ASSUME NEW c \in Calls, SendLine(c) \/ Receives(c) \/ GiveUp(c)
       PROVE  Served' /\ Fresh' \subseteq Fresh
  <2>1. caller[c].st = "connected" /\ UNCHANGED <<backlog, job, pc, made, reader>>
    BY <1>10 DEF SendLine, Receives, ReadFrame, SeeClosed, GiveUp, Here, streamVars
  <2>2. /\ CallTypes' /\ caller'[c].st # "idle"
        /\ \A d \in Calls \ {c} : caller'[d] = caller[d] /\ got'[d] = got[d] /\ sock'[d] = sock[d]
        /\ got[c] = <<>> /\ sock[c] = <<>> => got'[c] = <<>> /\ sock'[c] = <<>>
    <3>1. sock[c] \in Seq(FrameType) /\ got[c] \in Seq(FrameType)
      BY DEF CallTypes
    <3>2. PICK call \in [form : Forms, sent : BOOLEAN,
                          st : {"connected", "ok", "failed", "gone"}] :
            caller' = [caller EXCEPT ![c] = call]
      <4>1. /\ caller[c] \in [form : Forms, sent : BOOLEAN, st : {"connected"}]
            /\ caller = [caller EXCEPT ![c] = caller[c]]
        BY <2>1 DEF CallTypes
      <4>2. PICK call \in {[caller[c] EXCEPT !.sent = TRUE], caller[c]} \cup
                         {[caller[c] EXCEPT !.st = st] : st \in {"ok", "failed", "gone"}} :
              caller' = [caller EXCEPT ![c] = call]
        BY <1>10, <4>1 DEF SendLine, Receives, ReadFrame, SeeClosed, GiveUp, Leaves
      <4>3. call \in [form : Forms, sent : BOOLEAN, st : {"connected", "ok", "failed", "gone"}]
        BY <4>1
      <4> QED BY <4>2, <4>3
    <3>3. PICK read \in Seq(FrameType), unread \in Seq(FrameType) :
            /\ got' = [got EXCEPT ![c] = read] /\ sock' = [sock EXCEPT ![c] = unread]
            /\ got[c] = <<>> /\ sock[c] = <<>> => read = <<>> /\ unread = <<>>
      <4>1. CASE ReadFrame(c)
        <5>1. sock[c] # <<>> /\ Head(sock[c]) \in FrameType /\ Tail(sock[c]) \in Seq(FrameType)
          BY <3>1, <4>1 DEF ReadFrame
        <5>2. Append(got[c], Head(sock[c])) \in Seq(FrameType) /\ <<>> \in Seq(FrameType)
          BY <3>1, <5>1
        <5>3. /\ got' \in {got, [got EXCEPT ![c] = Append(got[c], Head(sock[c]))]}
              /\ sock' \in {[sock EXCEPT ![c] = <<>>], [sock EXCEPT ![c] = Tail(sock[c])]}
          BY <4>1 DEF ReadFrame, Leaves
        <5>4. got = [got EXCEPT ![c] = got[c]]
          BY DEF CallTypes
        <5> QED BY <3>1, <5>1, <5>2, <5>3, <5>4
      <4>2. CASE ~ReadFrame(c)
        <5>1. got' = got /\ sock' \in {sock, [sock EXCEPT ![c] = <<>>]}
          BY <1>10, <4>2 DEF SendLine, Receives, SeeClosed, GiveUp, Leaves
        <5>2. got = [got EXCEPT ![c] = got[c]] /\ sock = [sock EXCEPT ![c] = sock[c]]
          BY DEF CallTypes
        <5>3. <<>> \in Seq(FrameType)
          OBVIOUS
        <5> QED BY <3>1, <5>1, <5>2, <5>3
      <4> QED BY <4>1, <4>2
    <3>4. call \in [form : Forms, sent : BOOLEAN,
                    st : {"idle", "connected", "ok", "failed", "gone"}]
      OBVIOUS
    <3>5. CallTypes'
      BY <2>1, <3>2, <3>3, <3>4 DEF CallTypes
    <3> QED BY <2>1, <3>2, <3>3, <3>5 DEF CallTypes
  <2>3. Waiting' = Waiting
    BY <2>1 DEF Waiting
  <2>4. Once'
    BY <2>1, <2>2, <2>3 DEF Once
  <2>5. Fresh' \subseteq Fresh
    BY <2>1, <2>2, <2>3 DEF Fresh
  <2>6. \A d \in Fresh' : got'[d] = got[d] /\ sock'[d] = sock[d]
    BY <2>2, <2>5 DEF Untouched, Fresh
  <2>7. pc' = "read" => job'.seq = 0
    BY <2>1 DEF Untouched
  <2> QED BY <1>b, <2>1, <2>2, <2>4, <2>5, <2>6, <2>7
<1>11. CASE UNCHANGED vars
  BY <1>11 DEF vars, Served, CallTypes, Once, Waiting, Fresh, Untouched
<1> QED BY <1>1, <1>2, <1>3, <1>4, <1>5, <1>6, <1>7, <1>8, <1>9, <1>10, <1>11
        DEF Next, Server, Caller
-----------------------------------------------------------------------------
(* The numbers of the items on their way from a background thread.          *)

Plain(item) == ~item.done /\ ~item.failed

\* The last item says that the transport has failed.
Cut(items) == items # <<>> /\ items[Len(items)].failed

AllPlain(items) == \A k \in 1..Len(items) : Plain(items[k])

\* The k-th item in the channel is the one the relay will number seq + k - 1;
\* the last of them is the n-th item of the provider, or a failure after it.
Numbered(items, seq, n) ==
    /\ \A k \in 1..(Len(items) - 1) : Plain(items[k])
    /\ \A k \in 1..Len(items) : items[k].failed \/ items[k].delta \in {0, seq + k}
    /\ Cut(items) => n + 1 = seq + Len(items)
    /\ ~Cut(items) => n = seq + Len(items)

Flows(c) ==
    /\ caller[c].form = "stream" /\ Numbered(chan[c], job.seq, made[c])
    /\ reader[c] = "running" => AllPlain(chan[c])

Flow == \A c \in Calls : IF Receiving(c) THEN Flows(c) ELSE chan[c] = <<>>

\* A caller that has connected keeps the form of its request.
LEMMA FormKept ==
    ASSUME StreamInv, Served, [Next]_vars, NEW c \in Calls, caller[c].st # "idle"
    PROVE  caller'[c].form = caller[c].form
<1>1. CASE Server \/ UNCHANGED vars
  BY <1>1 DEF Server, Accept, ReadFails, RefuseFree, RefuseExhausted, RefuseCharged, Refuse,
              StartStream, CallProvider, RelayDelta, RelayError, RelayTimesOut, Write, WriteFails,
              peerVars, vars
<1>2. ASSUME NEW d \in Calls, Reader(d) PROVE caller' = caller
  BY <1>2 DEF Reader, OllamaLine, OpenAiLine, AnthropicLine, ReaderFails, SendItem, Send, peerVars
<1>3. ASSUME NEW d \in Calls, Caller(d) PROVE caller'[c].form = caller[c].form
  <2>1. caller \in [Calls -> [form : Forms, sent : BOOLEAN,
                              st : {"idle", "connected", "ok", "failed", "gone"}]]
    BY DEF Served, CallTypes
  <2>2. CASE Connect(d)
    BY <2>1, <2>2 DEF Connect
  <2>3. CASE ~Connect(d)
    <3>1. PICK call \in {[caller[d] EXCEPT !.sent = TRUE], caller[d]} \cup
                       {[caller[d] EXCEPT !.st = st] : st \in {"ok", "failed", "gone"}} :
            caller' = [caller EXCEPT ![d] = call]
      <4>1. caller = [caller EXCEPT ![d] = caller[d]]
        BY <2>1
      <4> QED BY <1>3, <2>3, <4>1 DEF Caller, SendLine, Receives, ReadFrame, SeeClosed, GiveUp, Leaves
    <3>2. call.form = caller[d].form
      BY <2>1
    <3> QED BY <2>1, <3>1, <3>2
  <2> QED BY <2>2, <2>3
<1> QED BY <1>1, <1>2, <1>3 DEF Next

\* The relay takes the first item.
LEMMA FlowsTail ==
    ASSUME NEW items \in Seq(ItemType), items # <<>>, NEW seq \in Nat, NEW n \in Nat,
           Numbered(items, seq, n), ~Head(items).failed
    PROVE  /\ Head(items).delta \in {0, seq + 1} /\ seq + 1 <= n
           /\ Head(items).done => Tail(items) = <<>> /\ n = seq + 1
           /\ Numbered(Tail(items), seq + 1, n)
           /\ AllPlain(items) => AllPlain(Tail(items))
<1> DEFINE rest == Tail(items)
<1>1. /\ Len(items) \in Nat /\ Len(items) # 0 /\ rest \in Seq(ItemType)
      /\ Len(rest) = Len(items) - 1
      /\ \A k \in 1..Len(rest) : rest[k] = items[k + 1]
      /\ Head(items) = items[1]
  BY EmptySeq, LenProperties, HeadTailProperties
<1>2. rest = <<>> <=> Len(rest) = 0
  BY <1>1, EmptySeq
<1> HIDE DEF rest
<1>3. Cut(items) <=> items[Len(items)].failed
  BY DEF Cut
<1>4. CASE Len(items) = 1
  <2>1. rest = <<>> /\ ~Cut(rest) /\ Len(rest) = 0 /\ ~Cut(items)
    BY <1>1, <1>2, <1>3, <1>4 DEF Cut
  <2>2. n = seq + 1 /\ Head(items).delta \in {0, seq + 1}
    BY <1>1, <1>4, <2>1 DEF Numbered
  <2>3. Numbered(rest, seq + 1, n) /\ AllPlain(rest)
    BY <2>1, <2>2 DEF Numbered, AllPlain
  <2> QED BY <2>1, <2>2, <2>3 DEF rest
<1>5. CASE Len(items) # 1
  <2>1. Plain(items[1]) /\ rest # <<>> /\ Len(rest) # 0
    BY <1>1, <1>2, <1>5 DEF Numbered
  <2>2. Cut(rest) <=> Cut(items)
    BY <1>1, <1>3, <1>5, <2>1 DEF Cut
  <2>3. \A k \in 1..Len(rest) : rest[k].failed \/ rest[k].delta \in {0, (seq + 1) + k}
    <3>1. \A k \in 1..Len(rest) : k + 1 \in 1..Len(items) /\ seq + (k + 1) = (seq + 1) + k
      BY <1>1
    <3> QED BY <1>1, <3>1 DEF Numbered
  <2>4. \A k \in 1..(Len(rest) - 1) : Plain(rest[k])
    <3>1. \A k \in 1..(Len(rest) - 1) : k + 1 \in 1..(Len(items) - 1) /\ rest[k] = items[k + 1]
      BY <1>1
    <3> QED BY <3>1 DEF Numbered
  <2>5. /\ seq + 1 <= n
        /\ Cut(rest) => n + 1 = (seq + 1) + Len(rest)
        /\ ~Cut(rest) => n = (seq + 1) + Len(rest)
    <3>1. (Cut(items) => n + 1 = seq + Len(items)) /\ (~Cut(items) => n = seq + Len(items))
      BY DEF Numbered
    <3>2. Len(rest) \in Nat \ {0} /\ Len(items) = Len(rest) + 1
      BY <1>1, <1>5
    <3>3. CASE Cut(items)
      <4>1. Cut(rest) /\ n + 1 = seq + (Len(rest) + 1)
        BY <2>2, <3>1, <3>2, <3>3
      <4> QED BY <3>2, <4>1
    <3>4. CASE ~Cut(items)
      <4>1. ~Cut(rest) /\ n = seq + (Len(rest) + 1)
        BY <2>2, <3>1, <3>2, <3>4
      <4> QED BY <3>2, <4>1
    <3> QED BY <3>3, <3>4
  <2>6. Head(items).delta \in {0, seq + 1} /\ ~Head(items).done
    BY <1>1, <2>1 DEF Plain, Numbered
  <2>7. Numbered(rest, seq + 1, n)
    BY <2>3, <2>4, <2>5 DEF Numbered
  <2>8. AllPlain(items) => AllPlain(rest)
    BY <1>1 DEF AllPlain
  <2> QED BY <2>5, <2>6, <2>7, <2>8 DEF rest
<1> QED BY <1>4, <1>5

\* A background thread puts an item behind those that wait.
LEMMA FlowsAppend ==
    ASSUME NEW items \in Seq(ItemType), NEW item \in ItemType, NEW seq \in Nat, NEW n \in Nat,
           Numbered(items, seq, n), AllPlain(items), item.failed \/ item.delta \in {0, n + 1}
    PROVE  /\ Numbered(Append(items, item), seq, IF item.failed THEN n ELSE n + 1)
           /\ Plain(item) => AllPlain(Append(items, item))
<1> DEFINE all == Append(items, item)
<1>1. /\ Len(items) \in Nat /\ Len(all) = Len(items) + 1 /\ all # <<>>
      /\ \A k \in 1..Len(items) : all[k] = items[k]
      /\ all[Len(items) + 1] = item
  BY LenProperties, AppendProperties
<1> HIDE DEF all
<1>2. Cut(all) <=> item.failed
  BY <1>1 DEF Cut
<1>3. n = seq + Len(items)
  <2>1. items # <<>> => Len(items) \in 1..Len(items)
    BY EmptySeq, LenProperties
  <2>2. ~Cut(items)
    BY <2>1 DEF Cut, AllPlain, Plain
  <2> QED BY <2>2 DEF Numbered
<1>4. \A k \in 1..Len(all) : k \in 1..Len(items) \/ k = Len(items) + 1
  BY <1>1
<1>5. \A k \in 1..Len(all) : all[k].failed \/ all[k].delta \in {0, seq + k}
  <2>1. \A k \in 1..Len(items) : items[k].failed \/ items[k].delta \in {0, seq + k}
    BY DEF Numbered
  <2>2. seq + (Len(items) + 1) = n + 1
    BY <1>1, <1>3
  <2> QED BY <1>1, <1>4, <2>1, <2>2
<1>6. /\ \A k \in 1..(Len(all) - 1) : Plain(all[k])
      /\ Plain(item) => AllPlain(all)
  BY <1>1, <1>4 DEF AllPlain
<1>7. CASE item.failed
  BY <1>1, <1>2, <1>3, <1>5, <1>6, <1>7 DEF Numbered, all
<1>8. CASE ~item.failed
  <2>1. Numbered(all, seq, n + 1)
    BY <1>1, <1>2, <1>3, <1>5, <1>6, <1>8 DEF Numbered
  <2> QED BY <1>6, <1>8, <2>1 DEF all
<1> QED BY <1>7, <1>8

LEMMA FlowNext == ASSUME StreamInv, Served, Flow, [Next]_vars PROVE Flow'
<1>0. /\ job \in JobType /\ job.seq \in Nat /\ (pc # "accept" => job.call \in Calls)
      /\ reader \in [Calls -> {"none", "running", "ended"}]
      /\ made \in [Calls -> Nat] /\ chan \in [Calls -> Seq(ItemType)]
      /\ \A c \in Calls : Receiving(c) => caller[c].st # "idle"
  BY DEF StreamInv, StreamTypes, JobType, Served, Once, Receiving
<1> USE <1>0
\* No relay afterwards, and every channel is empty.
<1>a. ASSUME \A c \in Calls : ~Receiving(c)' /\ chan'[c] = <<>> PROVE Flow'
  BY <1>a DEF Flow
\* Nothing about a relay has changed.
<1>b. ASSUME NEW c \in Calls, Receiving(c)' <=> Receiving(c), job'.seq = job.seq,
             chan'[c] = chan[c], made'[c] = made[c], reader'[c] = reader[c]
      PROVE  IF Receiving(c)' THEN Flows(c)' ELSE chan'[c] = <<>>
  <2>1. Receiving(c) => caller'[c].form = caller[c].form
    BY FormKept
  <2>2. Receiving(c) => Flows(c)'
    BY <1>b, <2>1 DEF Flow, Flows
  <2> QED BY <1>b, <2>2 DEF Flow
<1>1. CASE Accept \/ ReadFails \/ RefuseFree \/ RefuseExhausted \/ RefuseCharged \/ CallProvider
  <2>1. pc \in {"accept", "read"} /\ chan' = chan
    BY <1>1 DEF Accept, ReadFails, RefuseFree, RefuseExhausted, RefuseCharged, CallProvider,
                HasRequest, Refuse, streamVars
  <2>2. pc' \in {"accept", "read", "panicked"} \/ (pc' = "write" /\ job'.out.done)
    <3>1. CASE RefuseFree \/ RefuseExhausted \/ RefuseCharged
      BY <3>1 DEF RefuseFree, RefuseExhausted, RefuseCharged, Refuse, Frame, JobType
    <3>2. CASE Accept \/ ReadFails
      BY <3>2 DEF Accept, ReadFails, Close
    <3>3. CASE CallProvider
      BY <3>3 DEF CallProvider, Respond, Frame, JobType
    <3> QED BY <1>1, <3>1, <3>2, <3>3
  <2> QED BY <1>a, <2>1, <2>2 DEF Flow, Receiving
<1>2. CASE StartStream
  <2>1. /\ pc = "read" /\ form = "stream" /\ UNCHANGED <<job, made, chan, caller>>
        /\ \A c \in Calls : chan[c] = <<>>
    BY <1>2 DEF StartStream, HasRequest, peerVars, Flow, Receiving
  <2>2. made[job.call] = 0 /\ job.seq = 0
    BY <2>1 DEF Served, Untouched, Fresh
  <2>3. CASE HasArm
    <3>1. pc' = "relay"
      BY <1>2, <2>3 DEF StartStream
    <3>2. Flows(job.call)'
      <4>1. Numbered(<<>>, 0, 0) /\ AllPlain(<<>>)
        BY EmptySeq DEF Numbered, AllPlain, Cut
      <4>2. /\ made'[job.call] = 0 /\ job'.seq = 0 /\ chan'[job.call] = <<>>
            /\ caller'[job.call].form = "stream"
        BY <2>1, <2>2 DEF form
      <4> QED BY <2>1, <4>1, <4>2 DEF Flows
    <3> QED BY <2>1, <3>1, <3>2 DEF Flow, Receiving
  <2>4. CASE ~HasArm
    BY <1>2, <1>a, <2>1, <2>4 DEF StartStream, Receiving
  <2> QED BY <2>3, <2>4
<1>3. CASE RelayDelta
  <2> DEFINE d == job.call
  <2>1. /\ pc = "relay" /\ chan[d] # <<>> /\ ~Head(chan[d]).failed /\ pc' = "write"
        /\ chan' = [chan EXCEPT ![d] = Tail(@)] /\ UNCHANGED <<reader, made, caller>>
        /\ job' = [job EXCEPT !.out = Frame(job.seq, Head(chan[d]).delta, Head(chan[d]).done, FALSE),
                              !.seq = @ + 1]
    BY <1>3 DEF RelayDelta, peerVars
  <2>2. Flows(d) /\ chan[d] \in Seq(ItemType) /\ made[d] \in Nat /\ d \in Calls
    BY <2>1 DEF Flow, Receiving
  <2>3. job'.call = d /\ job'.seq = job.seq + 1 /\ job'.out.done = Head(chan[d]).done
    <3> DEFINE out == Frame(job.seq, Head(chan[d]).delta, Head(chan[d]).done, FALSE)
    <3>1. out.done = Head(chan[d]).done
      BY DEF Frame
    <3> HIDE DEF out
    <3>2. job' = [job EXCEPT !.out = out, !.seq = @ + 1]
      BY <2>1 DEF out
    <3> QED BY <3>1, <3>2 DEF JobType
  <2>4. /\ Head(chan[d]).done => Tail(chan[d]) = <<>>
        /\ Numbered(Tail(chan[d]), job.seq + 1, made[d])
        /\ AllPlain(chan[d]) => AllPlain(Tail(chan[d]))
    BY <2>1, <2>2, FlowsTail DEF Flows
  <2>6. chan'[d] = Tail(chan[d]) /\ \A c \in Calls \ {d} : chan'[c] = <<>>
    BY <2>1, <2>2 DEF Flow, Receiving
  <2>7. Flows(d)'
    BY <2>1, <2>2, <2>3, <2>4, <2>6 DEF Flows
  <2> QED BY <2>1, <2>3, <2>4, <2>6, <2>7 DEF Flow, Receiving
<1>4. CASE RelayError \/ RelayTimesOut
  <2>1. /\ pc = "relay" /\ chan' = [chan EXCEPT ![job.call] = <<>>]
        /\ \/ pc' = "accept"
           \/ pc' = "write" /\ job' = [job EXCEPT !.out = Frame(job.seq, 0, TRUE, TRUE)]
    BY <1>4 DEF RelayError, RelayTimesOut, StreamFails, DropReceiver, Close
  <2>2. \A c \in Calls : chan'[c] = <<>>
    BY <2>1 DEF Flow, Receiving
  <2>3. pc' = "accept" \/ job'.out.done
    BY <2>1 DEF Frame, JobType
  <2> QED BY <1>a, <2>1, <2>2, <2>3 DEF Receiving
<1>5. CASE Write \/ WriteFails
  <2>1. PICK ok \in BOOLEAN : AfterWrite(ok)
    BY <1>5 DEF Write, WriteFails
  <2>2. pc = "write" /\ UNCHANGED <<reader, made, chan>>
    BY <1>5 DEF Write, WriteFails, streamVars
  <2>3. CASE job.out.done
    BY <1>a, <2>1, <2>2, <2>3 DEF AfterWrite, Close, Flow, Receiving
  <2>4. CASE ~job.out.done
    <3>1. pc' = "relay" /\ job'.call = job.call /\ job'.seq = job.seq
      BY <2>1, <2>4 DEF AfterWrite, JobType
    <3> QED BY <1>b, <2>2, <2>4, <3>1 DEF Flow, Receiving
  <2> QED BY <2>3, <2>4
<1>6. ASSUME NEW c \in Calls, Reader(c) PROVE Flow'
  <2>1. PICK item \in ItemType, last \in BOOLEAN :
          /\ Send(c, item, last) /\ (item.failed \/ item.delta \in {0, made[c] + 1})
          /\ Plain(item) \/ last
          /\ made' = [made EXCEPT ![c] = IF item.failed THEN @ ELSE @ + 1]
    <3>1. ASSUME NEW text \in BOOLEAN, NEW last \in BOOLEAN, SendItem(c, text, last)
          PROVE  \E item \in ItemType :
                   /\ Send(c, item, last) /\ (item.failed \/ item.delta \in {0, made[c] + 1})
                   /\ Plain(item) \/ last
                   /\ made' = [made EXCEPT ![c] = IF item.failed THEN @ ELSE @ + 1]
      <4> DEFINE item == Item(IF text THEN made[c] + 1 ELSE 0, last, FALSE)
      <4>1. item \in ItemType /\ ~item.failed /\ item.delta \in {0, made[c] + 1} /\ item.done = last
        BY DEF Item, ItemType
      <4>2. Send(c, item, last) /\ made' = [made EXCEPT ![c] = @ + 1]
        BY <3>1 DEF SendItem
      <4> HIDE DEF item
      <4> QED BY <4>1, <4>2 DEF Plain
    <3>2. CASE ReaderFails(c)
      <4> DEFINE item == Item(0, FALSE, TRUE)
      <4>1. item \in ItemType /\ item.failed
        BY DEF Item, ItemType
      <4>2. Send(c, item, TRUE) /\ made' = [made EXCEPT ![c] = @]
        BY <3>2 DEF ReaderFails
      <4> HIDE DEF item
      <4> QED BY <4>1, <4>2
    <3>3. CASE OllamaLine(c) \/ OpenAiLine(c) \/ AnthropicLine(c)
      <4>1. PICK text \in BOOLEAN, last \in BOOLEAN : SendItem(c, text, last)
        BY <3>3 DEF OllamaLine, OpenAiLine, AnthropicLine
      <4> QED BY <3>1, <4>1
    <3> QED BY <1>6, <3>2, <3>3 DEF Reader
  <2>2. /\ UNCHANGED <<pc, job, caller>> /\ reader[c] = "running"
        /\ chan' = [chan EXCEPT ![c] = IF Receiving(c) THEN Append(@, item) ELSE @]
        /\ reader' = [reader EXCEPT ![c] = IF last \/ ~Receiving(c) THEN "ended" ELSE @]
    BY <1>6, <2>1 DEF Send, peerVars, Reader, ReaderFails, OllamaLine, OpenAiLine, AnthropicLine
  <2>3. \A d \in Calls : Receiving(d)' <=> Receiving(d)
    BY <2>2 DEF Receiving
  <2>4. ASSUME Receiving(c) PROVE Flows(c)'
    <3>1. Flows(c) /\ AllPlain(chan[c]) /\ chan[c] \in Seq(ItemType) /\ made[c] \in Nat
      BY <2>2, <2>4 DEF Flow, Flows
    <3>2. /\ chan'[c] = Append(chan[c], item) /\ (reader'[c] = "running" => Plain(item))
          /\ made'[c] = IF item.failed THEN made[c] ELSE made[c] + 1
      BY <2>1, <2>2, <2>4
    <3>3. /\ Numbered(Append(chan[c], item), job.seq, IF item.failed THEN made[c] ELSE made[c] + 1)
          /\ Plain(item) => AllPlain(Append(chan[c], item))
      BY <2>1, <3>1, FlowsAppend DEF Flows
    <3> QED BY <2>2, <3>1, <3>2, <3>3 DEF Flows
  <2>5. ~Receiving(c) => chan'[c] = <<>>
    BY <2>2 DEF Flow
  <2>6. ASSUME NEW d \in Calls \ {c} PROVE IF Receiving(d)' THEN Flows(d)' ELSE chan'[d] = <<>>
    BY <1>b, <2>1, <2>2, <2>3
  <2> QED BY <2>3, <2>4, <2>5, <2>6 DEF Flow
<1>7. ASSUME NEW c \in Calls, Caller(c) PROVE Flow'
  <2>1. UNCHANGED <<pc, job, reader, made, chan>>
    BY <1>7 DEF Caller, Connect, SendLine, Receives, ReadFrame, SeeClosed, GiveUp, streamVars
  <2> QED BY <1>b, <2>1 DEF Flow, Receiving
<1>8. CASE UNCHANGED vars
  BY <1>8, <1>b DEF vars, Flow, Receiving
<1> QED BY <1>1, <1>2, <1>3, <1>4, <1>5, <1>6, <1>7, <1>8 DEF Next, Server
-----------------------------------------------------------------------------
(* What is on the wire of a call: the frames its caller has read and those  *)
(* that wait in its socket.                                                 *)

InOrder(s) == \A i, j \in DOMAIN s : i < j => Before(s[i], s[j])

Follows(s, t) == \A i \in DOMAIN s, j \in DOMAIN t : Before(s[i], t[j])

\* A frame with number n can come after these.
Below(s, n) == \A i \in DOMAIN s : s[i].whole => s[i].seq < n /\ ~s[i].done

\* A frame has the number of its item; the final one of a stream that did not
\* fail has that of the last item its thread made.
Good(c, f) == f.whole =>
    /\ f.delta \in {0, f.seq + 1}
    /\ f.done /\ ~f.error /\ caller[c].form = "stream" =>
         reader[c] = "ended" /\ made[c] = f.seq + 1

Wired(c) ==
    /\ InOrder(got[c]) /\ InOrder(sock[c]) /\ Follows(got[c], sock[c])
    /\ \A i \in DOMAIN got[c] : got[c][i].whole /\ Good(c, got[c][i])
    /\ \A i \in DOMAIN sock[c] : Good(c, sock[c][i])
    /\ caller[c].st = "ok" => got[c] # <<>> /\ got[c][Len(got[c])].done

\* There is room on the wire for the next frame of the call that is served.
Room ==
    /\ pc = "relay" => Below(got[job.call], job.seq) /\ Below(sock[job.call], job.seq)
    /\ pc = "write" =>
         /\ Below(got[job.call], job.out.seq) /\ Below(sock[job.call], job.out.seq)
         /\ job.out.whole /\ Good(job.call, job.out)
         /\ ~job.out.done => job.out.seq < job.seq

WireInv == Room /\ \A c \in Calls : Wired(c)

\* One frame more at the end.
LEMMA AppendFrame ==
    ASSUME NEW s \in Seq(FrameType), NEW f \in FrameType
    PROVE  /\ Append(s, f) \in Seq(FrameType) /\ Append(s, f) # <<>>
           /\ Len(Append(s, f)) = Len(s) + 1 /\ Append(s, f)[Len(s) + 1] = f
           /\ \A i \in DOMAIN Append(s, f) :
                \/ i \in DOMAIN s /\ i < Len(s) + 1 /\ Append(s, f)[i] = s[i]
                \/ i = Len(s) + 1 /\ Append(s, f)[i] = f
           /\ InOrder(s) /\ (\A i \in DOMAIN s : Before(s[i], f)) => InOrder(Append(s, f))
<1> DEFINE all == Append(s, f)
<1>1. /\ Len(s) \in Nat /\ DOMAIN s = 1..Len(s) /\ all \in Seq(FrameType) /\ all # <<>>
      /\ Len(all) = Len(s) + 1 /\ DOMAIN all = 1..(Len(s) + 1)
      /\ \A i \in 1..Len(s) : all[i] = s[i]
      /\ all[Len(s) + 1] = f
  BY LenProperties, AppendProperties
<1> HIDE DEF all
<1>2. \A i \in DOMAIN all : \/ i \in DOMAIN s /\ i < Len(s) + 1 /\ all[i] = s[i]
                            \/ i = Len(s) + 1 /\ all[i] = f
  BY <1>1
<1>3. InOrder(s) /\ (\A i \in DOMAIN s : Before(s[i], f)) => InOrder(all)
  <2> SUFFICES ASSUME InOrder(s), \A i \in DOMAIN s : Before(s[i], f),
                      NEW i \in DOMAIN all, NEW j \in DOMAIN all, i < j
               PROVE  Before(all[i], all[j])
    BY DEF InOrder
  <2>1. i \in DOMAIN s /\ all[i] = s[i]
    BY <1>1
  <2> QED BY <1>2, <2>1 DEF InOrder
<1> QED BY <1>1, <1>2, <1>3 DEF all

\* The caller reads the first frame.
LEMMA ReadFirst ==
    ASSUME NEW g \in Seq(FrameType), NEW s \in Seq(FrameType), s # <<>>,
           InOrder(g), InOrder(s), Follows(g, s)
    PROVE  /\ InOrder(Append(g, Head(s))) /\ InOrder(Tail(s))
           /\ Follows(Append(g, Head(s)), Tail(s))
           /\ \A i \in DOMAIN Tail(s) : i + 1 \in DOMAIN s /\ Tail(s)[i] = s[i + 1]
           /\ 1 \in DOMAIN s /\ Head(s) = s[1] /\ Head(s) \in FrameType
<1>1. /\ 1 \in DOMAIN s /\ Head(s) = s[1] /\ Head(s) \in FrameType
      /\ \A i \in DOMAIN Tail(s) : i \in Nat /\ i + 1 \in DOMAIN s /\ 1 < i + 1 /\ Tail(s)[i] = s[i + 1]
  <2>1. /\ Len(s) \in Nat /\ Len(s) # 0 /\ DOMAIN s = 1..Len(s) /\ DOMAIN Tail(s) = 1..(Len(s) - 1)
        /\ \A i \in 1..(Len(s) - 1) : Tail(s)[i] = s[i + 1]
        /\ Head(s) = s[1] /\ Head(s) \in FrameType
    BY EmptySeq, LenProperties, HeadTailProperties
  <2> QED BY <2>1
<1>2. \A i \in DOMAIN g : Before(g[i], Head(s))
  BY <1>1 DEF Follows
<1>3. InOrder(Append(g, Head(s)))
  BY <1>1, <1>2, AppendFrame
<1>4. InOrder(Tail(s))
  <2> SUFFICES ASSUME NEW i \in DOMAIN Tail(s), NEW j \in DOMAIN Tail(s), i < j
               PROVE  Before(Tail(s)[i], Tail(s)[j])
    BY DEF InOrder
  <2>1. i + 1 < j + 1
    BY <1>1
  <2> QED BY <1>1, <2>1 DEF InOrder
<1>5. Follows(Append(g, Head(s)), Tail(s))
  <2> SUFFICES ASSUME NEW i \in DOMAIN Append(g, Head(s)), NEW j \in DOMAIN Tail(s)
               PROVE  Before(Append(g, Head(s))[i], Tail(s)[j])
    BY DEF Follows
  <2>1. CASE Append(g, Head(s))[i] = Head(s)
    BY <1>1, <2>1 DEF InOrder
  <2>2. CASE i \in DOMAIN g /\ Append(g, Head(s))[i] = g[i]
    BY <1>1, <2>2 DEF Follows
  <2> QED BY <1>1, <2>1, <2>2, AppendFrame
<1> QED BY <1>1, <1>3, <1>4, <1>5

\* What a frame says of its call stays true.
LEMMA GoodKept ==
    ASSUME StreamInv, Served, [Next]_vars, NEW c \in Calls, c \notin Fresh, NEW f, Good(c, f)
    PROVE  Good(c, f)'
<1>1. caller'[c].form = caller[c].form
  BY FormKept DEF Fresh
<1>2. reader[c] = "ended" => reader'[c] = "ended" /\ made'[c] = made[c]
  <2>1. reader \in [Calls -> {"none", "running", "ended"}] /\ made \in [Calls -> Nat]
    BY DEF StreamInv, StreamTypes
  <2>2. CASE Server \/ UNCHANGED vars
    <3>1. CASE StartStream
      <4>1. job.call # c /\ made' = made
        BY <3>1 DEF StartStream, HasRequest, Fresh
      <4> QED BY <2>1, <3>1, <4>1 DEF StartStream
    <3>2. CASE ~StartStream
      BY <2>2, <3>2 DEF Server, Accept, ReadFails, RefuseFree, RefuseExhausted, RefuseCharged,
                        Refuse, CallProvider, RelayDelta, RelayError, RelayTimesOut, Write,
                        WriteFails, streamVars, vars
    <3> QED BY <3>1, <3>2
  <2>3. ASSUME NEW d \in Calls, Reader(d), reader[c] = "ended"
        PROVE  reader'[c] = "ended" /\ made'[c] = made[c]
    <3>1. reader[d] = "running"
      BY <2>3 DEF Reader, OllamaLine, OpenAiLine, AnthropicLine, ReaderFails
    <3>2. \E end : reader' = [reader EXCEPT ![d] = end]
      BY <2>3 DEF Reader, OllamaLine, OpenAiLine, AnthropicLine, ReaderFails, SendItem, Send
    <3>3. made' \in {made, [made EXCEPT ![d] = @ + 1]}
      BY <2>3 DEF Reader, OllamaLine, OpenAiLine, AnthropicLine, ReaderFails, SendItem
    <3> QED BY <2>1, <2>3, <3>1, <3>2, <3>3
  <2>4. ASSUME NEW d \in Calls, Caller(d) PROVE UNCHANGED <<reader, made>>
    BY <2>4 DEF Caller, Connect, SendLine, Receives, ReadFrame, SeeClosed, GiveUp, streamVars
  <2> QED BY <2>2, <2>3, <2>4 DEF Next
<1> QED BY <1>1, <1>2 DEF Good

\* Nothing is written to the wire of a call, and nothing is read from it.
LEMMA SameWire ==
    ASSUME StreamInv, Served, [Next]_vars, NEW c \in Calls, Wired(c),
           got'[c] = got[c], sock'[c] = sock[c], caller'[c].st = "ok" => caller[c].st = "ok"
    PROVE  Wired(c)'
<1>1. CASE c \in Fresh
  <2>1. got[c] = <<>> /\ sock[c] = <<>> /\ DOMAIN <<>> = {}
    BY <1>1 DEF Served, Untouched
  <2>2. caller[c].st # "ok"
    BY <2>1 DEF Wired
  <2> QED BY <2>1, <2>2 DEF Wired, InOrder, Follows
<1>2. CASE c \notin Fresh
  <2>1. \A f : Good(c, f) => Good(c, f)'
    BY <1>2, GoodKept
  <2> QED BY <2>1 DEF Wired
<1> QED BY <1>1, <1>2

LEMMA WireNext ==
    ASSUME StreamInv, Served, Flow, WireInv, [Next]_vars
    PROVE  WireInv'
<1>0. /\ job \in JobType /\ job.seq \in Nat /\ job.out \in FrameType
      /\ (pc # "accept" => job.call \in Calls)
      /\ (pc \in {"relay", "write"} => job.call \notin Fresh)
      /\ got \in [Calls -> Seq(FrameType)] /\ sock \in [Calls -> Seq(FrameType)]
      /\ \A c \in Calls : Wired(c) /\ got[c] \in Seq(FrameType) /\ sock[c] \in Seq(FrameType)
  BY DEF StreamInv, StreamTypes, JobType, Served, CallTypes, Once, Fresh, WireInv
<1> USE <1>0
<1>e. \A n : Below(<<>>, n)
  BY DEF Below
\* The server thread writes nothing.
<1>a. ASSUME UNCHANGED <<got, sock, caller>>, Room' PROVE WireInv'
  BY <1>a, SameWire DEF WireInv
<1>1. CASE Accept \/ ReadFails
  BY <1>1, <1>a DEF Accept, ReadFails, Close, streamVars, peerVars, Room
<1>2. CASE RefuseFree \/ RefuseExhausted \/ RefuseCharged \/ StartStream \/ CallProvider
  <2>1. /\ pc = "read" /\ UNCHANGED <<got, sock, caller>>
    BY <1>2 DEF RefuseFree, RefuseExhausted, RefuseCharged, Refuse, StartStream, CallProvider,
                HasRequest, peerVars
  <2>2. got[job.call] = <<>> /\ sock[job.call] = <<>>
    BY <2>1 DEF Served, Untouched, Fresh
  <2>3. CASE RefuseFree \/ RefuseExhausted \/ RefuseCharged
    <3> DEFINE frame == Frame(0, 0, TRUE, TRUE)
    <3>1. pc' = "write" /\ job' = [job EXCEPT !.out = frame]
      BY <2>3 DEF RefuseFree, RefuseExhausted, RefuseCharged, Refuse
    <3>2. frame.whole /\ frame.delta = 0 /\ frame.error /\ frame.done
      BY DEF Frame
    <3> HIDE DEF frame
    <3>3. job'.call = job.call /\ job'.out = frame
      BY <3>1 DEF JobType
    <3> QED BY <1>a, <1>e, <2>1, <2>2, <3>1, <3>2, <3>3 DEF Room, Good
  <2>4. CASE StartStream
    <3>1. pc' \in {"relay", "panicked"} /\ job' = job
      BY <2>4 DEF StartStream
    <3> QED BY <1>a, <1>e, <2>1, <2>2, <3>1 DEF Room
  <2>5. CASE CallProvider
    <3>1. CASE pc' = "panicked"
      BY <1>a, <2>1, <3>1 DEF Room
    <3>2. CASE pc' # "panicked"
      <4>1. form # "stream" /\ pc' = "write"
        BY <2>5, <3>2 DEF CallProvider
      <4>2. PICK delta \in {0, 1}, error \in BOOLEAN :
              job' = [job EXCEPT !.out = Frame(0, delta, TRUE, error)]
        <5>1. PICK accepted, answer : Respond(accepted, answer)
          BY <2>5, <3>2 DEF CallProvider
        <5> DEFINE text == IF accepted /\ answer # "empty" THEN 1 ELSE 0
        <5>2. job' = [job EXCEPT !.out = Frame(0, text, TRUE, ~accepted)]
          BY <5>1 DEF Respond
        <5>3. text \in {0, 1} /\ (~accepted) \in BOOLEAN
          OBVIOUS
        <5> QED BY <5>2, <5>3
      <4> DEFINE frame == Frame(0, delta, TRUE, error)
      <4>3. frame.whole /\ frame.delta \in {0, 1} /\ frame.seq = 0 /\ frame.done
        BY DEF Frame
      <4>4. job' = [job EXCEPT !.out = frame]
        BY <4>2
      <4> HIDE DEF frame
      <4>5. job'.call = job.call /\ job'.out = frame
        BY <4>4 DEF JobType
      <4> QED BY <1>a, <1>e, <2>1, <2>2, <4>1, <4>3, <4>5 DEF Room, Good, form
    <3> QED BY <3>1, <3>2
  <2> QED BY <1>2, <2>3, <2>4, <2>5
<1>3. CASE RelayDelta
  <2>0. PICK d, item, frame :
          /\ d \in Calls /\ d = job.call /\ item = Head(chan[d])
          /\ frame = Frame(job.seq, item.delta, item.done, FALSE)
    BY <1>3 DEF RelayDelta
  <2>1. /\ pc = "relay" /\ chan[d] # <<>> /\ ~item.failed /\ pc' = "write"
        /\ UNCHANGED <<reader, made, caller, got, sock>>
        /\ job' = [job EXCEPT !.out = frame, !.seq = @ + 1]
    BY <1>3, <2>0 DEF RelayDelta, peerVars
  <2>2. frame.seq = job.seq /\ frame.whole /\ frame.done = item.done /\ frame.delta = item.delta
    BY <2>0 DEF Frame
  <2>3. job'.call = d /\ job'.out = frame /\ job'.seq = job.seq + 1
    BY <2>0, <2>1 DEF JobType
  <2>4. Flows(d) /\ chan[d] \in Seq(ItemType) /\ made[d] \in Nat
        /\ reader[d] \in {"none", "running", "ended"}
    BY <2>0, <2>1 DEF Flow, Receiving, StreamInv, StreamTypes
  <2>5. item.delta \in {0, job.seq + 1} /\ (item.done => made[d] = job.seq + 1)
    BY <2>0, <2>1, <2>4, FlowsTail DEF Flows
  <2>6. item.done => reader[d] = "ended"
    <3>1. reader[d] \in {"running", "ended"}
      BY <2>0, <2>1 DEF StreamInv, HandOver, Receiving
    <3>2. item = chan[d][1] /\ 1 \in 1..Len(chan[d])
      BY <2>0, <2>1, <2>4, EmptySeq, LenProperties, HeadTailProperties
    <3> QED BY <2>4, <3>1, <3>2 DEF Flows, AllPlain, Plain
  <2>7. Good(d, frame)'
    BY <2>1, <2>2, <2>5, <2>6 DEF Good
  <2>8. Room'
    <3>1. Below(got[d], job.seq) /\ Below(sock[d], job.seq)
      BY <2>0, <2>1 DEF WireInv, Room
    <3>2. job'.call = d /\ job'.out = frame /\ frame.seq = job.seq /\ job.seq < job'.seq
      BY <2>2, <2>3
    <3>3. Good(job.call, job.out)'
      BY <2>7, <3>2 DEF Good
    <3> QED BY <2>1, <2>2, <3>1, <3>2, <3>3 DEF Room
  <2> QED BY <1>a, <2>1, <2>8
<1>4. CASE RelayError \/ RelayTimesOut
  <2>0. PICK d, frame : d = job.call /\ frame = Frame(job.seq, 0, TRUE, TRUE)
    OBVIOUS
  <2>1. /\ pc = "relay" /\ UNCHANGED <<caller, got, sock>>
        /\ pc' = "accept" \/ (pc' = "write" /\ job' = [job EXCEPT !.out = frame])
    BY <1>4, <2>0 DEF RelayError, RelayTimesOut, StreamFails, Close, peerVars
  <2>2. frame.seq = job.seq /\ frame.whole /\ frame.done /\ frame.error /\ frame.delta = 0
    BY <2>0 DEF Frame
  <2>3. pc' = "write" => job'.call = d /\ job'.out = frame
    BY <2>0, <2>1 DEF JobType
  <2>4. Good(d, frame)'
    BY <2>2 DEF Good
  <2>5. Room'
    <3>1. CASE pc' = "accept"
      BY <3>1 DEF Room
    <3>2. CASE pc' # "accept"
      BY <2>0, <2>1, <2>2, <2>3, <2>4, <3>2 DEF WireInv, Room
    <3> QED BY <3>1, <3>2
  <2> QED BY <1>a, <2>1, <2>5
<1>5. CASE Write \/ WriteFails
  <2>0. PICK d \in Calls : d = job.call
    BY <1>5 DEF Write, WriteFails
  <2>1. /\ pc = "write" /\ UNCHANGED <<caller, got>> /\ \E ok : AfterWrite(ok)
        /\ d \notin Fresh /\ Wired(d)
        /\ got[d] \in Seq(FrameType) /\ sock[d] \in Seq(FrameType)
        /\ \A i \in DOMAIN got[d] : got[d][i].seq \in Nat
        /\ \A i \in DOMAIN sock[d] : sock[d][i].seq \in Nat
    <3>1. \A s \in Seq(FrameType) : \A i \in DOMAIN s : s[i] \in FrameType
      BY ElementOfSeq, LenProperties
    <3>2. \A f \in FrameType : f.seq \in Nat
      BY DEF FrameType
    <3> QED BY <1>5, <2>0, <3>1, <3>2 DEF Write, WriteFails, peerVars
  <2>2. /\ Below(got[d], job.out.seq) /\ Below(sock[d], job.out.seq)
        /\ job.out.whole /\ Good(d, job.out) /\ (~job.out.done => job.out.seq < job.seq)
        /\ job.out.seq \in Nat
    BY <2>0, <2>1 DEF WireInv, Room, FrameType
  <2>3. Torn \in FrameType /\ ~Torn.whole
    BY DEF Torn, Frame, FrameType
  <2>4. PICK frame \in {Torn, job.out} :
          sock' \in {sock, [sock EXCEPT ![d] = Append(sock[d], frame)]}
    <3>1. CASE Write
      BY <2>0, <3>1 DEF Write
    <3>2. CASE WriteFails /\ sock' # sock
      <4>1. PICK rest \in {<<>>, <<Torn>>, <<job.out>>} : sock' = [sock EXCEPT ![d] = @ \o rest]
        BY <2>0, <3>2 DEF WriteFails
      <4>2. /\ sock[d] \o <<>> = sock[d] /\ sock = [sock EXCEPT ![d] = sock[d]]
            /\ sock[d] \o <<Torn>> = Append(sock[d], Torn)
            /\ sock[d] \o <<job.out>> = Append(sock[d], job.out)
        BY <2>1, <2>3, ConcatEmptySeq, AppendIsConcat
      <4> QED BY <4>1, <4>2
    <3> QED BY <1>5, <3>1, <3>2
  <2>5. \A c \in Calls \ {d} : Wired(c)'
    BY <2>1, <2>4, SameWire DEF WireInv
  <2>6. CASE sock' = sock
    <3>1. Wired(d)'
      BY <2>1, <2>6, SameWire
    <3>2. pc' = "relay" => /\ job'.call = d /\ job'.seq = job.seq /\ ~job.out.done
      BY <2>0, <2>1 DEF AfterWrite, Close, JobType
    <3>3. ~job.out.done => Below(got[d], job.seq) /\ Below(sock[d], job.seq)
      BY <2>1, <2>2 DEF Below
    <3>4. pc' \in {"relay", "accept"}
      BY <2>1 DEF AfterWrite, Close
    <3>5. Room'
      BY <2>1, <2>6, <3>2, <3>3, <3>4 DEF Room
    <3> QED BY <2>5, <3>1, <3>5 DEF WireInv
  <2>7. CASE sock' = [sock EXCEPT ![d] = Append(sock[d], frame)]
    <3>1. /\ frame \in FrameType /\ sock'[d] = Append(sock[d], frame)
          /\ Good(d, frame) /\ (frame.whole => frame = job.out)
      BY <2>1, <2>2, <2>3, <2>7 DEF Good
    <3>2. /\ \A i \in DOMAIN got[d] : Before(got[d][i], frame)
          /\ \A i \in DOMAIN sock[d] : Before(sock[d][i], frame)
      BY <2>2, <3>1 DEF Below, Before
    <3>3. \A i \in DOMAIN sock'[d] : \/ i \in DOMAIN sock[d] /\ sock'[d][i] = sock[d][i]
                                    \/ sock'[d][i] = frame
      BY <2>1, <3>1, AppendFrame
    <3>4. InOrder(sock'[d]) /\ Follows(got[d], sock'[d])
      <4>1. InOrder(sock'[d])
        BY <2>1, <3>1, <3>2, AppendFrame DEF Wired
      <4>2. Follows(got[d], sock'[d])
        <5>1. Follows(got[d], sock[d])
          BY <2>1 DEF Wired
        <5> SUFFICES ASSUME NEW i \in DOMAIN got[d], NEW j \in DOMAIN sock'[d]
                     PROVE  Before(got[d][i], sock'[d][j])
          BY DEF Follows
        <5> QED BY <3>2, <3>3, <5>1 DEF Follows
      <4> QED BY <4>1, <4>2
    <3>5. /\ \A i \in DOMAIN sock'[d] : \A f : f = sock'[d][i] => Good(d, f)'
          /\ \A i \in DOMAIN got[d] : \A f : f = got[d][i] => Good(d, f)'
      <4>1. \A f : Good(d, f) => Good(d, f)'
        BY <2>1, GoodKept
      <4> QED BY <2>1, <3>1, <3>3, <4>1 DEF Wired
    <3>6. Wired(d)'
      <4>1. (\A i \in DOMAIN sock[d] : Good(d, sock[d][i]))'
        BY <3>5 DEF Good
      <4>2. (\A i \in DOMAIN got[d] : Good(d, got[d][i]))'
        BY <2>1, <3>5 DEF Good
      <4>3. /\ InOrder(got[d]) /\ \A i \in DOMAIN got[d] : got[d][i].whole
            /\ caller[d].st = "ok" => got[d] # <<>> /\ got[d][Len(got[d])].done
        BY <2>1 DEF Wired
      <4> QED BY <2>1, <3>4, <4>1, <4>2, <4>3 DEF Wired
    <3>7. pc' = "relay" => /\ job'.call = d /\ job'.seq = job.seq /\ ~job.out.done
      BY <2>0, <2>1 DEF AfterWrite, Close, JobType
    <3>8. ~job.out.done => Below(got[d], job.seq) /\ Below(sock'[d], job.seq)
      <4>4. ~job.out.done => Below(got[d], job.seq) /\ Below(sock[d], job.seq)
        BY <2>1, <2>2 DEF Below
      <4>5. ~job.out.done => (frame.whole => frame.seq < job.seq /\ ~frame.done)
        BY <2>2, <3>1
      <4> QED BY <3>3, <4>4, <4>5 DEF Below
    <3>9. pc' \in {"relay", "accept"}
      BY <2>1 DEF AfterWrite, Close
    <3>10. Room'
      BY <2>1, <3>7, <3>8, <3>9 DEF Room
    <3> QED BY <2>5, <3>6, <3>10 DEF WireInv
  <2> QED BY <2>4, <2>6, <2>7
\* The server thread does nothing.
<1>b. ASSUME UNCHANGED <<pc, job>>,
             \A c \in Calls : \A n \in Nat :
                (Below(got[c], n) /\ Below(sock[c], n)) => (Below(got'[c], n) /\ Below(sock'[c], n))
      PROVE  Room'
  <2>1. pc \in {"relay", "write"} => job.call \in Calls /\ job.out.seq \in Nat
    BY DEF FrameType
  <2>2. pc = "write" /\ Good(job.call, job.out) => Good(job.call, job.out)'
    <3>1. \A f : pc = "write" /\ Good(job.call, f) => \A c \in Calls : c = job.call => Good(c, f)'
      BY GoodKept
    <3> QED BY <1>b, <3>1 DEF Good
  <2> QED BY <1>b, <2>1, <2>2 DEF WireInv, Room
<1>6. ASSUME NEW c \in Calls, Reader(c) PROVE WireInv'
  <2>1. UNCHANGED <<pc, job, caller, got, sock>>
    BY <1>6 DEF Reader, OllamaLine, OpenAiLine, AnthropicLine, ReaderFails, SendItem, Send, peerVars
  <2> QED BY <1>a, <1>b, <2>1
<1>7. ASSUME NEW c \in Calls, Connect(c) \/ SendLine(c) PROVE WireInv'
  <2>1. UNCHANGED <<pc, job, got, sock>>
    BY <1>7 DEF Connect, SendLine, streamVars
  <2>2. \A d \in Calls : caller'[d].st = "ok" => caller[d].st = "ok"
    <3>1. caller = [d \in Calls |-> caller[d]]
      BY DEF Served, CallTypes
    <3>2. CASE Connect(c)
      BY <3>1, <3>2 DEF Connect
    <3>3. CASE SendLine(c)
      <4>1. [caller[c] EXCEPT !.sent = TRUE].st = caller[c].st
        BY DEF Served, CallTypes
      <4> QED BY <3>1, <3>3, <4>1 DEF SendLine
    <3> QED BY <1>7, <3>2, <3>3
  <2> QED BY <1>b, <2>1, <2>2, SameWire DEF WireInv
<1>8. ASSUME NEW c \in Calls, SeeClosed(c) \/ GiveUp(c) \/ ReadFrame(c) PROVE WireInv'
  <2>1. UNCHANGED <<pc, job>> /\ caller[c].st = "connected"
    BY <1>8 DEF SeeClosed, GiveUp, ReadFrame, Here, streamVars
  <2>2. \A d \in Calls \ {c} : got'[d] = got[d] /\ sock'[d] = sock[d] /\ caller'[d] = caller[d]
    BY <1>8 DEF SeeClosed, GiveUp, ReadFrame, Leaves, Served, CallTypes
  <2>3. \A d \in Calls \ {c} : Wired(d)'
    BY <2>2, SameWire
  <2>4. /\ InOrder(<<>>) /\ \A s : Follows(s, <<>>)
        /\ DOMAIN <<>> = {}
    BY DEF InOrder, Follows
  <2>5. \A f : Good(c, f) => Good(c, f)'
    <3>1. CASE c \notin Fresh
      BY <3>1, GoodKept
    <3>2. UNCHANGED <<reader, made>> /\ caller'[c].form = caller[c].form
      BY <1>8, FormKept, <2>1 DEF SeeClosed, GiveUp, ReadFrame, streamVars
    <3> QED BY <3>2 DEF Good
  <2>6. CASE got' = got /\ sock' = [sock EXCEPT ![c] = <<>>] /\ caller'[c].st # "ok"
    <3>1. sock'[c] = <<>> /\ \A d \in Calls \ {c} : sock'[d] = sock[d]
      BY <2>6
    <3>2. Wired(c)'
      BY <2>4, <2>5, <2>6, <3>1 DEF Wired
    <3>3. Room'
      BY <1>b, <1>e, <2>1, <2>6, <3>1
    <3> QED BY <2>3, <3>2, <3>3 DEF WireInv
  <2>7. CASE SeeClosed(c) \/ GiveUp(c)
    BY <2>6, <2>7 DEF SeeClosed, GiveUp, Leaves, Served, CallTypes
  <2>8. CASE ReadFrame(c)
    <3>0. PICK frame : frame = Head(sock[c])
      OBVIOUS
    <3>1. sock[c] # <<>>
      BY <2>8 DEF ReadFrame
    <3>2. CASE ~frame.whole
      BY <2>6, <2>8, <3>0, <3>2 DEF ReadFrame, Leaves, Served, CallTypes
    <3>3. CASE frame.whole
      <4>1. /\ got' = [got EXCEPT ![c] = Append(got[c], frame)]
            /\ \/ /\ frame.done /\ sock' = [sock EXCEPT ![c] = <<>>]
               \/ /\ ~frame.done /\ sock' = [sock EXCEPT ![c] = Tail(sock[c])] /\ caller' = caller
        BY <2>8, <3>0, <3>3 DEF ReadFrame, Leaves
      <4>2. /\ got'[c] = Append(got[c], frame)
            /\ \/ sock'[c] = <<>> /\ frame.done
               \/ sock'[c] = Tail(sock[c]) /\ caller'[c].st # "ok"
        BY <2>1, <4>1
      <4>3. /\ InOrder(Append(got[c], frame)) /\ InOrder(Tail(sock[c]))
            /\ Follows(Append(got[c], frame), Tail(sock[c]))
            /\ \A i \in DOMAIN Tail(sock[c]) : i + 1 \in DOMAIN sock[c] /\ Tail(sock[c])[i] = sock[c][i + 1]
            /\ 1 \in DOMAIN sock[c] /\ frame = sock[c][1] /\ frame \in FrameType
        BY <3>0, <3>1, ReadFirst DEF Wired
      <4>4. /\ Append(got[c], frame) # <<>>
            /\ Append(got[c], frame)[Len(Append(got[c], frame))] = frame
            /\ \A i \in DOMAIN Append(got[c], frame) :
                 \/ i \in DOMAIN got[c] /\ Append(got[c], frame)[i] = got[c][i]
                 \/ Append(got[c], frame)[i] = frame
        BY <4>3, AppendFrame
      <4>5. \A i \in DOMAIN sock'[c] : \E j \in DOMAIN sock[c] : sock'[c][i] = sock[c][j]
        BY <2>4, <4>2, <4>3
      <4>6. /\ \A i \in DOMAIN got'[c] : \A f : f = got'[c][i] => f.whole /\ Good(c, f)'
            /\ \A i \in DOMAIN sock'[c] : \A f : f = sock'[c][i] => Good(c, f)'
        <5>1. \A f : (\E i \in DOMAIN got[c] : f = got[c][i]) => f.whole /\ Good(c, f)'
          BY <2>5 DEF Wired
        <5>2. \A f : (\E i \in DOMAIN sock[c] : f = sock[c][i]) => Good(c, f)'
          BY <2>5 DEF Wired
        <5> QED BY <3>0, <3>3, <4>2, <4>3, <4>4, <4>5, <5>1, <5>2
      <4>7. InOrder(got'[c]) /\ InOrder(sock'[c]) /\ Follows(got'[c], sock'[c])
        BY <2>4, <4>2, <4>3
      <4>8. Wired(c)'
        <5>1. (\A i \in DOMAIN sock[c] : Good(c, sock[c][i]))'
          BY <4>6 DEF Good
        <5>2. (\A i \in DOMAIN got[c] : got[c][i].whole /\ Good(c, got[c][i]))'
          BY <4>6 DEF Good
        <5>3. caller'[c].st = "ok" => got'[c] # <<>> /\ got'[c][Len(got'[c])].done
          BY <4>2, <4>4
        <5> QED BY <4>7, <5>1, <5>2, <5>3 DEF Wired
      <4>9. \A n \in Nat :
               (Below(got[c], n) /\ Below(sock[c], n)) => (Below(got'[c], n) /\ Below(sock'[c], n))
        BY <4>2, <4>3, <4>4, <4>5 DEF Below
      <4>10. Room'
        BY <1>b, <2>1, <2>2, <4>9
      <4> QED BY <2>3, <4>8, <4>10 DEF WireInv
    <3> QED BY <3>2, <3>3
  <2> QED BY <1>8, <2>7, <2>8
<1>9. CASE UNCHANGED vars
  <2>1. UNCHANGED <<pc, job, got, sock, caller>>
    BY <1>9 DEF vars
  <2> QED BY <1>a, <1>b, <2>1
<1> QED BY <1>1, <1>2, <1>3, <1>4, <1>5, <1>6, <1>7, <1>8, <1>9
        DEF Next, Server, Caller, Receives
-----------------------------------------------------------------------------
(* The properties that rest on the wire.                                    *)

LEMMA InitWire == Init => Flow /\ WireInv
<1> SUFFICES ASSUME Init PROVE Flow /\ WireInv
  OBVIOUS
<1>1. pc = "accept" /\ DOMAIN <<>> = {}
  BY DEF Init
<1>2. \A c \in Calls : got[c] = <<>> /\ sock[c] = <<>> /\ chan[c] = <<>> /\ caller[c].st = "idle"
  BY DEF Init
<1>3. Flow /\ Room
  BY <1>1, <1>2 DEF Flow, Receiving, Room
<1>4. \A c \in Calls : Wired(c)
  BY <1>1, <1>2 DEF Wired, InOrder, Follows
<1> QED BY <1>3, <1>4 DEF WireInv

\* The inductive invariant: hand-over, one turn for each call, the numbers in
\* the channel and on the wire.
GatewayInv == StreamInv /\ Served /\ Flow /\ WireInv

LEMMA InitGateway == Init => GatewayInv
BY InitStream, InitServed, InitWire DEF GatewayInv

LEMMA NextGateway == GatewayInv /\ [Next]_vars => GatewayInv'
BY StreamNext, ServedNext, FlowNext, WireNext DEF GatewayInv

\* Whatever the provider sends, however writes fail and wherever the caller
\* is, the frames of a call are in the provider's order with the number of
\* their item, and one that is final is the last.
THEOREM GatewayFramesInOrder == Spec => []FramesInOrder
<1>1. GatewayInv => FramesInOrder
  <2> SUFFICES ASSUME GatewayInv, NEW c \in Calls
               PROVE  \A i \in DOMAIN Wire(c) :
                        /\ Wire(c)[i].whole => Wire(c)[i].delta \in {0, Wire(c)[i].seq + 1}
                        /\ \A j \in DOMAIN Wire(c) : i < j => Before(Wire(c)[i], Wire(c)[j])
    BY DEF FramesInOrder
  <2> DEFINE g == got[c]
             s == sock[c]
             w == g \o s
  <2>1. Wired(c) /\ g \in Seq(FrameType) /\ s \in Seq(FrameType)
    BY DEF GatewayInv, WireInv, Served, CallTypes
  <2> HIDE DEF g, s
  <2>2. /\ Len(g) \in Nat /\ Len(s) \in Nat
        /\ DOMAIN g = 1..Len(g) /\ DOMAIN s = 1..Len(s) /\ DOMAIN w = 1..(Len(g) + Len(s))
        /\ \A i \in 1..(Len(g) + Len(s)) : w[i] = IF i <= Len(g) THEN g[i] ELSE s[i - Len(g)]
    <3>1. /\ Len(g) \in Nat /\ Len(s) \in Nat /\ DOMAIN g = 1..Len(g) /\ DOMAIN s = 1..Len(s)
      BY <2>1, LenProperties
    <3>2. /\ w \in Seq(FrameType) /\ Len(w) = Len(g) + Len(s)
          /\ \A i \in 1..(Len(g) + Len(s)) : w[i] = IF i <= Len(g) THEN g[i] ELSE s[i - Len(g)]
      BY <2>1, ConcatProperties
    <3> HIDE DEF w
    <3>3. DOMAIN w = 1..(Len(g) + Len(s))
      BY <3>2, LenProperties
    <3> QED BY <3>1, <3>2, <3>3
  <2>3. /\ InOrder(g) /\ InOrder(s) /\ Follows(g, s)
        /\ \A i \in DOMAIN g : g[i].whole => g[i].delta \in {0, g[i].seq + 1}
        /\ \A i \in DOMAIN s : s[i].whole => s[i].delta \in {0, s[i].seq + 1}
    BY <2>1 DEF Wired, Good, g, s
  <2> HIDE DEF w
  <2>4. \A i \in DOMAIN w : \/ i \in DOMAIN g /\ w[i] = g[i]
                            \/ i - Len(g) \in DOMAIN s /\ i > Len(g) /\ w[i] = s[i - Len(g)]
    BY <2>2
  <2>5. ASSUME NEW i \in DOMAIN w, NEW j \in DOMAIN w, i < j PROVE Before(w[i], w[j])
    <3>1. i \in Nat /\ j \in Nat
      BY <2>2
    <3>2. CASE j \in DOMAIN g /\ w[j] = g[j]
      <4>1. i \in DOMAIN g /\ w[i] = g[i]
        BY <2>2, <2>5, <3>1, <3>2
      <4> QED BY <2>3, <2>5, <3>2, <4>1 DEF InOrder
    <3>3. CASE j - Len(g) \in DOMAIN s /\ j > Len(g) /\ w[j] = s[j - Len(g)]
      <4>1. CASE i \in DOMAIN g /\ w[i] = g[i]
        BY <2>3, <3>3, <4>1 DEF Follows
      <4>2. CASE i - Len(g) \in DOMAIN s /\ w[i] = s[i - Len(g)]
        <5>1. i - Len(g) < j - Len(g)
          BY <2>2, <2>5, <3>1
        <5> QED BY <2>3, <3>3, <4>2, <5>1 DEF InOrder
      <4> QED BY <2>4, <4>1, <4>2
    <3> QED BY <2>4, <3>2, <3>3
  <2>6. Wire(c) = w
    BY DEF Wire, w, g, s
  <2> QED BY <2>3, <2>4, <2>5, <2>6
<1> QED BY <1>1, InitGateway, NextGateway, PTL DEF Spec

\* However many frames were lost on the way, a caller that was told of no
\* error and saw no sequence number missing has every item of the provider.
THEOREM GatewayGapsShow == Spec => []GapsShow
<1>1. GatewayInv => GapsShow
  <2> SUFFICES ASSUME GatewayInv, NEW c \in Calls, Accepted(c)
               PROVE  Len(got[c]) = made[c] \/ \E i \in DOMAIN got[c] : got[c][i].seq # i - 1
    BY DEF GapsShow
  <2> DEFINE g == got[c]
             last == g[Len(g)]
  <2>1. Wired(c) /\ g \in Seq(FrameType)
    BY DEF GatewayInv, WireInv, Served, CallTypes
  <2>2. g # <<>> /\ last.done /\ ~last.error /\ caller[c].form = "stream"
    BY <2>1 DEF Wired, Accepted
  <2>3. Len(g) \in Nat /\ Len(g) \in DOMAIN g /\ last \in FrameType
    BY <2>1, <2>2, EmptySeq, LenProperties, ElementOfSeq
  <2>4. last.seq \in Nat
    BY <2>3 DEF FrameType
  <2>5. made[c] = last.seq + 1
    BY <2>1, <2>2, <2>3 DEF Wired, Good
  <2> HIDE DEF g, last
  <2>6. Len(g) = made[c] \/ last.seq # Len(g) - 1
    BY <2>3, <2>4, <2>5
  <2> QED BY <2>3, <2>6 DEF last, g
<1> QED BY <1>1, InitGateway, NextGateway, PTL DEF Spec
-----------------------------------------------------------------------------
(* The types, with the bounds of the numbers.                               *)

\* The bounds of the numbers, the length of a stream being MaxItems.
Bounded ==
    /\ contacted \subseteq Calls /\ closed \subseteq Calls
    /\ made \in [Calls -> 0..MaxItems] /\ chan \in [Calls -> Seq(Items)]
    /\ job.seq \in 0..MaxItems /\ job.out \in Frames
    /\ sock \in [Calls -> Seq(Frames)] /\ got \in [Calls -> Seq(Frames)]

LEMMA NoJobBounded == NoJob.seq \in 0..MaxItems /\ NoJob.out \in Frames /\ Torn \in Frames
<1>1. MaxItems \in Nat
  BY GatewayAssumption
<1>2. \A S, D : 0 \in S /\ 0 \in D =>
        Torn \in [seq : S, delta : D, done : BOOLEAN, error : BOOLEAN, whole : BOOLEAN]
  BY DEF Torn, Frame
<1>3. Torn \in Frames
  <2>1. 0 \in 0..MaxItems /\ 0 \in 0..MaxItems \cup {1}
    BY <1>1
  <2> QED BY <1>2, <2>1, Zenon DEF Frames
<1> QED BY <1>1, <1>3 DEF NoJob

LEMMA BoundedNext == ASSUME GatewayInv, Bounded, [Next]_vars PROVE Bounded'
<1>0. /\ job \in JobType /\ (pc # "accept" => job.call \in Calls) /\ MaxItems \in Nat
      /\ Range(backlog) \subseteq Calls
  <2>1. backlog \in Seq(Calls)
    BY DEF GatewayInv, StreamInv, StreamTypes
  <2>2. Range(backlog) \subseteq Calls
    BY <2>1 DEF Range
  <2> QED BY <2>2, GatewayAssumption DEF GatewayInv, StreamInv, StreamTypes
<1> USE <1>0
<1> USE DEF Bounded
<1>e. <<>> \in Seq(Items) /\ <<>> \in Seq(Frames)
  BY EmptySeq
\* The job does not change but for what is to be written.
<1>a. ASSUME NEW frame \in Frames, job' = [job EXCEPT !.out = frame]
      PROVE  job'.seq \in 0..MaxItems /\ job'.out \in Frames
  BY <1>a DEF JobType
<1>b. ASSUME Close, pc # "accept" PROVE closed' \subseteq Calls /\ job'.seq \in 0..MaxItems /\ job'.out \in Frames
  BY <1>b, NoJobBounded DEF Close
<1>1. CASE Accept
  <2>1. job' = [NoJob EXCEPT !.call = Head(backlog)]
    BY <1>1 DEF Accept
  <2>2. job'.seq = NoJob.seq /\ job'.out = NoJob.out
    BY <2>1 DEF NoJob
  <2> QED BY <1>1, <2>2, NoJobBounded DEF Accept, streamVars
<1>2. CASE ReadFails
  BY <1>2, <1>b DEF ReadFails, streamVars, peerVars
<1>3. CASE RefuseFree \/ RefuseExhausted \/ RefuseCharged
  <2>1. Frame(0, 0, TRUE, TRUE) \in Frames
    BY DEF Frame, Frames
  <2> QED BY <1>3, <1>a, <2>1
          DEF RefuseFree, RefuseExhausted, RefuseCharged, Refuse, streamVars, peerVars
<1>4. CASE StartStream
  BY <1>4 DEF StartStream, HasRequest, peerVars
<1>5. CASE CallProvider
  <2>1. /\ contacted' \subseteq Calls /\ UNCHANGED <<streamVars, peerVars, sock, closed>>
        /\ job' = job \/ \E accepted, answer : Respond(accepted, answer)
    BY <1>5 DEF CallProvider, HasRequest
  <2>2. ASSUME NEW accepted, NEW answer, Respond(accepted, answer)
        PROVE  job'.seq \in 0..MaxItems /\ job'.out \in Frames
    <3>1. Frame(0, IF accepted /\ answer # "empty" THEN 1 ELSE 0, TRUE, ~accepted) \in Frames
      BY DEF Frame, Frames
    <3> QED BY <1>a, <2>2, <3>1 DEF Respond
  <2> QED BY <2>1, <2>2 DEF streamVars, peerVars
<1>6. CASE RelayDelta
  <2>0. PICK d, item, frame :
          /\ d \in Calls /\ d = job.call /\ item = Head(chan[d])
          /\ frame = Frame(job.seq, item.delta, item.done, FALSE)
    BY <1>6 DEF RelayDelta
  <2>1. /\ pc = "relay" /\ chan[d] # <<>> /\ ~item.failed
        /\ UNCHANGED <<contacted, closed, made, sock, got>>
        /\ chan' = [chan EXCEPT ![d] = Tail(chan[d])]
        /\ job' = [job EXCEPT !.out = frame, !.seq = @ + 1]
    BY <1>6, <2>0 DEF RelayDelta, peerVars
  <2>2. chan[d] \in Seq(Items) /\ item \in Items /\ Tail(chan[d]) \in Seq(Items)
    BY <2>0, <2>1, EmptySeq, HeadTailProperties
  <2>3. job.seq + 1 \in 0..MaxItems
    <3>1. Flows(d) /\ chan[d] \in Seq(ItemType) /\ made[d] \in 0..MaxItems /\ job.seq \in Nat
      BY <2>0, <2>1 DEF GatewayInv, Flow, Receiving, StreamInv, StreamTypes, JobType
    <3>2. job.seq + 1 <= made[d]
      BY <2>0, <2>1, <3>1, FlowsTail DEF Flows
    <3> QED BY <3>1, <3>2
  <2>4. frame \in Frames
    BY <2>0, <2>2 DEF Frame, Frames, Items
  <2>5. job'.seq = job.seq + 1 /\ job'.out = frame
    BY <2>1 DEF JobType
  <2> QED BY <2>1, <2>2, <2>3, <2>4, <2>5
<1>7. CASE RelayError \/ RelayTimesOut
  <2>1. /\ pc = "relay" /\ UNCHANGED <<contacted, made, sock, got>>
        /\ chan' = [chan EXCEPT ![job.call] = <<>>]
        /\ \/ Close
           \/ job' = [job EXCEPT !.out = Frame(job.seq, 0, TRUE, TRUE)] /\ UNCHANGED closed
    BY <1>7 DEF RelayError, RelayTimesOut, StreamFails, DropReceiver, peerVars
  <2>2. Frame(job.seq, 0, TRUE, TRUE) \in Frames
    BY DEF Frame, Frames
  <2>3. chan' \in [Calls -> Seq(Items)]
    BY <1>e, <2>1
  <2> QED BY <1>a, <1>b, <2>1, <2>2, <2>3
<1>8. CASE Write \/ WriteFails
  <2>1. PICK ok : AfterWrite(ok)
    BY <1>8 DEF Write, WriteFails
  <2>2. pc = "write" /\ UNCHANGED <<contacted, made, chan, got>>
    BY <1>8 DEF Write, WriteFails, streamVars, peerVars
  <2>3. closed' \subseteq Calls /\ job'.seq \in 0..MaxItems /\ job'.out \in Frames
    <3>1. CASE Close
      BY <1>b, <2>2, <3>1
    <3>2. CASE job' = [job EXCEPT !.ioFailed = @ \/ ~ok] /\ UNCHANGED closed
      BY <3>2 DEF JobType
    <3> QED BY <2>1, <3>1, <3>2 DEF AfterWrite
  <2>4. sock' \in [Calls -> Seq(Frames)]
    <3>1. CASE Write
      <4>1. Append(sock[job.call], job.out) \in Seq(Frames)
        BY <2>2, AppendProperties
      <4> QED BY <3>1, <4>1 DEF Write
    <3>2. CASE WriteFails
      <4>1. \A s \in Seq(Frames), f \in Frames : s \o <<f>> \in Seq(Frames)
        OBVIOUS
      <4>2. \A rest \in {<<>>, <<Torn>>, <<job.out>>} : sock[job.call] \o rest \in Seq(Frames)
        <5>1. sock[job.call] \in Seq(Frames)
          BY <2>2
        <5>2. sock[job.call] \o <<>> = sock[job.call]
          BY <5>1, ConcatEmptySeq
        <5> QED BY <4>1, <5>1, <5>2, NoJobBounded
      <4>3. \/ sock' = sock
            \/ \E rest \in {<<>>, <<Torn>>, <<job.out>>} : sock' = [sock EXCEPT ![job.call] = @ \o rest]
        BY <3>2 DEF WriteFails
      <4> QED BY <4>2, <4>3
    <3> QED BY <1>8, <3>1, <3>2
  <2> QED BY <2>2, <2>3, <2>4
<1>9. ASSUME NEW c \in Calls, Reader(c) PROVE Bounded'
  <2>1. UNCHANGED <<contacted, closed, job, sock, got>>
    BY <1>9 DEF Reader, OllamaLine, OpenAiLine, AnthropicLine, ReaderFails, SendItem, Send, peerVars
  <2>2. ASSUME NEW item \in Items, NEW last, Send(c, item, last) PROVE chan' \in [Calls -> Seq(Items)]
    <3>1. Append(chan[c], item) \in Seq(Items)
      BY AppendProperties
    <3> QED BY <2>2, <3>1 DEF Send
  <2>3. CASE ReaderFails(c)
    <3>1. Item(0, FALSE, TRUE) \in Items
      BY DEF Item, Items
    <3> QED BY <2>1, <2>2, <2>3, <3>1 DEF ReaderFails
  <2>4. CASE ~ReaderFails(c)
    <3>1. PICK text \in BOOLEAN, last \in BOOLEAN : SendItem(c, text, last)
      BY <1>9, <2>4 DEF Reader, OllamaLine, OpenAiLine, AnthropicLine
    <3>2. made[c] \in 0..MaxItems /\ made[c] + 1 \in 0..MaxItems
      BY <3>1 DEF SendItem
    <3>3. Item(IF text THEN made[c] + 1 ELSE 0, last, FALSE) \in Items
      BY <3>2 DEF Item, Items
    <3> QED BY <2>1, <2>2, <3>1, <3>2, <3>3 DEF SendItem
  <2> QED BY <2>3, <2>4
<1>10. ASSUME NEW c \in Calls, Caller(c) PROVE Bounded'
  <2>1. UNCHANGED <<contacted, closed, job, made, chan>>
    BY <1>10 DEF Caller, Connect, SendLine, Receives, ReadFrame, SeeClosed, GiveUp, streamVars
  <2>2. CASE Connect(c) \/ SendLine(c)
    BY <2>1, <2>2 DEF Connect, SendLine
  <2>3. CASE SeeClosed(c) \/ GiveUp(c)
    <3>1. sock' = [sock EXCEPT ![c] = <<>>] /\ got' = got
      BY <2>3 DEF SeeClosed, GiveUp, Leaves
    <3>2. sock' \in [Calls -> Seq(Frames)]
      BY <1>e, <3>1
    <3> QED BY <2>1, <3>1, <3>2
  <2>4. CASE ReadFrame(c)
    <3>1. sock[c] \in Seq(Frames) /\ sock[c] # <<>> /\ got[c] \in Seq(Frames)
      BY <2>4 DEF ReadFrame
    <3>2. Tail(sock[c]) \in Seq(Frames) /\ Append(got[c], Head(sock[c])) \in Seq(Frames)
      BY <3>1, EmptySeq, HeadTailProperties, AppendProperties
    <3>3. /\ sock' \in {[sock EXCEPT ![c] = <<>>], [sock EXCEPT ![c] = Tail(sock[c])]}
          /\ got' \in {got, [got EXCEPT ![c] = Append(got[c], Head(sock[c]))]}
      BY <2>4 DEF ReadFrame, Leaves
    <3>4. sock' \in [Calls -> Seq(Frames)]
      BY <1>e, <3>2, <3>3
    <3>5. got' \in [Calls -> Seq(Frames)]
      BY <3>2, <3>3
    <3> QED BY <2>1, <3>4, <3>5
  <2> QED BY <1>10, <2>2, <2>3, <2>4 DEF Caller, Receives
<1>11. CASE UNCHANGED vars
  BY <1>11 DEF vars
<1> QED BY <1>1, <1>2, <1>3, <1>4, <1>5, <1>6, <1>7, <1>8, <1>9, <1>10, <1>11
        DEF Next, Server

\* The variables of the gateway keep their types for every number of
\* connections, every buffer and every length of a stream: no sequence number
\* and no item is beyond what the provider sent.
THEOREM GatewayTypeOK == Spec => []TypeOK
<1> DEFINE All == Inv /\ GatewayInv /\ Bounded
<1>1. Init => All
  <2> SUFFICES ASSUME Init PROVE Bounded
    BY InitInv, InitGateway
  <2>1. \A S : <<>> \in Seq(S)
    BY EmptySeq
  <2> QED BY <2>1, NoJobBounded, GatewayAssumption DEF Init, Bounded
<1>2. All /\ [Next]_vars => All'
  BY NextInv, NextGateway, BoundedNext
<1>3. All => TypeOK
  <2> SUFFICES ASSUME All PROVE TypeOK
    OBVIOUS
  <2>1. job \in [call : Calls \cup {None}, seq : 0..MaxItems, ioFailed : BOOLEAN, out : Frames]
    BY DEF GatewayInv, StreamInv, StreamTypes, JobType, Bounded
  <2> QED BY <2>1 DEF TypeOK, Inv, GatewayInv, StreamInv, StreamTypes, Served, CallTypes, Bounded
<1> QED BY <1>1, <1>2, <1>3, PTL DEF Spec
=============================================================================
