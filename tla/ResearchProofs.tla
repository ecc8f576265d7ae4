---------------------------- MODULE ResearchProofs ----------------------------
(***************************************************************************)
(* The research gateway for every number of callers, every budget, every   *)
(* byte limit and every set of addresses; and what sanitize_html makes of  *)
(* every page all of whose elements end, by induction along the page.      *)
(***************************************************************************)
EXTENDS ResearchGateway, SequenceTheorems, WellFoundedInduction, TLAPS

\* The server thread has taken a unit and not opened the connection yet.
Due == IF pc \in {"resolve", "connect"} THEN 1 ELSE 0

BudgetInv ==
    /\ config.requests \in Nat /\ remaining \in Nat /\ outbound \in Nat
    /\ outbound + remaining + Due <= config.requests

\* No field of the thread's locals is ever missing, whatever is in them.
IsJob(j) ==
    j = [call |-> j.call, url |-> j.url, answer |-> j.answer, address |-> j.address,
         peer |-> j.peer, ok |-> j.ok, body |-> j.body, text |-> j.text]

\* The URL has passed the check before the host is looked up, the address is
\* one of the answer before it is connected to, and no request begins with
\* the peer of another one.
PeerInv ==
    /\ IsJob(job)
    /\ PinnedToChecked
    /\ pc \in {"resolve", "connect"} => WithinPolicy(job.url)
    /\ pc = "connect" => job.address \in Public \cap Range(job.answer)
    /\ pc \notin {"receive", "dead"} => job.peer = None

\* Between two requests nothing is left of the page of the last one.
PageInv ==
    /\ config.bytes \in Nat
    /\ pc # "write" => ~job.ok /\ sent = <<>> /\ job.body = <<>>
    /\ AcceptedIsWhole

Inv == BudgetInv /\ PeerInv /\ PageInv

LEMMA NoJobIsJob ==
    /\ IsJob(NoJob) /\ NoJob.call = None /\ NoJob.peer = None
    /\ ~NoJob.ok /\ NoJob.body = <<>>
BY DEF NoJob, IsJob

LEMMA RefuseJob ==
    ASSUME Refuse
    PROVE  /\ pc' = "write" /\ IsJob(job') /\ job'.peer = None /\ ~job'.ok
BY DEF Refuse, NoJob, IsJob

\* resolve_public_address keeps the first address of the answer that is not private
LEMMA FirstPublic ==
    ASSUME NEW answer \in Answers,
           {i \in DOMAIN answer : answer[i] \notin Private} # {}
    PROVE  answer[Min({i \in DOMAIN answer : answer[i] \notin Private})]
              \in Public \cap Range(answer)
<1> DEFINE I == {i \in DOMAIN answer : answer[i] \notin Private}
<1>1. DOMAIN answer \subseteq {1, 2}
  BY DEF Answers
<1>2. Min(I) \in I
  <2>1. I \subseteq {1, 2} /\ I # {}
    BY <1>1
  <2> HIDE DEF I
  <2>2. \E i \in I : \A j \in I : i <= j
    <3>1. CASE 1 \in I
      BY <2>1, <3>1
    <3>2. CASE 1 \notin I
      <4>1. I = {2}
        BY <2>1, <3>2
      <4> QED BY <4>1
    <3> QED BY <3>1, <3>2
  <2> QED BY <2>2 DEF Min
<1>3. \A i \in DOMAIN answer : answer[i] \in Public \cup Private
  BY DEF Answers
<1> QED BY <1>2, <1>3 DEF Range

\* A page that was read to one byte past the limit and is not longer than the
\* limit is the page that was sent.
LEMMA ShortIsWhole ==
    ASSUME NEW S, NEW page \in Seq(S), config.bytes \in Nat, ~(Len(Body(page)) > config.bytes)
    PROVE  Body(page) = page
<1> DEFINE limit == config.bytes + 1
           shorter == Min({limit, Len(page)})
<1>1. limit \in Nat /\ Len(page) \in Nat
  OBVIOUS
<1> HIDE DEF limit
<1>2. shorter = IF limit <= Len(page) THEN limit ELSE Len(page)
  BY <1>1 DEF Min
<1> HIDE DEF shorter
<1>3. Body(page) = SubSeq(page, 1, shorter) /\ Len(Body(page)) = shorter
  <2>1. Body(page) = SubSeq(page, 1, shorter)
    BY DEF Body, shorter, limit
  <2>2. shorter \in 0..Len(page)
    BY <1>1, <1>2
  <2> QED BY <2>1, <2>2
<1>4. shorter = Len(page)
  BY <1>1, <1>2, <1>3 DEF limit
<1> QED BY <1>3, <1>4

LEMMA PagesAreSequences == Pages \subseteq Seq(Tokens)
<1>1. \A n \in Nat : [1..n -> Tokens] \subseteq Seq(Tokens)
  OBVIOUS
<1>2. SeqOf(Tokens, MaxBytes) \subseteq Seq(Tokens)
  BY <1>1, ResearchAssumption DEF SeqOf
<1>3. \A n \in Nat : [i \in 1..n |-> "text"] \in Seq(Tokens)
  BY DEF Tokens
<1>4. MaxBytes + 1 \in Nat /\ MaxBytes + 2 \in Nat
  BY ResearchAssumption
<1>5. Pages = SeqOf(Tokens, MaxBytes) \cup {[i \in 1..(MaxBytes + 1) |-> "text"],
                                          [i \in 1..(MaxBytes + 2) |-> "text"]}
  BY DEF Pages
<1> QED BY <1>2, <1>3, <1>4, <1>5

LEMMA InitInv == Init => Inv
<1> SUFFICES ASSUME Init PROVE Inv
  OBVIOUS
<1>1. config \in Configs /\ pc = "accept" /\ job = NoJob /\ sent = <<>>
  BY DEF Init
<1>2. config.requests \in Nat /\ config.bytes \in Nat
  BY <1>1, ResearchAssumption DEF Configs
<1>3. BudgetInv
  BY <1>1, <1>2 DEF Init, BudgetInv, Due
<1>4. PeerInv /\ PageInv
  BY <1>1, <1>2, NoJobIsJob DEF PeerInv, PageInv, PinnedToChecked, AcceptedIsWhole
<1> QED BY <1>3, <1>4 DEF Inv

LEMMA StepBudget == BudgetInv /\ [Next]_vars => BudgetInv'
<1> SUFFICES ASSUME BudgetInv, [Next]_vars PROVE BudgetInv'
  OBVIOUS
<1> USE DEF BudgetInv, Due
<1>a. ASSUME UNCHANGED <<config, remaining, outbound>>,
             pc' \in {"resolve", "connect"} => pc \in {"resolve", "connect"}
      PROVE  BudgetInv'
  BY <1>a
<1>1. CASE Accept \/ Fails \/ Answer \/ RefuseFree \/ RefuseResponse
  BY <1>1, <1>a DEF Accept, Fails, Answer, RefuseFree, RefuseResponse, Close, Refuse
<1>5. CASE Resolve
  <2>1. pc = "resolve" /\ UNCHANGED <<config, remaining, outbound>>
    BY <1>5 DEF Resolve
  <2> QED BY <2>1, <1>a
<1>6. CASE Deliver \/ Panic \/ SearchEnds
  <2>1. UNCHANGED <<config, remaining, outbound>> /\ pc' \in {"write", "dead"}
    BY <1>6 DEF Deliver, Panic, SearchEnds, Refuse
  <2> QED BY <2>1, <1>a
<1>7. CASE UNCHANGED vars \/ \E c \in Calls : Connect(c)
  BY <1>7, <1>a DEF vars, Connect
<1>2. CASE RefuseFetch \/ RefuseSearch \/ Fetch
  BY <1>2 DEF RefuseFetch, RefuseSearch, Fetch, Charge, Refuse
<1>3. CASE OpenConnection
  BY <1>3 DEF OpenConnection
<1>4. CASE Search
  BY <1>4 DEF Search, Charge
<1> QED BY <1>1, <1>2, <1>3, <1>4, <1>5, <1>6, <1>7 DEF Next, Serve

LEMMA StepPeer == PeerInv /\ [Next]_vars => PeerInv'
<1> SUFFICES ASSUME PeerInv, [Next]_vars PROVE PeerInv'
  OBVIOUS
<1> USE DEF PeerInv, PinnedToChecked
\* The request is over, or refused, or another one begins.
<1>a. ASSUME IsJob(job'), job'.peer = None, pc' \in {"accept", "read", "write", "search"}
      PROVE  PeerInv'
  BY <1>a
<1>1. CASE Accept
  <2>1. IsJob(job') /\ job'.peer = None
    BY <1>1 DEF Accept, NoJob, IsJob
  <2> QED BY <1>1, <2>1, <1>a DEF Accept
<1>2. CASE Fails \/ Answer
  BY <1>2, <1>a, NoJobIsJob DEF Fails, Answer, Close
<1>3. CASE RefuseFree \/ RefuseFetch \/ RefuseSearch \/ RefuseResponse
  BY <1>3, <1>a, RefuseJob DEF RefuseFree, RefuseFetch, RefuseSearch, RefuseResponse
<1>4. CASE Fetch
  <2>1. PICK url \in Urls : ~Refused(url) /\ job' = [job EXCEPT !.url = url]
    BY <1>4 DEF Fetch
  <2>2. WithinPolicy(url)
    BY <2>1 DEF WithinPolicy, Refused, Urls, Names, Addresses
  <2>3. IsJob(job') /\ job'.url = url /\ job'.peer = job.peer
    BY <2>1 DEF IsJob
  <2> QED BY <1>4, <2>2, <2>3 DEF Fetch
<1>5. CASE Resolve
  <2>1. CASE Refuse
    BY <2>1, <1>a, RefuseJob
  <2>2. ASSUME NEW answer \in Answers,
               {i \in DOMAIN answer : answer[i] \notin Private} # {},
               pc' = "connect",
               job' = [job EXCEPT !.answer = answer,
                  !.address = answer[Min({i \in DOMAIN answer : answer[i] \notin Private})]]
        PROVE  PeerInv'
    <3> DEFINE address == answer[Min({i \in DOMAIN answer : answer[i] \notin Private})]
    <3>1. address \in Public \cap Range(answer)
      BY <2>2, FirstPublic
    <3> HIDE DEF address
    <3>2. job' = [job EXCEPT !.answer = answer, !.address = address]
      BY <2>2 DEF address
    <3>3. /\ IsJob(job') /\ job'.answer = answer /\ job'.address = address
          /\ job'.url = job.url /\ job'.peer = job.peer
      BY <3>2 DEF IsJob
    <3> QED BY <1>5, <2>2, <3>1, <3>3 DEF Resolve
  <2> QED BY <1>5, <2>1, <2>2 DEF Resolve
<1>6. CASE OpenConnection
  <2>1. job' = [job EXCEPT !.peer = job.address] /\ pc = "connect" /\ pc' = "receive"
    BY <1>6 DEF OpenConnection, Dial
  <2>2. /\ IsJob(job') /\ job'.peer = job.address
        /\ job'.url = job.url /\ job'.answer = job.answer
    BY <2>1 DEF IsJob
  <2> QED BY <2>1, <2>2
<1>7. CASE Deliver
  <2>1. IsJob(job') /\ job'.peer = None
    BY <1>7 DEF Deliver, NoJob, IsJob
  <2> QED BY <1>7, <2>1, <1>a DEF Deliver
<1>8. CASE Search
  BY <1>8, <1>a DEF Search
<1>9. CASE SearchEnds
  <2>1. CASE Refuse
    BY <2>1, <1>a, RefuseJob
  <2>2. CASE job' = [job EXCEPT !.ok = TRUE] /\ pc' = "write"
    <3>1. IsJob(job') /\ job'.peer = job.peer
      BY <2>2 DEF IsJob
    <3> QED BY <1>9, <2>2, <3>1, <1>a DEF SearchEnds
  <2>3. CASE UNCHANGED job /\ pc' = "dead"
    BY <2>3
  <2> QED BY <1>9, <2>1, <2>2, <2>3 DEF SearchEnds
<1>10. CASE Panic \/ UNCHANGED vars \/ \E c \in Calls : Connect(c)
  BY <1>10 DEF Panic, vars, Connect
<1> QED BY <1>1, <1>2, <1>3, <1>4, <1>5, <1>6, <1>7, <1>8, <1>9, <1>10 DEF Next, Serve

LEMMA StepPage == PeerInv /\ PageInv /\ [Next]_vars => PageInv'
<1> SUFFICES ASSUME IsJob(job), PageInv, [Next]_vars PROVE PageInv'
  BY DEF PeerInv
<1> USE DEF PageInv, AcceptedIsWhole
<1>a. ASSUME Refuse, UNCHANGED config PROVE PageInv'
  BY <1>a, RefuseJob
<1>1. CASE Accept
  BY <1>1 DEF Accept, NoJob
<1>2. CASE Fails \/ Answer
  BY <1>2, NoJobIsJob DEF Fails, Answer, Close
<1>3. CASE RefuseFree \/ RefuseFetch \/ RefuseSearch \/ RefuseResponse
  BY <1>3, <1>a DEF RefuseFree, RefuseFetch, RefuseSearch, RefuseResponse
<1>4. CASE Fetch
  <2>1. PICK url \in Urls : job' = [job EXCEPT !.url = url]
    BY <1>4 DEF Fetch
  <2>2. job'.body = job.body /\ job'.ok = job.ok
    BY <2>1 DEF IsJob
  <2> QED BY <1>4, <2>2 DEF Fetch
<1>5. CASE Resolve
  <2>1. CASE Refuse
    BY <1>5, <2>1, <1>a DEF Resolve
  <2>2. ASSUME NEW answer, NEW address, pc' = "connect",
               job' = [job EXCEPT !.answer = answer, !.address = address]
        PROVE  PageInv'
    <3>1. job'.body = job.body /\ job'.ok = job.ok
      BY <2>2 DEF IsJob
    <3> QED BY <1>5, <2>2, <3>1 DEF Resolve
  <2> QED BY <1>5, <2>1, <2>2 DEF Resolve
<1>6. CASE OpenConnection
  <2>1. job'.ok = job.ok /\ job'.body = job.body
    BY <1>6 DEF OpenConnection, Dial, IsJob
  <2> QED BY <1>6, <2>1 DEF OpenConnection
<1>7. CASE Deliver
  <2>1. /\ UNCHANGED config /\ pc' = "write"
        /\ sent' \in Pages /\ ~(Len(Body(sent')) > config.bytes) /\ job'.body = Body(sent')
    BY <1>7 DEF Deliver, NoJob
  <2>2. job'.body = sent'
    BY <2>1, PagesAreSequences, ShortIsWhole
  <2> QED BY <2>1, <2>2
<1>8. CASE Search
  BY <1>8 DEF Search
<1>9. CASE SearchEnds
  <2>1. CASE Refuse
    BY <1>9, <2>1, <1>a DEF SearchEnds
  <2>2. CASE job' = [job EXCEPT !.ok = TRUE] /\ pc' = "write"
    <3>1. job'.body = job.body
      BY <2>2 DEF IsJob
    <3> QED BY <1>9, <2>2, <3>1 DEF SearchEnds
  <2>3. CASE UNCHANGED job /\ pc' = "dead"
    BY <1>9, <2>3 DEF SearchEnds
  <2> QED BY <1>9, <2>1, <2>2, <2>3 DEF SearchEnds
<1>10. CASE Panic \/ UNCHANGED vars \/ \E c \in Calls : Connect(c)
  BY <1>10 DEF Panic, vars, Connect
<1> QED BY <1>1, <1>2, <1>3, <1>4, <1>5, <1>6, <1>7, <1>8, <1>9, <1>10 DEF Next, Serve

LEMMA NextInv == Inv /\ [Next]_vars => Inv'
BY StepBudget, StepPeer, StepPage DEF Inv

\* However many callers there are, FETCH and SEARCH together open no more
\* connections than units of max_requests were spent, and no unit comes back.
THEOREM ResearchBudgetBounds == Spec => []BudgetBounds
<1>1. Inv => BudgetBounds
  BY DEF Inv, BudgetInv, Due, BudgetBounds
<1> QED BY <1>1, InitInv, NextInv, PTL DEF Spec

\* Whatever the name service answers, and however often it changes its mind,
\* FETCH connects for an allowed URL only, to a public address of the answer
\* that was checked.
THEOREM ResearchPinnedToChecked == Spec => []PinnedToChecked
<1>1. Inv => PinnedToChecked
  BY DEF Inv, PeerInv
<1> QED BY <1>1, InitInv, NextInv, PTL DEF Spec

\* For every limit: a page that is returned was received whole.
THEOREM ResearchAcceptedIsWhole == Spec => []AcceptedIsWhole
<1>1. Inv => AcceptedIsWhole
  BY DEF Inv, PageInv
<1> QED BY <1>1, InitInv, NextInv, PTL DEF Spec
-----------------------------------------------------------------------------
(* The connections.                                                         *)

\* Who waits, waits once; who is served has left the queue, and has no answer
\* yet.
CallInv ==
    /\ config \in Configs /\ Loads(config)
    /\ waiting \in Seq(Calls) /\ IsInjective(waiting)
    /\ caller \in [Calls -> {"idle", "waiting", "answered", "dropped"}]
    /\ \A i \in DOMAIN waiting : caller[waiting[i]] = "waiting"
    /\ pc \in {"accept", "read", "resolve", "connect", "receive", "search", "write", "dead"}
    /\ job.call \in Calls \cup {None}
    /\ pc # "accept" => /\ job.call \in Calls /\ caller[job.call] = "waiting"
                        /\ \A i \in DOMAIN waiting : waiting[i] # job.call
    /\ sent \in Pages

LEMMA EmptyPage == <<>> \in Pages
<1>1. 0 \in 0..MaxBytes /\ <<>> \in [1..0 -> Tokens]
  BY ResearchAssumption
<1>2. <<>> \in SeqOf(Tokens, MaxBytes)
  BY <1>1 DEF SeqOf
<1> QED BY <1>2 DEF Pages

LEMMA InitCalls == Init => CallInv
<1> SUFFICES ASSUME Init PROVE CallInv
  OBVIOUS
<1>1. <<>> \in Seq(Calls) /\ DOMAIN <<>> = {}
  BY EmptySeq
<1> QED BY <1>1, EmptyPage, NoJobIsJob DEF Init, CallInv, IsInjective

\* The call that is served stays the same.
LEMMA SameCall ==
    ASSUME PeerInv, Next, pc # "accept", ~Fails, ~Answer
    PROVE  job'.call = job.call
<1>0. IsJob(job)
  BY DEF PeerInv
<1>1. Refuse => job'.call = job.call
  BY DEF Refuse, NoJob
<1>2. ASSUME NEW answer, NEW address, job' = [job EXCEPT !.answer = answer, !.address = address]
      PROVE  job'.call = job.call
  BY <1>0, <1>2 DEF IsJob
<1>3. CASE Deliver
  BY <1>3 DEF Deliver, NoJob
<1>4. CASE Resolve
  BY <1>1, <1>2, <1>4 DEF Resolve
<1>5. CASE Fetch \/ OpenConnection \/ SearchEnds
  BY <1>0, <1>1, <1>5 DEF Fetch, OpenConnection, Dial, SearchEnds, IsJob
<1> QED BY <1>1, <1>3, <1>4, <1>5 DEF Next, Serve, Accept, RefuseFree, RefuseFetch, RefuseResponse,
              RefuseSearch, Search, Connect, Panic

LEMMA StepCalls == ASSUME PeerInv, CallInv, [Next]_vars PROVE CallInv'
<1> USE DEF CallInv
<1>1. CASE Accept
  <2>1. /\ waiting # <<>> /\ waiting' = Tail(waiting) /\ pc' = "read"
        /\ job' = [NoJob EXCEPT !.call = Head(waiting)]
        /\ UNCHANGED <<config, sent, caller>>
    BY <1>1 DEF Accept
  <2>2. /\ Head(waiting) \in Calls /\ Tail(waiting) \in Seq(Calls)
        /\ Len(waiting) \in Nat /\ Len(waiting) # 0 /\ DOMAIN waiting = 1..Len(waiting)
        /\ Head(waiting) = waiting[1] /\ DOMAIN Tail(waiting) = 1..(Len(waiting) - 1)
        /\ \A i \in 1..(Len(waiting) - 1) : Tail(waiting)[i] = waiting[i + 1]
    BY <2>1, EmptySeq, LenProperties, HeadTailProperties
  <2>3. 1 \in DOMAIN waiting /\ \A i \in DOMAIN waiting' :
           i + 1 \in DOMAIN waiting /\ i + 1 # 1 /\ waiting'[i] = waiting[i + 1] /\ i \in Nat
    BY <2>1, <2>2
  <2>4. IsInjective(waiting') /\ \A i \in DOMAIN waiting' : waiting'[i] # Head(waiting)
    BY <2>2, <2>3 DEF IsInjective
  <2>5. job'.call = Head(waiting) /\ caller'[job'.call] = "waiting"
    BY <2>1, <2>2, <2>3 DEF NoJob
  <2> QED BY <2>1, <2>2, <2>3, <2>4, <2>5
<1>2. CASE Fails \/ Answer
  <2>1. PICK how \in {"answered", "dropped"} : Close(how) /\ pc \in {"read", "write"}
    BY <1>2 DEF Fails, Answer
  <2>2. /\ caller' = [caller EXCEPT ![job.call] = how] /\ job'.call = None /\ sent' = <<>>
        /\ pc' = "accept" /\ UNCHANGED <<config, waiting>>
    BY <1>2, <2>1, NoJobIsJob DEF Fails, Answer, Close
  <2>3. \A i \in DOMAIN waiting : caller'[waiting[i]] = "waiting"
    BY <2>1, <2>2, ElementOfSeq
  <2> QED BY <2>1, <2>2, <2>3, EmptyPage
<1>3. ASSUME NEW c \in Calls, Connect(c) PROVE CallInv'
  <2>1. /\ caller[c] = "idle" /\ caller' = [caller EXCEPT ![c] = "waiting"]
        /\ waiting' = Append(waiting, c) /\ UNCHANGED <<config, sent, pc, job>>
    BY <1>3 DEF Connect
  <2>2. /\ Append(waiting, c) \in Seq(Calls) /\ Len(waiting) \in Nat
        /\ DOMAIN waiting = 1..Len(waiting) /\ DOMAIN waiting' = 1..(Len(waiting) + 1)
        /\ \A i \in 1..Len(waiting) : waiting'[i] = waiting[i]
        /\ waiting'[Len(waiting) + 1] = c
    BY <2>1, LenProperties, AppendProperties
  <2>3. \A i \in DOMAIN waiting' :
           \/ i \in DOMAIN waiting /\ waiting'[i] = waiting[i] /\ waiting[i] # c
           \/ i = Len(waiting) + 1 /\ waiting'[i] = c
    BY <2>1, <2>2
  <2>4. IsInjective(waiting')
    BY <2>3 DEF IsInjective
  <2>5. \A i \in DOMAIN waiting' : caller'[waiting'[i]] = "waiting"
    <3>1. \A i \in DOMAIN waiting : waiting[i] \in Calls
      BY ElementOfSeq, LenProperties
    <3> QED BY <2>1, <2>3, <3>1
  <2>6. pc # "accept" => job.call # c
    BY <2>1
  <2> QED BY <2>1, <2>2, <2>3, <2>4, <2>5, <2>6
\* The request goes on.
<1>4. ASSUME UNCHANGED <<config, waiting, caller>>, sent' \in Pages, job'.call = job.call,
             pc # "accept",
             pc' \in {"read", "resolve", "connect", "receive", "search", "write", "dead"}
      PROVE  CallInv'
  BY <1>4
<1>5. CASE /\ Next /\ ~Accept /\ ~Fails /\ ~Answer /\ ~\E c \in Calls : Connect(c)
  <2>1. /\ UNCHANGED <<config, waiting, caller>> /\ (sent' = sent \/ sent' \in Pages)
        /\ pc # "accept"
        /\ pc' \in {"resolve", "connect", "receive", "search", "write", "dead"}
    <3>1. CASE RefuseFree \/ RefuseFetch \/ Fetch \/ RefuseSearch \/ Search
      BY <3>1 DEF RefuseFree, RefuseFetch, Fetch, RefuseSearch, Search, Refuse
    <3>2. CASE Resolve
      BY <3>2 DEF Resolve, Refuse
    <3>3. CASE OpenConnection \/ RefuseResponse \/ SearchEnds
      BY <3>3 DEF OpenConnection, RefuseResponse, SearchEnds, Refuse
    <3>4. CASE Deliver \/ Panic
      BY <3>4 DEF Deliver, Panic
    <3> QED BY <1>5, <3>1, <3>2, <3>3, <3>4 DEF Next, Serve
  <2>2. job'.call = job.call
    BY <1>5, <2>1, SameCall
  <2> QED BY <1>4, <2>1, <2>2
<1>6. CASE UNCHANGED vars
  BY <1>6 DEF vars
<1> QED BY <1>1, <1>2, <1>3, <1>5, <1>6

\* Every variable keeps its type however long the gateway runs: nobody is in
\* the queue twice, or is served and still in it, and the budget never wraps.
THEOREM ResearchTypeOK == Spec => []TypeOK
<1>1. Inv /\ CallInv => TypeOK
  BY DEF Inv, BudgetInv, Due, CallInv, TypeOK
<1>2. Inv => PeerInv
  BY DEF Inv
<1> QED BY <1>1, <1>2, InitInv, NextInv, InitCalls, StepCalls, PTL DEF Spec
-----------------------------------------------------------------------------
(* The text of a page.                                                      *)

\* Induction, with a set for what is shown.
LEMMA NatBySteps ==
    ASSUME NEW S, 0 \in S, \A n \in Nat : n \in S => n + 1 \in S
    PROVE  Nat \subseteq S
<1>1. SUFFICES ASSUME Nat \ S # {} PROVE FALSE
  OBVIOUS
<1>2. PICK n \in Nat \ S : \A m \in Nat \ S : <<m, n>> \notin OpToRel(<, Nat)
  BY <1>1, NatLessThanWellFounded, WFMin
<1>3. PICK m \in Nat : m + 1 = n
  <2>1. n # 0 /\ n - 1 \in Nat /\ (n - 1) + 1 = n
    OBVIOUS
  <2> QED BY <2>1
<1>4. <<m, n>> \in OpToRel(<, Nat)
  BY <1>3 DEF OpToRel
<1> QED BY <1>2, <1>3, <1>4

\* The same from the end of an interval down to its beginning.
LEMMA Backwards ==
    ASSUME NEW last \in Nat, NEW S,
           \A i \in 1..last + 1 : (\A j \in i + 1..last + 1 : j \in S) => i \in S
    PROVE  1..last + 1 \subseteq S
<1> DEFINE Begun == {n \in Nat : \A i \in 1..last + 1 : last + 1 - i <= n => i \in S}
<1>1. 0 \in Begun
  <2> SUFFICES ASSUME NEW i \in 1..last + 1, last + 1 - i <= 0 PROVE i \in S
    OBVIOUS
  <2>1. \A j \in i + 1..last + 1 : j \in S
    OBVIOUS
  <2> QED BY <2>1
<1>2. ASSUME NEW n \in Nat, n \in Begun PROVE n + 1 \in Begun
  <2> SUFFICES ASSUME NEW i \in 1..last + 1, last + 1 - i <= n + 1 PROVE i \in S
    OBVIOUS
  <2>1. ASSUME NEW j \in i + 1..last + 1 PROVE j \in S
    <3>1. j \in 1..last + 1 /\ last + 1 - j <= n
      OBVIOUS
    <3> QED BY <1>2, <3>1
  <2> QED BY <2>1
<1>3. Nat \subseteq Begun
  <2> HIDE DEF Begun
  <2> QED BY <1>1, <1>2, NatBySteps
<1>4. ASSUME NEW i \in 1..last + 1 PROVE i \in S
  <2>1. PICK n \in Nat : n = last + 1 - i
    <3>1. last + 1 - i \in Nat
      OBVIOUS
    <3> QED BY <3>1
  <2> QED BY <1>3, <2>1
<1> QED BY <1>4

LEMMA FirstIs ==
    ASSUME NEW page \in Seq(Tokens), NEW i \in 1..Len(page) + 1, NEW T
    PROVE  /\ FirstOf(page, i, T) \in i..Len(page) + 1
           /\ FirstOf(page, i, T) = Len(page) + 1 \/ page[FirstOf(page, i, T)] \in T
           /\ \A k \in i..FirstOf(page, i, T) - 1 : page[k] \notin T
<1> DEFINE n == Len(page)
           Found == {j \in i..n + 1 : j = n + 1 \/ page[j] \in T}
<1>1. n \in Nat /\ i \in Nat /\ n + 1 \in Found /\ Found \subseteq Nat
  OBVIOUS
<1>2. PICK j \in Found : \A k \in Found : <<k, j>> \notin OpToRel(<, Nat)
  <2> HIDE DEF Found
  <2> QED BY <1>1, NatLessThanWellFounded, WFMin
<1>3. ASSUME NEW k \in i..j - 1 PROVE page[k] \notin T
  <2>1. k \in Nat /\ j \in Nat /\ k < j /\ k \in i..n + 1
    <3>1. j \in Nat /\ j \in i..n + 1
      BY <1>1, <1>2
    <3> HIDE DEF n
    <3> QED BY <1>1, <3>1
  <2>2. <<k, j>> \in OpToRel(<, Nat)
    BY <2>1 DEF OpToRel
  <2> QED BY <1>2, <2>1, <2>2
<1>4. \E l \in i..Len(page) + 1 :
         /\ l = Len(page) + 1 \/ page[l] \in T
         /\ \A k \in i..(l - 1) : page[k] \notin T
  BY <1>2, <1>3
<1> QED BY <1>4 DEF FirstOf

\* There is one list of a set.
LEMMA SmallerIsListed ==
    ASSUME NEW s \in Seq(Nat), NEW t \in Seq(Nat), NEW S, Lists(s, S), Lists(t, S),
           NEW k \in DOMAIN s, \A j \in 1..k - 1 : j \in DOMAIN t /\ t[j] = s[j]
    PROVE  k \in DOMAIN t /\ t[k] <= s[k]
<1>1. /\ DOMAIN s = 1..Len(s) /\ DOMAIN t = 1..Len(t) /\ Len(s) \in Nat /\ Len(t) \in Nat
      /\ (\A i \in DOMAIN s : s[i] \in Nat) /\ \A i \in DOMAIN t : t[i] \in Nat
  OBVIOUS
<1>2. PICK j \in DOMAIN t : t[j] = s[k]
  BY DEF Lists, Range
<1>3. j >= k
  <2> SUFFICES ASSUME j < k PROVE FALSE
    BY <1>1
  <2>1. j \in 1..k - 1 /\ j \in DOMAIN s
    BY <1>1
  <2>2. t[j] = s[j] /\ s[j] < s[k]
    BY <2>1 DEF Lists
  <2> QED BY <1>1, <1>2, <2>1, <2>2
<1>4. k \in DOMAIN t
  BY <1>1, <1>3
<1>5. t[k] <= t[j]
  <2>1. CASE j = k
    BY <1>1, <1>4, <2>1
  <2>2. CASE k < j
    BY <1>1, <1>4, <2>2 DEF Lists
  <2> QED BY <1>1, <1>3, <2>1, <2>2
<1> QED BY <1>2, <1>4, <1>5

LEMMA ListIsUnique ==
    ASSUME NEW s \in Seq(Nat), NEW t \in Seq(Nat), NEW S, Lists(s, S), Lists(t, S)
    PROVE  s = t
<1> DEFINE Same(j) == j \in DOMAIN s /\ j \in DOMAIN t /\ s[j] = t[j]
           Begun == {n \in Nat : \A j \in 1..n : (j \in DOMAIN s \/ j \in DOMAIN t) => Same(j)}
<1>1. /\ DOMAIN s = 1..Len(s) /\ DOMAIN t = 1..Len(t) /\ Len(s) \in Nat /\ Len(t) \in Nat
      /\ (\A j \in DOMAIN s : s[j] \in Nat) /\ \A j \in DOMAIN t : t[j] \in Nat
  OBVIOUS
<1>2. 0 \in Begun
  OBVIOUS
<1>3. ASSUME NEW n \in Nat, n \in Begun PROVE n + 1 \in Begun
  <2>1. SUFFICES ASSUME n + 1 \in DOMAIN s \/ n + 1 \in DOMAIN t PROVE Same(n + 1)
    <3>1. \A j \in 1..n + 1 : j \in 1..n \/ j = n + 1
      OBVIOUS
    <3>2. \A j \in 1..n + 1 : (j \in DOMAIN s \/ j \in DOMAIN t) => Same(j)
      BY <1>3, <2>1, <3>1
    <3> QED BY <3>2
  <2>2. PICK k \in Nat : k = n + 1 /\ k >= 1 /\ 1..k - 1 = 1..n
    OBVIOUS
  <2>3. \A j \in 1..k - 1 : j \in DOMAIN s /\ j \in DOMAIN t /\ s[j] = t[j]
    <3>1. \A j \in 1..n : j \in DOMAIN s \/ j \in DOMAIN t
      BY <1>1, <2>1
    <3> QED BY <1>3, <2>2, <3>1
  <2>4. k \in DOMAIN s => k \in DOMAIN t /\ t[k] <= s[k]
    BY <2>3, SmallerIsListed
  <2>5. k \in DOMAIN t => k \in DOMAIN s /\ s[k] <= t[k]
    BY <2>3, SmallerIsListed
  <2>6. k \in DOMAIN s /\ k \in DOMAIN t
    BY <2>1, <2>2, <2>4, <2>5
  <2> QED BY <1>1, <2>2, <2>4, <2>5, <2>6
<1>4. Nat \subseteq Begun
  <2> HIDE DEF Begun
  <2> QED BY <1>2, <1>3, NatBySteps
<1>5. \A j : j \in DOMAIN s \/ j \in DOMAIN t => Same(j)
  <2> SUFFICES ASSUME NEW j, j \in DOMAIN s \/ j \in DOMAIN t PROVE Same(j)
    OBVIOUS
  <2>1. j \in Nat /\ j \in 1..j
    BY <1>1
  <2> QED BY <1>4, <2>1
<1>6. Len(s) = Len(t)
  <2>1. ~(Len(s) < Len(t)) /\ ~(Len(t) < Len(s))
    <3>1. Len(s) < Len(t) => Len(t) \in DOMAIN t /\ Len(t) \notin DOMAIN s
      BY <1>1
    <3>2. Len(t) < Len(s) => Len(s) \in DOMAIN s /\ Len(s) \notin DOMAIN t
      BY <1>1
    <3> QED BY <1>5, <3>1, <3>2
  <2>2. Len(s) \in Nat /\ Len(t) \in Nat
    OBVIOUS
  <2> QED BY <2>1, <2>2
<1> QED BY <1>1, <1>5, <1>6, SeqEqual

LEMMA PositionsLists ==
    ASSUME NEW a \in Nat, NEW b \in Nat, a <= b + 1
    PROVE  /\ Positions(a, b) \in Seq(Nat) /\ Lists(Positions(a, b), a..b)
           /\ Len(Positions(a, b)) = b + 1 - a
<1>1. PICK n \in Nat : n = b + 1 - a
  <2>1. b + 1 - a \in Nat
    OBVIOUS
  <2> QED BY <2>1
<1>2. Positions(a, b) = [k \in 1..n |-> a + k - 1]
  BY <1>1 DEF Positions
<1>3. \A k \in 1..n : a + k - 1 \in Nat
  OBVIOUS
<1>4. Positions(a, b) \in Seq(Nat) /\ Len(Positions(a, b)) = n
  BY <1>2, <1>3
<1>5. \A x \in a..b : \E k \in 1..n : a + k - 1 = x
  <2> SUFFICES ASSUME NEW x \in a..b PROVE x - a + 1 \in 1..n /\ a + (x - a + 1) - 1 = x
    OBVIOUS
  <2> QED BY <1>1
<1>6. Range(Positions(a, b)) = a..b
  <2>1. \A k \in 1..n : a + k - 1 \in a..b
    BY <1>1
  <2>2. Range(Positions(a, b)) = {a + k - 1 : k \in 1..n}
    BY <1>2 DEF Range
  <2> QED BY <1>5, <2>1, <2>2
<1>7. \A i, j \in 1..n : i < j => a + i - 1 < a + j - 1
  OBVIOUS
<1> QED BY <1>1, <1>2, <1>4, <1>6, <1>7 DEF Lists

\* A list goes on with larger numbers.
LEMMA ListsTogether ==
    ASSUME NEW s \in Seq(Nat), NEW t \in Seq(Nat), NEW S, NEW T, Lists(s, S), Lists(t, T),
           \A x \in S, y \in T : x < y
    PROVE  s \o t \in Seq(Nat) /\ Lists(s \o t, S \cup T)
<1> DEFINE u == s \o t
<1>1. /\ DOMAIN s = 1..Len(s) /\ DOMAIN t = 1..Len(t) /\ Len(s) \in Nat /\ Len(t) \in Nat
      /\ (\A i \in DOMAIN s : s[i] \in Nat) /\ \A i \in DOMAIN t : t[i] \in Nat
  OBVIOUS
<1>2. /\ u \in Seq(Nat) /\ DOMAIN u = 1..Len(s) + Len(t)
      /\ \A i \in DOMAIN s : i \in DOMAIN u /\ u[i] = s[i]
      /\ \A i \in DOMAIN t : Len(s) + i \in DOMAIN u /\ u[Len(s) + i] = t[i]
  BY <1>1
<1>3. ASSUME NEW i \in DOMAIN u
      PROVE  i \in DOMAIN s \/ \E k \in DOMAIN t : i = Len(s) + k
  <2>1. i <= Len(s) \/ (i - Len(s) \in 1..Len(t) /\ i = Len(s) + (i - Len(s)))
    BY <1>1, <1>2
  <2> QED BY <1>1, <1>2, <2>1
<1> HIDE DEF u
<1>4. Range(u) = S \cup T
  <2>1. Range(s) = S /\ Range(t) = T
    BY DEF Lists
  <2>2. \A x \in Range(u) : x \in Range(s) \cup Range(t)
    <3> SUFFICES ASSUME NEW i \in DOMAIN u PROVE u[i] \in Range(s) \cup Range(t)
      BY DEF Range
    <3>1. CASE i \in DOMAIN s
      BY <1>2, <3>1 DEF Range
    <3>2. CASE \E k \in DOMAIN t : i = Len(s) + k
      BY <1>2, <3>2 DEF Range
    <3> QED BY <1>3, <3>1, <3>2
  <2>3. Range(s) \subseteq Range(u) /\ Range(t) \subseteq Range(u)
    BY <1>2 DEF Range
  <2> QED BY <2>1, <2>2, <2>3
<1>5. ASSUME NEW i \in DOMAIN u, NEW j \in DOMAIN u, i < j PROVE u[i] < u[j]
  <2>1. \A k \in DOMAIN s, l \in DOMAIN t : s[k] < t[l]
    BY DEF Lists, Range
  <2>2. CASE i \in DOMAIN s /\ j \in DOMAIN s
    BY <1>2, <1>5, <2>2 DEF Lists
  <2>3. ASSUME NEW k \in DOMAIN t, j = Len(s) + k, i \in DOMAIN s PROVE u[i] < u[j]
    BY <1>2, <2>1, <2>3
  <2>4. ASSUME NEW k \in DOMAIN t, NEW l \in DOMAIN t, j = Len(s) + k, i = Len(s) + l
        PROVE  u[i] < u[j]
    <3>1. l < k
      BY <1>1, <1>5, <2>4
    <3> QED BY <1>2, <2>4, <3>1 DEF Lists
  <2>5. ASSUME NEW l \in DOMAIN t, j \in DOMAIN s, i = Len(s) + l PROVE FALSE
    BY <1>1, <1>5, <2>5
  <2> QED BY <1>3, <2>2, <2>3, <2>4, <2>5
<1> QED BY <1>2, <1>4, <1>5 DEF Lists, u

\* What the loop finds from position i on: the text that no "<script>" hides that
\* begins there.  Scripts whose tags are written otherwise hide nothing.
TextFrom(page, i) == {k \in i..Len(page) :
    /\ page[k] = "text"
    /\ \A j \in i..k - 1 : page[j] = "<script>" => \E m \in j..k - 1 : page[m] = "</script>"}

\* Where an element of a page ends all of whose elements end.
LEMMA ElementEnds ==
    ASSUME NEW page \in Seq(Tokens), WellFormed(page), NEW start \in DOMAIN page,
           page[start] # "text"
    PROVE  /\ EndOf(page, start) \in start..Len(page)
           /\ \/ page[start] # "<script>" /\ EndOf(page, start) = start
              \/ page[start] = "<script>" /\ page[EndOf(page, start)] = "</script>"
<1>1. /\ DOMAIN page = 1..Len(page) /\ Len(page) \in Nat /\ start \in 1..Len(page) + 1
      /\ page[start] \in Tokens
  OBVIOUS
<1>2. CASE page[start] = "<script>"
  <2> DEFINE end == FirstOf(page, start, {"</script>"})
  <2>1. PICK j \in start..Len(page) : page[j] = "</script>"
    BY <1>2 DEF WellFormed, Scripts
  <2>2. end \in start..Len(page) + 1 /\ (end = Len(page) + 1 \/ page[end] = "</script>")
        /\ \A k \in start..end - 1 : page[k] # "</script>"
    BY <1>1, FirstIs
  <2>3. EndOf(page, start) = end
    BY <1>2 DEF EndOf
  <2> HIDE DEF end
  <2>4. end # Len(page) + 1
    BY <1>1, <2>1, <2>2
  <2> QED BY <1>1, <1>2, <2>2, <2>3, <2>4
<1>3. CASE page[start] # "<script>"
  <2> DEFINE end == FirstOf(page, start, Closed)
  <2>1. page[start] \in Closed
    BY <1>1, <1>3 DEF WellFormed, Tokens, Brackets, Closed, ScriptEnds
  <2>2. end \in start..Len(page) + 1 /\ \A k \in start..end - 1 : page[k] \notin Closed
    BY <1>1, FirstIs
  <2>3. EndOf(page, start) = end
    BY <1>3 DEF EndOf
  <2> HIDE DEF end
  <2>4. end = start
    BY <1>1, <2>1, <2>2
  <2> QED BY <1>1, <1>3, <2>3, <2>4
<1> QED BY <1>2, <1>3

\* Up to the next element all is text.
LEMMA TextBefore ==
    ASSUME NEW page \in Seq(Tokens), NEW i \in 1..Len(page) + 1,
           NEW start, start = FirstOf(page, i, Brackets)
    PROVE  /\ start \in i..Len(page) + 1
           /\ start <= Len(page) => page[start] # "text"
           /\ \A k \in i..start - 1 : page[k] = "text"
<1>1. /\ start \in i..Len(page) + 1 /\ (start = Len(page) + 1 \/ page[start] \in Brackets)
      /\ \A k \in i..start - 1 : page[k] \notin Brackets
  BY FirstIs
<1>2. DOMAIN page = 1..Len(page) /\ Len(page) \in Nat /\ \A k \in DOMAIN page : page[k] \in Tokens
  OBVIOUS
<1>3. \A k \in i..start - 1 : k \in DOMAIN page
  BY <1>1, <1>2
<1>4. start <= Len(page) => start # Len(page) + 1
  BY <1>1, <1>2
<1>5. start <= Len(page) => page[start] # "text"
  BY <1>1, <1>4 DEF Brackets, Closed, Scripts, ScriptEnds
<1>6. \A k \in i..start - 1 : page[k] = "text"
  BY <1>1, <1>2, <1>3 DEF Tokens
<1> QED BY <1>1, <1>5, <1>6

LEMMA TextFromSplits ==
    ASSUME NEW page \in Seq(Tokens), WellFormed(page), NEW i \in 1..Len(page) + 1,
           NEW start, start = FirstOf(page, i, Brackets), start <= Len(page),
           NEW end, end = EndOf(page, start)
    PROVE  /\ end \in start..Len(page)
           /\ TextFrom(page, i) = (i..start - 1) \cup TextFrom(page, end + 1)
<1>1. /\ DOMAIN page = 1..Len(page) /\ Len(page) \in Nat /\ i \in Nat /\ i >= 1
      /\ start \in i..Len(page) /\ start \in Nat /\ page[start] # "text"
      /\ \A k \in i..start - 1 : page[k] = "text"
  BY TextBefore
<1>2. /\ end \in start..Len(page) /\ end \in Nat
      /\ \/ page[start] # "<script>" /\ end = start
         \/ page[start] = "<script>" /\ page[end] = "</script>"
  BY <1>1, ElementEnds
<1> DEFINE Open(a, k) == \E j \in a..k - 1 :
              page[j] = "<script>" /\ \A m \in j..k - 1 : page[m] # "</script>"
<1>3. \A a : TextFrom(page, a) = {k \in a..Len(page) : page[k] = "text" /\ ~Open(a, k)}
  BY DEF TextFrom
<1>4. ASSUME NEW k \in i..start - 1 PROVE k \in i..Len(page) /\ page[k] = "text" /\ ~Open(i, k)
  <2>1. \A j \in i..k - 1 : j \in i..start - 1
    BY <1>1
  <2> QED BY <1>1, <2>1
<1>5. ASSUME NEW k \in start..end, page[k] = "text" PROVE Open(i, k)
  <2>1. k # start /\ k # end /\ page[start] = "<script>"
    BY <1>1, <1>2, <1>5
  <2>2. start \in i..k - 1
    BY <1>1, <1>2, <2>1
  <2>3. \A m \in start..k - 1 : page[m] # "</script>"
    <3>1. end = FirstOf(page, start, {"</script>"})
      BY <2>1 DEF EndOf
    <3>2. \A m \in start..end - 1 : page[m] # "</script>"
      BY <1>1, <3>1, FirstIs
    <3>3. \A m \in start..k - 1 : m \in start..end - 1
      BY <1>1, <1>2
    <3> QED BY <3>2, <3>3
  <2> QED BY <2>1, <2>2, <2>3
<1>6. ASSUME NEW k \in end + 1..Len(page) PROVE Open(i, k) <=> Open(end + 1, k)
  <2>1. Open(end + 1, k) => Open(i, k)
    <3>1. \A j \in end + 1..k - 1 : j \in i..k - 1
      BY <1>1, <1>2
    <3> QED BY <3>1
  <2>2. ASSUME NEW j \in i..k - 1, page[j] = "<script>", \A m \in j..k - 1 : page[m] # "</script>"
        PROVE  j \in end + 1..k - 1
    <3>1. ~(j \in i..start - 1)
      BY <1>1, <2>2
    <3>2. ASSUME j <= end PROVE FALSE
      <4>1. end \in j..k - 1 /\ j \in start..end
        BY <1>1, <1>2, <3>1, <3>2
      <4>2. page[end] # "</script>" /\ end = start /\ j = start
        BY <1>2, <2>2, <4>1
      <4> QED BY <1>2, <2>2, <4>2
    <3> QED BY <1>1, <1>2, <3>2
  <2> QED BY <2>1, <2>2
<1> HIDE DEF Open
<1>7. ASSUME NEW k PROVE k \in TextFrom(page, i) <=> k \in (i..start - 1) \cup TextFrom(page, end + 1)
  <2>1. k \in i..Len(page) <=> k \in i..start - 1 \/ k \in start..end \/ k \in end + 1..Len(page)
    BY <1>1, <1>2
  <2>2. CASE k \in i..start - 1
    BY <1>3, <1>4, <2>2
  <2>3. CASE k \in start..end
    <3>1. k \notin TextFrom(page, i)
      BY <1>3, <1>5, <2>3
    <3>2. k \notin i..start - 1 /\ k \notin end + 1..Len(page)
      BY <1>1, <1>2, <2>3
    <3> QED BY <1>3, <3>1, <3>2
  <2>4. CASE k \in end + 1..Len(page)
    <3>1. k \notin i..start - 1
      BY <1>1, <1>2, <2>4
    <3> QED BY <1>3, <1>6, <2>1, <2>4, <3>1
  <2>5. CASE k \notin i..Len(page)
    BY <1>3, <2>1, <2>5
  <2> QED BY <2>1, <2>2, <2>3, <2>4, <2>5
<1> QED BY <1>2, <1>7

\* What the loop appends from a position on is the text from there, if what
\* it appends from a later position on is.
LEMMA RoundLists ==
    ASSUME NEW page \in Seq(Tokens), WellFormed(page), NEW i \in 1..Len(page) + 1, NEW from,
           \A j \in i + 1..Len(page) + 1 : from[j] \in Seq(Nat) /\ Lists(from[j], TextFrom(page, j))
    PROVE  Round(page, from, i) \in Seq(Nat) /\ Lists(Round(page, from, i), TextFrom(page, i))
<1> DEFINE start == FirstOf(page, i, Brackets)
           end == EndOf(page, start)
<1>0. DOMAIN page = 1..Len(page) /\ Len(page) \in Nat /\ i \in Nat /\ i >= 1 /\ i <= Len(page) + 1
  OBVIOUS
<1>1. /\ start \in i..Len(page) + 1
      /\ start <= Len(page) => page[start] # "text"
      /\ \A k \in i..start - 1 : page[k] = "text"
  BY TextBefore
<1>2. CASE start > Len(page)
  <2>1. start = Len(page) + 1
    BY <1>0, <1>1, <1>2
  <2>2. Round(page, from, i) = Positions(i, Len(page))
    BY <1>2 DEF Round
  <2>3. \A k \in i..Len(page) : page[k] = "text"
    BY <1>0, <1>1, <2>1
  <2>4. TextFrom(page, i) = i..Len(page)
    <3>1. \A k \in i..Len(page) : \A j \in i..k - 1 : page[j] = "text"
      BY <1>0, <2>3
    <3> QED BY <2>3, <3>1 DEF TextFrom
  <2> QED BY <1>0, <2>2, <2>4, PositionsLists
<1>3. CASE start <= Len(page)
  <2>1. end \in start..Len(page) /\ TextFrom(page, i) = (i..start - 1) \cup TextFrom(page, end + 1)
    BY <1>3, TextFromSplits
  <2>2. start \in i..Len(page)
    BY <1>0, <1>1, <1>3
  <2>3. page[start] # "<wide"
    <3>1. start \in DOMAIN page
      BY <1>0, <2>2
    <3> HIDE DEF start
    <3> QED BY <3>1 DEF WellFormed
  <2>4. ~(end > Len(page)) /\ ~(start > Len(page))
    BY <1>0, <1>3, <2>1, <2>2
  <2> DEFINE last == start - 1
             next == end + 1
  <2>5. Round(page, from, i) = Positions(i, last) \o from[next]
    BY <2>3, <2>4 DEF Round
  <2>6. /\ last \in Nat /\ i <= last + 1 /\ next \in i + 1..Len(page) + 1 /\ last < next
        /\ TextFrom(page, i) = (i..last) \cup TextFrom(page, next)
    BY <1>0, <2>1, <2>2
  <2> HIDE DEF last, next, start, end
  <2>7. /\ Positions(i, last) \in Seq(Nat) /\ Lists(Positions(i, last), i..last)
        /\ from[next] \in Seq(Nat) /\ Lists(from[next], TextFrom(page, next))
    BY <1>0, <2>6, PositionsLists
  <2>8. \A x \in i..last, y \in TextFrom(page, next) : x < y
    BY <1>0, <2>6 DEF TextFrom
  <2>9. /\ Positions(i, last) \o from[next] \in Seq(Nat)
        /\ Lists(Positions(i, last) \o from[next], (i..last) \cup TextFrom(page, next))
    BY <2>7, <2>8, ListsTogether
  <2> QED BY <2>5, <2>6, <2>9
<1> QED BY <1>0, <1>1, <1>2, <1>3

\* A function that satisfies the equation of the loop.
Loops(page, from) == from = [i \in 1..(Len(page) + 1) |-> Round(page, from, i)]

\* What it gives is the text.
LEMMA LoopLists ==
    ASSUME NEW page \in Seq(Tokens), WellFormed(page), NEW from, Loops(page, from)
    PROVE  \A i \in 1..Len(page) + 1 :
              from[i] \in Seq(Nat) /\ Lists(from[i], TextFrom(page, i))
<1> DEFINE Done == {i \in 1..Len(page) + 1 :
                      from[i] \in Seq(Nat) /\ Lists(from[i], TextFrom(page, i))}
<1>0. Len(page) \in Nat
  OBVIOUS
<1>1. ASSUME NEW i \in 1..Len(page) + 1, \A j \in i + 1..Len(page) + 1 : j \in Done PROVE i \in Done
  <2>1. from[i] = Round(page, from, i)
    BY DEF Loops
  <2> QED BY <1>1, <2>1, RoundLists
<1>2. 1..Len(page) + 1 \subseteq Done
  <2> HIDE DEF Done
  <2> QED BY <1>0, <1>1, Backwards
<1> QED BY <1>2

\* The text from each position on can be listed.
LEMMA TextHasList ==
    ASSUME NEW page \in Seq(Tokens), WellFormed(page)
    PROVE  \A i \in 1..Len(page) + 1 : \E s \in Seq(Nat) : Lists(s, TextFrom(page, i))
<1> DEFINE Done == {i \in 1..Len(page) + 1 : \E s \in Seq(Nat) : Lists(s, TextFrom(page, i))}
<1>0. Len(page) \in Nat
  OBVIOUS
<1>1. ASSUME NEW i \in 1..Len(page) + 1, \A j \in i + 1..Len(page) + 1 : j \in Done PROVE i \in Done
  <2>1. PICK f : f = [j \in 1..Len(page) + 1 |->
                        CHOOSE s \in Seq(Nat) : Lists(s, TextFrom(page, j))]
    OBVIOUS
  <2>2. \A j \in i + 1..Len(page) + 1 : f[j] \in Seq(Nat) /\ Lists(f[j], TextFrom(page, j))
    BY <1>0, <1>1, <2>1
  <2> QED BY <2>2, RoundLists
<1>2. 1..Len(page) + 1 \subseteq Done
  <2> HIDE DEF Done
  <2> QED BY <1>0, <1>1, Backwards
<1> QED BY <1>2

\* So the loop comes to an end: those lists satisfy its equation.
LEMMA LoopIs ==
    ASSUME NEW page \in Seq(Tokens), WellFormed(page)
    PROVE  \E from : Loops(page, from)
<1>1. PICK f : f = [i \in 1..Len(page) + 1 |->
                      CHOOSE s \in Seq(Nat) : Lists(s, TextFrom(page, i))]
  OBVIOUS
<1>2. \A i \in 1..Len(page) + 1 : f[i] \in Seq(Nat) /\ Lists(f[i], TextFrom(page, i))
  BY <1>1, TextHasList
<1>3. ASSUME NEW i \in 1..Len(page) + 1 PROVE f[i] = Round(page, f, i)
  <2>1. \A j \in i + 1..Len(page) + 1 : j \in 1..Len(page) + 1
    OBVIOUS
  <2>2. Round(page, f, i) \in Seq(Nat) /\ Lists(Round(page, f, i), TextFrom(page, i))
    BY <1>2, <2>1, RoundLists
  <2> QED BY <1>2, <2>2, ListIsUnique
<1>4. f = [i \in 1..Len(page) + 1 |-> Round(page, f, i)]
  <2>1. f = [i \in 1..Len(page) + 1 |-> f[i]]
    BY <1>1
  <2> QED BY <1>3, <2>1
<1> QED BY <1>4 DEF Loops

LEMMA SanitizeLists ==
    ASSUME NEW page \in Seq(Tokens), WellFormed(page)
    PROVE  Lists(Sanitize(page), TextFrom(page, 1))
<1>1. PICK f : f = CHOOSE from : Loops(page, from)
  OBVIOUS
<1>2. Sanitize(page) = f[1]
  BY <1>1 DEF Sanitize, Loops
<1>3. Loops(page, f)
  BY <1>1, LoopIs
<1>4. Lists(f[1], TextFrom(page, 1))
  <2>1. 1 \in 1..Len(page) + 1
    OBVIOUS
  <2> QED BY <1>3, <2>1, LoopLists
<1> QED BY <1>2, <1>4

\* All text outside scripts is found, and nothing but it if the loop knows all
\* scripts of the page.
LEMMA TextIs ==
    ASSUME NEW page \in Seq(Tokens), WellFormed(page)
    PROVE  /\ Readable(page) \subseteq TextFrom(page, 1)
           /\ PlainScripts(page) => TextFrom(page, 1) = Readable(page)
           /\ \A k \in TextFrom(page, 1) : page[k] = "text"
<1> DEFINE Open(T, k) == \E j \in 1..k - 1 :
              page[j] \in T /\ \A m \in j..k - 1 : page[m] # "</script>"
<1>1. DOMAIN page = 1..Len(page) /\ Len(page) \in Nat
  OBVIOUS
<1>2. TextFrom(page, 1) = {k \in 1..Len(page) : page[k] = "text" /\ ~Open({"<script>"}, k)}
  BY DEF TextFrom
<1>3. ASSUME NEW k \in 1..Len(page) PROVE InScript(page, k) <=> Open(Scripts, k)
  <2>1. \A j \in 1..k - 1 : \A m \in j..k - 1 : m \in DOMAIN page
    BY <1>1
  <2>2. \A j \in 1..k - 1 : \A m \in j..k - 1 : page[m] \in ScriptEnds <=> page[m] = "</script>"
    BY <2>1 DEF WellFormed, ScriptEnds
  <2> QED BY <2>2 DEF InScript
<1>4. Readable(page) = {k \in 1..Len(page) : page[k] = "text" /\ ~Open(Scripts, k)}
  BY <1>1, <1>3 DEF Readable
<1>5. ASSUME NEW k \in 1..Len(page), Open({"<script>"}, k) PROVE Open(Scripts, k)
  BY <1>5 DEF Scripts
<1>6. ASSUME PlainScripts(page), NEW k \in 1..Len(page), Open(Scripts, k) PROVE Open({"<script>"}, k)
  <2>1. \A j \in 1..k - 1 : j \in DOMAIN page
    BY <1>1
  <2>2. \A j \in 1..k - 1 : page[j] \in Scripts => page[j] \in {"<script>"}
    BY <1>6, <2>1 DEF PlainScripts, Scripts
  <2> QED BY <1>6, <2>2
<1> HIDE DEF Open
<1> QED BY <1>2, <1>4, <1>5, <1>6

\* Between two requests nothing is left of the text of the last one either.
TextInv ==
    /\ pc \in {"accept", "read", "resolve", "connect", "search"} => job.text = <<>>
    /\ TextIsClean

LEMMA StepText == ASSUME PeerInv, PageInv, TextInv, [Next]_vars PROVE TextInv'
<1>0. IsJob(job)
  BY DEF PeerInv
<1> USE DEF TextInv, TextIsClean
<1>a. ASSUME Refuse PROVE TextInv'
  BY <1>a, RefuseJob
<1>1. CASE Accept
  BY <1>1 DEF Accept, NoJob
<1>2. CASE Fails \/ Answer
  BY <1>2, NoJobIsJob DEF Fails, Answer, Close, NoJob
<1>3. CASE RefuseFree \/ RefuseFetch \/ RefuseSearch \/ RefuseResponse
  BY <1>3, <1>a DEF RefuseFree, RefuseFetch, RefuseSearch, RefuseResponse
<1>4. CASE Fetch
  <2>1. PICK url \in Urls : job' = [job EXCEPT !.url = url]
    BY <1>4 DEF Fetch
  <2>2. job'.text = job.text
    BY <1>0, <2>1 DEF IsJob
  <2> QED BY <1>4, <2>2 DEF Fetch
<1>5. CASE Resolve
  <2>1. CASE Refuse
    BY <2>1, <1>a
  <2>2. ASSUME NEW answer, NEW address, pc' = "connect",
               job' = [job EXCEPT !.answer = answer, !.address = address]
        PROVE  TextInv'
    <3>1. job'.text = job.text
      BY <1>0, <2>2 DEF IsJob
    <3> QED BY <1>5, <2>2, <3>1 DEF Resolve
  <2> QED BY <1>5, <2>1, <2>2 DEF Resolve
<1>6. CASE OpenConnection
  BY <1>6 DEF OpenConnection, Dial
<1>7. CASE Deliver
  <2>1. /\ pc' = "write" /\ sent' \in Pages /\ ~(Len(Body(sent')) > config.bytes)
        /\ job'.body = Body(sent') /\ job'.text = Sanitize(Body(sent'))
    BY <1>7 DEF Deliver, NoJob
  <2>2. PICK page \in Seq(Tokens) : job'.body = page /\ job'.text = Sanitize(page)
    BY <2>1, PagesAreSequences, ShortIsWhole DEF PageInv
  <2>3. WellFormed(page) => /\ Lists(job'.text, TextFrom(page, 1))
                            /\ Readable(page) \subseteq TextFrom(page, 1)
                            /\ PlainScripts(page) => TextFrom(page, 1) = Readable(page)
                            /\ \A k \in TextFrom(page, 1) : page[k] = "text"
    BY <2>2, SanitizeLists, TextIs
  <2>4. WellFormed(page) => /\ Range(job'.text) = TextFrom(page, 1)
                            /\ Lists(job'.text, Range(job'.text))
    BY <2>3 DEF Lists
  <2> QED BY <2>1, <2>2, <2>3, <2>4
<1>8. CASE Search
  BY <1>8 DEF Search
<1>9. CASE SearchEnds
  <2>1. CASE Refuse
    BY <2>1, <1>a
  <2>2. CASE job' = [job EXCEPT !.ok = TRUE] /\ pc' = "write"
    <3>1. job'.body = <<>> /\ job'.text = <<>>
      BY <1>0, <1>9, <2>2 DEF IsJob, SearchEnds, PageInv
    <3>2. Readable(<<>>) = {} /\ Range(<<>>) = {} /\ Lists(<<>>, Range(<<>>))
      BY DEF Lists, Readable, Range
    <3> QED BY <2>2, <3>1, <3>2
  <2>3. CASE UNCHANGED job /\ pc' = "dead"
    BY <2>3
  <2> QED BY <1>9, <2>1, <2>2, <2>3 DEF SearchEnds
<1>10. CASE Panic \/ UNCHANGED vars \/ \E c \in Calls : Connect(c)
  BY <1>10 DEF Panic, vars, Connect
<1> QED BY <1>1, <1>2, <1>3, <1>4, <1>5, <1>6, <1>7, <1>8, <1>9, <1>10 DEF Next, Serve

\* Of every page all of whose elements end, however long, no text outside
\* scripts is lost, what is returned is text, in its order and once, and if no
\* script has attributes it is exactly the text outside scripts.
THEOREM ResearchTextIsClean == Spec => []TextIsClean
<1>1. Init => TextInv
  BY DEF Init, NoJob, TextInv, TextIsClean
<1>2. Inv /\ TextInv /\ [Next]_vars => TextInv'
  BY StepText DEF Inv
<1>3. TextInv => TextIsClean
  BY DEF TextInv
<1> QED BY <1>1, <1>2, <1>3, InitInv, NextInv, PTL DEF Spec
=============================================================================
