---------------------------- MODULE ResearchGateway ----------------------------
(***************************************************************************)
(* viper-research-gateway: one thread that serves one connection after the *)
(* other.  FETCH and SEARCH share a request budget.  FETCH checks the URL, *)
(* looks the host up, keeps the first public address of the answer and     *)
(* connects to that address; redirects are not followed, and a response is *)
(* read up to one byte past the limit, so that a longer one is noticed.    *)
(* The name service may answer every look-up differently, the upstream may *)
(* send anything or nothing, and a caller may go away.                     *)
(***************************************************************************)
EXTENDS ResearchPolicy, FiniteSets, SequencesExt

CONSTANTS
    Calls,      (* connections                                             *)
    None,
    MaxBudget,  (* bound: the largest max_requests                         *)
    MaxBytes,   (* max_fetch_bytes, one token of a page counting one       *)
    Public, Private (* addresses                                           *)

ASSUME ResearchAssumption ==
    /\ None \notin Calls \cup Public \cup Private
    /\ MaxBudget \in Nat /\ MaxBytes \in Nat \ {0}
    /\ Public \cap Private = {}

VARIABLES
    config,    (* gateway configuration, fixed at start                    *)
    remaining, (* AtomicU32                                                *)
    outbound,  (* history: connections opened to the outside               *)
    sent,      (* history: the page the upstream sent, if it is accepted   *)
    waiting,   (* connections not accepted yet, oldest first               *)
    caller,    (* call -> idle, waiting, answered, dropped                 *)
    pc, job    (* the server thread's place in the code, and its locals    *)

vars == <<config, remaining, outbound, sent, waiting, caller, pc, job>>

\* GatewayConfig as parsed; whether a search table names a provider the
\* gateway knows and a variable that is set.
Configs == [requests : 0..MaxBudget, bytes : {0, MaxBytes}, redirects : {0, 1},
            search : {"absent", "usable", "unusable"}]

\* GatewayConfig::load and resolved_search_key: otherwise main fails.
Loads(c) == c.requests > 0 /\ c.bytes > 0 /\ c.redirects = 0 /\ c.search # "unusable"

NoJob == [call |-> None, url |-> None, answer |-> <<>>, address |-> None,
          peer |-> None, ok |-> FALSE, body |-> <<>>, text |-> <<>>]

Init ==
    /\ config \in {c \in Configs : Loads(c)}
    /\ remaining = config.requests /\ outbound = 0 /\ sent = <<>>
    /\ waiting = <<>> /\ caller = [c \in Calls |-> "idle"]
    /\ pc = "accept" /\ job = NoJob

\* The answers the name service gives: one address, or a private one first.
Answers == {<<>>} \cup {<<a>> : a \in Public \cup Private}
                  \cup {<<a, b>> : a \in Private, b \in Public}

\* What an upstream sends: every page up to the limit, and pages of text that
\* go one and two bytes past it.
Pages == SeqOf(Tokens, MaxBytes) \cup
         {[i \in 1..(MaxBytes + more) |-> "text"] : more \in {1, 2}}
-----------------------------------------------------------------------------
Connect(c) ==
    /\ caller[c] = "idle"
    /\ caller' = [caller EXCEPT ![c] = "waiting"]
    /\ waiting' = Append(waiting, c)
    /\ UNCHANGED <<config, remaining, outbound, sent, pc, job>>

Accept ==
    /\ pc = "accept" /\ waiting # <<>>
    /\ job' = [NoJob EXCEPT !.call = Head(waiting)]
    /\ waiting' = Tail(waiting) /\ pc' = "read"
    /\ UNCHANGED <<config, remaining, outbound, sent, caller>>

\* Mutant of Close: an error of one connection ends the accept loop.
CloseStops(how) ==
    /\ caller' = [caller EXCEPT ![job.call] = how]
    /\ job' = NoJob /\ sent' = <<>> /\ pc' = IF how = "dropped" THEN "stopped" ELSE "accept"

Close(how) ==
    /\ caller' = [caller EXCEPT ![job.call] = how]
    /\ job' = NoJob /\ sent' = <<>> /\ pc' = "accept"

\* No line within SERVER_IO_TIMEOUT, or a reply that cannot be written.
Fails ==
    /\ pc \in {"read", "write"} /\ Close("dropped")
    /\ UNCHANGED <<config, remaining, outbound, waiting>>

Answer ==
    /\ pc = "write" /\ Close("answered")
    /\ UNCHANGED <<config, remaining, outbound, waiting>>

Refuse == job' = [NoJob EXCEPT !.call = job.call] /\ pc' = "write"

\* A line that does not parse, an unknown version or method; and, the other
\* way round, a FETCH or SEARCH without budget.
RefuseFree ==
    /\ pc = "read" /\ Refuse
    /\ UNCHANGED <<config, remaining, outbound, sent, waiting, caller>>

\* Mutants of Charge: a subtraction that saturates, and one that wraps.
ChargeSaturating == remaining' = IF remaining = 0 THEN 0 ELSE remaining - 1
ChargeWrapping == remaining' = (remaining + 2^16 - 1) % 2^16

\* checked_sub(1), before the parameters are looked at.
Charge == remaining > 0 /\ remaining' = remaining - 1

\* FETCH without a URL, or with one the policy refuses.
RefuseFetch ==
    /\ pc = "read" /\ Charge
    /\ Refuse
    /\ UNCHANGED <<config, outbound, sent, waiting, caller>>

Fetch ==
    /\ pc = "read" /\ Charge
    /\ \E url \in Urls : ~Refused(url) /\ job' = [job EXCEPT !.url = url]
    /\ pc' = "resolve"
    /\ UNCHANGED <<config, outbound, sent, waiting, caller>>

\* resolve_public_address: the first address of the answer that is public.
Resolve ==
    /\ pc = "resolve"
    /\ \E answer \in Answers :
        LET public == {i \in DOMAIN answer : answer[i] \notin Private} IN
        IF public = {} THEN Refuse
        ELSE /\ job' = [job EXCEPT !.answer = answer, !.address = answer[Min(public)]]
             /\ pc' = "connect"
    /\ UNCHANGED <<config, remaining, outbound, sent, waiting, caller>>

\* Mutant of Dial: the client looks the host up again.
DialByName == \E answer \in Answers \ {<<>>} : job' = [job EXCEPT !.peer = Head(answer)]

\* Client::resolve pins the host to the checked address.
Dial == job' = [job EXCEPT !.peer = job.address]

OpenConnection ==
    /\ pc = "connect" /\ Dial
    /\ outbound' = outbound + 1 /\ pc' = "receive"
    /\ UNCHANGED <<config, remaining, sent, waiting, caller>>

\* ERR_FETCH_FAILED, ERR_FETCH_READ (also when timeout_seconds are over), and
\* validate_response: redirects, other statuses, content types, a body past
\* the limit.
RefuseResponse ==
    /\ pc = "receive" /\ Refuse
    /\ UNCHANGED <<config, remaining, outbound, sent, waiting, caller>>

\* Mutant of Body: one byte less.
BodyToLimit(page) == SubSeq(page, 1, Min({config.bytes, Len(page)}))

\* take(max_fetch_bytes + 1)
Body(page) == SubSeq(page, 1, Min({config.bytes + 1, Len(page)}))

\* A response of an accepted status and type and within the limit.
Deliver ==
    /\ pc = "receive" /\ pc' = "write"
    /\ sent' \in Pages
    /\ LET body == Body(sent')
           text == Sanitize(body)
       IN  /\ ~(Len(body) > config.bytes)
           /\ 0 \notin Range(text)
           /\ job' = [NoJob EXCEPT !.call = job.call, !.ok = TRUE, !.body = body, !.text = text]
    /\ UNCHANGED <<config, remaining, outbound, waiting, caller>>

\* The same, but a slice in sanitize_html ends inside a character: the panic
\* ends the only thread.
Panic ==
    /\ pc = "receive" /\ pc' = "dead"
    /\ \E page \in Pages : ~(Len(Body(page)) > config.bytes) /\ 0 \in Range(Sanitize(Body(page)))
    /\ UNCHANGED <<config, remaining, outbound, sent, waiting, caller, job>>

\* SEARCH that is not configured, or whose query is missing, empty or long.
RefuseSearch ==
    /\ pc = "read" /\ Charge /\ Refuse
    /\ UNCHANGED <<config, outbound, sent, waiting, caller>>

\* The provider's endpoint is fixed in the code.
Search ==
    /\ pc = "read" /\ config.search = "usable" /\ Charge
    /\ outbound' = outbound + 1 /\ pc' = "search"
    /\ UNCHANGED <<config, sent, waiting, caller, job>>

\* Any failure, or a list of results; their titles are sanitized as well.
SearchEnds ==
    /\ pc = "search"
    /\ \/ Refuse
       \/ job' = [job EXCEPT !.ok = TRUE] /\ pc' = "write"
       \/ UNCHANGED job /\ pc' = "dead"
    /\ UNCHANGED <<config, remaining, outbound, sent, waiting, caller>>

Serve ==
    \/ Accept \/ Fails \/ Answer \/ RefuseFree
    \/ RefuseFetch \/ Fetch \/ Resolve \/ OpenConnection \/ RefuseResponse \/ Deliver \/ Panic
    \/ RefuseSearch \/ Search \/ SearchEnds

Next == Serve \/ \E c \in Calls : Connect(c)

Spec == Init /\ [][Next]_vars
\* The thread runs, and every wait of it has a time-out.
FairSpec == Spec /\ WF_vars(Serve)
-----------------------------------------------------------------------------
TypeOK ==
    /\ config \in Configs /\ Loads(config)
    /\ remaining \in 0..config.requests /\ outbound \in 0..config.requests
    /\ sent \in Pages
    /\ waiting \in Seq(Calls) /\ IsInjective(waiting)
    /\ caller \in [Calls -> {"idle", "waiting", "answered", "dropped"}]
    /\ pc \in {"accept", "read", "resolve", "connect", "receive", "search", "write", "dead"}
    /\ job.call \in Calls \cup {None}

\* README.md:363: a connection of FETCH is opened for a URL within the policy
\* only, to a public address of the very answer that was checked.
PinnedToChecked == job.peer # None =>
    WithinPolicy(job.url) /\ job.peer \in Public \cap Range(job.answer)

\* FETCH and SEARCH together open no more connections than the budget spent.
BudgetBounds == outbound + remaining <= config.requests

\* A page that is returned was received whole: a response past the limit is
\* refused, never cut.
AcceptedIsWhole == pc = "write" /\ job.ok => job.body = sent

\* Of a page whose elements all end no text outside scripts is lost, the text
\* that is returned is in its order, each piece once and without markup; and it
\* is exactly the text outside scripts if all start tags of scripts are exactly
\* "<script>" (or "<style>").  With any other start tag the code of the script is
\* returned too, which RESEARCH_GATEWAY_PLAN.md:34 ("strip active HTML elements
\* before returning text") says it is not: README.md, section 5.
TextIsClean == LET page == job.body IN
    pc = "write" /\ job.ok /\ WellFormed(page) =>
        /\ Lists(job.text, Range(job.text))
        /\ \A i \in Range(job.text) : page[i] = "text"
        /\ Readable(page) \subseteq Range(job.text)
        /\ PlainScripts(page) => Range(job.text) = Readable(page)

\* One connection never keeps the others from being served, unless the thread
\* panics.
EveryCallServed == \A c \in Calls :
    caller[c] = "waiting" ~> caller[c] # "waiting" \/ pc = "dead"
=============================================================================
