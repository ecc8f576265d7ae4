----------------------------- MODULE ModelGateway -----------------------------
(***************************************************************************)
(* viper-model-gateway: one thread accepts connections and serves them one *)
(* after the other (serve, serve_stream, handle).  A streaming call starts *)
(* a background thread that reads the provider's HTTP body and sends what  *)
(* it parses over an mpsc channel (model_provider.rs); the server thread   *)
(* receives with the idle time-out and writes one StreamChunk frame per    *)
(* item.  The callers run send_request or send_streaming_request (ipc.rs). *)
(*                                                                         *)
(* A call is one connection.  The text of a delta is the number of its     *)
(* item, 0 the empty text.  What the provider sends, and when it is        *)
(* silent, is up to the environment, and so is a caller that stops reading *)
(* or goes away.  "openai" stands for openrouter too: one arm serves both. *)
(***************************************************************************)
EXTENDS Naturals, Sequences, FiniteSets, Functions

CONSTANTS
    Calls,      (* connections                                             *)
    None,       (* no connection                                           *)
    ConfigFiles, (* what an administrator writes: provider, its key (not   *)
                (* named, not set, set), https, [embed] and [stream]       *)
    Budget,     (* max_requests                                            *)
    MaxItems,   (* bound: items a provider sends within the stream cap     *)
    Buffer      (* frames the socket holds before a write blocks           *)

ASSUME GatewayAssumption ==
    /\ None \notin Calls
    /\ ConfigFiles \subseteq [provider : {"ollama", "openai", "anthropic"},
                              key : {"unnamed", "unset", "set"},
                              https : BOOLEAN, embed : BOOLEAN, stream : BOOLEAN]
    /\ Budget \in Nat \ {0} /\ MaxItems \in Nat /\ Buffer \in Nat \ {0}

VARIABLES
    config,     (* of the running gateway                                  *)
    remaining,  (* AtomicU32, counts down from max_requests                *)
    contacted,  (* history: calls for which the provider was contacted     *)
    backlog,    (* connections waiting to be accepted, oldest first        *)
    pc, job,    (* the server thread's place in the code, and its locals   *)
    reader,     (* call -> background thread: none, running, ended         *)
    made,       (* call -> items its thread got from the provider          *)
    chan,       (* call -> mpsc channel                                    *)
    caller,     (* call -> form and progress of the caller                 *)
    sock,       (* call -> frames written and not read yet                 *)
    closed,     (* connections the gateway has dropped                     *)
    got         (* call -> frames the caller has read                      *)

streamVars == <<reader, made, chan>>
peerVars == <<backlog, caller, got>>
vars == <<config, remaining, contacted, backlog, pc, job, reader, made, chan,
          caller, sock, closed, got>>

(* Complete requests: MODEL_GENERATE with params.stream and without, EMBED;  *)
(* one without a prompt or with a prompt that is empty or too long; one of   *)
(* another version or method, or no JSON.                                    *)
Forms == {"stream", "plain", "embed", "incomplete", "unsupported"}

Frame(seq, delta, done, error) ==
    [seq |-> seq, delta |-> delta, done |-> done, error |-> error, whole |-> TRUE]

\* The rest of a frame whose write failed half way: no JSON.
Torn == [Frame(0, 0, FALSE, FALSE) EXCEPT !.whole = FALSE]

Item(delta, done, failed) == [delta |-> delta, done |-> done, failed |-> failed]

NoJob == [call |-> None, seq |-> 0, ioFailed |-> FALSE, out |-> Torn]

\* Mutant of Loads: [embed] is accepted for every provider.
LoadsAnyEmbed(c) ==
    /\ c.provider # "ollama" => c.key # "unnamed" /\ c.https
    /\ c.key # "unset"

\* GatewayConfig::load and resolved_api_key: main ends unless both succeed.
Loads(c) ==
    /\ c.provider # "ollama" => c.key # "unnamed" /\ c.https
    /\ c.embed => c.provider # "anthropic"
    /\ c.key # "unset"

Init ==
    /\ config \in {c \in ConfigFiles : Loads(c)}
    /\ remaining = Budget /\ contacted = {} /\ backlog = <<>>
    /\ pc = "accept" /\ job = NoJob
    /\ reader = [c \in Calls |-> "none"]
    /\ made = [c \in Calls |-> 0]
    /\ chan = [c \in Calls |-> <<>>]
    /\ caller = [c \in Calls |-> [form |-> "plain", st |-> "idle", sent |-> FALSE]]
    /\ sock = [c \in Calls |-> <<>>]
    /\ closed = {}
    /\ got = [c \in Calls |-> <<>>]

form == caller[job.call].form
provider == config.provider
-----------------------------------------------------------------------------
(* The server thread                                                        *)

\* configure_server_stream, then serve.
Accept ==
    /\ pc = "accept" /\ backlog # <<>>
    /\ backlog' = Tail(backlog)
    /\ job' = [NoJob EXCEPT !.call = Head(backlog)]
    /\ pc' = "read"
    /\ UNCHANGED <<config, remaining, contacted, streamVars, caller, sock, closed, got>>

\* Mutants of Close: an error of one connection ends the accept loop; the
\* stream outlives serve.
CloseEndsGateway ==
    /\ closed' = closed \cup {job.call}
    /\ pc' = "stopped" /\ job' = NoJob

CloseLeaksStream == UNCHANGED closed /\ pc' = "accept" /\ job' = NoJob

\* serve returns, with or without an error, and the connection is dropped.
Close ==
    /\ closed' = closed \cup {job.call}
    /\ pc' = "accept" /\ job' = NoJob

\* No request line within SERVER_IO_TIMEOUT, or a caller that has gone.
ReadFails ==
    /\ pc = "read" /\ ~caller[job.call].sent
    /\ Close
    /\ UNCHANGED <<config, remaining, contacted, streamVars, peerVars, sock>>

\* The one frame (or Response) of a call that is refused: error, sequence 0.
Refuse ==
    /\ job' = [job EXCEPT !.out = Frame(0, 0, TRUE, TRUE)]
    /\ pc' = "write"
    /\ UNCHANGED <<config, contacted, streamVars, peerVars, sock, closed>>

HasRequest == pc = "read" /\ caller[job.call].sent

\* Version and method are checked before the budget.
RefuseFree ==
    /\ HasRequest /\ form = "unsupported"
    /\ Refuse
    /\ UNCHANGED remaining

\* ERR_REQUEST_LIMIT_EXCEEDED
RefuseExhausted ==
    /\ HasRequest /\ form # "unsupported" /\ remaining = 0
    /\ Refuse
    /\ UNCHANGED remaining

\* Mutant of Charge: a subtraction that saturates instead of failing.
ChargeSaturating == remaining' = IF remaining = 0 THEN 0 ELSE remaining - 1

\* fetch_update with checked_sub(1): one unit per call, whatever follows.
Charge == remaining > 0 /\ remaining' = remaining - 1

\* The section that the request needs is there, and so are its parameters.
Implemented ==
    /\ form # "incomplete"
    /\ form = "stream" => config.stream
    /\ form = "embed" => config.embed

\* ERR_NOT_IMPLEMENTED, ERR_INVALID_REQUEST, ERR_MODEL_PROMPT_INVALID: the
\* unit is spent all the same.
RefuseCharged ==
    /\ HasRequest /\ form # "unsupported" /\ ~Implemented /\ Charge
    /\ Refuse

\* The match on the provider expects the key of a keyed provider, and EMBED
\* has an unreachable!() in place of an arm for anthropic: both say that the
\* configuration was validated when it was loaded.
HasArm ==
    /\ provider # "ollama" => config.key = "set"
    /\ form = "embed" => provider # "anthropic"

\* generate_stream: the background thread is started, and the relay loop.
StartStream ==
    /\ HasRequest /\ form = "stream" /\ Implemented /\ Charge
    /\ IF HasArm
       THEN /\ contacted' = contacted \cup {job.call}
            /\ reader' = [reader EXCEPT ![job.call] = "running"]
            /\ pc' = "relay"
       ELSE pc' = "panicked" /\ UNCHANGED <<contacted, reader>>
    /\ UNCHANGED <<config, job, made, chan, peerVars, sock, closed>>

\* What the provider may answer a blocking call: the call fails, ends with an
\* HTTP error or with a body that is no JSON; or the body holds a text, whole
\* or marked as not finished, or nothing.
TextAnswers == {"failed", "whole", "unfinished", "empty"}

EmbedAnswers == {"failed", "whole", "empty"}

\* parse_*_response: Ollama's text may be empty but must be done, the other
\* two only ask for a text.
AcceptsText(answer) ==
    IF provider = "ollama" THEN answer \in {"whole", "empty"}
    ELSE answer \in {"whole", "unfinished"}

\* parse_*_embed_response: a vector that is not empty.
AcceptsEmbedding(answer) == answer = "whole"

\* The Response to a provider's answer.
Respond(accepted, answer) ==
    job' = [job EXCEPT !.out =
              Frame(0, IF accepted /\ answer # "empty" THEN 1 ELSE 0, TRUE, ~accepted)]

\* handle: the blocking provider call, bounded by timeout_seconds; whatever
\* comes of it there is one Response.
CallProvider ==
    /\ HasRequest /\ form \in {"plain", "embed"} /\ Implemented /\ Charge
    /\ IF HasArm
       THEN /\ contacted' = contacted \cup {job.call}
            /\ \/ form = "plain" /\ \E a \in TextAnswers : Respond(AcceptsText(a), a)
               \/ form = "embed" /\ \E a \in EmbedAnswers : Respond(AcceptsEmbedding(a), a)
            /\ pc' = "write"
       ELSE pc' = "panicked" /\ UNCHANGED <<contacted, job>>
    /\ UNCHANGED <<config, streamVars, peerVars, sock, closed>>
-----------------------------------------------------------------------------
(* The relay loop on the server thread                                      *)

\* The receiver is gone, and the items with it.
DropReceiver == chan' = [chan EXCEPT ![job.call] = <<>>]

\* Mutant of StreamFails: the final frame of a failed stream has no error.
StreamFailsQuietly ==
    /\ DropReceiver
    /\ IF job.ioFailed
       THEN Close
       ELSE /\ job' = [job EXCEPT !.out = Frame(job.seq, 0, TRUE, FALSE)]
            /\ pc' = "write" /\ UNCHANGED closed

\* The transport has failed: the final frame carries the error, unless an
\* earlier write failed (`io_result?`).
StreamFails ==
    /\ DropReceiver
    /\ IF job.ioFailed
       THEN Close
       ELSE /\ job' = [job EXCEPT !.out = Frame(job.seq, 0, TRUE, TRUE)]
            /\ pc' = "write" /\ UNCHANGED closed

\* Mutant of RelayDelta: the newest item first.
RelayDeltaNewest ==
    /\ pc = "relay" /\ chan[job.call] # <<>> /\ ~Head(chan[job.call]).failed
    /\ LET items == chan[job.call]
           item == items[Len(items)]
       IN /\ job' = [job EXCEPT !.out = Frame(job.seq, item.delta, item.done, FALSE),
                                !.seq = @ + 1]
          /\ chan' = [chan EXCEPT ![job.call] = SubSeq(items, 1, Len(items) - 1)]
    /\ pc' = "write"
    /\ UNCHANGED <<config, remaining, contacted, reader, made, peerVars, sock, closed>>

\* on_delta: the next sequence number, also when the write is going to fail.
RelayDelta ==
    /\ pc = "relay" /\ chan[job.call] # <<>> /\ ~Head(chan[job.call]).failed
    /\ LET item == Head(chan[job.call]) IN
       job' = [job EXCEPT !.out = Frame(job.seq, item.delta, item.done, FALSE),
                          !.seq = @ + 1]
    /\ chan' = [chan EXCEPT ![job.call] = Tail(@)]
    /\ pc' = "write"
    /\ UNCHANGED <<config, remaining, contacted, reader, made, peerVars, sock, closed>>

RelayError ==
    /\ pc = "relay" /\ chan[job.call] # <<>> /\ Head(chan[job.call]).failed
    /\ StreamFails
    /\ UNCHANGED <<config, remaining, contacted, reader, made, peerVars, sock>>

\* recv_timeout: nothing came within idle_timeout_seconds.  The background
\* thread is not joined.
RelayTimesOut ==
    /\ pc = "relay" /\ chan[job.call] = <<>> /\ reader[job.call] = "running"
    /\ StreamFails
    /\ UNCHANGED <<config, remaining, contacted, reader, made, peerVars, sock>>

\* After a write: a done frame ends the call, others go on, failed or not.
AfterWrite(ok) ==
    IF job.out.done
    THEN Close
    ELSE /\ pc' = "relay" /\ UNCHANGED closed
         /\ job' = [job EXCEPT !.ioFailed = @ \/ ~ok]

Here(c) == caller[c].st = "connected"

Write ==
    /\ pc = "write" /\ Here(job.call) /\ Len(sock[job.call]) < Buffer
    /\ sock' = [sock EXCEPT ![job.call] = Append(@, job.out)]
    /\ AfterWrite(TRUE)
    /\ UNCHANGED <<config, remaining, contacted, streamVars, peerVars>>

\* Mutant of WriteFails: writes without a time-out.
WriteFailsIfGone ==
    /\ pc = "write" /\ ~Here(job.call) /\ UNCHANGED sock
    /\ AfterWrite(FALSE)
    /\ UNCHANGED <<config, remaining, contacted, streamVars, peerVars>>

\* The caller has gone, or has not read for SERVER_IO_TIMEOUT.  A frame is
\* written in pieces: none of it has gone out, or a part of it, or all but
\* the newline, which a last frame does not need.
WriteFails ==
    /\ pc = "write"
    /\ \/ ~Here(job.call) /\ UNCHANGED sock
       \/ /\ Here(job.call) /\ Len(sock[job.call]) >= Buffer
          /\ \E rest \in {<<>>, <<Torn>>} \cup {s \in {<<job.out>>} : job.out.done} :
                sock' = [sock EXCEPT ![job.call] = @ \o rest]
    /\ AfterWrite(FALSE)
    /\ UNCHANGED <<config, remaining, contacted, streamVars, peerVars>>

Server ==
    \/ Accept \/ ReadFails \/ RefuseFree \/ RefuseExhausted \/ RefuseCharged
    \/ StartStream \/ CallProvider
    \/ RelayDelta \/ RelayError \/ RelayTimesOut \/ Write \/ WriteFails
-----------------------------------------------------------------------------
(* The background threads                                                   *)

\* The relay loop of this call still holds the receiver.
Receiving(c) == job.call = c /\ (pc = "relay" \/ (pc = "write" /\ ~job.out.done))

\* send fails when the receiver is gone, and the thread ends either way when
\* this was its last item.
Send(c, item, last) ==
    /\ chan' = [chan EXCEPT ![c] = IF Receiving(c) THEN Append(@, item) ELSE @]
    /\ reader' = [reader EXCEPT ![c] =
                    IF last \/ ~Receiving(c) THEN "ended" ELSE @]
    /\ UNCHANGED <<config, remaining, contacted, pc, job, peerVars, sock, closed>>

\* The next item, with text or without.
SendItem(c, text, last) ==
    /\ made[c] < MaxItems
    /\ made' = [made EXCEPT ![c] = @ + 1]
    /\ Send(c, Item(IF text THEN made[c] + 1 ELSE 0, last, FALSE), last)

\* Mutant of ReaderFails: the outcome of the thread is dropped.
ReaderFailsSilently(c) ==
    /\ reader[c] = "running"
    /\ reader' = [reader EXCEPT ![c] = "ended"]
    /\ UNCHANGED <<config, remaining, contacted, made, chan, pc, job, peerVars,
                   sock, closed>>

\* A line that cannot be parsed, a connection that fails or ends early, an
\* HTTP error, or the cap of max_stream_duration_seconds.
ReaderFails(c) ==
    /\ reader[c] = "running"
    /\ UNCHANGED made /\ Send(c, Item(0, FALSE, TRUE), TRUE)

\* One line of JSON, with or without text, the one with `done` as well.  An
\* error object parses as a line without text (every field has a default).
OllamaLine(c) ==
    /\ reader[c] = "running" /\ provider = "ollama"
    /\ \E text, last \in BOOLEAN : SendItem(c, text, last)

\* `data:` events, a delta or [DONE]; an error object fails the stream.
OpenAiLine(c) ==
    /\ reader[c] = "running" /\ provider = "openai"
    /\ SendItem(c, TRUE, FALSE) \/ SendItem(c, FALSE, FALSE) \/ SendItem(c, FALSE, TRUE)

\* content_block_delta, whose text may be empty or missing, message_stop; an
\* error event fails the stream, every other event is skipped.
AnthropicLine(c) ==
    /\ reader[c] = "running" /\ provider = "anthropic"
    /\ SendItem(c, TRUE, FALSE) \/ SendItem(c, FALSE, FALSE) \/ SendItem(c, FALSE, TRUE)

Reader(c) == OllamaLine(c) \/ OpenAiLine(c) \/ AnthropicLine(c) \/ ReaderFails(c)
-----------------------------------------------------------------------------
(* The callers                                                              *)

Connect(c) ==
    /\ caller[c].st = "idle"
    /\ \E f \in Forms :
          caller' = [caller EXCEPT ![c] = [form |-> f, st |-> "connected", sent |-> FALSE]]
    /\ backlog' = Append(backlog, c)
    /\ UNCHANGED <<config, remaining, contacted, pc, job, streamVars, sock, closed, got>>

SendLine(c) ==
    /\ Here(c) /\ ~caller[c].sent /\ c \notin closed
    /\ caller' = [caller EXCEPT ![c].sent = TRUE]
    /\ UNCHANGED <<config, remaining, contacted, backlog, pc, job, streamVars,
                   sock, closed, got>>

\* Leaving closes the socket; nothing more is read from it.
Leaves(c, outcome) ==
    /\ caller' = [caller EXCEPT ![c].st = outcome]
    /\ sock' = [sock EXCEPT ![c] = <<>>]

\* send_streaming_request hands every frame to on_chunk and returns Ok after
\* the first with `done`; send_request reads one line.
ReadFrame(c) ==
    /\ Here(c) /\ caller[c].sent /\ sock[c] # <<>>
    /\ LET frame == Head(sock[c]) IN
       IF ~frame.whole
       THEN Leaves(c, "failed") /\ UNCHANGED got
       ELSE /\ got' = [got EXCEPT ![c] = Append(@, frame)]
            /\ IF frame.done
               THEN Leaves(c, "ok")
               ELSE sock' = [sock EXCEPT ![c] = Tail(@)] /\ UNCHANGED caller
    /\ UNCHANGED <<config, remaining, contacted, backlog, pc, job, streamVars, closed>>

\* EOF, or a write to a closed connection.
SeeClosed(c) ==
    /\ Here(c) /\ c \in closed /\ sock[c] = <<>>
    /\ Leaves(c, "failed")
    /\ UNCHANGED <<config, remaining, contacted, backlog, pc, job, streamVars,
                   closed, got>>

\* The five-second time-out of send_request, or the end of the process.
GiveUp(c) ==
    /\ Here(c)
    /\ Leaves(c, "gone")
    /\ UNCHANGED <<config, remaining, contacted, backlog, pc, job, streamVars,
                   closed, got>>

Receives(c) == ReadFrame(c) \/ SeeClosed(c)

Caller(c) == Connect(c) \/ SendLine(c) \/ Receives(c) \/ GiveUp(c)

Next == Server \/ \E c \in Calls : Reader(c) \/ Caller(c)

Spec == Init /\ [][Next]_vars

\* The server thread is scheduled and its time-outs fire.  Nothing is assumed
\* of the providers and the callers.
FairSpec == Spec /\ WF_vars(Server)
-----------------------------------------------------------------------------
\* The text of a Response counts as 1, whatever MaxItems is.
Frames == [seq : 0..MaxItems, delta : 0..MaxItems \cup {1}, done : BOOLEAN,
           error : BOOLEAN, whole : BOOLEAN]

Items == [delta : 0..MaxItems, done : BOOLEAN, failed : BOOLEAN]

TypeOK ==
    /\ config \in ConfigFiles
    /\ remaining \in 0..Budget
    /\ contacted \subseteq Calls /\ closed \subseteq Calls
    /\ backlog \in Seq(Calls)
    /\ pc \in {"accept", "read", "relay", "write", "panicked"}
    /\ job \in [call : Calls \cup {None}, seq : 0..MaxItems, ioFailed : BOOLEAN,
               out : Frames]
    /\ reader \in [Calls -> {"none", "running", "ended"}]
    /\ made \in [Calls -> 0..MaxItems]
    /\ chan \in [Calls -> Seq(Items)]
    /\ caller \in [Calls -> [form : Forms, sent : BOOLEAN,
                            st : {"idle", "connected", "ok", "failed", "gone"}]]
    /\ sock \in [Calls -> Seq(Frames)]
    /\ got \in [Calls -> Seq(Frames)]

\* What load and resolved_api_key let pass suffices for every request: no
\* caller reaches an expect or an unreachable!() of the three matches on the
\* provider, which would end the gateway for everybody.
NeverPanics == pc # "panicked"

\* max_requests bounds how often the provider is contacted, whatever the
\* callers do: a unit is taken before the provider is, and none comes back.
\* MODEL_GENERATE, with and without a stream, and EMBED share the units.
BudgetBounds == Cardinality(contacted) <= Budget - remaining

\* The relay never finds the channel closed under it ("stream ended
\* unexpectedly"): a background thread that ends has sent a last item.
ReaderLeavesAnItem ==
    pc = "relay" /\ chan[job.call] = <<>> => reader[job.call] = "running"

\* What a caller has read, then what waits in its socket, torn frames too.
Wire(c) == got[c] \o sock[c]

\* Of two frames of a call, what holds of them if f is the earlier one.
Before(f, g) == f.whole /\ g.whole => f.seq < g.seq /\ ~f.done

\* Frames arrive in the provider's order, each with the number of its item,
\* at most one of them is final, and nothing follows the final one, however
\* many writes failed in between.
FramesInOrder == \A c \in Calls : \A i \in DOMAIN Wire(c) :
    /\ Wire(c)[i].whole => Wire(c)[i].delta \in {0, Wire(c)[i].seq + 1}
    /\ \A j \in DOMAIN Wire(c) : i < j => Before(Wire(c)[i], Wire(c)[j])

Accepted(c) ==
    caller[c].form = "stream" /\ caller[c].st = "ok" /\ ~got[c][Len(got[c])].error

\* Sequence numbers give every loss away: a caller that was told of no error
\* and saw no number missing has every item the provider sent.
GapsShow == \A c \in Calls : Accepted(c) =>
    \/ Len(got[c]) = made[c]
    \/ \E i \in DOMAIN got[c] : got[c][i].seq # i - 1

\* One stalled provider or peer does not stall the others: every connection
\* is served and closed.
EveryCallServed == \A c \in Calls : c \in Range(backlog) ~> c \in closed

\* send_streaming_request has no read time-out; the gateway's own time-outs
\* end every call of a caller that keeps reading.
CallerReturns == \A c \in Calls : WF_vars(Receives(c)) =>
    (Here(c) /\ caller[c].sent ~> ~Here(c))
-----------------------------------------------------------------------------
(* What the repository says of the gateway and the code does not keep.      *)

\* ipc.rs:84: "a mid-stream failure still ends with a `done: true` frame,
\* carrying `error`": a stream accepted without an error is complete.
AcceptedIsComplete == \A c \in Calls : Accepted(c) => Len(got[c]) = made[c]
=============================================================================
