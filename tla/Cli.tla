---------------------------------- MODULE Cli ----------------------------------
(***************************************************************************)
(* The command line (main.rs) and the mock servers it is tried out with    *)
(* (viper-helper-mock.rs, viper-gateway-mock.rs).  Every server process    *)
(* makes the socket its own with bind_unix_socket (ipc.rs), whatever was   *)
(* there; every command sends its requests one after the other with        *)
(* send_request, each over a connection of its own.                        *)
(*                                                                         *)
(* A server process runs once; starting it again is another member of      *)
(* Servers.  Servers and commands are started and killed at any time.      *)
(***************************************************************************)
EXTENDS PlanGate

CONSTANTS
    Servers,             (* server processes, numbered as they start: 1..n *)
    Programs,            (* server -> the programs it may be               *)
    Clients,             (* command processes                              *)
    Pids,                (* process ids the self-tests get: 1..n           *)
    MaxKills,            (* bound: servers that are killed                 *)
    None,                (* no process                                     *)
    Manifests, Profiles  (* files `plan` is given                          *)

ASSUME CliAssumption ==
    /\ None \notin Servers \cup Clients
    /\ \A s \in Servers : Programs[s] \subseteq {"helper", "gateway"}
    /\ \A m \in Manifests :
         {m.parses, m.valid} \subseteq BOOLEAN /\ {m.gateways, m.tools} \subseteq Texts
    /\ \A q \in Profiles : {q.gateways, q.tools} \subseteq Seq(Nat)

VARIABLES
    path,     (* the server whose socket the path names                    *)
    private,  (* servers whose socket has mode 0600                        *)
    server,   (* server -> which program it is and how far it is           *)
    boxes,    (* server -> the mock helper's map of boxes                  *)
    backlog,  (* server -> requests that wait to be accepted               *)
    cmd,      (* client -> the command and how far it is                   *)
    inbox     (* client -> the answer that has come                        *)

serverVars == <<path, private, server, boxes>>
vars == <<path, private, server, boxes, backlog, cmd, inbox>>

Kinds == {"helper", "gateway"}

Request(m, b) == [method |-> m, box |-> b]

\* `box` of a spawn that demands a capability which is not enforceable.
Unsupported == 0

(* The requests of each command; box ids contain the process id.            *)
BackendSelfTest(pid) ==
    <<Request("capabilities", 0), Request("spawn", Unsupported), Request("spawn", pid),
      Request("status", pid), Request("kill", pid), Request("cleanup", pid)>>

GatewaySelfTest ==
    <<Request("SEARCH", 0), Request("FETCH", 0), Request("MODEL_GENERATE", 0),
      Request("SHELL", 0)>>

(* "caller" stands for other users of the socket: it cleans up whatever box  *)
(* it likes.                                                                *)
Script(name, pid) ==
    CASE name = "backend-self-test" -> BackendSelfTest(pid)
      [] name = "gateway-self-test" -> GatewaySelfTest
      [] name = "caller" -> <<Request("cleanup", pid)>>
      [] name = "probe" -> <<Request("probe", 0)>>
      [] name = "plan" -> <<>>

Names == {"backend-self-test", "gateway-self-test", "probe", "caller", "plan"}

NoInput == [manifest |-> None, profile |-> None]
\* `by` is a history: the servers whose answers the command has read.
NotRun == [name |-> "plan", pid |-> 0, input |-> NoInput, st |-> "idle", step |-> 0,
           good |-> TRUE, conn |-> None, by |-> {}, exit |-> 0]

Init ==
    /\ path = None /\ private = {}
    /\ server = [s \in Servers |-> [kind |-> "helper", pc |-> "down"]]
    /\ boxes = [s \in Servers |-> [b \in {} |-> "RUNNING"]]
    /\ backlog = [s \in Servers |-> <<>>]
    /\ cmd = [p \in Clients |-> NotRun]
    /\ inbox = [p \in Clients |-> "none"]

At(s, pc) == server[s].pc = pc
GotoPc(s, pc) == server' = [server EXCEPT ![s].pc = pc]
-----------------------------------------------------------------------------
(* bind_unix_socket: remove whatever is there, bind, restrict the mode       *)

Remove(s, kind) ==
    /\ At(s, "down") /\ \A q \in Servers : q < s => ~At(q, "down")
    /\ path' = None
    /\ server' = [server EXCEPT ![s] = [kind |-> kind, pc |-> "removed"]]
    /\ UNCHANGED <<private, boxes, backlog, cmd, inbox>>

\* bind fails when another process has made the path in the meantime.
Bind(s) ==
    /\ At(s, "removed")
    /\ IF path = None
       THEN path' = s /\ GotoPc(s, "bound")
       ELSE GotoPc(s, "failed") /\ UNCHANGED path
    /\ UNCHANGED <<private, boxes, backlog, cmd, inbox>>

\* Mutant of SetMode: a failing start removes the socket it cannot restrict.
SetModeOrRemove(s) ==
    /\ At(s, "bound")
    /\ IF path = s
       THEN private' = private \cup {path} /\ GotoPc(s, "accept") /\ UNCHANGED path
       ELSE path' = None /\ GotoPc(s, "failed") /\ UNCHANGED private
    /\ UNCHANGED <<boxes, backlog, cmd, inbox>>

\* set_permissions goes by the path: it fails when there is nothing, and
\* restricts the socket of another when that has taken the path.
SetMode(s) ==
    /\ At(s, "bound")
    /\ IF path = None
       THEN GotoPc(s, "failed") /\ UNCHANGED private
       ELSE private' = private \cup {path} /\ GotoPc(s, "accept")
    /\ UNCHANGED <<path, boxes, backlog, cmd, inbox>>
-----------------------------------------------------------------------------
(* The accept loop                                                          *)

Has(s, b) == b \in DOMAIN boxes[s]

SetTo(s, b, status) ==
    boxes' = [boxes EXCEPT ![s] =
                [x \in {b} \cup DOMAIN boxes[s] |-> IF x = b THEN status ELSE boxes[s][x]]]

\* Mutant of SpawnBox: the map is not asked for the box.
SpawnBoxAgain(s, b, code) == code = "ok" /\ SetTo(s, b, "RUNNING")

\* spawn refuses the id of a box that it knows, also of one cleaned up.
SpawnBox(s, b, code) ==
    IF Has(s, b)
    THEN code = "ERR_DUPLICATE_BOX" /\ UNCHANGED boxes
    ELSE code = "ok" /\ SetTo(s, b, "RUNNING")

\* The mock helper: each disjunct is a branch of `handle` and its answer.
HandleHelper(s, r, code) ==
    \/ r.method = "capabilities" /\ code = "ok" /\ UNCHANGED boxes
    \/ /\ r.method = "spawn"
       /\ \/ r.box = Unsupported /\ code = "FAIL_CLOSED" /\ UNCHANGED boxes
          \/ r.box # Unsupported /\ SpawnBox(s, r.box, code)
    \/ /\ r.method \in {"status", "kill", "cleanup"} /\ ~Has(s, r.box)
       /\ code = "ERR_HANDLE_UNKNOWN" /\ UNCHANGED boxes
    \/ r.method = "status" /\ Has(s, r.box) /\ code = "ok" /\ UNCHANGED boxes
    \/ /\ r.method = "kill" /\ Has(s, r.box) /\ code = "ok"
       /\ SetTo(s, r.box, IF boxes[s][r.box] = "RUNNING" THEN "KILLED" ELSE boxes[s][r.box])
    \/ /\ r.method = "cleanup" /\ Has(s, r.box)
       /\ IF boxes[s][r.box] = "RUNNING"
          THEN code = "ERR_CLEANUP_FAILED" /\ UNCHANGED boxes
          ELSE code = "ok" /\ SetTo(s, r.box, "CLEANED")
    \/ /\ r.method \notin {"capabilities", "spawn", "status", "kill", "cleanup"}
       /\ code = "ERR_INVALID_REQUEST" /\ UNCHANGED boxes

Tools == {"SEARCH", "FETCH", "MODEL_GENERATE"}

\* The mock gateway: a table of answers.
HandleGateway(r, code) ==
    /\ code = IF r.method \in Tools THEN "ok" ELSE "ERR_TOOL_NOT_ALLOWED"
    /\ UNCHANGED boxes

Codes == {"ok", "FAIL_CLOSED", "ERR_DUPLICATE_BOX", "ERR_HANDLE_UNKNOWN",
          "ERR_CLEANUP_FAILED", "ERR_INVALID_REQUEST", "ERR_TOOL_NOT_ALLOWED"}

\* Mutant of Answer: answers go to the command, not to its connection.
AnswerCommand(s, p, code) == inbox' = [inbox EXCEPT ![p] = code]

\* The answer is lost when p no longer reads the connection to s.
Answer(s, p, code) ==
    inbox' = [inbox EXCEPT ![p] = IF cmd[p].conn = s THEN code ELSE @]

\* One connection, served even if its command has given up in the meantime.
\* An error of one connection does not end the loop.
Serve(s) ==
    /\ At(s, "accept") /\ backlog[s] # <<>>
    /\ LET r == Head(backlog[s]) IN \E code \in Codes :
       /\ IF server[s].kind = "helper"
          THEN HandleHelper(s, r.request, code)
          ELSE HandleGateway(r.request, code)
       /\ Answer(s, r.client, code)
    /\ backlog' = [backlog EXCEPT ![s] = Tail(@)]
    /\ UNCHANGED <<path, private, server, cmd>>

\* The process is killed.  Its socket stays where it is.
Killed(s) ==
    /\ server[s].pc \in {"removed", "bound", "accept"}
    /\ Cardinality({q \in Servers : server[q].pc \in {"killed", "aborted"}}) < MaxKills
    /\ GotoPc(s, IF At(s, "accept") THEN "killed" ELSE "aborted")
    /\ backlog' = [backlog EXCEPT ![s] = <<>>]
    /\ UNCHANGED <<path, private, boxes, cmd, inbox>>
-----------------------------------------------------------------------------
(* The commands                                                             *)

Running(p) == cmd[p].st \in {"send", "wait"}

\* Only backend-self-test uses its process id, and a caller that of another.
\* Ids are numbered in the order in which they are first used.
Launch(p, name) ==
    /\ cmd[p].st = "idle"
    /\ \E pid \in IF name \in {"backend-self-test", "caller"} THEN Pids ELSE {Unsupported} :
       /\ pid > 1 => \E q \in Clients : cmd[q].pid = pid - 1
       /\ \A q \in Clients : Running(q) /\ cmd[q].pid = pid => name # cmd[q].name \/ pid = Unsupported
       /\ cmd' = [cmd EXCEPT ![p] = [NotRun EXCEPT !.name = name, !.pid = pid,
                    !.st = "send", !.step = 1]]
    /\ UNCHANGED <<serverVars, backlog, inbox>>

\* `plan` shares nothing with other processes.  Bound: it is run alone.
LaunchPlan(p) ==
    /\ cmd = [q \in Clients |-> NotRun] /\ \A s \in Servers : At(s, "down")
    /\ \E manifest \in Manifests, profile \in Profiles :
       cmd' = [cmd EXCEPT ![p] = [NotRun EXCEPT !.st = "send",
                 !.input = [manifest |-> manifest, profile |-> profile]]]
    /\ UNCHANGED <<serverVars, backlog, inbox>>

Alone == \E p \in Clients : cmd[p].input # NoInput

\* The end of command p, whose answers came from the servers `by`.
Exit(p, code, by) ==
    cmd' = [cmd EXCEPT ![p] = [NotRun EXCEPT !.st = "ended", !.exit = code, !.by = by,
                 !.name = cmd[p].name, !.pid = cmd[p].pid, !.input = cmd[p].input]]

\* run_plan; 2 when a file or an argument is missing or cannot be read.
Plan(p) ==
    /\ cmd[p].st = "send" /\ cmd[p].name = "plan"
    /\ \E readable \in BOOLEAN : Exit(p,
          IF readable THEN PlanExit(cmd[p].input.manifest, cmd[p].input.profile) ELSE 2, {})
    /\ UNCHANGED <<serverVars, backlog, inbox>>

Listens == path # None /\ server[path].pc \in {"bound", "accept"}

\* connect and write: the kernel takes both before the server accepts.
Send(p) ==
    /\ cmd[p].st = "send" /\ cmd[p].name # "plan"
    /\ IF Listens
       THEN /\ backlog' = [backlog EXCEPT ![path] = Append(@,
                  [client |-> p, request |-> Script(cmd[p].name, cmd[p].pid)[cmd[p].step]])]
            /\ cmd' = [cmd EXCEPT ![p] = [@ EXCEPT !.st = "wait", !.conn = path]]
       ELSE Exit(p, 2, {}) /\ UNCHANGED backlog
    /\ UNCHANGED <<serverVars, inbox>>

\* Mutant of Expected: the command only waits for an answer.
ExpectedAny(name, step, code) == code # "none"

\* What backend-self-test expects of its step-th answer.  kill, cleanup and, of a
\* mock helper, status only have to be answered; of another backend status would
\* have to be TIMED_OUT.
BackendExpects(step, code) ==
    (step \in {1, 3} => code = "ok") /\ (step = 2 => code = "FAIL_CLOSED")

GatewayExpects(step, code) ==
    IF step = 4 THEN code = "ERR_TOOL_NOT_ALLOWED" ELSE code = "ok"

Expected(name, step, code) ==
    CASE name = "backend-self-test" -> BackendExpects(step, code)
      [] name = "gateway-self-test" -> GatewayExpects(step, code)
      [] name \in {"probe", "caller"} -> code = "ok"

\* backend-self-test ends at the first answer it does not expect; the other
\* two judge all of them at the end.
Receive(p) ==
    LET c == cmd[p]
        good == c.good /\ Expected(c.name, c.step, inbox[p])
        by == c.by \cup {c.conn}
    IN
    /\ c.st = "wait" /\ inbox[p] # "none"
    /\ inbox' = [inbox EXCEPT ![p] = "none"]
    /\ IF c.name = "backend-self-test" /\ ~good
       THEN Exit(p, 2, {})
       ELSE IF c.step = Len(Script(c.name, c.pid))
       THEN IF good THEN Exit(p, 0, by) ELSE Exit(p, 1, {})
       ELSE cmd' = [cmd EXCEPT ![p] = [c EXCEPT !.st = "send", !.step = @ + 1,
                                         !.good = good, !.conn = None, !.by = by]]
    /\ UNCHANGED <<serverVars, backlog>>

\* Mutant of NoAnswer: the connection is read without a time-out.
NoAnswerIfClosed(p) ==
    /\ cmd[p].st = "wait" /\ inbox[p] = "none"
    /\ server[cmd[p].conn].pc \in {"failed", "killed", "aborted"}
    /\ Exit(p, 2, {})
    /\ UNCHANGED <<serverVars, backlog, inbox>>

\* Five seconds have passed, or the server closed the connection: exit code 2,
\* whichever command it is.  An answer may come just too late.
NoAnswer(p) ==
    /\ cmd[p].st = "wait"
    /\ Exit(p, 2, {})
    /\ inbox' = [inbox EXCEPT ![p] = "none"]
    /\ UNCHANGED <<serverVars, backlog>>

Starts == \E s \in Servers : (\E k \in Programs[s] : Remove(s, k)) \/ Bind(s) \/ SetMode(s)

Command(p) == Plan(p) \/ Send(p) \/ Receive(p) \/ NoAnswer(p)

Next ==
    \/ ~Alone /\ (Starts \/ \E s \in Servers : Serve(s) \/ Killed(s))
    \/ \E p \in Clients :
         \/ Command(p) \/ LaunchPlan(p)
         \/ ~Alone /\ \E n \in Names \ {"plan"} : Launch(p, n)

Spec == Init /\ [][Next]_vars

\* Commands are scheduled and their time-outs fire; nothing is assumed of the
\* servers.
FairSpec == Spec /\ \A p \in Clients : WF_vars(Command(p))
-----------------------------------------------------------------------------
TypeOK ==
    /\ path \in Servers \cup {None} /\ private \subseteq Servers
    /\ server \in [Servers -> [kind : Kinds,
          pc : {"down", "removed", "bound", "accept", "failed", "killed", "aborted"}]]
    /\ \A s \in Servers : DOMAIN boxes[s] \subseteq Pids
    /\ inbox \in [Clients -> Codes \cup {"none"}]
    /\ \A p \in Clients :
         /\ cmd[p].exit \in 0..2 /\ cmd[p].name \in Names /\ cmd[p].by \subseteq Servers
         /\ cmd[p].st \in {"idle", "send", "wait", "ended"}
         /\ IF cmd[p].st = "wait" THEN cmd[p].conn \in Servers
            ELSE cmd[p].conn = None /\ inbox[p] = "none"

Settled == \A s \in Servers : ~At(s, "removed") /\ ~At(s, "bound")

\* However many servers start at the same time on the same path, one of them
\* ends up there, serving, and with a socket of mode 0600: a start that fails
\* fails only because another one has taken over.  A process killed half way
\* through its start may leave nothing behind.
PathIsServed ==
    /\ Settled /\ (\E s \in Servers : ~At(s, "down"))
    /\ \A s \in Servers : ~At(s, "aborted")
    => /\ path # None /\ path \in private
       /\ server[path].pc \in {"accept", "killed"}

Passed(p, name) == cmd[p].st = "ended" /\ cmd[p].name = name /\ cmd[p].exit = 0

\* What an exit code of 0 says.  A self-test that one server answered from
\* the first to the last request has left its box CLEANED there, although it
\* looks at none of the last three answers; and whatever answered a gateway
\* self-test was a gateway.
PassedIsGenuine == \A p \in Clients :
    /\ Passed(p, "backend-self-test") /\ Cardinality(cmd[p].by) = 1 =>
         \A s \in cmd[p].by : Has(s, cmd[p].pid) /\ boxes[s][cmd[p].pid] = "CLEANED"
    /\ Passed(p, "gateway-self-test") =>
         \A s \in cmd[p].by : server[s].kind = "gateway"

\* `plan` accepts exactly the manifests that agree with the profile.
PlanIsExact == \A p \in Clients :
    cmd[p].st = "ended" /\ cmd[p].name = "plan" /\ cmd[p].exit # 2 =>
        (cmd[p].exit = 0 <=> Agree(cmd[p].input.manifest, cmd[p].input.profile))

\* Each box of each server goes through the life cycle of the contract,
\* whichever commands, and whichever abandoned requests, the server handles.
Lifecycle == INSTANCE BoxLifecycle WITH
    BoxIds <- Servers \X Pids,
    status <- [x \in Servers \X Pids |->
                 IF Has(x[1], x[2]) THEN boxes[x[1]][x[2]] ELSE "ABSENT"]

ImplementsLifecycle == Lifecycle!Spec

\* Every command ends, whatever becomes of the servers.
CommandEnds == \A p \in Clients : cmd[p].st # "idle" ~> cmd[p].st = "ended"
=============================================================================
