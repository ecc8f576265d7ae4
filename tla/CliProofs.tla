------------------------------- MODULE CliProofs -------------------------------
(***************************************************************************)
(* The command line for every number of servers, commands and kills: one   *)
(* path always ends up served by a restricted socket, the boxes of the     *)
(* mock helper go through the life cycle of the contract, and an exit code *)
(* of 0 of a self-test is genuine although answers come late, to commands  *)
(* that have given up, or from a server that has taken over the path.      *)
(***************************************************************************)
EXTENDS Cli, FiniteSetTheorems, FunctionTheorems, SequenceTheorems, WellFoundedInduction,
        TLAPS

Statuses == {"RUNNING", "KILLED", "CLEANED"}

\* What the mock helper's map may be.
BoxMaps == UNION {[D -> Statuses] : D \in SUBSET Pids}

Methods == {"capabilities", "spawn", "status", "kill", "cleanup", "probe", "SHELL"} \cup Tools

Entries == [client : Clients,
            request : [method : Methods, box : Pids \cup {Unsupported}]]

CmdType == [name : Names, pid : Pids \cup {Unsupported},
            input : {NoInput} \cup [manifest : Manifests, profile : Profiles],
            st : {"idle", "send", "wait", "ended"}, step : Nat, good : BOOLEAN,
            conn : Servers \cup {None}, by : SUBSET Servers, exit : 0..2]

Types ==
    /\ path \in Servers \cup {None} /\ private \subseteq Servers
    /\ server \in [Servers -> [kind : Kinds,
          pc : {"down", "removed", "bound", "accept", "failed", "killed", "aborted"}]]
    /\ boxes \in [Servers -> BoxMaps]
    /\ backlog \in [Servers -> Seq(Entries)]
    /\ cmd \in [Clients -> CmdType]
    /\ inbox \in [Clients -> Codes \cup {"none"}]

Talking == {"backend-self-test", "gateway-self-test", "probe", "caller"}

\* How far a command may be.  Of its connection, only one that waits has one,
\* to a server that has been started, as have those it was answered by.
Place(p) ==
    /\ cmd[p].st = "wait" => cmd[p].conn \in Servers /\ cmd[p].name \in Talking
    /\ cmd[p].st # "wait" => cmd[p].conn = None /\ inbox[p] = "none"
    /\ Running(p) /\ cmd[p].name \in Talking =>
         cmd[p].step \in 1..Len(Script(cmd[p].name, cmd[p].pid))
    /\ cmd[p].name \in {"backend-self-test", "caller"} => cmd[p].pid \in Pids
    /\ IsFiniteSet(cmd[p].by)
    /\ \A s \in cmd[p].by \cup {cmd[p].conn} : s # None => ~At(s, "down")

Places == Types /\ \A p \in Clients : Place(p)

\* The requests of each command, and what its answers have to be.
LEMMA ScriptOf ==
    ASSUME NEW pid
    PROVE  /\ Script("backend-self-test", pid) =
                <<Request("capabilities", 0), Request("spawn", Unsupported),
                  Request("spawn", pid), Request("status", pid),
                  Request("kill", pid), Request("cleanup", pid)>>
           /\ Script("gateway-self-test", pid) =
                <<Request("SEARCH", 0), Request("FETCH", 0), Request("MODEL_GENERATE", 0),
                  Request("SHELL", 0)>>
           /\ Script("caller", pid) = <<Request("cleanup", pid)>>
           /\ Script("probe", pid) = <<Request("probe", 0)>>
BY DEF Script, BackendSelfTest, GatewaySelfTest

LEMMA ScriptTypes ==
    ASSUME NEW name \in Talking, NEW pid \in Pids \cup {Unsupported}
    PROVE  /\ Len(Script(name, pid)) \in 1..6
           /\ \A step \in 1..Len(Script(name, pid)) :
                Script(name, pid)[step] \in [method : Methods, box : Pids \cup {Unsupported}]
<1> DEFINE T == [method : Methods, box : Pids \cup {Unsupported}]
<1>1. \A m \in Methods, b \in Pids \cup {Unsupported} : Request(m, b) \in T
  BY DEF Request
<1>2. 0 \in Pids \cup {Unsupported}
  BY DEF Unsupported
<1>3. Script(name, pid) \in Seq(T) /\ Len(Script(name, pid)) \in 1..6
  <2> HIDE DEF T
  <2>0. /\ \A a \in T : <<a>> \in Seq(T) /\ Len(<<a>>) = 1
        /\ \A a, b, c, d \in T : <<a, b, c, d>> \in Seq(T) /\ Len(<<a, b, c, d>>) = 4
        /\ \A a, b, c, d, e, f \in T :
             <<a, b, c, d, e, f>> \in Seq(T) /\ Len(<<a, b, c, d, e, f>>) = 6
    OBVIOUS
  <2>1. CASE name = "backend-self-test"
    <3>1. \A m \in {"capabilities", "spawn", "status", "kill", "cleanup"} : m \in Methods
      BY DEF Methods
    <3>2. PICK a \in T, b \in T, c \in T, d \in T, e \in T, f \in T :
            Script(name, pid) = <<a, b, c, d, e, f>>
      <4>1. /\ Request("capabilities", 0) \in T /\ Request("spawn", Unsupported) \in T
            /\ Request("spawn", pid) \in T /\ Request("status", pid) \in T
            /\ Request("kill", pid) \in T /\ Request("cleanup", pid) \in T
        BY <1>1, <1>2, <3>1
      <4> QED BY <2>1, <4>1, ScriptOf
    <3> QED BY <2>0, <3>2
  <2>2. CASE name = "gateway-self-test"
    <3>1. \A m \in {"SEARCH", "FETCH", "MODEL_GENERATE", "SHELL"} : m \in Methods
      BY DEF Methods, Tools
    <3>2. PICK a \in T, b \in T, c \in T, d \in T : Script(name, pid) = <<a, b, c, d>>
      <4>1. /\ Request("SEARCH", 0) \in T /\ Request("FETCH", 0) \in T
            /\ Request("MODEL_GENERATE", 0) \in T /\ Request("SHELL", 0) \in T
        BY <1>1, <1>2, <3>1
      <4> QED BY <2>2, <4>1, ScriptOf
    <3> QED BY <2>0, <3>2
  <2>3. CASE name \in {"caller", "probe"}
    <3>1. "cleanup" \in Methods /\ "probe" \in Methods
      BY DEF Methods
    <3>2. PICK a \in T : Script(name, pid) = <<a>>
      <4>1. Request("cleanup", pid) \in T /\ Request("probe", 0) \in T
        BY <1>1, <1>2, <3>1
      <4> QED BY <2>3, <4>1, ScriptOf
    <3> QED BY <2>0, <3>2
  <2> QED BY <2>1, <2>2, <2>3 DEF Talking
<1> HIDE DEF T
<1>4. \A step \in 1..Len(Script(name, pid)) : Script(name, pid)[step] \in T
  BY <1>3, ElementOfSeq
<1> QED BY <1>3, <1>4 DEF T

LEMMA NotRunTyped ==
    /\ NotRun \in CmdType /\ NotRun.name = "plan" /\ NotRun.st = "idle" /\ NotRun.good
    /\ NotRun.conn = None /\ NotRun.by = {} /\ NotRun.exit = 0
BY DEF NotRun, CmdType, Names, Unsupported

LEMMA InitPlaces == Init => Places
<1> SUFFICES ASSUME Init PROVE Places
  OBVIOUS
<1>1. NotRun \in CmdType
  BY NotRunTyped
<1>2. [b \in {} |-> "RUNNING"] \in BoxMaps
  BY DEF BoxMaps, Statuses
<1>3. Types
  <2>1. <<>> \in Seq(Entries)
    BY EmptySeq
  <2> QED BY <1>1, <1>2, <2>1 DEF Init, Types, Kinds
<1>4. ASSUME NEW p \in Clients PROVE Place(p)
  BY FS_EmptySet DEF Init, Place, NotRun, Running, Talking
<1> QED BY <1>3, <1>4 DEF Places

\* What SetTo makes of the map of a server.
LEMMA SetToMap ==
    ASSUME boxes \in [Servers -> BoxMaps], NEW s \in Servers, NEW b, NEW st \in Statuses,
           SetTo(s, b, st), b \in Pids \/ Has(s, b)
    PROVE  /\ b \in Pids /\ boxes' \in [Servers -> BoxMaps]
           /\ DOMAIN boxes'[s] = DOMAIN boxes[s] \cup {b} /\ boxes'[s][b] = st
           /\ \A x \in DOMAIN boxes[s] : x # b => boxes'[s][x] = boxes[s][x]
           /\ \A q \in Servers \ {s} : boxes'[q] = boxes[q]
<1> DEFINE map == [x \in {b} \cup DOMAIN boxes[s] |-> IF x = b THEN st ELSE boxes[s][x]]
<1>1. PICK D \in SUBSET Pids : boxes[s] \in [D -> Statuses]
  BY DEF BoxMaps
<1>2. b \in Pids /\ D \cup {b} \in SUBSET Pids /\ DOMAIN boxes[s] = D
  BY <1>1 DEF Has
<1>3. map \in [D \cup {b} -> Statuses] /\ map[b] = st
      /\ \A x \in D : x # b => map[x] = boxes[s][x]
  BY <1>1, <1>2
<1>4. map \in BoxMaps
  BY <1>2, <1>3 DEF BoxMaps
<1>5. boxes' = [boxes EXCEPT ![s] = map]
  BY DEF SetTo
<1> HIDE DEF map
<1> QED BY <1>2, <1>3, <1>4, <1>5
-----------------------------------------------------------------------------
(* What the steps do.                                                       *)

\* What becomes of the boxes of a server.
BoxStep(s) == \E b \in Pids :
    \/ ~Has(s, b) /\ SetTo(s, b, "RUNNING")
    \/ Has(s, b) /\ boxes[s][b] = "RUNNING" /\ SetTo(s, b, "KILLED")
    \/ Has(s, b) /\ boxes[s][b] \in {"KILLED", "CLEANED"} /\ SetTo(s, b, "CLEANED")
    \/ Has(s, b) /\ boxes[s][b] \in Statuses /\ SetTo(s, b, boxes[s][b])

LEMMA BoxesTyped ==
    ASSUME Types, NEW s \in Servers
    PROVE  DOMAIN boxes[s] \subseteq Pids /\ \A b : Has(s, b) => boxes[s][b] \in Statuses
<1>1. PICK D \in SUBSET Pids : boxes[s] \in [D -> Statuses]
  BY DEF Types, BoxMaps
<1> QED BY <1>1 DEF Has

\* The request that is served.
LEMMA HeadTyped ==
    ASSUME Types, NEW s \in Servers, backlog[s] # <<>>
    PROVE  /\ Head(backlog[s]) \in Entries /\ Head(backlog[s]).client \in Clients
           /\ Head(backlog[s]).request.box \in Pids \cup {Unsupported}
           /\ Tail(backlog[s]) \in Seq(Entries)
<1>1. backlog[s] \in Seq(Entries)
  BY DEF Types
<1>2. Head(backlog[s]) \in Entries /\ Tail(backlog[s]) \in Seq(Entries)
  BY <1>1, EmptySeq, HeadTailProperties
<1> QED BY <1>2 DEF Entries

LEMMA ServeBoxes ==
    ASSUME Types, NEW s \in Servers, Serve(s)
    PROVE  UNCHANGED boxes \/ BoxStep(s)
<1> DEFINE r == Head(backlog[s]).request
<1>1. PICK code \in Codes : HandleHelper(s, r, code) \/ HandleGateway(r, code)
  BY DEF Serve
<1>2. r.box \in Pids \cup {Unsupported} /\ (Has(s, r.box) => r.box \in Pids)
  BY HeadTyped, BoxesTyped DEF Serve, Has
<1>3. Has(s, r.box) => boxes[s][r.box] \in Statuses
  BY BoxesTyped
<1> HIDE DEF r
<1>4. CASE HandleGateway(r, code)
  BY <1>4 DEF HandleGateway
<1>5. CASE HandleHelper(s, r, code)
  BY <1>2, <1>3, <1>5 DEF HandleHelper, SpawnBox, BoxStep, Statuses
<1> QED BY <1>1, <1>4, <1>5

LEMMA BoxStepTyped ==
    ASSUME Types, NEW s \in Servers, UNCHANGED boxes \/ BoxStep(s)
    PROVE  boxes' \in [Servers -> BoxMaps]
<1>1. CASE BoxStep(s)
  <2>1. PICK b \in Pids, st \in Statuses : SetTo(s, b, st)
    BY <1>1 DEF BoxStep, Statuses
  <2> QED BY <2>1, SetToMap DEF Types
<1> QED BY <1>1 DEF Types

\* The end of a command.
LEMMA ExitIs ==
    ASSUME Types, NEW p \in Clients, NEW code \in 0..2, NEW by \in SUBSET Servers, Exit(p, code, by)
    PROVE  /\ cmd' \in [Clients -> CmdType] /\ \A q \in Clients \ {p} : cmd'[q] = cmd[q]
           /\ cmd'[p].st = "ended" /\ cmd'[p].exit = code /\ cmd'[p].by = by
           /\ cmd'[p].conn = None /\ cmd'[p].good /\ cmd'[p].name = cmd[p].name
           /\ cmd'[p].pid = cmd[p].pid /\ cmd'[p].input = cmd[p].input
<1> DEFINE new == [NotRun EXCEPT !.st = "ended", !.exit = code, !.by = by,
                     !.name = cmd[p].name, !.pid = cmd[p].pid, !.input = cmd[p].input]
<1>1. cmd \in [Clients -> CmdType] /\ cmd[p] \in CmdType
  BY DEF Types
<1>2. /\ new \in CmdType /\ new.st = "ended" /\ new.exit = code /\ new.by = by /\ new.conn = None
      /\ new.good /\ new.name = cmd[p].name /\ new.pid = cmd[p].pid /\ new.input = cmd[p].input
  <2> DEFINE e1 == [NotRun EXCEPT !.st = "ended", !.exit = code, !.by = by]
             e2 == [e1 EXCEPT !.name = cmd[p].name, !.pid = cmd[p].pid]
  <2>1. e1 \in CmdType /\ e1.st = "ended" /\ e1.exit = code /\ e1.by = by /\ e1.conn = None /\ e1.good
    BY DEF NotRun, CmdType, Names, Unsupported
  <2> HIDE DEF e1
  <2>2. /\ e2 \in CmdType /\ e2.st = "ended" /\ e2.exit = code /\ e2.by = by /\ e2.conn = None
        /\ e2.good /\ e2.name = cmd[p].name /\ e2.pid = cmd[p].pid
    BY <1>1, <2>1 DEF CmdType
  <2>3. new = [e2 EXCEPT !.input = cmd[p].input]
    BY DEF e1
  <2> HIDE DEF e2
  <2> QED BY <1>1, <2>2, <2>3 DEF CmdType
<1>3. cmd' = [cmd EXCEPT ![p] = new]
  BY DEF Exit
<1> HIDE DEF new
<1> QED BY <1>1, <1>2, <1>3

\* The start of a command.
LEMMA LaunchIs ==
    ASSUME Types, NEW p \in Clients, NEW name \in Names, Launch(p, name)
    PROVE  /\ cmd[p].st = "idle" /\ cmd' \in [Clients -> CmdType]
           /\ \A q \in Clients \ {p} : cmd'[q] = cmd[q]
           /\ cmd'[p].st = "send" /\ cmd'[p].name = name /\ cmd'[p].step = 1
           /\ cmd'[p].conn = None /\ cmd'[p].by = {} /\ cmd'[p].good
           /\ name \in {"backend-self-test", "caller"} => cmd'[p].pid \in Pids
<1>1. PICK pid \in Pids \cup {Unsupported} :
         /\ name \in {"backend-self-test", "caller"} => pid \in Pids
         /\ cmd' = [cmd EXCEPT ![p] = [NotRun EXCEPT !.name = name, !.pid = pid,
                                         !.st = "send", !.step = 1]]
  BY DEF Launch
<1> DEFINE named == [NotRun EXCEPT !.name = name, !.pid = pid]
           new == [named EXCEPT !.st = "send", !.step = 1]
<1>2. /\ named \in CmdType /\ named.name = name /\ named.conn = None /\ named.by = {}
      /\ named.good /\ named.pid = pid
  BY NotRunTyped DEF CmdType
<1>3. cmd' = [cmd EXCEPT ![p] = new]
  BY <1>1
<1> HIDE DEF named
<1>4. /\ new \in CmdType /\ new.st = "send" /\ new.name = name /\ new.step = 1
      /\ new.conn = None /\ new.by = {} /\ new.good /\ new.pid = pid
  BY <1>2 DEF CmdType
<1> HIDE DEF new
<1>5. cmd[p].st = "idle" /\ cmd \in [Clients -> CmdType]
  BY DEF Launch, Types
<1> QED BY <1>1, <1>3, <1>4, <1>5

\* The request that is sent.
LEMMA SendIs ==
    ASSUME Places, NEW p \in Clients, Send(p), Listens
    PROVE  /\ path \in Servers /\ ~At(path, "down") /\ cmd[p].name \in Talking
           /\ cmd' \in [Clients -> CmdType] /\ \A q \in Clients \ {p} : cmd'[q] = cmd[q]
           /\ cmd'[p].st = "wait" /\ cmd'[p].conn = path /\ cmd'[p].name = cmd[p].name
           /\ cmd'[p].pid = cmd[p].pid /\ cmd'[p].by = cmd[p].by /\ cmd'[p].step = cmd[p].step
           /\ cmd'[p].good = cmd[p].good
           /\ \E e \in Entries :
                /\ e.client = p /\ e.request = Script(cmd[p].name, cmd[p].pid)[cmd[p].step]
                /\ backlog' = [backlog EXCEPT ![path] = Append(@, e)]
<1>1. cmd[p] \in CmdType /\ cmd[p].name \in Talking /\ cmd[p].st = "send"
  BY DEF Places, Types, CmdType, Names, Talking, Send
<1>2. Script(cmd[p].name, cmd[p].pid)[cmd[p].step] \in [method : Methods, box : Pids \cup {Unsupported}]
  <2>1. cmd[p].step \in 1..Len(Script(cmd[p].name, cmd[p].pid)) /\ cmd[p].pid \in Pids \cup {Unsupported}
    BY <1>1 DEF Places, Place, Running, CmdType
  <2> QED BY <1>1, <2>1, ScriptTypes
<1> DEFINE e == [client |-> p, request |-> Script(cmd[p].name, cmd[p].pid)[cmd[p].step]]
<1>3. e \in Entries /\ e.client = p /\ e.request = Script(cmd[p].name, cmd[p].pid)[cmd[p].step]
  BY <1>2 DEF Entries
<1>4. /\ backlog' = [backlog EXCEPT ![path] = Append(@, e)]
      /\ cmd' = [cmd EXCEPT ![p] = [cmd[p] EXCEPT !.st = "wait", !.conn = path]]
  BY DEF Send
<1>5. path \in Servers /\ ~At(path, "down")
  BY DEF Places, Types, Listens, At
<1> HIDE DEF e
<1> DEFINE new == [cmd[p] EXCEPT !.st = "wait", !.conn = path]
<1>6. /\ new \in CmdType /\ new.st = "wait" /\ new.conn = path /\ new.name = cmd[p].name
      /\ new.pid = cmd[p].pid /\ new.by = cmd[p].by /\ new.step = cmd[p].step /\ new.good = cmd[p].good
  BY <1>1, <1>5 DEF CmdType
<1>7. cmd' = [cmd EXCEPT ![p] = new] /\ cmd \in [Clients -> CmdType]
  BY <1>4 DEF Places, Types
<1> HIDE DEF new
<1> QED BY <1>1, <1>3, <1>4, <1>5, <1>6, <1>7

\* What a command makes of an answer: it ends, or goes on to the next request.
Judged(p) == cmd[p].good /\ Expected(cmd[p].name, cmd[p].step, inbox[p])

Heard(p) == cmd[p].by \cup {cmd[p].conn}

LEMMA ReceiveIs ==
    ASSUME Places, NEW p \in Clients, Receive(p)
    PROVE  /\ cmd[p].st = "wait" /\ inbox[p] # "none" /\ inbox' = [inbox EXCEPT ![p] = "none"]
           /\ UNCHANGED <<serverVars, backlog>> /\ cmd[p] \in CmdType /\ cmd[p].conn \in Servers
           /\ Heard(p) \in SUBSET Servers /\ IsFiniteSet(Heard(p))
           /\ \A s \in Heard(p) : ~At(s, "down")
           /\ Len(Script(cmd[p].name, cmd[p].pid)) \in 1..6
           /\ cmd[p].step \in 1..Len(Script(cmd[p].name, cmd[p].pid))
           /\ \/ Exit(p, 1, {}) \/ Exit(p, 2, {})
              \/ /\ Judged(p) /\ Exit(p, 0, Heard(p))
                 /\ cmd[p].step = Len(Script(cmd[p].name, cmd[p].pid))
              \/ /\ cmd[p].step < Len(Script(cmd[p].name, cmd[p].pid))
                 /\ cmd' \in [Clients -> CmdType] /\ \A q \in Clients \ {p} : cmd'[q] = cmd[q]
                 /\ cmd'[p].st = "send" /\ cmd'[p].conn = None /\ cmd'[p].name = cmd[p].name
                 /\ cmd'[p].pid = cmd[p].pid /\ cmd'[p].by = Heard(p)
                 /\ cmd'[p].step = cmd[p].step + 1 /\ (cmd'[p].good => Judged(p))
<1>1. /\ UNCHANGED <<serverVars, backlog>> /\ inbox' = [inbox EXCEPT ![p] = "none"]
      /\ cmd[p].st = "wait" /\ inbox[p] # "none"
  BY DEF Receive
<1>2. Place(p) /\ cmd \in [Clients -> CmdType] /\ cmd[p] \in CmdType /\ cmd[p].conn \in Servers
  BY <1>1 DEF Places, Types, Place
<1>3. Heard(p) \in SUBSET Servers /\ IsFiniteSet(Heard(p)) /\ \A s \in Heard(p) : ~At(s, "down")
  <2>1. cmd[p].by \in SUBSET Servers /\ IsFiniteSet(cmd[p].by)
    BY <1>2 DEF Place, CmdType
  <2>2. IsFiniteSet(Heard(p))
    BY <2>1, FS_AddElement DEF Heard
  <2>3. \A s \in Heard(p) : ~At(s, "down")
    BY <1>2, <2>1, CliAssumption DEF Heard, Place
  <2> QED BY <1>2, <2>1, <2>2, <2>3 DEF Heard
<1>4. /\ Len(Script(cmd[p].name, cmd[p].pid)) \in 1..6
      /\ cmd[p].step \in 1..Len(Script(cmd[p].name, cmd[p].pid))
  BY <1>1, <1>2, ScriptTypes DEF Place, Running, CmdType
<1> DEFINE good == cmd[p].good /\ Expected(cmd[p].name, cmd[p].step, inbox[p])
           by == cmd[p].by \cup {cmd[p].conn}
           moved == [cmd[p] EXCEPT !.st = "send", !.step = @ + 1]
           new == [moved EXCEPT !.good = good, !.conn = None, !.by = by]
<1>5. \/ Exit(p, 1, {}) \/ Exit(p, 2, {})
      \/ good /\ Exit(p, 0, by) /\ cmd[p].step = Len(Script(cmd[p].name, cmd[p].pid))
      \/ /\ cmd[p].step # Len(Script(cmd[p].name, cmd[p].pid))
         /\ cmd' = [cmd EXCEPT ![p] = new]
  BY DEF Receive
<1>6. (good <=> Judged(p)) /\ good \in BOOLEAN /\ by = Heard(p)
  BY DEF Judged, Heard
<1> HIDE DEF good, by
<1>7. moved \in CmdType /\ moved.st = "send" /\ moved.name = cmd[p].name
      /\ moved.pid = cmd[p].pid /\ moved.step = cmd[p].step + 1
  <2>1. PICK n \in Nat : n = cmd[p].step + 1
    BY <1>2 DEF CmdType
  <2>2. moved = [cmd[p] EXCEPT !.st = "send", !.step = n]
    BY <2>1
  <2> HIDE DEF moved
  <2> QED BY <1>2, <2>1, <2>2 DEF CmdType
<1> HIDE DEF moved
<1>8. new \in CmdType /\ new.st = "send" /\ new.name = cmd[p].name /\ new.pid = cmd[p].pid
      /\ new.step = cmd[p].step + 1 /\ new.conn = None /\ new.good = good /\ new.by = by
  BY <1>3, <1>6, <1>7 DEF CmdType
<1> HIDE DEF new
<1>9. CASE cmd' = [cmd EXCEPT ![p] = new]
           /\ cmd[p].step # Len(Script(cmd[p].name, cmd[p].pid))
  <2>1. cmd'[p] = new /\ cmd' \in [Clients -> CmdType] /\ \A q \in Clients \ {p} : cmd'[q] = cmd[q]
    BY <1>2, <1>8, <1>9
  <2>2. cmd[p].step < Len(Script(cmd[p].name, cmd[p].pid))
    BY <1>4, <1>9
  <2> QED BY <1>1, <1>2, <1>3, <1>4, <1>6, <1>8, <2>1, <2>2
<1> QED BY <1>1, <1>2, <1>3, <1>4, <1>5, <1>6, <1>9

LEMMA PlacesNext == ASSUME Places, [Next]_vars PROVE Places'
<1>0. /\ \A p \in Clients : Place(p) /\ cmd[p] \in CmdType
      /\ path \in Servers \cup {None} /\ private \subseteq Servers
      /\ server \in [Servers -> [kind : Kinds,
          pc : {"down", "removed", "bound", "accept", "failed", "killed", "aborted"}]]
      /\ boxes \in [Servers -> BoxMaps] /\ backlog \in [Servers -> Seq(Entries)]
      /\ cmd \in [Clients -> CmdType] /\ inbox \in [Clients -> Codes \cup {"none"}]
  BY DEF Places, Types
<1> USE <1>0
\* What a command was is still so.
<1>a. ASSUME NEW p \in Clients, cmd'[p] = cmd[p], (inbox'[p] = inbox[p]) \/ cmd[p].st = "wait",
             \A s \in Servers : ~At(s, "down") => ~At(s, "down")'
      PROVE  Place(p)'
  <2>1. Place(p) /\ cmd[p].by \cup {cmd[p].conn} \subseteq Servers \cup {None}
    BY DEF CmdType
  <2> QED BY <1>a, <2>1 DEF Place, Running
<1>1. ASSUME NEW s \in Servers, Bind(s) \/ SetMode(s) \/ Killed(s) \/ \E k \in Programs[s] : Remove(s, k)
      PROVE  Places'
  <2>1. UNCHANGED <<boxes, cmd, inbox>>
    BY <1>1 DEF Bind, SetMode, Killed, Remove
  <2>2. backlog' \in [Servers -> Seq(Entries)]
    <3>1. <<>> \in Seq(Entries)
      BY EmptySeq
    <3> QED BY <1>1, <3>1 DEF Bind, SetMode, Killed, Remove
  <2>3. PICK kind \in Kinds, pc \in {"removed", "bound", "accept", "failed", "killed", "aborted"} :
          \/ server' = [server EXCEPT ![s].pc = pc]
          \/ server' = [server EXCEPT ![s] = [kind |-> kind, pc |-> pc]]
    <3>1. CASE Bind(s)
      BY <3>1 DEF Bind, GotoPc, Kinds
    <3>2. CASE SetMode(s)
      BY <3>2 DEF SetMode, GotoPc, Kinds
    <3>3. CASE Killed(s)
      BY <3>3 DEF Killed, GotoPc, Kinds
    <3>4. CASE \E k \in Programs[s] : Remove(s, k)
      BY <3>4, CliAssumption DEF Remove, Kinds
    <3> QED BY <1>1, <3>1, <3>2, <3>3, <3>4
  <2>4. /\ server' \in [Servers -> [kind : Kinds,
             pc : {"down", "removed", "bound", "accept", "failed", "killed", "aborted"}]]
        /\ \A q \in Servers : ~At(q, "down") => ~At(q, "down")'
    <3> DEFINE T == [kind : Kinds, pc : {"down", "removed", "bound", "accept", "failed",
                                         "killed", "aborted"}]
    <3>1. PICK v \in T : v.pc # "down" /\ server' = [server EXCEPT ![s] = v]
      <4>1. server[s] \in T
        OBVIOUS
      <4>2. [server[s] EXCEPT !.pc = pc] \in T /\ [server[s] EXCEPT !.pc = pc].pc = pc
        BY <4>1
      <4>3. [kind |-> kind, pc |-> pc] \in T /\ [kind |-> kind, pc |-> pc].pc = pc
        OBVIOUS
      <4> QED BY <2>3, <4>2, <4>3
    <3>2. server \in [Servers -> T]
      OBVIOUS
    <3> HIDE DEF T
    <3>3. server' \in [Servers -> T] /\ \A q \in Servers : ~At(q, "down") => ~At(q, "down")'
      BY <3>1, <3>2 DEF At
    <3> QED BY <3>3 DEF T
  <2>5. path' \in Servers \cup {None} /\ private' \subseteq Servers
    <3>1. CASE Bind(s)
      BY <3>1 DEF Bind
    <3>2. CASE SetMode(s)
      BY <3>2 DEF SetMode
    <3>3. CASE Killed(s) \/ \E k \in Programs[s] : Remove(s, k)
      BY <3>3 DEF Killed, Remove
    <3> QED BY <1>1, <3>1, <3>2, <3>3
  <2> QED BY <1>a, <2>1, <2>2, <2>4, <2>5 DEF Places, Types
<1>2. ASSUME NEW s \in Servers, Serve(s) PROVE Places'
  <2>1. UNCHANGED <<path, private, server, cmd>>
    BY <1>2 DEF Serve
  <2>2. boxes' \in [Servers -> BoxMaps]
    BY <1>2, ServeBoxes, BoxStepTyped DEF Places
  <2>3. backlog' \in [Servers -> Seq(Entries)]
    <3>1. Tail(backlog[s]) \in Seq(Entries) /\ backlog' = [backlog EXCEPT ![s] = Tail(@)]
      BY <1>2, HeadTyped DEF Serve, Places
    <3> QED BY <3>1
  <2>4. PICK code \in Codes, p \in Clients : Answer(s, p, code)
    BY <1>2, HeadTyped DEF Serve, Places
  <2>5. /\ inbox' \in [Clients -> Codes \cup {"none"}]
        /\ \A q \in Clients : (inbox'[q] = inbox[q]) \/ cmd[q].st = "wait"
    <3>1. cmd[p].conn = s => cmd[p].st = "wait"
      BY CliAssumption DEF Place
    <3> QED BY <2>4, <3>1 DEF Answer
  <2> QED BY <1>a, <2>1, <2>2, <2>3, <2>5 DEF Places, Types, At
<1>e. {} \in SUBSET Servers /\ IsFiniteSet({}) /\ 0 \in 0..2 /\ 1 \in 0..2 /\ 2 \in 0..2
  BY FS_EmptySet
\* A command moves on.
<1>b. ASSUME NEW p \in Clients, UNCHANGED serverVars, backlog' \in [Servers -> Seq(Entries)],
             cmd' \in [Clients -> CmdType], \A q \in Clients \ {p} : cmd'[q] = cmd[q],
             inbox' \in {inbox, [inbox EXCEPT ![p] = "none"]}, Place(p)'
      PROVE  Places'
  <2>1. ASSUME NEW q \in Clients PROVE Place(q)'
    BY <1>a, <1>b, <2>1 DEF serverVars, At
  <2>2. inbox' \in [Clients -> Codes \cup {"none"}]
    BY <1>b
  <2> QED BY <1>b, <2>1, <2>2 DEF Places, Types, serverVars
\* A command ends.
<1>c. ASSUME NEW p \in Clients, NEW code \in 0..2, NEW by \in SUBSET Servers, Exit(p, code, by),
             UNCHANGED <<serverVars, backlog>>, inbox' \in {inbox, [inbox EXCEPT ![p] = "none"]},
             inbox'[p] = "none", IsFiniteSet(by), \A s \in by : ~At(s, "down")
      PROVE  Places'
  <2>1. /\ cmd' \in [Clients -> CmdType] /\ \A q \in Clients \ {p} : cmd'[q] = cmd[q]
        /\ cmd'[p].st = "ended" /\ cmd'[p].by = by /\ cmd'[p].conn = None
        /\ cmd'[p].name = cmd[p].name /\ cmd'[p].pid = cmd[p].pid
    BY <1>c, ExitIs DEF Places
  <2>2. Place(p)'
    BY <1>c, <2>1 DEF Place, Running, serverVars, At
  <2> QED BY <1>b, <1>c, <2>1, <2>2
<1>3. ASSUME NEW p \in Clients, NEW name \in Names \ {"plan"}, Launch(p, name) PROVE Places'
  <2>1. /\ cmd[p].st = "idle" /\ cmd' \in [Clients -> CmdType]
        /\ \A q \in Clients \ {p} : cmd'[q] = cmd[q]
        /\ cmd'[p].st = "send" /\ cmd'[p].name = name /\ cmd'[p].step = 1
        /\ cmd'[p].conn = None /\ cmd'[p].by = {}
        /\ name \in {"backend-self-test", "caller"} => cmd'[p].pid \in Pids
    BY <1>3, LaunchIs DEF Places
  <2>2. UNCHANGED <<serverVars, backlog, inbox>> /\ inbox[p] = "none"
    BY <1>3, <2>1 DEF Launch, Place
  <2>3. 1 \in 1..Len(Script(name, cmd'[p].pid))
    <3>1. Len(Script(name, cmd'[p].pid)) \in 1..6
      <4>1. cmd'[p] \in CmdType /\ name \in Talking
        BY <2>1 DEF Names, Talking
      <4> QED BY <4>1, ScriptTypes DEF CmdType
    <3>2. \A n \in 1..6 : 1 \in 1..n
      OBVIOUS
    <3> QED BY <3>1, <3>2
  <2>4. Place(p)'
    BY <2>1, <2>2, <2>3, FS_EmptySet DEF Place, Running
  <2> QED BY <1>b, <2>1, <2>2, <2>4
<1>4. ASSUME NEW p \in Clients, LaunchPlan(p) PROVE Places'
  <2>1. PICK input \in [manifest : Manifests, profile : Profiles] :
          cmd' = [cmd EXCEPT ![p] = [NotRun EXCEPT !.st = "send", !.input = input]]
    BY <1>4 DEF LaunchPlan
  <2>2. cmd[p] = NotRun /\ UNCHANGED <<serverVars, backlog, inbox>>
    BY <1>4 DEF LaunchPlan
  <2>3. /\ cmd' \in [Clients -> CmdType] /\ \A q \in Clients \ {p} : cmd'[q] = cmd[q]
        /\ cmd'[p].st = "send" /\ cmd'[p].name = "plan" /\ cmd'[p].conn = None /\ cmd'[p].by = {}
    <3> DEFINE new == [NotRun EXCEPT !.st = "send", !.input = input]
    <3>1. new \in CmdType /\ new.st = "send" /\ new.name = "plan" /\ new.conn = None /\ new.by = {}
      BY NotRunTyped DEF CmdType
    <3>2. cmd' = [cmd EXCEPT ![p] = new]
      BY <2>1
    <3> HIDE DEF new
    <3> QED BY <3>1, <3>2
  <2>4. inbox[p] = "none"
    BY <2>2 DEF Place, NotRun
  <2>5. Place(p)'
    BY <2>2, <2>3, <2>4, FS_EmptySet DEF Place, Running, Talking
  <2> QED BY <1>b, <2>2, <2>3, <2>5
<1>5. ASSUME NEW p \in Clients, Plan(p) PROVE Places'
  <2>1. PICK code \in 0..2 : Exit(p, code, {})
    BY <1>5 DEF Plan, PlanExit
  <2> QED BY <1>5, <1>c, <2>1, FS_EmptySet DEF Plan, Place
<1>6. ASSUME NEW p \in Clients, Send(p) PROVE Places'
  <2>1. CASE ~Listens
    BY <1>6, <1>c, <2>1, FS_EmptySet DEF Send, Place
  <2>2. CASE Listens
    <3>1. /\ path \in Servers /\ ~At(path, "down") /\ cmd[p].name \in Talking
          /\ backlog' \in [Servers -> Seq(Entries)]
      <4>1. PICK e \in Entries : backlog' = [backlog EXCEPT ![path] = Append(@, e)]
        BY <1>6, <2>2, SendIs
      <4>2. path \in Servers => Append(backlog[path], e) \in Seq(Entries)
        BY AppendProperties
      <4> QED BY <1>6, <2>2, <4>1, <4>2, SendIs
    <3>2. /\ cmd' \in [Clients -> CmdType] /\ \A q \in Clients \ {p} : cmd'[q] = cmd[q]
          /\ cmd'[p].st = "wait" /\ cmd'[p].conn = path /\ cmd'[p].name = cmd[p].name
          /\ cmd'[p].pid = cmd[p].pid /\ cmd'[p].by = cmd[p].by /\ cmd'[p].step = cmd[p].step
      BY <1>6, <2>2, SendIs
    <3>3. UNCHANGED <<serverVars, inbox>> /\ cmd[p].st = "send"
      BY <1>6 DEF Send
    <3>4. Place(p)'
      BY <3>1, <3>2, <3>3 DEF Place, Running, serverVars, At
    <3> QED BY <1>b, <3>1, <3>2, <3>3, <3>4
  <2> QED BY <2>1, <2>2
<1>7. ASSUME NEW p \in Clients, NoAnswer(p) PROVE Places'
  <2>1. /\ Exit(p, 2, {}) /\ UNCHANGED <<serverVars, backlog>> /\ inbox' = [inbox EXCEPT ![p] = "none"]
        /\ inbox'[p] = "none"
    BY <1>7 DEF NoAnswer
  <2> QED BY <1>c, <1>e, <2>1
<1>8. ASSUME NEW p \in Clients, Receive(p) PROVE Places'
  <2>1. inbox'[p] = "none"
    BY <1>8, ReceiveIs
  <2>2. CASE cmd'[p].st = "send"
    <3>1. Exit(p, 0, Heard(p)) \/ Exit(p, 1, {}) \/ Exit(p, 2, {}) => cmd'[p].st = "ended"
      BY <1>8, ReceiveIs, ExitIs DEF Places
    <3>2. Place(p)'
      BY <1>8, <2>1, <2>2, <3>1, ReceiveIs DEF Place, Running, serverVars, At
    <3> QED BY <1>8, <1>b, <2>2, <3>1, <3>2, ReceiveIs
  <2>3. CASE Exit(p, 0, Heard(p)) \/ Exit(p, 1, {}) \/ Exit(p, 2, {})
    <3>1. /\ Heard(p) \in SUBSET Servers /\ IsFiniteSet(Heard(p)) /\ \A s \in Heard(p) : ~At(s, "down")
          /\ UNCHANGED <<serverVars, backlog>> /\ inbox' = [inbox EXCEPT ![p] = "none"]
      BY <1>8, ReceiveIs
    <3>2. CASE Exit(p, 0, Heard(p))
      BY <1>c, <1>e, <2>1, <3>1, <3>2
    <3>3. CASE Exit(p, 1, {}) \/ Exit(p, 2, {})
      BY <1>c, <1>e, <2>1, <3>1, <3>3
    <3> QED BY <2>3, <3>2, <3>3
  <2> QED BY <1>8, <2>2, <2>3, ReceiveIs
<1>9. CASE UNCHANGED vars
  BY <1>9, <1>a DEF vars, Places, Types, At
<1> QED BY <1>1, <1>2, <1>3, <1>4, <1>5, <1>6, <1>7, <1>8, <1>9 DEF Next, Starts, Command

\* The variables keep their types however many servers are started and killed
\* and commands run: in particular an answer never reaches a command that no
\* longer reads the connection it comes from.
THEOREM CliTypeOK == Spec => []TypeOK
<1>1. Places => TypeOK
  <2> SUFFICES ASSUME Places PROVE TypeOK
    OBVIOUS
  <2>1. ASSUME NEW p \in Clients
        PROVE  /\ cmd[p].exit \in 0..2 /\ cmd[p].name \in Names /\ cmd[p].by \subseteq Servers
               /\ cmd[p].st \in {"idle", "send", "wait", "ended"}
               /\ IF cmd[p].st = "wait" THEN cmd[p].conn \in Servers
                  ELSE cmd[p].conn = None /\ inbox[p] = "none"
    <3>1. cmd[p] \in CmdType
      BY DEF Places, Types
    <3> QED BY <3>1 DEF Places, Place, CmdType
  <2>2. \A s \in Servers : DOMAIN boxes[s] \subseteq Pids
    BY BoxesTyped DEF Places
  <2> QED BY <2>1, <2>2 DEF TypeOK, Places, Types
<1> QED BY <1>1, InitPlaces, PlacesNext, PTL DEF Spec
-----------------------------------------------------------------------------
(* The path.                                                                *)

\* While the path is free, a server is about to take it; and a server that
\* has the path has restricted its socket before it serves.
Taken ==
    /\ path # None => server[path].pc \in {"bound", "accept", "killed", "aborted"}
    /\ path # None /\ server[path].pc \in {"accept", "killed"} => path \in private
    /\ path = None => (\A s \in Servers : At(s, "down"))
                      \/ \E s \in Servers : At(s, "removed") \/ At(s, "aborted")

LEMMA TakenNext == ASSUME Places, Taken, [Next]_vars PROVE Taken'
<1>0. /\ path \in Servers \cup {None} /\ None \notin Servers
      /\ server \in [Servers -> [kind : Kinds,
          pc : {"down", "removed", "bound", "accept", "failed", "killed", "aborted"}]]
  BY CliAssumption DEF Places, Types
\* Where a server goes, the others stay.
<1>a. ASSUME NEW s \in Servers, NEW pc, GotoPc(s, pc)
      PROVE  server'[s].pc = pc /\ \A q \in Servers \ {s} : server'[q] = server[q]
  BY <1>0, <1>a DEF GotoPc
<1>1. ASSUME NEW s \in Servers, NEW k, Remove(s, k) PROVE Taken'
  <2>1. path' = None /\ server'[s].pc = "removed"
    BY <1>0, <1>1 DEF Remove
  <2> QED BY <2>1 DEF Taken, At
<1>2. ASSUME NEW s \in Servers, Bind(s) PROVE Taken'
  <2>1. CASE path = None
    <3>1. path' = s /\ server'[s].pc = "bound"
      BY <1>2, <1>a, <2>1 DEF Bind
    <3> QED BY <1>0, <3>1 DEF Taken, At
  <2>2. CASE path # None
    <3>1. path' = path /\ private' = private /\ path # s /\ server'[path] = server[path]
      BY <1>0, <1>2, <1>a, <2>2 DEF Bind, Taken, At
    <3> QED BY <2>2, <3>1 DEF Taken, At
  <2> QED BY <2>1, <2>2
<1>3. ASSUME NEW s \in Servers, SetMode(s) PROVE Taken'
  <2>1. CASE path = None
    <3>1. path' = path /\ \A q \in Servers \ {s} : server'[q] = server[q]
      BY <1>3, <1>a, <2>1 DEF SetMode
    <3>2. \E q \in Servers \ {s} : At(q, "removed") \/ At(q, "aborted")
      BY <1>3, <2>1 DEF Taken, SetMode, At
    <3> QED BY <2>1, <3>1, <3>2 DEF Taken, At
  <2>2. CASE path # None
    <3>1. path' = path /\ path \in private' /\ server'[s].pc = "accept"
          /\ \A q \in Servers \ {s} : server'[q] = server[q]
      BY <1>3, <1>a, <2>2 DEF SetMode
    <3> QED BY <1>0, <2>2, <3>1 DEF Taken, At
  <2> QED BY <2>1, <2>2
<1>4. ASSUME NEW s \in Servers, Killed(s) PROVE Taken'
  <2>1. /\ UNCHANGED <<path, private>> /\ \A q \in Servers \ {s} : server'[q] = server[q]
        /\ (server'[s].pc = "killed" /\ At(s, "accept")) \/ server'[s].pc = "aborted"
    BY <1>4, <1>a DEF Killed
  <2>2. ~At(s, "down")
    BY <1>4 DEF Killed, At
  <2>3. CASE path = None
    <3>1. PICK q \in Servers : At(q, "removed") \/ At(q, "aborted")
      BY <2>2, <2>3 DEF Taken
    <3>2. At(q, "removed")' \/ At(q, "aborted")'
      BY <2>1, <3>1 DEF At
    <3> QED BY <2>1, <2>3, <3>2 DEF Taken
  <2>4. CASE path # None
    <3>1. path \in Servers
      BY <1>0, <2>4
    <3> QED BY <2>1, <2>4, <3>1 DEF Taken, At
  <2> QED BY <2>3, <2>4
<1>5. CASE UNCHANGED <<path, private, server>>
  BY <1>5 DEF Taken, At
<1>6. CASE UNCHANGED serverVars
  BY <1>5, <1>6 DEF serverVars
<1>7. ASSUME NEW s \in Servers, Serve(s) PROVE Taken'
  BY <1>5, <1>7 DEF Serve
<1>8. ASSUME NEW p \in Clients, Command(p) \/ LaunchPlan(p) \/ \E n \in Names : Launch(p, n)
      PROVE  UNCHANGED serverVars
  BY <1>8 DEF Command, Plan, Send, Receive, NoAnswer, LaunchPlan, Launch
<1>9. CASE UNCHANGED vars
  BY <1>5, <1>9 DEF vars
<1> QED BY <1>1, <1>2, <1>3, <1>4, <1>6, <1>7, <1>8, <1>9 DEF Next, Starts

\* However many servers make the path their own at the same time, one of them
\* has it in the end, serving over a socket of mode 0600.
THEOREM CliPathIsServed == Spec => []PathIsServed
<1>1. Init => Taken
  BY DEF Init, Taken, At
<1>2. Places /\ Taken => PathIsServed
  <2> SUFFICES ASSUME Places, Taken, Settled, \E s \in Servers : ~At(s, "down"),
                      \A s \in Servers : ~At(s, "aborted")
               PROVE  path # None /\ path \in private /\ server[path].pc \in {"accept", "killed"}
    BY DEF PathIsServed
  <2>1. path # None
    BY DEF Taken, Settled
  <2>2. path \in Servers
    BY <2>1 DEF Places, Types
  <2> QED BY <2>1, <2>2 DEF Taken, Settled, At
<1> QED BY <1>1, <1>2, InitPlaces, PlacesNext, TakenNext, PTL DEF Spec
-----------------------------------------------------------------------------
(* The life cycle of the boxes.                                             *)

lifecycle == [x \in Servers \X Pids |-> IF Has(x[1], x[2]) THEN boxes[x[1]][x[2]] ELSE "ABSENT"]

\* What SetTo does to the abstract status.
LEMMA SetToMoves ==
    ASSUME Types, NEW s \in Servers, NEW b \in Pids, NEW st \in Statuses, SetTo(s, b, st)
    PROVE  lifecycle' = [lifecycle EXCEPT ![<<s, b>>] = st]
<1>1. /\ DOMAIN boxes'[s] = DOMAIN boxes[s] \cup {b} /\ boxes'[s][b] = st
      /\ \A x \in DOMAIN boxes[s] : x # b => boxes'[s][x] = boxes[s][x]
      /\ \A q \in Servers \ {s} : boxes'[q] = boxes[q]
  BY SetToMap DEF Types
<1>2. ASSUME NEW q \in Servers, NEW c \in Pids
      PROVE  lifecycle'[<<q, c>>] = [lifecycle EXCEPT ![<<s, b>>] = st][<<q, c>>]
  <2>1. CASE q = s /\ c = b
    BY <1>1, <2>1 DEF lifecycle, Has
  <2>2. CASE ~(q = s /\ c = b)
    <3>1. /\ <<q, c>> # <<s, b>> /\ (Has(q, c)' <=> Has(q, c))
          /\ Has(q, c) => boxes'[q][c] = boxes[q][c]
      BY <1>1, <2>2 DEF Has
    <3> QED BY <3>1 DEF lifecycle
  <2> QED BY <2>1, <2>2
<1>3. \A x \in Servers \X Pids : \E q \in Servers, c \in Pids : x = <<q, c>>
  OBVIOUS
<1>4. /\ DOMAIN lifecycle' = Servers \X Pids /\ lifecycle' = [x \in Servers \X Pids |-> lifecycle'[x]]
      /\ [lifecycle EXCEPT ![<<s, b>>] = st] =
            [x \in Servers \X Pids |-> [lifecycle EXCEPT ![<<s, b>>] = st][x]]
  BY DEF lifecycle
<1> QED BY <1>2, <1>3, <1>4

\* A step is one of the life cycle of one box, or leaves every box alone.
LEMMA LifecycleStep == ASSUME Types, [Next]_vars PROVE [Lifecycle!Next]_lifecycle
<1>1. CASE UNCHANGED boxes
  BY <1>1 DEF lifecycle, Has
<1>2. ASSUME NEW s \in Servers, BoxStep(s) PROVE [Lifecycle!Next]_lifecycle
  <2>1. PICK b \in Pids :
          \/ ~Has(s, b) /\ SetTo(s, b, "RUNNING")
          \/ Has(s, b) /\ boxes[s][b] = "RUNNING" /\ SetTo(s, b, "KILLED")
          \/ Has(s, b) /\ boxes[s][b] \in {"KILLED", "CLEANED"} /\ SetTo(s, b, "CLEANED")
          \/ Has(s, b) /\ boxes[s][b] \in Statuses /\ SetTo(s, b, boxes[s][b])
    BY <1>2 DEF BoxStep
  <2> DEFINE x == <<s, b>>
  <2>2. /\ x \in Servers \X Pids /\ (~Has(s, b) => lifecycle[x] = "ABSENT")
        /\ Has(s, b) => lifecycle[x] = boxes[s][b]
    BY DEF lifecycle
  <2>3. \A st \in Statuses : SetTo(s, b, st) => lifecycle' = [lifecycle EXCEPT ![x] = st]
    BY SetToMoves
  <2>4. lifecycle = [lifecycle EXCEPT ![x] = lifecycle[x]]
    BY <2>2 DEF lifecycle
  <2> HIDE DEF x
  <2>5. CASE ~Has(s, b) /\ SetTo(s, b, "RUNNING")
    BY <2>2, <2>3, <2>5 DEF Statuses, Lifecycle!Next, Lifecycle!Spawn, Lifecycle!Move, lifecycle
  <2>6. CASE Has(s, b) /\ boxes[s][b] = "RUNNING" /\ SetTo(s, b, "KILLED")
    BY <2>2, <2>3, <2>6 DEF Statuses, Lifecycle!Next, Lifecycle!Kill, Lifecycle!Move, lifecycle
  <2>7. CASE Has(s, b) /\ boxes[s][b] = "KILLED" /\ SetTo(s, b, "CLEANED")
    BY <2>2, <2>3, <2>7 DEF Statuses, Lifecycle!Next, Lifecycle!Cleanup, Lifecycle!Move, lifecycle
  <2>8. CASE Has(s, b) /\ boxes[s][b] \in Statuses /\ SetTo(s, b, boxes[s][b])
    BY <2>2, <2>3, <2>4, <2>8
  <2>9. CASE Has(s, b) /\ boxes[s][b] = "CLEANED" /\ SetTo(s, b, "CLEANED")
    BY <2>8, <2>9 DEF Statuses
  <2> QED BY <2>1, <2>5, <2>6, <2>7, <2>8, <2>9
<1>3. ASSUME NEW s \in Servers, Serve(s) PROVE [Lifecycle!Next]_lifecycle
  BY <1>1, <1>2, <1>3, ServeBoxes
<1>4. ASSUME NEW s \in Servers, Bind(s) \/ SetMode(s) \/ Killed(s) \/ \E k : Remove(s, k)
      PROVE  UNCHANGED boxes
  BY <1>4 DEF Bind, SetMode, Killed, Remove
<1>5. ASSUME NEW p \in Clients, Command(p) \/ LaunchPlan(p) \/ \E n \in Names : Launch(p, n)
      PROVE  UNCHANGED boxes
  BY <1>5 DEF Command, Plan, Send, Receive, NoAnswer, LaunchPlan, Launch, serverVars
<1> QED BY <1>1, <1>3, <1>4, <1>5 DEF Next, Starts, vars

\* Every behaviour of the command line and its servers is, for each box of
\* each server, one of the life cycle of the contract: also when a request is
\* served long after its command has given up.
THEOREM CliImplementsLifecycle == Spec => ImplementsLifecycle
<1>1. Init => Lifecycle!Init
  BY DEF Init, Lifecycle!Init, Has
<1>2. Places /\ [Next]_vars => [Lifecycle!Next]_lifecycle
  BY LifecycleStep DEF Places
<1> QED BY <1>1, <1>2, InitPlaces, PlacesNext, PTL DEF Spec, ImplementsLifecycle, Lifecycle!Spec, lifecycle
-----------------------------------------------------------------------------
(* Requests that wait.                                                      *)

Asked(p) == Script(cmd[p].name, cmd[p].pid)[cmd[p].step]

\* What is known of a request r of command p in the backlog of server s.
Due(p, s, r) ==
    /\ cmd[p].st \in {"wait", "ended"}
    /\ cmd[p].st = "wait" => cmd[p].conn = s /\ inbox[p] = "none" /\ r = Asked(p)

\* A request in a backlog is one that its command still waits for, and the only
\* one it waits for, or one whose command has given up.
Queued == \A s \in Servers :
    /\ \A i \in DOMAIN backlog[s] : Due(backlog[s][i].client, s, backlog[s][i].request)
    /\ \A i, j \in DOMAIN backlog[s] :
         backlog[s][i].client = backlog[s][j].client /\ cmd[backlog[s][i].client].st = "wait" => i = j

\* No request of p waits anywhere.
Unqueued(p) == \A s \in Servers : \A i \in DOMAIN backlog[s] : backlog[s][i].client # p

LEMMA EntryTyped ==
    ASSUME Types, NEW s \in Servers
    PROVE  /\ Len(backlog[s]) \in Nat /\ DOMAIN backlog[s] = 1..Len(backlog[s])
           /\ \A i \in DOMAIN backlog[s] : backlog[s][i] \in Entries /\ backlog[s][i].client \in Clients
<1>1. backlog[s] \in Seq(Entries)
  BY DEF Types
<1>2. /\ Len(backlog[s]) \in Nat /\ DOMAIN backlog[s] = 1..Len(backlog[s])
      /\ \A i \in DOMAIN backlog[s] : backlog[s][i] \in Entries
  BY <1>1, LenProperties, ElementOfSeq
<1> QED BY <1>2 DEF Entries

LEMMA QueuedNext == ASSUME Places, Queued, [Next]_vars PROVE Queued'
<1>0. Types /\ cmd \in [Clients -> CmdType] /\ inbox \in [Clients -> Codes \cup {"none"}]
      /\ backlog \in [Servers -> Seq(Entries)]
  BY DEF Places, Types
<1> USE <1>0
\* One command moves on: it has no request in a backlog, or has ended.
<1>a. ASSUME NEW p \in Clients, UNCHANGED backlog, \A q \in Clients \ {p} : cmd'[q] = cmd[q],
             \A q \in Clients \ {p} : inbox'[q] = inbox[q],
             Unqueued(p) \/ cmd'[p].st = "ended"
      PROVE  Queued'
  <2> SUFFICES ASSUME NEW s \in Servers
               PROVE  /\ \A i \in DOMAIN backlog[s] :
                           Due(backlog[s][i].client, s, backlog[s][i].request)'
                      /\ \A i, j \in DOMAIN backlog[s] :
                           backlog[s][i].client = backlog[s][j].client
                             /\ cmd'[backlog[s][i].client].st = "wait" => i = j
    BY <1>a DEF Queued, Due, Asked
  <2>1. ASSUME NEW i \in DOMAIN backlog[s]
        PROVE  \A q : q = backlog[s][i].client =>
                  \/ q \in Clients \ {p} /\ cmd'[q] = cmd[q] /\ inbox'[q] = inbox[q]
                  \/ cmd'[q].st = "ended"
    BY <1>a, <2>1, EntryTyped DEF Unqueued
  <2>2. ASSUME NEW i \in DOMAIN backlog[s]
        PROVE  Due(backlog[s][i].client, s, backlog[s][i].request)'
    BY <1>a, <2>1, <2>2 DEF Queued, Due, Asked
  <2>3. ASSUME NEW i \in DOMAIN backlog[s], NEW j \in DOMAIN backlog[s],
               backlog[s][i].client = backlog[s][j].client, cmd'[backlog[s][i].client].st = "wait"
        PROVE  i = j
    BY <2>1, <2>3 DEF Queued
  <2> QED BY <2>2, <2>3
\* Commands that have not sent, or have their answer, wait for nothing.
<1>b. ASSUME NEW p \in Clients, cmd[p].st \in {"idle", "send"} \/ (cmd[p].st = "wait" /\ inbox[p] # "none")
      PROVE  Unqueued(p)
  BY <1>b DEF Queued, Due, Unqueued
<1>1. ASSUME NEW s \in Servers, Bind(s) \/ SetMode(s) \/ \E k : Remove(s, k) PROVE Queued'
  BY <1>1 DEF Bind, SetMode, Remove, Queued, Due, Asked
<1>2. ASSUME NEW s \in Servers, Killed(s) PROVE Queued'
  <2>1. UNCHANGED <<cmd, inbox>> /\ backlog'[s] = <<>> /\ DOMAIN <<>> = {}
        /\ \A q \in Servers \ {s} : backlog'[q] = backlog[q]
    BY <1>2 DEF Killed
  <2> QED BY <2>1 DEF Queued, Due, Asked
<1>3. ASSUME NEW s \in Servers, Serve(s) PROVE Queued'
  <2>1. PICK p \in Clients, code \in Codes :
          p = Head(backlog[s]).client /\ Answer(s, p, code)
    BY <1>3, HeadTyped DEF Serve
  <2>2. /\ backlog[s] # <<>> /\ backlog'[s] = Tail(backlog[s]) /\ UNCHANGED cmd
        /\ \A q \in Servers \ {s} : backlog'[q] = backlog[q]
    BY <1>3 DEF Serve
  <2>3. /\ 1 \in DOMAIN backlog[s] /\ Head(backlog[s]) = backlog[s][1]
        /\ \A i \in DOMAIN backlog'[s] : /\ i \in Nat /\ i + 1 # 1 /\ i + 1 \in DOMAIN backlog[s]
                                          /\ backlog'[s][i] = backlog[s][i + 1]
    <3>1. /\ Len(backlog[s]) \in Nat /\ Len(backlog[s]) # 0 /\ DOMAIN backlog[s] = 1..Len(backlog[s])
          /\ DOMAIN Tail(backlog[s]) = 1..(Len(backlog[s]) - 1)
          /\ \A i \in 1..(Len(backlog[s]) - 1) : Tail(backlog[s])[i] = backlog[s][i + 1]
          /\ Head(backlog[s]) = backlog[s][1]
      BY <2>2, EmptySeq, LenProperties, HeadTailProperties
    <3> QED BY <2>2, <3>1
  <2>4. ASSUME NEW q \in Servers, NEW i \in DOMAIN backlog'[q]
        PROVE  \E k \in DOMAIN backlog[q] :
                 /\ backlog'[q][i] = backlog[q][k] /\ (k = i \/ (k = i + 1 /\ q = s))
                 /\ backlog[q][k].client = p /\ cmd[p].st = "wait" => cmd[p].conn # s
    <3>1. CASE q = s
      <4>1. backlog[s][i + 1].client = p /\ cmd[p].st = "wait" => i + 1 = 1
        BY <2>1, <2>3, <2>4, <3>1 DEF Queued
      <4> QED BY <2>3, <2>4, <3>1, <4>1
    <3>2. CASE q # s
      <4>1. backlog'[q][i] = backlog[q][i] /\ i \in DOMAIN backlog[q]
        BY <2>2, <2>4, <3>2
      <4>2. Due(backlog[q][i].client, q, backlog[q][i].request)
        BY <4>1 DEF Queued
      <4> QED BY <3>2, <4>1, <4>2 DEF Due
    <3> QED BY <3>1, <3>2
  <2>5. \A c \in Clients : ~(c = p /\ cmd[p].conn = s) => inbox'[c] = inbox[c]
    BY <2>1 DEF Answer
  <2>6. ASSUME NEW q \in Servers, NEW i \in DOMAIN backlog'[q]
        PROVE  \A e : e = backlog'[q][i] => Due(e.client, q, e.request)'
    <3>1. PICK k \in DOMAIN backlog[q] :
            /\ backlog'[q][i] = backlog[q][k]
            /\ backlog[q][k].client = p /\ cmd[p].st = "wait" => cmd[p].conn # s
      BY <2>4, <2>6
    <3>2. Due(backlog[q][k].client, q, backlog[q][k].request) /\ backlog[q][k].client \in Clients
      BY EntryTyped DEF Queued
    <3>3. cmd[backlog[q][k].client].st = "wait" => inbox'[backlog[q][k].client] = inbox[backlog[q][k].client]
      BY <2>5, <3>1, <3>2
    <3> QED BY <2>2, <3>1, <3>2, <3>3 DEF Due, Asked
  <2>7. ASSUME NEW q \in Servers, NEW i \in DOMAIN backlog'[q], NEW j \in DOMAIN backlog'[q],
               backlog'[q][i].client = backlog'[q][j].client, cmd[backlog'[q][i].client].st = "wait"
        PROVE  i = j
    <3>1. CASE q = s
      <4>1. i + 1 = j + 1
        BY <2>3, <2>7, <3>1 DEF Queued
      <4> QED BY <2>3, <3>1, <4>1
    <3>2. CASE q # s
      BY <2>2, <2>7, <3>2 DEF Queued
    <3> QED BY <3>1, <3>2
  <2> QED BY <2>2, <2>6, <2>7 DEF Queued, Due, Asked
<1>4. ASSUME NEW p \in Clients, (\E n \in Names : Launch(p, n)) \/ LaunchPlan(p) PROVE Queued'
  <2>1. /\ UNCHANGED <<backlog, inbox>> /\ cmd[p].st = "idle" /\ \E v : cmd' = [cmd EXCEPT ![p] = v]
    BY <1>4, NotRunTyped DEF Launch, LaunchPlan
  <2> QED BY <1>a, <1>b, <2>1
<1>5. ASSUME NEW p \in Clients, Plan(p) \/ Receive(p) \/ NoAnswer(p) \/ (Send(p) /\ ~Listens) PROVE Queued'
  <2>1. UNCHANGED backlog /\ (inbox' = inbox \/ inbox' = [inbox EXCEPT ![p] = "none"])
    BY <1>5 DEF Plan, Receive, NoAnswer, Send
  <2>2. \E v : cmd' = [cmd EXCEPT ![p] = v]
    BY <1>5 DEF Plan, Receive, NoAnswer, Send, Exit
  <2>3. Unqueued(p) \/ cmd'[p].st = "ended"
    <3>1. CASE NoAnswer(p)
      BY <3>1, ExitIs, FS_EmptySet DEF NoAnswer
    <3>2. CASE ~NoAnswer(p)
      BY <1>5, <1>b, <3>2 DEF Plan, Receive, Send
    <3> QED BY <3>1, <3>2
  <2> QED BY <1>a, <2>1, <2>2, <2>3
<1>6. ASSUME NEW p \in Clients, Send(p), Listens PROVE Queued'
  <2>1. Unqueued(p) /\ UNCHANGED inbox
    BY <1>6, <1>b DEF Send
  <2>2. /\ path \in Servers /\ \A q \in Clients \ {p} : cmd'[q] = cmd[q]
        /\ cmd'[p].st = "wait" /\ cmd'[p].conn = path /\ cmd'[p].name = cmd[p].name
        /\ cmd'[p].pid = cmd[p].pid /\ cmd'[p].step = cmd[p].step
    BY <1>6, SendIs
  <2>3. PICK e \in Entries : /\ e.client = p /\ e.request = Asked(p)
                             /\ backlog' = [backlog EXCEPT ![path] = Append(@, e)]
    BY <1>6, SendIs DEF Asked
  <2>4. inbox[p] = "none"
    BY <1>6 DEF Places, Place, Send
  <2>5. ASSUME NEW q \in Servers, NEW i \in DOMAIN backlog'[q]
        PROVE  \/ i \in DOMAIN backlog[q] /\ backlog'[q][i] = backlog[q][i]
               \/ q = path /\ backlog'[q][i] = e /\ i = Len(backlog[q]) + 1
    <3>1. CASE q = path
      <4>1. backlog'[q] = Append(backlog[q], e) /\ backlog[q] \in Seq(Entries)
        BY <2>3, <3>1
      <4>2. /\ Len(backlog[q]) \in Nat /\ DOMAIN backlog[q] = 1..Len(backlog[q])
            /\ DOMAIN backlog'[q] = 1..(Len(backlog[q]) + 1)
            /\ \A k \in 1..Len(backlog[q]) : backlog'[q][k] = backlog[q][k]
            /\ backlog'[q][Len(backlog[q]) + 1] = e
        BY <4>1, LenProperties, AppendProperties
      <4> QED BY <2>5, <3>1, <4>2
    <3>2. CASE q # path
      BY <2>3, <2>5, <3>2
    <3> QED BY <3>1, <3>2
  <2>6. ASSUME NEW q \in Servers, NEW i \in DOMAIN backlog[q]
        PROVE  \A d : d = backlog[q][i] => d.client # p /\ Due(d.client, q, d.request)'
                                          /\ cmd'[d.client] = cmd[d.client]
    <3>1. /\ Due(backlog[q][i].client, q, backlog[q][i].request)
          /\ backlog[q][i].client \in Clients \ {p}
      BY <2>1, <2>6, EntryTyped DEF Queued, Unqueued
    <3> QED BY <2>1, <2>2, <3>1 DEF Due, Asked
  <2>7. ASSUME NEW q \in Servers, NEW i \in DOMAIN backlog'[q]
        PROVE  \A d : d = backlog'[q][i] => Due(d.client, q, d.request)'
    <3>1. CASE i \in DOMAIN backlog[q] /\ backlog'[q][i] = backlog[q][i]
      BY <2>6, <3>1
    <3>2. CASE q = path /\ backlog'[q][i] = e
      BY <2>2, <2>3, <2>4, <2>1, <3>2 DEF Due, Asked
    <3> QED BY <2>5, <2>7, <3>1, <3>2
  <2>8. ASSUME NEW q \in Servers, NEW i \in DOMAIN backlog'[q], NEW j \in DOMAIN backlog'[q],
               backlog'[q][i].client = backlog'[q][j].client, cmd'[backlog'[q][i].client].st = "wait"
        PROVE  i = j
    <3>1. CASE i \in DOMAIN backlog[q] /\ backlog'[q][i] = backlog[q][i]
      <4>1. backlog[q][i].client # p /\ cmd[backlog[q][i].client].st = "wait"
        BY <2>6, <2>8, <3>1
      <4>2. j \in DOMAIN backlog[q] /\ backlog'[q][j] = backlog[q][j]
        BY <2>3, <2>5, <2>8, <3>1, <4>1
      <4> QED BY <2>8, <3>1, <4>1, <4>2 DEF Queued
    <3>2. CASE q = path /\ backlog'[q][i] = e /\ i = Len(backlog[q]) + 1
      BY <2>3, <2>5, <2>6, <2>8, <3>2
    <3> QED BY <2>5, <2>8, <3>1, <3>2
  <2> QED BY <2>7, <2>8 DEF Queued, Due, Asked
<1>7. CASE UNCHANGED vars
  BY <1>7 DEF vars, Queued, Due, Asked
<1> QED BY <1>1, <1>2, <1>3, <1>4, <1>5, <1>6, <1>7 DEF Next, Starts, Command

LEMMA InitQueued == Init => Queued
<1>1. DOMAIN <<>> = {}
  OBVIOUS
<1> QED BY <1>1 DEF Init, Queued
-----------------------------------------------------------------------------
(* An exit code of 0.                                                       *)

\* What n answers of server s say of itself and of box b, of which they are
\* the expected answers of a backend-self-test.
Stage(s, b, n) ==
    /\ n >= 1 => server[s].kind = "helper" /\ ~At(s, "down")
    /\ n >= 3 => Has(s, b)
    /\ n >= 5 => boxes[s][b] \in {"KILLED", "CLEANED"}
    /\ n >= 6 => boxes[s][b] = "CLEANED"

\* What n expected answers say that come from the servers `by`.
Vouched(name, pid, by, n) ==
    /\ name = "gateway-self-test" => \A s \in by : server[s].kind = "gateway"
    /\ name = "backend-self-test" => \A s \in Servers : by \subseteq {s} => Stage(s, pid, n)

\* As long as a command is content with the answers it has read, and with the
\* one that has come, they say that; so does an exit code of 0.
Genuine(p) ==
    /\ Running(p) /\ cmd[p].good => Vouched(cmd[p].name, cmd[p].pid, cmd[p].by, cmd[p].step - 1)
    /\ cmd[p].st = "wait" /\ inbox[p] # "none" /\ Judged(p) =>
         Vouched(cmd[p].name, cmd[p].pid, Heard(p), cmd[p].step)
    /\ cmd[p].st = "ended" /\ cmd[p].exit = 0 =>
         Vouched(cmd[p].name, cmd[p].pid, cmd[p].by, Len(Script(cmd[p].name, cmd[p].pid)))

AllGenuine == \A p \in Clients : Genuine(p)

\* Only serving a request changes a box.
LEMMA BoxesNext ==
    ASSUME Types, [Next]_vars
    PROVE  UNCHANGED boxes \/ \E s \in Servers : BoxStep(s)
<1>1. ASSUME NEW s \in Servers, Bind(s) \/ SetMode(s) \/ Killed(s) \/ \E k : Remove(s, k)
      PROVE  UNCHANGED boxes
  BY <1>1 DEF Bind, SetMode, Killed, Remove
<1>2. ASSUME NEW p \in Clients, Command(p) \/ LaunchPlan(p) \/ \E n \in Names : Launch(p, n)
      PROVE  UNCHANGED boxes
  BY <1>2 DEF Command, Plan, Send, Receive, NoAnswer, LaunchPlan, Launch, serverVars
<1> QED BY <1>1, <1>2, ServeBoxes DEF Next, Starts, vars

\* A server that has been started stays the program that it is.
LEMMA KindKept ==
    ASSUME Types, [Next]_vars, NEW q \in Servers, ~At(q, "down")
    PROVE  ~At(q, "down")' /\ server'[q].kind = server[q].kind
<1>0. server \in [Servers -> [kind : Kinds,
          pc : {"down", "removed", "bound", "accept", "failed", "killed", "aborted"}]]
  BY DEF Types
<1>1. ASSUME NEW s \in Servers, NEW k \in Programs[s], Remove(s, k)
      PROVE  server'[q] = server[q]
  BY <1>0, <1>1 DEF Remove, At
<1>2. ASSUME NEW s \in Servers, Bind(s) \/ SetMode(s) \/ Killed(s)
      PROVE  \E pc : pc # "down" /\ server' = [server EXCEPT ![s].pc = pc]
  <2>1. Bind(s) => \E pc \in {"bound", "failed"} : GotoPc(s, pc)
    BY DEF Bind
  <2>2. SetMode(s) => \E pc \in {"accept", "failed"} : GotoPc(s, pc)
    BY DEF SetMode
  <2>3. Killed(s) => \E pc \in {"killed", "aborted"} : GotoPc(s, pc)
    BY DEF Killed
  <2> QED BY <1>2, <2>1, <2>2, <2>3 DEF GotoPc
<1>3. ASSUME NEW s \in Servers, Bind(s) \/ SetMode(s) \/ Killed(s)
      PROVE  ~At(q, "down")' /\ server'[q].kind = server[q].kind
  <2>1. PICK pc : pc # "down" /\ server' = [server EXCEPT ![s].pc = pc]
    BY <1>2, <1>3
  <2>2. CASE q = s
    <3>1. server'[q] = [server[q] EXCEPT !.pc = pc]
      BY <1>0, <2>1, <2>2
    <3>2. server'[q].pc = pc /\ server'[q].kind = server[q].kind
      BY <1>0, <3>1
    <3> QED BY <2>1, <3>2 DEF At
  <2>3. CASE q # s
    <3>1. server'[q] = server[q]
      BY <1>0, <2>1, <2>3
    <3> QED BY <3>1 DEF At
  <2> QED BY <2>2, <2>3
<1>4. ASSUME NEW s \in Servers, Serve(s) PROVE UNCHANGED server
  BY <1>4 DEF Serve
<1>5. ASSUME NEW p \in Clients, Command(p) \/ LaunchPlan(p) \/ \E n \in Names : Launch(p, n)
      PROVE  UNCHANGED server
  BY <1>5 DEF Command, Plan, Send, Receive, NoAnswer, LaunchPlan, Launch, serverVars
<1> QED BY <1>1, <1>3, <1>4, <1>5 DEF Next, Starts, vars, At

\* A box that is there stays, and one that is killed, or cleaned up, stays so.
LEMMA StageKept ==
    ASSUME Types, [Next]_vars, NEW s \in Servers, NEW b, NEW n \in Int, Stage(s, b, n)
    PROVE  Stage(s, b, n)'
<1>1. n >= 1 => server'[s].kind = "helper" /\ ~At(s, "down")'
  BY KindKept DEF Stage
<1>2. CASE UNCHANGED boxes
  BY <1>1, <1>2 DEF Stage, Has
<1>3. ASSUME NEW q \in Servers, BoxStep(q) PROVE Stage(s, b, n)'
  <2>1. PICK x \in Pids :
          \/ ~Has(q, x) /\ SetTo(q, x, "RUNNING")
          \/ Has(q, x) /\ boxes[q][x] = "RUNNING" /\ SetTo(q, x, "KILLED")
          \/ Has(q, x) /\ boxes[q][x] \in {"KILLED", "CLEANED"} /\ SetTo(q, x, "CLEANED")
          \/ Has(q, x) /\ boxes[q][x] \in Statuses /\ SetTo(q, x, boxes[q][x])
    BY <1>3 DEF BoxStep
  <2>2. PICK st \in Statuses :
          /\ SetTo(q, x, st)
          /\ Has(q, x) /\ boxes[q][x] \in {"KILLED", "CLEANED"} => st \in {"CLEANED", boxes[q][x]}
    BY <2>1 DEF Statuses
  <2>3. /\ DOMAIN boxes'[q] = DOMAIN boxes[q] \cup {x} /\ boxes'[q][x] = st
        /\ \A y \in DOMAIN boxes[q] : y # x => boxes'[q][y] = boxes[q][y]
        /\ \A r \in Servers \ {q} : boxes'[r] = boxes[r]
    BY <2>2, SetToMap DEF Types
  <2>4. /\ Has(s, b) => Has(s, b)'
        /\ Has(s, b) /\ boxes[s][b] = "CLEANED" => boxes'[s][b] = "CLEANED"
        /\ Has(s, b) /\ boxes[s][b] \in {"KILLED", "CLEANED"} => boxes'[s][b] \in {"KILLED", "CLEANED"}
    <3>1. CASE s = q /\ b = x
      BY <2>2, <2>3, <3>1 DEF Has
    <3>2. CASE ~(s = q /\ b = x)
      BY <2>3, <3>2 DEF Has
    <3> QED BY <3>1, <3>2
  <2>5. (n >= 6 => n >= 5) /\ (n >= 5 => n >= 3)
    OBVIOUS
  <2> QED BY <1>1, <2>4, <2>5 DEF Stage
<1> QED BY <1>2, <1>3, BoxesNext

LEMMA VouchedKept ==
    ASSUME Types, [Next]_vars, NEW name, NEW pid, NEW by \in SUBSET Servers, NEW n \in Int,
           \A s \in by : ~At(s, "down"), Vouched(name, pid, by, n)
    PROVE  Vouched(name, pid, by, n)'
<1>1. ASSUME name = "gateway-self-test", NEW s \in by PROVE server'[s].kind = "gateway"
  BY <1>1, KindKept DEF Vouched
<1>2. ASSUME name = "backend-self-test", NEW s \in Servers, by \subseteq {s} PROVE Stage(s, pid, n)'
  BY <1>2, StageKept DEF Vouched
<1> QED BY <1>1, <1>2 DEF Vouched

\* The answer a command expects says what it should: the helper refuses the
\* methods of the gateway and the gateway those of the helper, and a kill or a
\* cleanup that is answered has been done, as the box has been spawned before.
LEMMA AnswerVouches ==
    ASSUME Types, [Next]_vars, UNCHANGED server,
           NEW s \in Servers, At(s, "accept"),
           NEW name \in Talking, NEW pid, name = "backend-self-test" => pid \in Pids,
           NEW step \in 1..Len(Script(name, pid)), NEW code,
           IF server[s].kind = "helper"
           THEN HandleHelper(s, Script(name, pid)[step], code)
           ELSE HandleGateway(Script(name, pid)[step], code),
           Expected(name, step, code),
           NEW by \in SUBSET Servers, \A q \in by : ~At(q, "down"),
           Vouched(name, pid, by, step - 1)
    PROVE  Vouched(name, pid, by \cup {s}, step)'
<1>1. ASSUME name = "gateway-self-test" PROVE Vouched(name, pid, by \cup {s}, step)'
  <2>1. step \in 1..4
    BY <1>1, ScriptOf
  <2>2. Script(name, pid)[step].method \in {"SEARCH", "FETCH", "MODEL_GENERATE", "SHELL"}
    BY <1>1, <2>1, ScriptOf DEF Request
  <2>3. server[s].kind # "helper"
    BY <1>1, <2>1, <2>2 DEF Expected, BackendExpects, GatewayExpects, HandleHelper
  <2>4. server[s].kind = "gateway"
    BY <2>3 DEF Types, Kinds
  <2> QED BY <1>1, <2>4 DEF Vouched
<1>2. ASSUME name = "backend-self-test" PROVE Vouched(name, pid, by \cup {s}, step)'
  <2>1. SUFFICES ASSUME by \subseteq {s} PROVE Stage(s, pid, step)'
    BY <1>2 DEF Vouched
  <2>2. step \in 1..6 /\ Stage(s, pid, step - 1)
    <3>1. Len(Script("backend-self-test", pid)) = 6
      BY ScriptOf
    <3>2. Stage(s, pid, step - 1)
      BY <1>2, <2>1 DEF Vouched
    <3> QED BY <1>2, <3>1, <3>2
  <2>3. Stage(s, pid, step - 1)'
    BY <2>2, StageKept
  <2> DEFINE r == Script(name, pid)[step]
  <2>4. /\ step = 1 => r.method = "capabilities"
        /\ step = 3 => (r.method = "spawn" /\ r.box = pid)
        /\ step = 5 => (r.method = "kill" /\ r.box = pid)
        /\ step = 6 => (r.method = "cleanup" /\ r.box = pid)
    BY <1>2, ScriptOf DEF Request
  <2>5. server[s].kind = "helper" /\ HandleHelper(s, r, code)
    <3>1. CASE step = 1
      <4>1. ~HandleGateway(r, code)
        BY <1>2, <2>4, <3>1 DEF HandleGateway, Tools, Expected, BackendExpects, GatewayExpects
      <4> QED BY <4>1
    <3>2. CASE step # 1
      <4>1. server[s].kind = "helper"
        BY <2>2, <3>2 DEF Stage
      <4> QED BY <4>1
    <3> QED BY <3>1, <3>2
  <2> HIDE DEF r
  <2>6. step = 3 => Has(s, pid)'
    <3>1. SUFFICES ASSUME step = 3 PROVE Has(s, pid)'
      OBVIOUS
    <3>2. SpawnBox(s, pid, code) /\ code = "ok"
      <4>1. code = "ok"
        BY <1>2, <3>1 DEF Expected, BackendExpects, GatewayExpects
      <4> QED BY <2>4, <2>5, <3>1, <4>1 DEF HandleHelper
    <3>3. SetTo(s, pid, "RUNNING") /\ pid \in Pids
      BY <1>2, <3>2 DEF SpawnBox
    <3> QED BY <3>3, SetToMap DEF Types, Has, Statuses
  <2>7. step = 5 => boxes'[s][pid] \in {"KILLED", "CLEANED"}
    <3>1. SUFFICES ASSUME step = 5 PROVE boxes'[s][pid] \in {"KILLED", "CLEANED"}
      OBVIOUS
    <3>2. Has(s, pid) /\ boxes[s][pid] \in Statuses
      BY <2>2, <3>1, BoxesTyped DEF Stage
    <3>3. SetTo(s, pid, IF boxes[s][pid] = "RUNNING" THEN "KILLED" ELSE boxes[s][pid])
      BY <2>4, <2>5, <3>1, <3>2 DEF HandleHelper
    <3>4. PICK st \in {"KILLED", "CLEANED"} : SetTo(s, pid, st)
      BY <3>2, <3>3 DEF Statuses
    <3> QED BY <3>2, <3>4, SetToMap DEF Types, Statuses
  <2>8. step = 6 => boxes'[s][pid] = "CLEANED"
    <3>1. SUFFICES ASSUME step = 6 PROVE boxes'[s][pid] = "CLEANED"
      OBVIOUS
    <3>2. Has(s, pid) /\ boxes[s][pid] \in {"KILLED", "CLEANED"}
      BY <2>2, <3>1 DEF Stage
    <3>3. SetTo(s, pid, "CLEANED")
      BY <2>4, <2>5, <3>1, <3>2 DEF HandleHelper
    <3> QED BY <3>2, <3>3, SetToMap DEF Types, Statuses
  <2>9. server'[s].kind = "helper" /\ ~At(s, "down")'
    BY <2>5 DEF At
  <2> QED BY <2>2, <2>3, <2>6, <2>7, <2>8, <2>9 DEF Stage
<1> QED BY <1>1, <1>2 DEF Vouched

LEMMA GenuineNext == ASSUME Places, Queued, AllGenuine, [Next]_vars PROVE AllGenuine'
<1>0. Types /\ cmd \in [Clients -> CmdType] /\ inbox \in [Clients -> Codes \cup {"none"}]
      /\ \A p \in Clients : Place(p) /\ Genuine(p) /\ cmd[p] \in CmdType
  BY DEF Places, Types, AllGenuine
<1> USE <1>0
<1>e. {} \in SUBSET Servers /\ 0 \in 0..2 /\ 1 \in 0..2 /\ 2 \in 0..2
  OBVIOUS
\* What the command has read so far, and the length of its script.
<1>p. ASSUME NEW p \in Clients
      PROVE  /\ cmd[p].by \in SUBSET Servers /\ cmd[p].step \in Nat /\ cmd[p].step - 1 \in Int
             /\ \A s \in cmd[p].by : ~At(s, "down")
             /\ cmd[p].st = "wait" => Heard(p) \in SUBSET Servers /\ \A s \in Heard(p) : ~At(s, "down")
             /\ cmd[p].name \in Talking => Len(Script(cmd[p].name, cmd[p].pid)) \in Int
  <2>1. cmd[p].by \in SUBSET Servers /\ cmd[p].step \in Nat /\ cmd[p].pid \in Pids \cup {Unsupported}
    BY DEF CmdType
  <2>2. None \notin Servers /\ Place(p)
    BY CliAssumption
  <2> QED BY <2>1, <2>2, ScriptTypes DEF Place, Heard
\* A command that does not move.
<1>a. ASSUME NEW p \in Clients, cmd'[p] = cmd[p], inbox'[p] = inbox[p] PROVE Genuine(p)'
  <2>1. PICK name, pid, by, heard, step, len :
          /\ name = cmd[p].name /\ pid = cmd[p].pid /\ by = cmd[p].by /\ step = cmd[p].step
          /\ heard = Heard(p) /\ len = Len(Script(name, pid))
    OBVIOUS
  <2>2. by \in SUBSET Servers /\ step \in Nat /\ step - 1 \in Int /\ \A s \in by : ~At(s, "down")
    BY <2>1, <1>p
  <2>3. Running(p) /\ cmd[p].good => Vouched(name, pid, by, step - 1)'
    BY <2>1, <2>2, VouchedKept DEF Genuine
  <2>4. cmd[p].st = "wait" /\ inbox[p] # "none" /\ Judged(p) => Vouched(name, pid, heard, step)'
    BY <2>1, <2>2, <1>p, VouchedKept DEF Genuine
  <2>5. cmd[p].st = "ended" /\ cmd[p].exit = 0 => Vouched(name, pid, by, len)'
    <3>1. CASE name \in Talking
      BY <2>1, <2>2, <3>1, <1>p, VouchedKept DEF Genuine
    <3>2. CASE name \notin Talking
      BY <3>2 DEF Talking, Vouched
    <3> QED BY <3>1, <3>2
  <2>6. name = cmd'[p].name /\ pid = cmd'[p].pid /\ by = cmd'[p].by /\ step = cmd'[p].step
        /\ heard = Heard(p)' /\ len = Len(Script(cmd'[p].name, cmd'[p].pid))
        /\ (Judged(p)' <=> Judged(p)) /\ (Running(p)' <=> Running(p))
    BY <1>a, <2>1 DEF Heard, Judged, Running
  <2> QED BY <1>a, <2>3, <2>4, <2>5, <2>6 DEF Genuine, Vouched, Stage, At, Has
\* A command that moves.
<1>b. ASSUME NEW p \in Clients, \A q \in Clients \ {p} : cmd'[q] = cmd[q] /\ inbox'[q] = inbox[q],
             Genuine(p)'
      PROVE  AllGenuine'
  BY <1>a, <1>b DEF AllGenuine
<1>1. CASE UNCHANGED <<cmd, inbox>>
  BY <1>1, <1>a DEF AllGenuine
<1>2. ASSUME NEW s \in Servers, Serve(s) PROVE AllGenuine'
  <2>1. PICK r \in Entries, code \in Codes :
          /\ r = Head(backlog[s]) /\ r.client \in Clients
          /\ IF server[s].kind = "helper"
             THEN HandleHelper(s, r.request, code) ELSE HandleGateway(r.request, code)
          /\ Answer(s, r.client, code)
    BY <1>2, HeadTyped DEF Serve
  <2>2. PICK p \in Clients : p = r.client
    BY <2>1
  <2>3. UNCHANGED <<server, cmd>> /\ At(s, "accept") /\ backlog[s] # <<>>
        /\ \A q \in Clients : ~(q = p /\ cmd[p].conn = s) => inbox'[q] = inbox[q]
    BY <1>2, <2>1, <2>2 DEF Serve, Answer
  <2>4. CASE cmd[p].conn # s
    BY <2>3, <2>4, <1>a DEF AllGenuine
  <2>5. CASE cmd[p].conn = s
    <3>1. cmd[p].st = "wait" /\ inbox'[p] = code
      BY <2>1, <2>2, <2>5, CliAssumption DEF Place, Answer
    <3>2. inbox[p] = "none" /\ r.request = Asked(p)
      <4>1. 1 \in DOMAIN backlog[s] /\ backlog[s][1] = r
        BY <2>1, <2>3, EntryTyped, EmptySeq, HeadTailProperties, LenProperties DEF Types
      <4> QED BY <2>2, <3>1, <4>1 DEF Queued, Due
    <3>3. PICK name, pid, by, step :
            name = cmd[p].name /\ pid = cmd[p].pid /\ by = cmd[p].by /\ step = cmd[p].step
      OBVIOUS
    <3>4. /\ name \in Talking /\ (name = "backend-self-test" => pid \in Pids)
          /\ step \in 1..Len(Script(name, pid)) /\ r.request = Script(name, pid)[step]
          /\ by \in SUBSET Servers /\ step - 1 \in Int /\ \A q \in by : ~At(q, "down")
      BY <3>1, <3>2, <3>3, <1>p DEF Place, Running, Asked
    <3>5. cmd[p].good => Vouched(name, pid, by, step - 1)
      BY <3>1, <3>3 DEF Genuine, Running
    <3>6. cmd[p].good => Vouched(name, pid, by, step - 1)'
      BY <3>4, <3>5, VouchedKept
    <3>7. cmd[p].good /\ Expected(name, step, code) => Vouched(name, pid, by \cup {s}, step)'
      BY <2>1, <2>3, <3>4, <3>5, AnswerVouches
    <3>8. /\ name = cmd'[p].name /\ pid = cmd'[p].pid /\ by = cmd'[p].by /\ step = cmd'[p].step
          /\ by \cup {s} = Heard(p)' /\ cmd'[p].good = cmd[p].good /\ cmd'[p].st = "wait"
          /\ Judged(p)' => cmd[p].good /\ Expected(name, step, code)
      BY <2>3, <2>5, <3>1, <3>3 DEF Heard, Judged
    <3>9. Genuine(p)'
      BY <3>6, <3>7, <3>8 DEF Genuine, Vouched, Stage, At, Has
    <3> QED BY <1>b, <2>3, <3>9
  <2> QED BY <2>4, <2>5
\* A command that fails.
<1>3. ASSUME NEW p \in Clients, NEW code \in 1..2, Exit(p, code, {}) PROVE Genuine(p)'
  <2>1. cmd'[p].st = "ended" /\ cmd'[p].exit = code
    BY <1>3, <1>e, ExitIs
  <2> QED BY <2>1 DEF Genuine, Running
<1>4. ASSUME NEW p \in Clients, (\E n \in Names \ {"plan"} : Launch(p, n)) \/ LaunchPlan(p)
      PROVE  AllGenuine'
  <2>1. /\ UNCHANGED inbox /\ cmd[p].st = "idle" /\ \A q \in Clients \ {p} : cmd'[q] = cmd[q]
    BY <1>4, NotRunTyped DEF Launch, LaunchPlan
  <2>2. CASE LaunchPlan(p)
    <3>1. cmd'[p].name = "plan"
      <4>1. PICK input : cmd' = [cmd EXCEPT ![p] = [NotRun EXCEPT !.st = "send", !.input = input]]
        BY <2>2 DEF LaunchPlan
      <4>2. [NotRun EXCEPT !.st = "send", !.input = input].name = "plan"
        BY NotRunTyped DEF CmdType
      <4> QED BY <4>1, <4>2
    <3> QED BY <1>b, <2>1, <3>1 DEF Genuine, Vouched
  <2>3. CASE \E n \in Names \ {"plan"} : Launch(p, n)
    <3>1. cmd'[p].st = "send" /\ cmd'[p].step = 1 /\ cmd'[p].by = {}
      BY <2>3, LaunchIs
    <3>2. \A pid, s : Stage(s, pid, 1 - 1)'
      BY DEF Stage
    <3>3. \A name, pid : Vouched(name, pid, {}, 1 - 1)'
      BY <3>2 DEF Vouched
    <3>4. Genuine(p)'
      BY <3>1, <3>3 DEF Genuine, Vouched, Stage, At, Has
    <3> QED BY <1>b, <2>1, <3>4
  <2> QED BY <1>4, <2>2, <2>3
<1>5. ASSUME NEW p \in Clients, Plan(p) PROVE AllGenuine'
  <2>1. PICK code \in 0..2 : Exit(p, code, {}) /\ cmd[p].name = "plan" /\ UNCHANGED inbox
    BY <1>5 DEF Plan, PlanExit
  <2>2. cmd'[p].name = "plan" /\ \A q \in Clients \ {p} : cmd'[q] = cmd[q]
    BY <1>e, <2>1, ExitIs
  <2> QED BY <1>b, <2>1, <2>2 DEF Genuine, Vouched
<1>6. ASSUME NEW p \in Clients, Send(p) \/ NoAnswer(p) PROVE AllGenuine'
  <2>1. CASE Exit(p, 2, {})
    <3>1. \A q \in Clients \ {p} : cmd'[q] = cmd[q] /\ inbox'[q] = inbox[q]
      BY <1>6, <1>e, <2>1, ExitIs DEF Send, NoAnswer
    <3> QED BY <1>b, <1>3, <2>1, <3>1
  <2>2. CASE Send(p) /\ Listens
    <3>1. /\ \A q \in Clients \ {p} : cmd'[q] = cmd[q]
          /\ cmd'[p].st = "wait" /\ cmd'[p].name = cmd[p].name /\ cmd'[p].pid = cmd[p].pid
          /\ cmd'[p].by = cmd[p].by /\ cmd'[p].step = cmd[p].step /\ cmd'[p].good = cmd[p].good
      BY <2>2, SendIs
    <3>2. UNCHANGED <<server, boxes, inbox>> /\ cmd[p].st = "send" /\ inbox[p] = "none"
      BY <2>2 DEF Send, serverVars, Place
    <3>3. Genuine(p)'
      BY <3>1, <3>2 DEF Genuine, Running, Vouched, Stage, At, Has
    <3> QED BY <1>b, <3>1, <3>2, <3>3
  <2> QED BY <1>6, <2>1, <2>2 DEF Send, NoAnswer
<1>7. ASSUME NEW p \in Clients, Receive(p) PROVE AllGenuine'
  <2>1. /\ UNCHANGED <<server, boxes>> /\ \A q \in Clients \ {p} : inbox'[q] = inbox[q]
        /\ cmd[p].st = "wait" /\ inbox[p] # "none" /\ Heard(p) \in SUBSET Servers
        /\ cmd[p].step \in Nat
    BY <1>7, <1>p, ReceiveIs DEF serverVars
  <2>2. Judged(p) => Vouched(cmd[p].name, cmd[p].pid, Heard(p), cmd[p].step)
    BY <2>1 DEF Genuine
  <2>3. PICK name, pid, by, step :
          name = cmd[p].name /\ pid = cmd[p].pid /\ by = Heard(p) /\ step = cmd[p].step
    OBVIOUS
  <2>4. Judged(p) => Vouched(name, pid, by, step)'
    BY <2>1, <2>2, <2>3 DEF Vouched, Stage, At, Has
  <2>5. CASE Exit(p, 1, {}) \/ Exit(p, 2, {})
    <3>1. \A q \in Clients \ {p} : cmd'[q] = cmd[q]
      BY <1>e, <2>5, ExitIs
    <3> QED BY <1>b, <1>3, <2>1, <2>5, <3>1
  <2>6. CASE Judged(p) /\ Exit(p, 0, Heard(p)) /\ cmd[p].step = Len(Script(cmd[p].name, cmd[p].pid))
    <3>1. /\ \A q \in Clients \ {p} : cmd'[q] = cmd[q]
          /\ cmd'[p].st = "ended" /\ cmd'[p].by = by /\ cmd'[p].name = name /\ cmd'[p].pid = pid
      BY <1>e, <2>1, <2>3, <2>6, ExitIs
    <3>2. Genuine(p)'
      BY <2>3, <2>4, <2>6, <3>1 DEF Genuine, Running, Vouched, Stage, At, Has
    <3> QED BY <1>b, <2>1, <3>1, <3>2
  <2>7. CASE /\ \A q \in Clients \ {p} : cmd'[q] = cmd[q]
             /\ cmd'[p].st = "send" /\ cmd'[p].name = cmd[p].name
             /\ cmd'[p].pid = cmd[p].pid /\ cmd'[p].by = Heard(p)
             /\ cmd'[p].step = cmd[p].step + 1 /\ (cmd'[p].good => Judged(p))
    <3>1. cmd'[p].by = by /\ cmd'[p].name = name /\ cmd'[p].pid = pid /\ cmd'[p].step - 1 = step
      BY <2>1, <2>3, <2>7
    <3>2. Genuine(p)'
      BY <2>4, <2>7, <3>1 DEF Genuine, Running, Vouched, Stage, At, Has
    <3> QED BY <1>b, <2>1, <2>7, <3>2
  <2> QED BY <1>7, <2>5, <2>6, <2>7, ReceiveIs
<1>8. ASSUME NEW s \in Servers, Bind(s) \/ SetMode(s) \/ Killed(s) \/ \E k : Remove(s, k)
      PROVE  UNCHANGED <<cmd, inbox>>
  BY <1>8 DEF Bind, SetMode, Killed, Remove
<1> QED BY <1>1, <1>2, <1>4, <1>5, <1>6, <1>7, <1>8 DEF Next, Starts, Command, vars

\* An exit code of 0 is genuine, in every interleaving of commands, servers
\* that take over the path, and answers that come too late: the box of a
\* self-test that one server answered has been cleaned up there, and what
\* answered a gateway self-test was a gateway.
THEOREM CliPassedIsGenuine == Spec => []PassedIsGenuine
<1>1. Init => AllGenuine
  BY DEF Init, AllGenuine, Genuine, NotRun, Running
<1>2. Places /\ AllGenuine => PassedIsGenuine
  <2> SUFFICES ASSUME Places, AllGenuine, NEW p \in Clients
               PROVE  /\ Passed(p, "backend-self-test") /\ Cardinality(cmd[p].by) = 1 =>
                           \A s \in cmd[p].by : Has(s, cmd[p].pid) /\ boxes[s][cmd[p].pid] = "CLEANED"
                      /\ Passed(p, "gateway-self-test") =>
                           \A s \in cmd[p].by : server[s].kind = "gateway"
    BY DEF PassedIsGenuine
  <2>1. Genuine(p) /\ Place(p) /\ cmd[p].by \in SUBSET Servers
    BY DEF Places, AllGenuine, Types, CmdType
  <2>2. ASSUME Passed(p, "backend-self-test"), Cardinality(cmd[p].by) = 1, NEW s \in cmd[p].by
        PROVE  Has(s, cmd[p].pid) /\ boxes[s][cmd[p].pid] = "CLEANED"
    <3>1. cmd[p].by = {s}
      <4>1. PICK q : cmd[p].by = {q}
        BY <2>1, <2>2, FS_Singleton DEF Place
      <4> QED BY <2>2, <4>1
    <3>2. Len(Script("backend-self-test", cmd[p].pid)) = 6
      BY ScriptOf
    <3>3. Stage(s, cmd[p].pid, 6)
      BY <2>1, <2>2, <3>1, <3>2 DEF Passed, Genuine, Vouched
    <3> QED BY <3>3 DEF Stage
  <2>3. Passed(p, "gateway-self-test") => \A s \in cmd[p].by : server[s].kind = "gateway"
    BY <2>1 DEF Passed, Genuine, Vouched
  <2> QED BY <2>2, <2>3
<1> QED BY <1>1, <1>2, InitPlaces, PlacesNext, InitQueued, QueuedNext, GenuineNext, PTL DEF Spec
-----------------------------------------------------------------------------
(* The lists of `plan`.                                                     *)

\* Induction, with a set for what is shown.
LEMMA NatBySteps ==
    ASSUME NEW S, 0 \in S, \A n \in Nat : n \in S => n + 1 \in S
    PROVE  Nat \subseteq S
<1>1. SUFFICES ASSUME Nat \ S # {} PROVE FALSE
  OBVIOUS
<1>2. PICK n \in Nat \ S : \A m \in Nat \ S : <<m, n>> \notin OpToRel(<, Nat)
  BY <1>1, NatLessThanWellFounded, WFMin
<1>3. PICK m \in Nat : m + 1 = n
  <2>1. n # 0 /\ n - 1 \in Nat /\ (n - 1) + 1 = n
    OBVIOUS
  <2> QED BY <2>1
<1>4. <<m, n>> \in OpToRel(<, Nat)
  BY <1>3 DEF OpToRel
<1> QED BY <1>2, <1>3, <1>4

Positions(s, x) == {i \in DOMAIN s : s[i] = x}

InOrder(s) == \A i, j \in DOMAIN s : i < j => s[i] <= s[j]

LEMMA PositionsFinite ==
    ASSUME NEW s \in Seq(Nat), NEW T \in SUBSET DOMAIN s
    PROVE  IsFiniteSet(T) /\ Cardinality(T) \in 0..Len(s)
<1>1. DOMAIN s = 1..Len(s) /\ Len(s) \in Nat
  OBVIOUS
<1>2. IsFiniteSet(1..Len(s)) /\ Cardinality(1..Len(s)) = Len(s)
  <2>1. 1 \in Int /\ Len(s) \in Int
    BY <1>1
  <2>2. Cardinality(1..Len(s)) = IF 1 > Len(s) THEN 0 ELSE Len(s) - 1 + 1
    BY <2>1, FS_Interval
  <2>3. IsFiniteSet(1..Len(s))
    BY <2>1, FS_Interval
  <2>4. Cardinality(1..Len(s)) = Len(s)
    BY <1>1, <2>2
  <2> QED BY <2>3, <2>4
<1>3. IsFiniteSet(T) /\ Cardinality(T) <= Cardinality(DOMAIN s)
  BY <1>1, <1>2, FS_Subset
<1> QED BY <1>1, <1>2, <1>3, FS_CardinalityType

\* A list can be sorted: an item goes where the number of those that have to
\* come before it, or are it, says.
Before(s, i) == {j \in DOMAIN s : s[j] < s[i] \/ (s[j] = s[i] /\ j <= i)}

LEMMA RankIs ==
    ASSUME NEW s \in Seq(Nat)
    PROVE  \E rank \in Bijection(DOMAIN s, DOMAIN s) :
              \A i, j \in DOMAIN s : rank[i] < rank[j] => s[i] <= s[j]
<1> DEFINE D == DOMAIN s
           rank == [i \in D |-> Cardinality(Before(s, i))]
<1>1. D = 1..Len(s) /\ Len(s) \in Nat /\ \A i \in D : s[i] \in Nat
  OBVIOUS
<1>2. ASSUME NEW i \in D PROVE rank[i] \in D /\ IsFiniteSet(Before(s, i))
  <2>1. Before(s, i) \in SUBSET D /\ i \in Before(s, i)
    BY <1>1 DEF Before
  <2>2. IsFiniteSet(Before(s, i)) /\ Cardinality(Before(s, i)) \in 0..Len(s)
    BY <2>1, PositionsFinite
  <2>3. Cardinality(Before(s, i)) # 0
    BY <2>1, <2>2, FS_EmptySet
  <2> QED BY <1>1, <2>2, <2>3
<1>3. ASSUME NEW i \in D, NEW j \in D, s[i] < s[j] \/ (s[i] = s[j] /\ i < j)
      PROVE  rank[i] < rank[j]
  <2>1. Before(s, i) \subseteq Before(s, j) /\ j \in Before(s, j) /\ j \notin Before(s, i)
    BY <1>1, <1>3 DEF Before
  <2>2. /\ Cardinality(Before(s, i)) <= Cardinality(Before(s, j))
        /\ Cardinality(Before(s, i)) # Cardinality(Before(s, j))
    BY <1>2, <2>1, FS_Subset
  <2>3. rank[i] \in Nat /\ rank[j] \in Nat
    BY <1>1, <1>2
  <2> QED BY <2>2, <2>3
<1>4. \A i, j \in D : rank[i] \in Nat /\ (i # j => rank[i] # rank[j])
  <2> SUFFICES ASSUME NEW i \in D, NEW j \in D
               PROVE  rank[i] \in Nat /\ (i # j => rank[i] # rank[j])
    OBVIOUS
  <2>1. rank[i] \in Nat /\ rank[j] \in Nat
    BY <1>1, <1>2
  <2>2. i = j \/ rank[i] < rank[j] \/ rank[j] < rank[i]
    <3>1. \/ i = j
          \/ s[i] < s[j] \/ (s[i] = s[j] /\ i < j)
          \/ s[j] < s[i] \/ (s[j] = s[i] /\ j < i)
      BY <1>1
    <3> QED BY <1>3, <3>1
  <2> QED BY <2>1, <2>2
<1>5. rank \in [D -> D]
  BY <1>2
<1> HIDE DEF rank
<1>6. rank \in Bijection(D, D)
  <2>1. rank \in Injection(D, D)
    BY <1>4, <1>5, Fun_IsInj
  <2>2. rank \in Surjection(D, D)
    BY <1>1, <2>1, FS_Interval, FS_Injection
  <2> QED BY <2>1, <2>2 DEF Bijection
<1>7. \A i, j \in D : rank[i] < rank[j] => s[i] <= s[j]
  <2> SUFFICES ASSUME NEW i \in D, NEW j \in D, rank[i] < rank[j], s[j] < s[i]
               PROVE  FALSE
    BY <1>1
  <2>1. rank[j] < rank[i]
    BY <1>3
  <2> QED BY <1>4, <2>1
<1> QED BY <1>6, <1>7

LEMMA SortedIs ==
    ASSUME NEW s \in Seq(Nat)
    PROVE  /\ Sorted(s) \in Seq(Nat) /\ InOrder(Sorted(s))
           /\ \A x : Cardinality(Positions(Sorted(s), x)) = Cardinality(Positions(s, x))
<1> DEFINE D == DOMAIN s
<1>1. D = 1..Len(s) /\ Len(s) \in Nat /\ \A i \in D : s[i] \in Nat
  OBVIOUS
<1>2. PICK q \in Bijection(D, D) : \A i, j \in D : i < j => s[q[i]] <= s[q[j]]
  <2>1. PICK rank \in Bijection(D, D) : \A i, j \in D : rank[i] < rank[j] => s[i] <= s[j]
    BY RankIs
  <2>2. rank \in [D -> D] /\ \A i \in D : \E k \in D : rank[k] = i
    BY <2>1, Fun_BijectionProperties
  <2> DEFINE q == [i \in D |-> CHOOSE k \in D : rank[k] = i]
  <2>3. q \in [D -> D] /\ \A i \in D : rank[q[i]] = i
    BY <2>2
  <2>4. \A i \in D : \E k \in D : q[k] = i
    <3> SUFFICES ASSUME NEW i \in D PROVE q[rank[i]] = i
      BY <2>2
    <3>1. \A k \in D : rank[k] = rank[i] => k = i
      BY <2>1, Fun_BijectionProperties
    <3> QED BY <2>2, <2>3, <3>1
  <2> HIDE DEF q
  <2>5. \A i, j \in D : q[i] = q[j] => i = j
    BY <2>3
  <2>6. q \in Bijection(D, D)
    BY <2>3, <2>4, <2>5, Fun_IsBij
  <2>7. \A i, j \in D : i < j => s[q[i]] <= s[q[j]]
    BY <2>1, <2>3
  <2> QED BY <2>6, <2>7
<1> DEFINE p == CHOOSE p \in Bijection(D, D) : \A i, j \in D : i < j => s[p[i]] <= s[p[j]]
<1>3. p \in Bijection(D, D) /\ \A i, j \in D : i < j => s[p[i]] <= s[p[j]]
  BY <1>2
<1>4. Sorted(s) = [i \in D |-> s[p[i]]]
  BY DEF Sorted
<1> HIDE DEF p
<1>5. p \in [D -> D] /\ (\A i, j \in D : p[i] = p[j] => i = j) /\ \A i \in D : \E k \in D : p[k] = i
  BY <1>3, Fun_BijectionProperties
<1>6. Sorted(s) \in Seq(Nat) /\ DOMAIN Sorted(s) = D /\ \A i \in D : Sorted(s)[i] = s[p[i]]
  <2>1. \A i \in D : s[p[i]] \in Nat
    BY <1>1, <1>5
  <2>2. DOMAIN Sorted(s) = D /\ Sorted(s) \in [1..Len(s) -> Nat] /\ \A i \in D : Sorted(s)[i] = s[p[i]]
    BY <1>1, <1>4, <2>1
  <2> QED BY <1>1, <2>2
<1>7. ASSUME NEW x PROVE Cardinality(Positions(Sorted(s), x)) = Cardinality(Positions(s, x))
  <2> DEFINE S == Positions(Sorted(s), x)
             T == Positions(s, x)
             f == [i \in S |-> p[i]]
  <2>1. S = {i \in D : s[p[i]] = x} /\ T = {i \in D : s[i] = x}
    BY <1>6 DEF Positions
  <2>2. f \in [S -> T] /\ (\A i, j \in S : f[i] = f[j] => i = j) /\ \A t \in T : \E i \in S : f[i] = t
    BY <1>5, <2>1
  <2>3. f \in Bijection(S, T)
    BY <2>2, Fun_IsBij
  <2>4. IsFiniteSet(S)
    BY <1>6, PositionsFinite DEF Positions
  <2>5. ExistsBijection(S, T)
    BY <2>3 DEF ExistsBijection
  <2> QED BY <2>4, <2>5, FS_Bijection
<1> QED BY <1>3, <1>6, <1>7 DEF InOrder

\* A list in order begins with as many small items as another that has the
\* same ones.
LEMMA FirstDifference ==
    ASSUME NEW s \in Seq(Nat), NEW t \in Seq(Nat), InOrder(s), InOrder(t),
           NEW k \in DOMAIN s, \A j \in 1..k - 1 : j \in DOMAIN t /\ t[j] = s[j],
           k \in DOMAIN t => s[k] < t[k]
    PROVE  Cardinality(Positions(t, s[k])) # Cardinality(Positions(s, s[k]))
<1>1. /\ DOMAIN s = 1..Len(s) /\ DOMAIN t = 1..Len(t) /\ Len(s) \in Nat /\ Len(t) \in Nat
      /\ k \in Nat /\ s[k] \in Nat /\ \A j \in DOMAIN t : t[j] \in Nat
  OBVIOUS
<1>2. ASSUME NEW j \in Positions(t, s[k]) PROVE j \in Positions(s, s[k]) \ {k}
  <2>1. j \in DOMAIN t /\ t[j] = s[k] /\ j \in Nat
    BY <1>1 DEF Positions
  <2>2. j < k
    <3> SUFFICES ASSUME j >= k PROVE FALSE
      BY <1>1, <2>1
    <3>1. k \in DOMAIN t /\ s[k] < t[k]
      BY <1>1, <2>1
    <3>2. t[k] <= t[j]
      BY <1>1, <2>1, <3>1 DEF InOrder
    <3> QED BY <1>1, <2>1, <3>1, <3>2
  <2>3. j \in 1..k - 1 /\ j \in DOMAIN s
    <3>1. j >= 1 /\ k <= Len(s)
      BY <1>1, <2>1
    <3> QED BY <1>1, <2>1, <2>2, <3>1
  <2>4. s[j] = s[k]
    BY <2>1, <2>3
  <2> QED BY <1>1, <2>2, <2>3, <2>4 DEF Positions
<1>3. k \in Positions(s, s[k]) /\ IsFiniteSet(Positions(s, s[k]))
  BY PositionsFinite DEF Positions
<1>4. Positions(t, s[k]) \in SUBSET Positions(s, s[k]) /\ Positions(t, s[k]) # Positions(s, s[k])
  BY <1>2, <1>3
<1> QED BY <1>3, <1>4, FS_Subset

LEMMA OrderIsUnique ==
    ASSUME NEW s \in Seq(Nat), NEW t \in Seq(Nat), InOrder(s), InOrder(t),
           \A x : Cardinality(Positions(s, x)) = Cardinality(Positions(t, x))
    PROVE  s = t
<1> DEFINE Same(j) == j \in DOMAIN s /\ j \in DOMAIN t /\ s[j] = t[j]
           Begun == {n \in Nat : \A j \in 1..n : (j \in DOMAIN s \/ j \in DOMAIN t) => Same(j)}
<1>1. /\ DOMAIN s = 1..Len(s) /\ DOMAIN t = 1..Len(t) /\ Len(s) \in Nat /\ Len(t) \in Nat
      /\ (\A j \in DOMAIN s : s[j] \in Nat) /\ \A j \in DOMAIN t : t[j] \in Nat
  OBVIOUS
<1>2. 0 \in Begun
  OBVIOUS
<1>3. ASSUME NEW n \in Nat, n \in Begun PROVE n + 1 \in Begun
  <2>1. SUFFICES ASSUME n + 1 \in DOMAIN s \/ n + 1 \in DOMAIN t PROVE Same(n + 1)
    <3>1. \A j \in 1..n + 1 : j \in 1..n \/ j = n + 1
      OBVIOUS
    <3>2. \A j \in 1..n + 1 : (j \in DOMAIN s \/ j \in DOMAIN t) => Same(j)
      BY <1>3, <2>1, <3>1
    <3> QED BY <3>2
  <2>2. PICK k \in Nat : k = n + 1 /\ k >= 1 /\ 1..k - 1 = 1..n
    OBVIOUS
  <2>3. \A j \in 1..k - 1 : j \in DOMAIN s /\ j \in DOMAIN t /\ s[j] = t[j]
    <3>1. \A j \in 1..n : j \in DOMAIN s \/ j \in DOMAIN t
      BY <1>1, <2>1
    <3> QED BY <1>3, <2>2, <3>1
  <2>4. ~(k \in DOMAIN s /\ (k \in DOMAIN t => s[k] < t[k]))
    BY <2>3, FirstDifference
  <2>5. ~(k \in DOMAIN t /\ (k \in DOMAIN s => t[k] < s[k]))
    BY <2>3, FirstDifference
  <2>6. k \in DOMAIN s /\ k \in DOMAIN t
    BY <2>1, <2>2, <2>4, <2>5
  <2> QED BY <1>1, <2>2, <2>4, <2>5, <2>6
<1>4. Nat \subseteq Begun
  <2> HIDE DEF Begun
  <2> QED BY <1>2, <1>3, NatBySteps
<1>5. \A j : j \in DOMAIN s \/ j \in DOMAIN t => Same(j)
  <2> SUFFICES ASSUME NEW j, j \in DOMAIN s \/ j \in DOMAIN t PROVE Same(j)
    OBVIOUS
  <2>1. j \in Nat /\ j \in 1..j
    BY <1>1
  <2> QED BY <1>4, <2>1
<1>6. Len(s) = Len(t)
  <2>1. ~(Len(s) < Len(t)) /\ ~(Len(t) < Len(s))
    <3>1. Len(s) < Len(t) => Len(t) \in DOMAIN t /\ Len(t) \notin DOMAIN s
      BY <1>1
    <3>2. Len(t) < Len(s) => Len(s) \in DOMAIN s /\ Len(s) \notin DOMAIN t
      BY <1>1
    <3> QED BY <1>5, <3>1, <3>2
  <2>2. Len(s) \in Nat /\ Len(t) \in Nat
    OBVIOUS
  <2> QED BY <2>1, <2>2
<1> QED BY <1>1, <1>5, <1>6, SeqEqual

\* Sorting and comparing is comparing the items and how often each is there.
LEMMA SortedSame ==
    ASSUME NEW s \in Seq(Nat), NEW t \in Seq(Nat)
    PROVE  Sorted(s) = Sorted(t) <=> SameBag(s, t)
<1>1. ASSUME Sorted(s) = Sorted(t) PROVE SameBag(s, t)
  <2>1. \A x : Cardinality(Positions(s, x)) = Cardinality(Positions(t, x))
    BY <1>1, SortedIs
  <2> QED BY <2>1 DEF SameBag, Positions
<1>2. ASSUME SameBag(s, t) PROVE Sorted(s) = Sorted(t)
  <2>1. ASSUME NEW x PROVE Cardinality(Positions(s, x)) = Cardinality(Positions(t, x))
    <3>1. CASE x \in Range(s) \cup Range(t)
      BY <1>2, <3>1 DEF SameBag, Positions
    <3>2. CASE x \notin Range(s) \cup Range(t)
      <4>1. Positions(s, x) = {} /\ Positions(t, x) = {}
        BY <3>2 DEF Positions, Range
      <4> QED BY <4>1
    <3> QED BY <3>1, <3>2
  <2> QED BY <2>1, SortedIs, OrderIsUnique
<1> QED BY <1>1, <1>2

LEMMA CompareSays ==
    ASSUME NEW text \in Texts, NEW values \in Seq(Nat)
    PROVE  CompareList(text, values) <=> Says(text, values)
<1>1. text.items \in Seq(Nat) /\ text.items # <<>> /\ Len(text.items) \in Nat
  BY DEF Texts
<1>2. /\ SubSeq(text.items, 1, 0) = <<>> /\ SubSeq(text.items, 1, Len(text.items)) = text.items
      /\ <<>> \in Seq(Nat) /\ \A n \in 0..Len(text.items) : SubSeq(text.items, 1, n) \in Seq(Nat)
  BY <1>1
<1>3. <<>> # <<Blank>>
  OBVIOUS
<1>4. ASSUME CompareList(text, values) PROVE Says(text, values)
  <2>1. text.bracketed
    BY <1>4 DEF CompareList, ParseList
  <2>2. CASE text.items = <<Blank>>
    <3>1. Sorted(<<>>) = Sorted(values)
      BY <1>4, <2>1, <2>2 DEF CompareList, ParseList
    <3>2. SameBag(<<>>, values) /\ Denotes(text, <<>>)
      BY <1>2, <2>1, <2>2, <3>1, SortedSame DEF Denotes
    <3>3. 0 \in 0..Len(text.items)
      BY <1>1
    <3> QED BY <1>2, <3>2, <3>3 DEF Says
  <2>3. CASE text.items # <<Blank>>
    <3>1. Sorted(text.items) = Sorted(values) /\ Blank \notin Range(text.items)
      BY <1>4, <2>1, <2>3 DEF CompareList, ParseList
    <3>2. SameBag(text.items, values) /\ Denotes(text, text.items)
      BY <1>1, <2>1, <3>1, SortedSame DEF Denotes
    <3>3. Len(text.items) \in 0..Len(text.items)
      BY <1>1
    <3> QED BY <1>2, <3>2, <3>3 DEF Says
  <2> QED BY <2>2, <2>3
<1>5. ASSUME Says(text, values) PROVE CompareList(text, values)
  <2>1. PICK items \in Seq(Nat) : Denotes(text, items) /\ SameBag(items, values)
    BY <1>2, <1>5 DEF Says
  <2>2. Sorted(items) = Sorted(values)
    BY <2>1, SortedSame
  <2>3. CASE items = <<>> /\ text.items = <<Blank>>
    BY <2>1, <2>2, <2>3 DEF Denotes, CompareList, ParseList
  <2>4. CASE items = text.items /\ Blank \notin Range(items)
    <3>1. text.items # <<Blank>>
      <4>1. Blank \in Range(<<Blank>>)
        BY DEF Range
      <4> QED BY <2>4, <4>1
    <3> QED BY <2>1, <2>2, <2>4, <3>1 DEF Denotes, CompareList, ParseList
  <2> QED BY <2>1, <2>3, <2>4 DEF Denotes
<1> QED BY <1>4, <1>5

\* `plan` accepts what the reference says, and its exit code is 0 or 1.
LEMMA PlanAgrees ==
    ASSUME NEW m \in Manifests, NEW q \in Profiles
    PROVE  PlanExit(m, q) \in {0, 1} /\ (PlanExit(m, q) = 0 <=> Agree(m, q))
<1>1. /\ CompareList(m.gateways, q.gateways) <=> Says(m.gateways, q.gateways)
      /\ CompareList(m.tools, q.tools) <=> Says(m.tools, q.tools)
  BY CliAssumption, CompareSays
<1>2. Errors(m, q) = {} <=>
        /\ m.parses /\ m.valid /\ m.mode = q.mode /\ m.network = q.network
        /\ CompareList(m.gateways, q.gateways) /\ CompareList(m.tools, q.tools)
  <2> DEFINE wrong(field) ==
        /\ m.parses
        /\ CASE field = "MODE" -> m.mode # q.mode
             [] field = "NETWORK" -> m.network # q.network
             [] field = "GATEWAYS" -> ~CompareList(m.gateways, q.gateways)
             [] field = "TOOLS" -> ~CompareList(m.tools, q.tools)
  <2>1. Errors(m, q) = (IF m.parses /\ m.valid THEN {} ELSE {"VIOLATIONS"}) \cup
                       {field \in {"MODE", "NETWORK", "GATEWAYS", "TOOLS"} : wrong(field)}
    BY DEF Errors
  <2>2. Errors(m, q) = {} <=>
          /\ m.parses /\ m.valid
          /\ ~wrong("MODE") /\ ~wrong("NETWORK") /\ ~wrong("GATEWAYS") /\ ~wrong("TOOLS")
    <3> HIDE DEF wrong
    <3> QED BY <2>1
  <2>3. /\ wrong("MODE") <=> m.parses /\ m.mode # q.mode
        /\ wrong("NETWORK") <=> m.parses /\ m.network # q.network
        /\ wrong("GATEWAYS") <=> m.parses /\ ~CompareList(m.gateways, q.gateways)
        /\ wrong("TOOLS") <=> m.parses /\ ~CompareList(m.tools, q.tools)
    OBVIOUS
  <2> HIDE DEF wrong
  <2> QED BY <2>2, <2>3
<1> QED BY <1>1, <1>2 DEF PlanExit, Agree

\* A plan works on files of the right form, and an exit code of 0 or 1 is what
\* the comparison gave.
Planned(p) == cmd[p].name = "plan" /\ cmd[p].st # "idle" =>
    /\ cmd[p].input.manifest \in Manifests /\ cmd[p].input.profile \in Profiles
    /\ cmd[p].st = "ended" /\ cmd[p].exit # 2 =>
         cmd[p].exit = PlanExit(cmd[p].input.manifest, cmd[p].input.profile)

AllPlanned == \A p \in Clients : Planned(p)

LEMMA PlannedNext == ASSUME Places, AllPlanned, [Next]_vars PROVE AllPlanned'
<1>0. Types /\ cmd \in [Clients -> CmdType]
  BY DEF Places, Types
\* One command goes on.
<1>a. ASSUME NEW p \in Clients, \A q \in Clients \ {p} : cmd'[q] = cmd[q],
             Planned(p)' \/ cmd'[p].name # "plan"
      PROVE  AllPlanned'
  BY <1>a DEF AllPlanned, Planned
<1>b. CASE UNCHANGED cmd
  BY <1>b DEF AllPlanned, Planned
<1>1. ASSUME NEW p \in Clients, Plan(p) PROVE AllPlanned'
  <2>1. cmd[p].input.manifest \in Manifests /\ cmd[p].input.profile \in Profiles
    BY <1>1 DEF Plan, AllPlanned, Planned
  <2>2. PlanExit(cmd[p].input.manifest, cmd[p].input.profile) \in {0, 1}
    BY <2>1, PlanAgrees
  <2>3. PICK code \in 0..2 :
           /\ Exit(p, code, {})
           /\ code # 2 => code = PlanExit(cmd[p].input.manifest, cmd[p].input.profile)
    BY <1>1, <2>2 DEF Plan
  <2>4. /\ cmd'[p].exit = code /\ cmd'[p].input = cmd[p].input
        /\ \A q \in Clients \ {p} : cmd'[q] = cmd[q]
    BY <1>0, <2>3, ExitIs
  <2>5. Planned(p)'
    BY <2>1, <2>3, <2>4 DEF Planned
  <2> QED BY <1>a, <2>4, <2>5
<1>2. ASSUME NEW p \in Clients, LaunchPlan(p) PROVE AllPlanned'
  <2>1. PICK manifest \in Manifests, profile \in Profiles :
          cmd' = [cmd EXCEPT ![p] = [NotRun EXCEPT !.st = "send",
                    !.input = [manifest |-> manifest, profile |-> profile]]]
    BY <1>2 DEF LaunchPlan
  <2> DEFINE new == [NotRun EXCEPT !.st = "send",
                       !.input = [manifest |-> manifest, profile |-> profile]]
  <2>2. new.st = "send" /\ new.input.manifest = manifest /\ new.input.profile = profile
    BY DEF NotRun
  <2>3. cmd'[p] = new /\ \A q \in Clients \ {p} : cmd'[q] = cmd[q]
    BY <1>0, <2>1
  <2> HIDE DEF new
  <2>4. Planned(p)'
    BY <2>2, <2>3 DEF Planned
  <2> QED BY <1>a, <2>3, <2>4
\* The other commands are no plans.
<1>3. ASSUME NEW p \in Clients, NEW n \in Names \ {"plan"}, Launch(p, n) PROVE AllPlanned'
  BY <1>0, <1>3, <1>a, LaunchIs
<1>4. ASSUME NEW p \in Clients, NEW code \in 0..2, NEW by \in SUBSET Servers, Exit(p, code, by),
             cmd[p].name # "plan"
      PROVE  AllPlanned'
  BY <1>0, <1>4, <1>a, ExitIs
<1>5. ASSUME NEW p \in Clients, Send(p) PROVE AllPlanned'
  <2>1. cmd[p].name # "plan"
    BY <1>5 DEF Send
  <2>2. CASE Listens
    BY <1>5, <1>a, <2>1, <2>2, SendIs
  <2>3. CASE ~Listens
    BY <1>5, <1>4, <2>1, <2>3 DEF Send
  <2> QED BY <2>2, <2>3
<1>6. ASSUME NEW p \in Clients, cmd[p].st = "wait" PROVE cmd[p].name # "plan"
  BY <1>6 DEF Places, Place, Talking
<1>7. ASSUME NEW p \in Clients, Receive(p) PROVE AllPlanned'
  <2>1. cmd[p].name # "plan" /\ Heard(p) \in SUBSET Servers
    BY <1>6, <1>7, ReceiveIs
  <2>2. CASE Exit(p, 1, {}) \/ Exit(p, 2, {}) \/ Exit(p, 0, Heard(p))
    BY <1>4, <2>1, <2>2
  <2>3. CASE (\A q \in Clients \ {p} : cmd'[q] = cmd[q]) /\ cmd'[p].name = cmd[p].name
    BY <1>a, <2>1, <2>3
  <2> QED BY <1>7, <2>2, <2>3, ReceiveIs
<1>8. ASSUME NEW p \in Clients, NoAnswer(p) PROVE AllPlanned'
  BY <1>4, <1>6, <1>8 DEF NoAnswer
<1>9. ASSUME NEW s \in Servers,
             Bind(s) \/ SetMode(s) \/ Killed(s) \/ Serve(s) \/ \E k \in Programs[s] : Remove(s, k)
      PROVE  AllPlanned'
  BY <1>b, <1>9 DEF Bind, SetMode, Killed, Serve, Remove
<1>10. CASE UNCHANGED vars
  BY <1>b, <1>10 DEF vars
<1> QED BY <1>1, <1>2, <1>3, <1>5, <1>7, <1>8, <1>9, <1>10 DEF Next, Starts, Command

\* Whatever files it is given, `plan` accepts a manifest exactly if it is valid
\* and demands the gateways and tools of the profile, in whichever order both
\* list them; an item that is listed twice is not the same as one listed once.
THEOREM CliPlanIsExact == Spec => []PlanIsExact
<1>1. Init => AllPlanned
  BY DEF Init, NotRun, AllPlanned, Planned
<1>2. AllPlanned => PlanIsExact
  <2> SUFFICES ASSUME AllPlanned, NEW p \in Clients, cmd[p].st = "ended", cmd[p].name = "plan",
                      cmd[p].exit # 2
               PROVE  cmd[p].exit = 0 <=> Agree(cmd[p].input.manifest, cmd[p].input.profile)
    BY DEF PlanIsExact
  <2> QED BY PlanAgrees DEF AllPlanned, Planned
<1> QED BY <1>1, <1>2, InitPlaces, PlacesNext, PlannedNext, PTL DEF Spec
================================================================================
