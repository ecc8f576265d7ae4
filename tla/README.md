# TLA+ models of viper-boxd

`viper-boxd` runs short-lived, sandboxed jobs ("boxes") as transient systemd
user units.  A privileged helper starts and ends them behind a small JSON
protocol on a Unix socket; gateways on sockets of their own give a box its only
way to a model or to the web.  This directory holds TLA+ models of the parts
that have state, the TLC configurations that check them on small instances, and
proofs for TLAPS.  Paths below are relative to the repository.

    tlc -workers 2 -config HelperSafety.cfg MCHelper.tla      # one run
    tlapm HelperProofs.tla                                    # one module of proofs

## 1. Inventory

| Component (source) | State | Operations | What makes it hard | Status |
| --- | --- | --- | --- | --- |
| Admission controller (`src/admission.rs`) | set of active box ids, FIFO deque, limit | new, admit, release, start_next, cancel_queued | the limit, no jumping of the queue, cancellation in the middle | modelled, proved |
| Helper (`src/bin/viper-helper.rs`) | `states` (box -> unit, status, scratch path) behind one mutex; controller and `pending` parameters behind another; systemd's units; scratch directories | spawn, kill, cleanup, admission/drain, status, metrics, one watchdog thread per started box | every request is a chain of critical sections and external commands; watchdogs run between any two of them | modelled, safety proved |
| Helper start-up (`reconcile_orphaned_boxes`, `main`) | listed orphans | list, stop, reset-failed, remove scratch, then serve | crashes at any point, units that end or start meanwhile, failing commands | modelled, safety proved |
| Model gateway (`src/bin/viper-model-gateway.rs`, `src/model_provider.rs`, `src/ipc.rs`) | request budget, the connection being served, an mpsc channel per stream, sockets | MODEL_GENERATE plain and streaming, EMBED | one server thread for all, abandoned reader threads, time-outs, half-written frames, callers that leave; three matches on the provider that trust the loaded configuration | modelled, safety proved |
| Lineage store (`src/lineage.rs`) | one JSON file per box, in-memory index | open, register, is_narrower_than | crash between write and rename, errors, a second process that scans | modelled, proved |
| Research gateway, policy, fetcher, search (`src/bin/viper-research-gateway.rs`, `src/research_*.rs`, `src/search_provider.rs`) | request budget | FETCH, SEARCH | one thread, changing name-service answers, the byte limit, sanitising | modelled, safety proved |
| Command line (`src/main.rs`) and `ipc.rs` | the socket path; a command's place in its list of requests | plan, backend-self-test, gateway-self-test, the probe commands; `bind_unix_socket`, `send_request` | several servers on one path, a server replaced between two requests, answers that come too late, which lists must agree | modelled, safety proved |
| No-op backend, mock helper, mock gateway (`src/noop_backend.rs`, `src/bin/viper-helper-mock.rs`, `src/bin/viper-gateway-mock.rs`) | box -> status | spawn, status, kill, cleanup; a table of answers | any order of calls, requests whose sender has given up | modelled, the life cycle proved |
| Observability (`src/observability.rs`) | the audit file | append_jsonl, utc_timestamp, Prometheus text | writes in pieces, torn lines, two processes; calendar arithmetic | modelled, proved, but for the Prometheus text |
| Status and metrics of the helper | none | status, capabilities, metrics | read two tables while threads run | partly: what is metered is `Metered`, the readers are no actions |
| Capability and other probes | none | straight-line reads of the host, one-shot test programs | nothing a model would show | not modelled |
| Configuration, profiles, deployment files | none | data | | not modelled |

How they interact: a client sends one request per connection to the helper,
which calls the controller under its mutex, systemd through `systemctl` and
`systemd-run`, and at start-up reads the lineage store (written by another
process: nothing under `src/` calls `register` outside the tests).  A started
box reaches a gateway over a bind-mounted socket, served by
`viper-model-gateway`, whose streaming transports read the provider on
background threads.  Helpers, mocks and gateways all take their socket with
`bind_unix_socket`, which removes whatever was there; the commands talk to
whoever has the path when they connect.  Every request a helper has handled is
appended to its audit file before it is answered.

## 2. Modules

| Module | Models | Notes |
| --- | --- | --- |
| `FifoCapacity` | the promise of the admission controller: a bounded set of holders, served in order of arrival | abstract |
| `Admission` | `AdmissionController`, one action per call | implements `FifoCapacity` |
| `Helper` | server thread, watchdogs, systemd, scratch directories | uses `Admission` through `Controller == INSTANCE Admission` |
| `HelperRestart` | crash, start-up, reconciliation, composed with `Helper` | EXTENDS `Helper` |
| `ModelGateway` | configuration, server thread, background readers, channels, sockets, callers | |
| `ResearchPolicy` | the URL check and `sanitize_html` as operators, with reference definitions | |
| `ResearchGateway` | server thread, budget, name service, upstream | EXTENDS `ResearchPolicy` |
| `LineageStore` | a registering process that crashes and fails, and a concurrent scan | |
| `BoxLifecycle` | the life of a box as `BACKEND_CONTRACT.md` promises it | abstract |
| `NoopBackend` | the in-memory backend | implements `BoxLifecycle` |
| `PlanGate` | `parse_list`, `compare_list`, `run_plan` as operators, with a reference definition | |
| `Cli` | commands, mock servers, the socket path between them | EXTENDS `PlanGate`, implements `BoxLifecycle` |
| `AuditLog` | `append_jsonl` in two processes, `utc_timestamp` | |
| `AdmissionProofs`, `HelperProofs`, `GatewayProofs`, `ResearchProofs`, `LineageProofs`, `NoopBackendProofs`, `CliProofs`, `AuditProofs` | the theorems, each about the module in its name; `HelperProofs` is about `HelperRestart` too | TLAPS |
| `MC*` | symmetry sets and values for TLC | |

Correspondence with the code:

* **Helper.**  `active`/`queued` are the controller's fields, `pending` and
  `states` the two tables (a box without an entry is `ABSENT`), `paths` the
  boxes whose entry has a non-empty `scratch_path`, `units` and `scratch` what
  systemd and the file system hold.  `pc` and `job` are each thread's place in
  the code and its locals.  An action is one critical section, one external
  command or one directory operation, in the order of the code; so `admit_spawn`
  is `ReceiveSpawn`, `AdmitNow`/`AdmitQueued`/`AdmitRefused`, `KeepParams`,
  `MarkQueued`, and `spawn_box` is `CheckSpawn`, `MakeScratch`, `RunUnit`,
  `InsertStarting`, shared by the server thread and by every watchdog that
  drains.  Two critical sections of `kill` (look the box id up, set the status)
  are one action, because what another thread can do between them (remove the
  entry) gives the same result when done after.  The unit name and the handle
  are injective in the box id.  Requests that are refused for their own content
  change nothing and are left out; a requirement the backend cannot enforce is
  kept, because a queued request is refused for it only when it is started.
* **HelperRestart.**  `Restart` forgets everything the process held and keeps
  `units` and `scratch`.  A `systemd-run` the old process was waiting for is not
  killed with it: it stays in `inFlight` and may start its unit at any later
  time (`LateStart`).  The panic of the server thread ends the process
  (`"dead"`), and a start that fails ends it too; both are followed by a
  `Restart` or by nothing.
* **ModelGateway.**  A connection is a call; the request line, the frames and
  their text are reduced to what the relay and the client branch on (`Forms`,
  `done`, `error`, whole or torn, the number of the item).  A non-streaming
  reply is one frame with `done`.  `Buffer` stands for the socket buffer: a
  write fails when the peer has gone, or when the buffer is full and the peer
  does not read for `SERVER_IO_TIMEOUT`; what has gone out by then is nothing, a
  torn frame, or the whole frame but its newline.
  `Loads` is `GatewayConfig::load` and `resolved_api_key` together: a gateway
  whose configuration does not pass never accepts a connection.  `HasArm` is the
  other side: where the three matches on the provider end in `expect` or
  `unreachable!()`, the model has the place `"panicked"`.  A blocking provider
  call, MODEL_GENERATE or EMBED, is one action whose answer is chosen among the
  kinds that the parsers tell apart.
* **ResearchGateway.**  A FETCH is `Fetch` (budget and `validate_fetch_url`),
  `Resolve`, `OpenConnection` (which connects to the address in `job.address`,
  as `Client::resolve` makes it), then `Deliver` or `RefuseResponse`.  A URL is
  what the policy looks at, a page a sequence of tokens that count one byte each
  towards `max_fetch_bytes`.  `Sanitize` returns the positions of the tokens
  that reach the result, so that order, losses and repetitions are visible; 0
  marks the slice that panics (`Panic`).  The reference (`InScript`, `Readable`)
  takes a script for a script however its start tag is written, the code
  (`EndOf`) only if it is exactly `<script>` or `<style>`.  The name service may
  answer every look-up differently.
* **LineageStore.**  `disk`, `temps` and `index` are the `.json` files, the
  temporary files and the records in memory.  Each system call of `register` is
  an action and can fail.  The scan may miss a file that appears after it began
  and never one that was there before.
* **Cli.**  A server process is a member of `Servers` that runs once;
  `bind_unix_socket` is its three system calls `Remove`, `Bind`, `SetMode`, all
  of which go by the path.  A command is its list of requests (`Script`), what
  it expects of each answer (`Expected`), and an exit code; each request is a
  connection to the server that has the path at that moment, and is handled even
  if its command has given up (`NoAnswer`).  `caller` stands for other users of
  the socket.  `plan` talks to nobody: it is one step, over the operators of
  `PlanGate`, where `Sorted` says what a sort leaves: a permutation in order, the
  items being numbers.  `jfp_box`, which parses and validates manifests, is
  another crate.
* **AuditLog.**  serde_json writes to the file without a buffer, so an event is
  `Pieces` writes and the end of the line.  A failing write is only logged by
  `serve`, as in `AppendFails`.  The clock is a constant of each behaviour.

## 3. Runs

| Run | Question | Instance | Answer |
| --- | --- | --- | --- |
| `admission` | do the limit and the FIFO promise hold? | 5 ids, limit 2 | holds |
| `helper_safety` | is a queued box ever stranded beside a free slot (`WorkConserving`)? In histories where no id is admitted twice: has an answered kill freed its slot for good (`KilledHoldsNoSlot`)? Where no command has failed either: does everything that runs or is metered hold a slot, is a slot given back only after the unit has stopped, does a waiting box keep parameters and entry? | 3 ids, reused, limit 1, 3 requests, 1 failing command | holds |
| `restart` | what runs after a crash and a start-up; is every request answered, does every watchdog end, drains and refused starts included? | 2 ids, reused, 2 requests, 2 crashes, 1 recorded box, 1 failing command, fair threads | holds |
| `gateway` | no panic, budget, order of frames, visibility of losses, nobody waits for ever | 2 calls, budget 1, every provider, key and section, 3 items, buffer 1 | holds |
| `research` | is the connection made to the checked address of an allowed URL, is a page never cut, is no text outside scripts lost, repeated or out of order, does the budget bound the connections, is every caller served unless the thread panics? | 2 calls, budgets 0 and 1, every page of up to 4 tokens, limit 4, fair thread | holds |
| `lineage` | can the directory always be opened, do records last and never broaden, does the scan see what was registered? | 3 ids, 1 gateway, 1 crash, 1 failure | holds |
| `cli` | does the path end up with a server, what does an exit code of 0 say, is `plan` exact, do boxes keep their life cycle, does every command end? | 2 servers, 2 commands, 2 process ids, 1 server killed; 12 manifests, 5 profiles | holds |
| `audit` | can an accepted event be read back, is the timestamp the date of the clock? | 2 helpers, 2 events each, 2 faults; every day of 13 years | holds |
| `helper_panics` | `expect("queued state was checked above")` | | violated |
| `helper_expiry_slot` | "A successful `kill` or TTL expiry frees one slot" | | violated |
| `helper_retained` | "the Box is retained in FIFO order" | | violated |
| `gateway_complete` | "a mid-stream failure still ends with a `done: true` frame, carrying `error`" | | violated |

`OncePerId` ("no id is admitted twice") and `Regular` ("and no command has
failed") in `Helper` are needed: without them the properties that use them fail
for the reasons given as disagreement 2 and under "Others seen" below.

Bounds, all of them in guards: `MaxRequests` (admitted spawns), `MaxFaults`
(failing external commands; failing calls and deaths in `AuditLog`),
`MaxCrashes`, `MaxItems`, `Buffer`, `MaxFailures`, `MaxLimit`, `MaxBudget`,
`MaxBytes`, `MaxKills` (servers killed), `MaxEvents`.  Why they are enough:

* The races of the helper need a running box, a queued one and, for the stale
  watchdog, a second start of the same id: one slot and three requests; a third
  id lets two boxes wait.  Type correctness, `WorkConserving` and the limit are
  proved for every number.
* In the model gateway two calls show everything one call can do to the next
  (the server thread serves them in turn), and a buffer of one with three items
  reaches full buffers, gaps and torn frames.  The configuration files are one
  per combination that the load or a match tells apart.
* Four tokens are a script with text inside and a tag or text beside it.  With a
  budget of one the second of two calls finds it spent.
* In the lineage store three boxes make a chain of two inheritances; `MaxLimit`
  is 0 there, so that only the gateway lists of the policies differ: the numeric
  limits are compared in the same way, and the two comparisons do not interact.
* Two servers are what one path needs to be taken over, two commands what one
  needs to be disturbed.  Servers and process ids are numbered in the order of
  their start, which loses only renamings.  `Programs` fixes what the first
  server is, a helper, and leaves the second open.  `plan` shares nothing with
  other processes and is run alone (`LaunchPlan`, `Alone`).
* Two pieces of JSON are what a write in between needs.  Requests come at one
  clock (`Working`), since the timestamp and the file do not interact; the 13
  years cover leap years, ends of centuries of both kinds and a clock before
  1970.

`CHECK_DEADLOCK FALSE` is said where the system may rest: all requests of the
bound spent and every box ended, or every box registered and the scan over, or
every command ended.

Symmetry is used in safety runs only, over box ids, which no module orders; no
liveness property is checked under symmetry.

### Fairness

`Helper!FairSpec`, and `RestartFairSpec` with the start-up as a part of the
server thread, assume that a thread that can take a step takes one (the
operating system schedules threads, mutexes are released, sleeps end) and
nothing of clients, boxes, or whoever restarts the helper.  It also assumes that `systemctl` returns: only
`systemd-run` has a time-out in the code (`start_unit`, two seconds), a hanging
`systemctl` would block the server thread, and the model does not show that.
`ModelGateway!FairSpec` assumes weak fairness of the server thread as a whole,
justified by the time-outs on each of its waits (`SERVER_IO_TIMEOUT`, the idle
time-out, the client time-out of the blocking provider call).  Providers and
callers may stop at any point; only `CallerReturns` speaks of a caller that
keeps reading.  `ResearchGateway!FairSpec` is the same for its thread
(`timeout_seconds` and `TIMEOUT_SECONDS` bound the upstream).  `Cli!FairSpec`
assumes that each command is scheduled and its five seconds pass, and nothing of
the servers.  The lineage store and the audit log are checked for safety only.

## 4. Proofs

Each module of proofs states what holds for every value of the constants; the
bounds of section 3 (`MaxRequests` and so on) are constants too, so "every"
includes every bound.

* **`AdmissionProofs`.**  `AdmissionInvariant`: `Spec => [](TypeOK /\
  CapacityRespected /\ OnePlace)`.  The inductive invariant is the conjunction:
  the bound on the active set needs its finiteness (in `TypeOK`), and that
  `start_next` adds one element at most; that an id is in one place needs that
  the deque has no repetitions, because `cancel_queued` removes one occurrence.
  `AdmissionImplementsFifo`: `Spec` implies `FifoCapacity` under a mapping that
  forgets the deque: the waiting boxes are its range, and who came before whom
  is the order of its elements.  Each call is one step of the abstract
  specification.
* **`HelperProofs`.**  `HelperObeysController`: every step of every thread is
  one call of one method of the controller, or none, so the helper implements
  `Admission` and `HelperRespectsCapacity` follows from `AdmissionInvariant`:
  slots never exceed the limit, whatever the threads do.  This much needs only
  that a thread inside `spawn_box` or `admit_spawn` has a box.
  `HelperWorkConserving` needs more.  A slot is freed in two ways: by `release`,
  which is followed by a drain, and by a failed start, which is not when the
  start came from `admit_spawn`.  The invariant `Places` says why that is
  harmless: such a start was admitted past an empty queue, only the server
  thread adds to the queue, and the server thread is still inside `spawn_box`;
  so the queue is still empty.  `HelperTypeCorrect` is the rest of the
  conjunction.
  The second part of the module is about single boxes: `HelperRunningHoldsSlot`,
  `HelperKilledHoldsNoSlot`, `HelperQueueIsBacked` and `HelperReleasedIsStopped`.
  None of the four is inductive.  The invariant `Lives` gives each box whose id
  is admitted once its life: from the reservation to the end of `spawn_box`
  exactly one thread handles it, no watchdog of it exists and the slot is kept
  (`ThreadLife`, `Apart`); a thread that stops, kills or cleans up a box is about
  one that was started; the tables follow (`BoxLife`).  It needs no assumption on
  failures.  Where no command has failed either, `Stops` adds that a thread about
  to give a slot back has seen the unit stop.  The histories are a hypothesis in
  the invariant and not of the theorems' specification: both conditions, once
  broken, stay so (`RegularBefore`).
  The third part is the start-up: `RestartFailsClosed`.  A process that starts has
  no watchdogs (`Quiet`), so that only systemd, `main` and a late `systemd-run`
  touch the units, and whatever runs meanwhile is recorded, came late, or is
  still on the list of orphans (`Swept`).
  The last part is `RestartLeavesNoOrphan`, which carries the second part across
  crashes: after a restart every box an earlier process knew is `Forgotten`, in no
  table and in no thread's hands; a `systemd-run` that outlived its helper is for
  such a box (`Outlived`), so it can start a unit but is confused with no new
  request; and `Covered` is the theorem's statement at every moment a process
  serves, and not only between requests.
* **`GatewayProofs`.**  `GatewayNeverPanics` and `GatewayBudgetBounds` from an
  invariant about the configuration, the set of calls contacted and the units
  left: a set grows by one element at most, and only where a unit is taken.
  `GatewayReaderLeavesAnItem` from `HandOver`: while the relay loop of a call
  runs, its thread does, or the last item of the channel ends the stream.
  `GatewayFramesInOrder` and `GatewayGapsShow` follow the numbers from the
  provider to the caller.  `Served`: a connection is served once, so a call has
  one relay at most and nothing is on its wire before.  `Flow`: the k-th item in
  the channel is the one the relay will number `job.seq + k - 1`, and the last is
  the last one made, or a failure after it.  `WireInv`: what the caller has read
  and what waits in its socket are in order, every whole frame has the number of
  its item, and the next frame of the call being served comes after them all
  (`Room`).  A caller content with its stream holds a final frame, whose number
  is that of the last item made: with no number missing it has them all.
  `GatewayTypeOK` adds the bounds, the numbers in `job.seq` and in the frames
  being at most `made` by `Flow` and `WireInv`.
* **`ResearchProofs`.**  `ResearchPinnedToChecked` from `PeerInv` (the URL has
  passed the check before the look-up, the address is one of the answer before
  the connection), `ResearchBudgetBounds` with the unit taken and not yet used
  (`Due`), `ResearchAcceptedIsWhole` from the fact that a prefix no longer than
  the limit, read to one past it, is the whole.  `ResearchTypeOK` needs
  `CallInv`: who waits, waits once, and who is served has left the queue.
  `ResearchTextIsClean` looks inside `sanitize_html`.  `TextFrom` says what the
  loop finds, in the loop's own terms: the text that no exact `<script>` hides.
  `RoundLists`: one round gives the text up to the next element, and what it then
  goes on with is the text behind that element, because nothing in an element that
  ends belongs to `TextFrom` (`TextFromSplits`).  Two inductions from the end of
  the page to its beginning (`Backwards`) make the loop of it: the text from each
  position has a list, which is the only one (`ListIsUnique`), so the equation of
  the loop has a solution (`LoopIs`); and what any solution gives is that list
  (`LoopLists`).  `TextIs` compares it with the reference: all text outside scripts
  is in it, and if no script has attributes nothing else is.
* **`LineageProofs`.**  `LineageReopens`, `LineageIsDurable`,
  `LineageIsImmutable`, `LineageScanIsComplete`, `LineageTypes`: what is on disk
  was checked against a parent that was on disk before, and nothing is ever
  taken away or replaced.  `LineageIsNarrow` is about whole chains.  The ancestors
  of a box are defined as the least set closed under `parent`, and the proof needs
  no induction along the chain: by `Rooted` some closed set of known boxes
  above each box does not have the box itself (those known when it was
  registered), so no box is its own ancestor; and the boxes whose policy is at
  least as wide as a box's are closed too, because `NarrowerTransitive`.
* **`NoopBackendProofs`.**  `NoopImplementsLifecycle`: each call is a step of the
  life cycle of one box or leaves all of them alone.
* **`CliProofs`.**  `CliTypeOK` from `Places`, which says how far each command is
  and what it may be waiting for.  `CliPathIsServed` from `Taken`: while the path is
  free a server is about to take it, and a server that has the path has
  restricted the socket before it serves.  `CliImplementsLifecycle`: a request
  handled by a mock helper, whoever sent it and whether or not anyone still waits,
  is a step of the life cycle of one box.  `CliPassedIsGenuine` relates the answers
  a command has counted to the state of the servers that gave them.  `Queued`: a
  request in a backlog is the only one its command waits for, or its command has
  given up.  `Genuine`: as long as a command is content, n answers of one server
  mean that its box there has come as far as `Stage` says, and no later request,
  of this command or of an abandoned one, takes it back.
  `CliPlanIsExact` is about the two lists that `plan` sorts and compares.
  `RankIs`: an item that goes where the number of smaller and equal ones before it
  says gives a permutation in order, so there is one.  `OrderIsUnique`: two lists
  in order that have the same items equally often do not differ at a first place
  (`FirstDifference`).  So equal after sorting is equal as bags (`SortedSame`).
* **`AuditProofs`.**  `AuditAcceptedIsReadable`.  `Lone`: while a helper writes and
  its event was not overlapped, nobody else writes, and the pieces it has written
  are the end of the file.  An event is then lost only if there was an unfinished
  line when it began.  The invariant counts: the accepted events that are lost,
  plus one while an unfinished line at the end of the file has not cost an event
  yet (`Owing`), are at most the faults; a fault pays for the one it leaves, and
  the end of the line that is lost makes good for the next.  What can be read back
  stays so because the file only grows (`ReadableStays`).  `AuditTypeOK` is the
  rest.
  `AuditTimestampIsDate` is about the calendar, for every clock.  The quotients of
  `utc_timestamp` place a day in its era, its year and its month (`YearOfDay`,
  `DateOfDay`, `TimeOfDay`), the 366th day of a year, which begins in March, being
  there only before a 29 February that exists (`LastDayOfYear`, `LeapDay`).  On the
  other side the days before a year are counted as the property counts them: the
  leap years in an interval one after the other (`LeapCount`, an induction), the
  months by the values of their sum (`DaysBefore`).  `DaysAddUp` joins the two.

Assumptions: `Limit` is a positive number, as `AdmissionController::new`
enforces; the value that stands for "no box", "no call" or "no gateway" is none
of them; the configuration files are records of the type `GatewayConfig` has;
budgets and byte limits are numbers, those that `load` refuses being zero; a text
split at its commas has at least one piece, be it blank.

Only model-checked:

* the liveness properties (`ThreadsFinish`, `EveryCallServed`, `CallerReturns`,
  `CommandEnds`), which rest on fairness and ENABLED, out of reach of the proofs.

Every safety property of the passing runs is proved.  What an algorithm computes
for every input needs an induction over its data.  The induction theorems of the
library take an operator, which the provers here cannot instantiate; where a proof
needs one, it is about a set of numbers (`NatBySteps`, in three modules), drawn
from the least number that is not in it.

## 5. Where code and documents disagree

Four disagreements have a run (section 3 and the findings in `PROJECT.json`):

1. **Panic.**  `kill` or `cleanup` of a queued box looks the entry up twice; a
   watchdog that drains in between removes it, and the `expect` at
   `viper-helper.rs:1074` ends the helper.
2. **Lost slot.**  `cleanup` before the time-out removes the entry; the
   watchdog finds none and releases nothing.  The slot is gone until a restart.
3. **Dropped box.**  A drain between the admission of a queued box and the
   storing of its parameters takes the id, finds no parameters and goes on; the
   box has been answered QUEUED, holds a slot and never runs.
4. **Silent gap.**  A failed write in mid-stream is only remembered; if the
   caller reads on it gets the rest and a `done` without an error.

Others seen while modelling, which the model contains but no run states:

* Scripts are returned as text.  `sanitize_html` drops what stands in a
  `<script>` or `<style>` written exactly so (`research_policy.rs:104`, `111`).
  A start tag with attributes or a space, `<script src=...>`, is a tag like any
  other (line 118), and the code behind it is returned, although the page is well
  formed and `RESEARCH_GATEWAY_PLAN.md:34` says "strip active HTML elements before
  returning text".  The model has such scripts (`"<script ..>"`): the page
  `<script ..> text </script>` yields its second token.  `TextIsClean` therefore
  promises for all well-formed pages only that no text outside scripts is lost,
  repeated or out of order, and exactness if there is no such tag (`PlainScripts`).
* A watchdog acts on the id, not on its start (`viper-helper.rs:748`, `761`).
  After cleanup and a second spawn of the id it stops the new start's unit and
  frees its slot too early, so that more boxes can run than there are slots
  (`README.md:231`).
* In the same way a late watchdog marks the QUEUED entry of a re-used id
  TIMED_OUT; `kill` then takes the box for a started one, answers, frees
  nothing, and the box is started later.  It takes four or five admissions.
* `kill` of a queued box is answered CANCELLED even when `cancel_queued` found
  nothing because a watchdog is starting the box (`README.md:234`).
* `cleanup` of a running box removes its directory and entry while the unit
  runs on (`BACKEND_CONTRACT.md:146`).
* A failed start leaves the scratch directory, and the id cannot be started
  again (`BACKEND_CONTRACT.md:172`).
* A watchdog ignores a failed `systemctl stop`, releases the slot and drains
  (`admission.rs:59`).
* KILLED and TIMED_OUT overwrite each other (`BACKEND_CONTRACT.md:227`).
* `kill` of a unit that has ended by itself is answered ERR_KILL_FAILED
  (`BACKEND_CONTRACT.md:140`).
* A restarted helper begins with an empty controller, although
  `admission.rs:14` says active units are reconstructed first.
* `is_narrower_than` does not compare `required_backend`.
* `backend-self-test` ends with 0 although kill and cleanup were answered with
  errors, when another server has taken the path in between; its box then keeps
  running.  A spawn whose `send_request` has given up leaves a running box too.
  A server whose path was taken keeps running and cannot be reached.
* Ollama's blocking answer may hold an empty text; an error object in its stream
  parses as a line without text, since every field has a default.
* A failed append to the audit file is only logged; two helpers with one audit
  file interleave their lines.
* The probes of the helper call `systemd-run --wait` without a time-out, on the
  only server thread.
* `sanitize_html` returns the text before an element that does not end twice
  (`a < b` becomes `a a < b`), and keeps what follows an unclosed `<script>`.  An
  end tag with a space, `</script >`, does not end a script for it: the text up to
  the next `</script>` is lost, or the script counts as unclosed.  The model
  contains both (`"<"`, `"</script ..>"`); `TextIsClean` speaks of the
  other pages (`WellFormed`).
* `sanitize_html` slices at a byte that may lie inside a character; the panic
  ends the research gateway (`Panic`, which `EveryCallServed` exempts).
* `backend-self-test` against a helper that is not the mock would expect TIMED_OUT
  of `status` (`main.rs:208`, `231`).  That branch is not in `Cli`, whose helpers
  are mocks; the systemd helper does not get there either, since it answers the
  second request with ERR_MOUNT_SETUP (`viper-helper.rs:808`) instead of FAIL_CLOSED.

## 6. What the checks do not show

Power loss (the lineage directory is not synced after the rename), hanging
`systemctl` calls, the order in which the two mutexes are taken (no path takes
them in the reverse order of `runtime_metrics`, so a critical section is one
action), requests that are refused for their content, the results of a search,
the classification of addresses, the parsing of provider bodies beyond its
outcome, what `jfp_box` makes of a manifest, real time: a time-out is something
that may happen at any moment once the wait has begun.

Steps that are coarser than the code: `ReconcileOrphan` is the stop,
`reset-failed`, the removal of the scratch directory and the audit record of one
orphan, and a crash comes before or after all of them; `RunUnit` makes a unit
active in the step in which `systemd-run` returns, although it is called with
`--no-block`.  Drains end in `ThreadsFinish` because the admitted spawns are
bounded (`MaxRequests`): callers that refill the queue for ever are not modelled.
Events that two helpers write at the same moment are exempt in
`AcceptedIsReadable`: their lines do overlap (section 5).

Not modelled, because there is no state and no choice in it: the capability,
file-system, network, resource, signal and gateway probes (straight-line reads
of the host and one-shot programs; the commands that ask for them are in `Cli`),
the Prometheus text, configuration and deployment files beyond what `Loads`
looks at, audit ids (a counter hashed with the time).  Status, capabilities and
metrics of the helper change nothing; `Metered` says what metrics would count.

## 7. What is left

The order in which this was built: admission with its proofs, helper, start-up,
both gateways, lineage; then the command line with the mocks and the life cycle,
the audit log; then the proofs, and with them every safety property of the
passing runs.

Worth doing next: `AppendFails` on a file system that also loses what was written;
crashes inside `ReconcileOrphan`; and the capability probes, if they ever keep state.
