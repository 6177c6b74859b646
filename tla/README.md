# TLA+ models of zenbot

zenbot is a chat bot for a WebSocket chat service, written in Go. One process
owns a *master* host in a room, any number of *replica* hosts in other rooms,
short-lived *snapshot* sessions, a SQLite database, and a room agent that talks to
a language model and acts through the bot's own commands. Nearly everything runs
on goroutines that meet under small mutexes, and much of the code's care goes into
what happens when a restart, a signal, a lost connection, a timeout or a crash
falls between two steps. That is what these modules are about.

Contents: 1 Inventory · 2 Modules · 3 Runs and bounds · 4 Fairness · 5 Proofs ·
6 Findings and observations · 7 What is not modelled · 8 Plan

All paths are relative to the repository. `PROJECT.json` maps each definition to
the lines it stands for, lists the components, the runs, the hazards with the
properties that watch them, and the theorems.

## 1. Inventory

How the parts meet:

    main ── HostSupervisor ── master engine ── transport (WebSocket)
     │            ▲                │  dispatcher: listeners ── command dispatch
     │            │ Restart        │      │   └── join monitor, shadow bans,
     │       HostLifecycle ◄───────┼ leases      auto-move, mail   │ !replica
     │            ▲                │      │                        ▼
     ├── runHostRecovery ◄── transport errors   SQLite     ReplicaController
     └── agent Runtime ◄── participation ◄── chat          ReplicaManager
              │  message monitor ◄──┘                      replica engines
              │  workers: memory ── TurnEngine ── context ── LLM client
              │                         └── tool executor ── command gateway
              │                                  └── capture engine ── snapshots
              └── sinks: the *current* master (masterBinding)

| Component | State it keeps | Operations | Hard because | What makes it correct |
|---|---|---|---|---|
| Host lifecycle owner (`core/host_lifecycle.go`) | pending and active operation, lease count, terminal/closed flags, wake channel, condition variable | BeginDispatch, Release, RequestRestart, RequestShutdown, Wait, Close, one worker | a wake-up can be lost; Close races the worker; a shutdown displaces a restart | commands and operations exclude each other; every accepted operation is reported once |
| Host supervisor (`cmd/zenbot/host_supervisor.go`) | master, unretired host, closed, candidate's cancel function | StartInitial, Restart, Shutdown, SignalTeardown | builds and starts fail or are cancelled half-way; two mutexes | one live host, none forgotten, none after a clean teardown |
| Process (`cmd/zenbot/main.go`, `startup.go`, `master_binding.go`) | process context, transport errors, binding | start, serve, recovery loop, teardown | signal during a restart; health read and used later | a lost host is replaced; a signal ends the process |
| Transport (`transport/connection.go`, `core/engine_impl.go`) | socket, done, two bounded channels, lifetime | Start, reader, pinger, Close, dispatcher, StopContext | Close racing Start; full channels; the failure comes from the goroutine that is stopped | no socket is left, every death is reported once, a stop is not a failure |
| Replica management (`core/replica_controller.go`, `replica_manager.go`) | map of rooms to replicas, stopped flag, per-call failure flag | AddReplica, RemoveReplica, StopAll, failure handler | the transport may fail between start and registration; a late failure meets a newer owner | no replica is lost; a failure removes only its own |
| Auto-move (`core/auto_move.go`, `command/automove.go`, `listener/automove_join.go`) | enabled flag, sources, destination, replicas per source | Enable, Disable, Configure, status, the move of a joiner | switches take time and overlap with each other and with joins | the last successful switch wins; a trusted joiner is moved |
| Room state and listeners (`core/engine_impl.go`, `listener`) | active users, AFK, subscribers, own nick | roster, join, leave, rename, chat, whisper | records are kept by name, names change hands and case | the roster is followed; a command runs as who sent it; only the bot ignores itself |
| Shadow bans and kicks (`command/shadow_ban.go`, `kick`) | table of bans | ban, unban, kick, test of a joiner | a record and a kick per user, each failing alone | success is whole; a recorded user is caught at the door |
| Identities (`command/identity_commands.go`, `remove.go`, `repository/sqlite`) | names, trips, their relation, roles | reg, remove, access, authorize | check and write are separate; two engines and a turn run at once | names keep owners; roles are only granted |
| Database (`repository/sqlite/database.go`, `transaction.go`) | schema, version, lock | open, install, upgrade, WithTx | the rebuild of a table may die between any two statements; a second process opens the file | nothing written is lost; an opened file is current |
| Offline mail (`service/mail_notes.go`, `mail_delivery.go`) | tables `mail`, `mail_delivery` | Queue, Pending, DeliverPending | several engines hear one speaker; sends without answer; commits of unknown outcome; crashes | at most one send; true receipts; nothing stuck in silence |
| Room snapshots (`listener/snapshot`) | active workflows and reported states; per workflow a context, payload, session, receipt | Submit, receive, fail, Cancel, `run` with its deferred clean-up | five parties may end the context | a true receipt; no accepted failure lost; every workflow ends |
| Agent runtime (`agent/runtime`) | job queue, admission tokens, slots, keyed locks, ambient lane | Submit, SubmitAmbient, workers, Close | lock entries with reference counts; close while queued | one turn per memory key, exact counting, everything joined |
| Agent turn (`agent/live/turn_engine.go`, `agent/tool/execution`) | messages, ledger of calls, limits | model call, batch execution, repair, result | reads run together, actions are barriers; an action may end with unknown outcome | an effect is never repeated; an unknown one blocks the rest; the turn ends |
| Turn context (`agent/assemble`, `agent/turn`) | transcript, observations, index of receipts | fit a request, prune, page through results | budget boundaries, several rounds | whole pairs, every receipt known, budget kept |
| Agent memory (`agent/live/memory.go`, `repository/sqlite/agent_memory.go`) | sessions, summaries, expiry | load, summarise, append, expire | a slow model call between read and write; crashes | no turn is lost or told twice |
| Command gateway (`agent/tool/saturn_command.go`, `command/agent_gateway.go`, `agent_capture_engine.go`) | captured receipts, jobs | admit, execute, capture, conclude | errors after effects; jobs that outlive the call | an outcome is what the receipts show; authority never grows |
| Arguments of tools (`command/catalog`, `agent/tool/contract`) | none | schema, encode, check, parse | four readers of one text | the command that runs is the one asked for, or none |
| Participation (`agent/participation`) | quiet periods, ambient count | mention, review, ambient, quiet | expiries and counts at their edge | silence when asked; unasked turns are harmless |
| Monitors (`agent/moderation`) | windows, cooldowns, ladder per identity | observe, decide, execute, prune | several windows age apart | sanctions climb; one raid bans nobody; pruning is invisible |
| LLM client (`agent/llm/openai`) | attempt counter, shared options | complete with retries | timeout, retry and cancellation of one request | bounded attempts; the error is what happened |
| Services, moderation frames, query tools, SQL policy, prompts, assembly, configuration, profiling, types | little or none | pure functions over text, or single statements | parsing | see section 7 |

Each is a row of `components` in `PROJECT.json` with its sources and status; the
lines at which the code can go wrong are its `hazards`.

## 2. Modules

### The host

`LifecycleContract` — *abstract specification.* What the lifecycle owner promises:
dispatches and operations exclude each other, one operation runs at a time, a
shutdown is the last one, a refused operation never runs. It has no lock, wake
channel or worker.

`HostLifecycle` — the owner, one action per critical section under `h.mu` and per
unlocked step of the worker (`select`, `decide`, `call`, `running`, `finish`,
`retire`, `settle`, `clear`). `wake` is the one-slot channel, `waiter` a goroutine
in `Wait()` on the condition variable, `closer` a goroutine in `Close()`. Refused
and coalesced requests are stuttering steps. `ImplementsContract` is the refinement
mapping to `LifecycleContract`: an operation's stage is read off
`pending`/`active`/`result`.

`HostSupervisor` — `replace`, `retireHost`, `cleanupCandidate`, `closeAdmission` and
`Shutdown`, for any number of calling goroutines. `opMu` is a variable; each short
critical section under `mu` is one action, so that a teardown can close admission
while a host is built. `host` is the state of every host object, also of those that
the supervisor no longer points to.

`HostProcess` — composes `HostSupervisor` with `main`, the recovery loop and the
lifecycle worker (reduced to the kinds of its two operations, since restarts may go
on for ever and operation identities would not be finite).

`Transport` — one connection of one engine: `start` is where `StartContext` stands,
`reader` and `pinger` are the goroutines of the connection, `loop` the dispatcher,
`stopper` a goroutine in `StopContext`, `closes` the two halves of `closeOnce`. `frames`
and `errs` are the lengths of the two channels. `raced` remembers that `Close` ran in
the one window in which `start` has tested for it and not yet published its socket.

`ReplicaControl` — a replica is one `AddReplica` call with the engine it builds.
`add` is where the call stands, `dispatcher`, `socket` and `cancelled` are the
engine, `handler` the failure handler, which either the call or the dispatcher may run,
and `stop` the one `ownedReplica.Stop`, called by clean-up, operator, handler or
`StopAll` (`stopper`).

`AutoMove` — the flag, the routes and the replicas that `Enable`, `Disable` and `Configure`
make and stop one room at a time, for several callers that hold the command's lock in
turn; `pump[r]` is what the engine of room *r* does with a joiner.

### The room and its database

`RoomState` — the chat server sends events in order (a change of nick as a leave, a join
and a text); the pump takes them one at a time through the chain of handlers, and a
turn of the agent runs `afk` beside it. `effects` records what the bot did, for whom
and as whom.

`JoinMonitor`, `MessageMonitor` — the windows and cooldowns of the two monitors with the
automation that executes their decisions. Histories keep the joins and messages that
really happened; the properties judge the decisions by them.

`ShadowBans` — `shadowban`, `unshadowban` and `kick` of the pump and of a turn, one save
and one kick at a time over the roster they read at their start, beside joins, leaves
and the test of a joiner. A save or a kick may fail.

`Identities` — `reg`, `remove` and `access` by several workers; a registration asks twice
and then writes in a transaction of its own, and a transaction commits, fails, or
commits with an error.

`SchemaUpgrade` — `Open` and `bootstrap`: a start works on a draft of the file under the
write lock, and may fail or die between any two statements.

`MailDelivery` — the two tables and any number of overlapping `DeliverPending` calls. A
transaction ends in one of four ways (`Ends`): committed, rolled back, or a commit error
after which it may have been applied or not. `Crash` loses everything but the
tables.

`RoomSnapshot` — temporary sessions in another room. `pc[w]` is where the goroutine of
workflow *w* stands in `RoomSnapshotCoordinator.run`, whose deferred function is one
action per step that lets others in between; `reader` is the goroutine of
`transportSession.loop`, `context` the workflow's context and `parent` the caller's.
`Plans` says which frames, outcome and reply the four operations make of a roster.
`CallerLeaves` is the return of the command, with which `UserChatListener` cancels the
context of the message. Histories (`acked`, `said`, `heard`, `doubt`, `disturbed`)
record what really happened, for the properties to compare the receipt with.

### The agent

`AgentRuntime` — `at[i]` is the position of invocation *i* in `execute`. A lock
entry is named by the invocation that created it, which makes entry identity visible
without inventing pointers. The sinks look up the current master on each use as
`main.go` does; `bound` says whether there is one.

`AgentTurn` — the loop, the batch executor and the ledger. A response is a kind
with a sequence of calls; `place[n]` is where call *n* of the batch is. Tools are a
handful of model values with their declared effect and prerequisites; a call is a
tool with an argument.

`TurnContext` — what the model sees: the transcript, the store of observations, the
index of receipts, and the projection of all of it into a budget of characters. A text
is its size and what distinguishes it. A unit of the budgeter is the set of positions it
keeps or leaves out together; a request is an arrangement (`Arranged`) of the required
positions and those of the units that were kept (`Chosen`), around the index.

`AgentMemory` — the two tables of one memory key and the turn that loads, summarises,
acts and records; other keys only expire rows. A row is an exchange with its id and
times; `covers` remembers what went into the text of a summary.

`Participation` — which messages become turns, of which kind, and with which
capabilities; quiet periods and the ambient count on a clock of ticks.

`AgentArguments` — typed arguments on their way through schema, encoder, target check
and the parser of the chat command. Texts are sequences of symbols: a run of letters, a
mark some parser looks for, or white space.

`CommandGateway` — one tool call through tool, gateway and capture engine; the handler is
any sequence of the operations it has, and its jobs in other rooms complete whenever
they do.

`ModelClient` — `Complete`: attempts, per-attempt and overall deadlines, back-off,
Retry-After, and the payload each round makes of shared options. `MaxDuration` stands
for the largest value of the 64-bit type the delays are computed in.

### Composition and conventions

Components that interact are composed where the interaction is modelled: `HostProcess`
extends `HostSupervisor`, and a module uses the abstraction of a neighbour's result where
only that matters (`ReplicaControl`'s `socket` is `Transport`'s; a gateway's job is a
`RoomSnapshot` workflow; a tool's result in `AgentTurn` is what `CommandGateway` answers).
`MCHost`, `MCAgent`, `MCServices` and `MCRoom` put components that do not share state
into one run: a variable `part` is chosen in the initial state, and only the module it
picks moves. The states of a run are the sum, not the product, of those of its parts.

`MC*` modules (MCHost, MCHostProcess, MCRoom, MCRoomSnapshot, MCAgent, MCAgentTurn, ...) give finite values to the constants; `*Proofs` modules hold the proofs.
Operators introduced by "a slip" or "variant", or named like `StartUnconditionally` or
`EvictAnyOwner`, are deliberate mistakes: no action uses them; replacing the operator
they stand for must break a property (those in `mutants`, and others that break the
remaining conjuncts of a merged property).

## 3. Runs and bounds

| Run | Instance | Shows |
|---|---|---|
| `host` | owner: 2 callers, 3 operations; supervisor: 2 goroutines, 3 hosts; process: the same hosts, event channel of 1 | exclusion, no lost wake-up, one report, refinement; one live host, none forgotten; recovery and exit |
| `agent_runtime` | 2 requests, 2 ambient, 1 slot | ambient turns coalesce behind a queue; Close at every point; liveness |
| `agent_turn` | batches of 2, 3 rounds, 2 actions, 2 reads, 2 arguments | a call repeated in its batch, in a later round and after a failure; every limit reached |
| `agent` | 3 requests, 1 ambient, 2 keys, 2 slots; 5 exchanges of memory; 9 messages of 3 senders; 4 authors; a turn of 3 steps and 4 calls; 20 wordings per argument | keys exclude; memory is faithful; the monitor is fair; quiet is kept; the transcript is sound; arguments are honest |
| `services` | queues of 2 messages and 1 error; 3 attempts; 3 commands, 3 callers, handlers of 2 operations; 2 rooms, 2 switchers | sockets and deaths; outcomes of the client; receipts; switches and moves; liveness of all four |
| `room` | 3 nicks, 4 events; 5 joins; 3 people and 2 ban commands; 3 identity commands, 1 fault; 2 starts on one file, 1 fault; 2 mails, 2 deliveries | see the properties below |
| `room_snapshot` | 1 workflow of each kind of command, 2 short ones beside it, 2 IDs, 1 state kept | an ID is used again while its state is kept, and dropped while in use; every ending at every point |
| `replica_control` | 3 calls for one room | an old owner that fails late, a newer one, a third that is refused; StopAll and cancellation at every point |
| `host_recovery`, `agent_master`, `room_detached`, `turn_feedback` | small instances of the same modules | *violations*, section 6 |

Properties are conjunctions of named parts, each stated with its reason beside it:

| Property | Parts |
|---|---|
| `OperationsAreSafe` | types, `RetirementExcludesDispatch`, `NoLostWakeup`, `ReportedAtMostOnce` |
| `HostsAreAccounted` | types, `OneHost`, `NoOrphan`, `TeardownIsFinal`, `NothingPublishedAfterClose` |
| `TurnsAreKeyed` | types, `OneTurnPerKey`, `LocksReclaimed`, `AdmissionCounts` |
| `EffectsAreSafe`, `SuppressionIsTrue` | types, `NoRepeatedEffect`, `UnknownBlocks`, `ActionsInOrder`; `MissingIsTrue`, `SuppressionIsHonest` |
| `TranscriptIsSound` | types, `ReceiptsReachTheModel`, `PairsStayTogether`, `BudgetIsKept`, `PagesAreContiguous` |
| `MemoryIsFaithful` | types, `NoTurnIsLost`, `CoverageIsHonest`, `NothingIsToldTwice` |
| `PeopleAreRespected` | types, `QuietIsKept`, `AmbientIsPaced`, `UnaskedTurnsAreHarmless` |
| `MonitorIsFair`, `RaidsAreMet` | types, `PruningIsInvisible`, `LadderIsClimbed`; types, `RaidIsRepeated`, `RaidIsMet`, `CaptchaIsThrottled` |
| `ArgumentsAreHonest` | types, `AskedOrNothing`, `StaysInItsScope` |
| `ConnectionIsSound` | types, `NoSocketIsLeft`, `DeathIsOnItsWay`, `ReportedOnce` |
| `ClientIsTrue` | types, `OutcomeIsTrue`, `DelayIsSane`, `RoundIsItsOwn` |
| `GatewayIsTrue`, `SwitchesAreKept` | types, `EffectsAreTold`, `SuccessIsBacked`, `ScopeIsKept`; types, `LastSwitchWins` |
| `RoomIsKnown` | types, `RoomIsFollowed`, `CommandsAreTheirs`, `OnlyItselfIsIgnored` |
| `BansAreWhole` | types, `SuccessIsWhole`, `KicksAreRecorded`, `ChangesAreTold`, `CaughtAtTheDoor` |
| `IdentitiesAreKept`, `UpgradeIsSafe` | types, `NamesHaveOwners`, `TwinsOverlapped`, `RolesAreOnlyGranted`; types, `NothingIsLost`, `OpenIsSound` |
| `MailIsTrue` | types, `SentAtMostOnce`, `RowsAreTrue`, `StuckMailIsReported`, `OnlyTheOwnerWrites` |
| `ReplicasAreOwned` | types, `ReplicasAccounted`, `OnlyBrokenReplicasAreEvicted` |
| `SnapshotsAreTrue` | types, `ReceiptIsTrue`, `AcceptedFailureIsPublished`, `AwaitedWorkIsDone`, `StatesAreRetained` |

The bounds were chosen from the code: the lifecycle owner has two slots, so a third
operation is the first that can displace; an attempt identity can only be confused
with the row's and one other call's, so three are enough; a stale failure needs an
old and a new owner; a window or a cooldown is passed with one tick to spare; names
that differ in case, and one that is taken again, need three nicks; two registrations
are the first that overlap; a summary over a summary needs five exchanges with one kept
raw; a channel of two messages and one of one error overflow as 32 and 8 do. What
they leave out (more callers, hosts, mails, tools, larger channels) the theorems
cover for the safety properties of all modules (section 5).

Constants that bound the model and not the code: `MaxOps`, `EventCap` (16 in
`main.go`), `MaxMail`, `MaxPairs`, `MaxBatch`, `MaxUsers`, `MaxId`, `MaxClock`, `MaxTime`,
`MaxMessages`, `MaxQuietTime`, `MaxHeard`, `MaxCalls`, `MaxOperations`, `MaxConfigured`,
`MaxSwitched`, `MaxJoined`, `MaxEvents`, `MaxAgentCommands`, `Backlog`, `MaxJoinTime`, `MaxJoins`,
`MaxCommands`, `MaxArrivals`, `MaxAsked`, `MaxFaults`, `MaxTrip`, `MaxDiskFaults`, `MaxTail` and the
sizes of the sets. `Retention` is 256 and the channels of a connection hold 32 and 8 in the
code. Limits, windows, retries and capacities are configuration values of the program.
The head of each `.cfg` says what its numbers make happen.

A run states `CHECK_DEADLOCK FALSE` only where the program really comes to rest: the
owner is closed, the process has exited, all mail is settled, every replica is
refused or stopped, the bounded inputs of a part are used up.

## 4. Fairness

Only steps that the Go scheduler performs without help are fair.

- `HostLifecycle!Fairness`: the worker, `Close`'s return, a waiter that has been woken,
  a caller that returns its lease and one that reports a superseded operation.
  Requests, dispatches and `Close` itself are not. That a dispatch gives its lease
  back is an assumption on commands; they run under a context and release in a
  `defer`.
- `HostProcess!PFairness`: main, worker, recovery loop and supervisor steps. `SF` on
  `HealthTick`: a ticker keeps firing, and the loop's `select` cannot ignore it for
  ever while events keep arriving. `World`: the worker's builds and starts do not fail
  for ever (`SF`), for nobody could recover otherwise.
- `AgentRuntime!AFairness`: workers, executing invocations, drain and close. Turns end
  because they run under a deadline. Submissions are not fair.
- `AgentTurn!TFairSpec`: `WF(Proceed)`; the model and the tools answer or fail, since both
  are called with the turn's context.
- `Transport!TransportFairness`: the goroutines and the dispatcher run, a dial ends, a
  frame is handled. Frames, failures and `StopContext` need not come.
- `ModelClient!ClientFairness`: time passes, a request ends by an answer, an error or its
  deadline, a sleeper wakes. The server need not answer.
- `CommandGateway!GatewayFairness`: tool, gateway and handler run; a job that was submitted
  completes, which is `RoomSnapshot!WorkflowsEnd`. Replies and jobs are the handler's choice.
- `AutoMove!MoveFairness`: the pump of each room carries on with a joiner; a switch that
  waits gets the lock in the end (`SF`), as a Go mutex hands itself over to a starving
  goroutine.
- `RoomSnapshot!Fairness`: the goroutine of a workflow, since its dial, its writes, its
  clean-up and its replies have deadlines; the deadline itself (`Expire`), a timer of
  30 seconds; and the return of a command that may return. Nothing is assumed of
  the room: it need never answer.
- All other modules state safety only.

In `MCHost` and `MCServices` each of these conditions holds for its part.

## 5. Proofs

All theorems hold for every value of the constants under the named assumptions of
the modules (finite callers; null values outside their sets; positive capacities).
Each proof has the same shape: an inductive invariant, one lemma per action or group
of actions, and the theorems as consequences.

- `HostProofs`, for `HostLifecycle` — `IInv` is `TypeOK` with: the dispatch counter is the
  number of leases held (`LeasesCounted`; the guard reads the counter), `active` is
  consistent with the worker's position (`WorkerPosition`; otherwise the worker could
  clear an operation it does not own), and every issued operation is in exactly one place
  (`Custody`; otherwise a report could come twice). From it: types, exclusion, no lost
  wake-up, one report (together `OperationsStaySafe`), waiters woken, refused operations
  never ran, and, with `IInv` as a premise of the step simulation, the refinement of
  `LifecycleContract` (`ImplementsTheContract`).
- `HostProofs`, for `HostSupervisor` — `SInv` is types and `Ownership`: at every program
  point of the holder of `opMu` the set of hosts that may be live is named (the master, the
  one being retired, the candidate, or the unretired one). At most one host, no orphan and
  nothing after a clean teardown follow; `PublicationIsGuarded` is the action property
  that a closed supervisor publishes no host. Together `HostsStayAccounted`.
- `HostProofs`, for `HostProcess` — `PInv` adds when the lifecycle worker can be inside the
  supervisor (`WorkerQuiesces`): never without an operation, and never once main has
  waited for it. So the teardown is alone (`TeardownStaysAlone`), and the supervisor's
  guarantees hold in the process that drives it (`ProcessAccountsForHosts`).
- `ServicesProofs`, for `Transport` — `CInv`: `SocketSound` says what start has made at each
  of its points and that a socket published after Close was published in the one window
  `raced` remembers; `DeathAwaited` extends `DeathIsOnItsWay` to a dispatcher that has not
  begun (the reader may die first); `EndSound` says who cancelled a lifetime, so that
  exactly one place reports. Together `ConnectionStaysSound`, for any capacities.
- `ServicesProofs`, for `ModelClient` — `ClientInv` adds `CallsAreWhole`: the shared options
  are untouched and the payload is the request of this round, a sleeper owes another
  attempt, what was read is a reply. The delays need that doubling stops before the type
  overflows and never falls (lemmas about the recursive function `Doubled`, by the
  well-foundedness of the naturals). Result: `ClientTellsTheTruth`.
- `ServicesProofs`, for `CommandGateway` — `GatewayInv` is a balance, stage by stage: what
  has landed is what the handler's operations recorded and what its job did, unless an
  operation failed half-way (`EffectsAreRecorded`); once jobs are counted none is pending
  (`JobsAreCounted`); and an execution that is not *unknown* accounts for all that landed
  (`ExecutionIsWhole`). Results: `GatewayTellsTheTruth`, and the action property
  `AnswersAreFinal`, which needs that only *unknown* leaves a job behind.
- `ServicesProofs`, for `AutoMove` — `MoveInv`: one switch is past the lock, and every room
  it has dealt with has a replica, or none, as it asked, unless a command of that room
  interfered (`SwitchProgress`); when it ends without an error that is all of them
  (`LastSwitchIsKept`).
- `RoomProofs`, for `RoomState` — the wire holds a path of events from what the engine
  knows to what is true of the room (`WireSound`: `AllLead` from `Here` to `There`); taking
  the first event moves `Here` one step along it, so the engine can lag but not diverge,
  and a message is handled while what it says of its sender holds (`Speaks`). The theorem
  `RoomsAreKnown` needs no bound on the backlog. A lemma finds a free id for an AFK entry
  in a finite set.
- `RoomProofs`, for `ShadowBans` — `BansInv`: whoever a command means is done or still to
  do, and the one in hand is recorded before he is kicked (`Underway`); what stood since
  somebody joined still stands (`DoorSound`). Result: `BansHold`.
- `RoomProofs`, for `Identities` — `IdentityInv` ties each registration that found its name
  free to the tables: whoever has the name now wrote it after that check (`WorkSound`), so
  twins have overlapped (`TablesSound`). Result: `IdentitiesHold`, with the action property
  that roles are only granted.
- `RoomProofs`, for `SchemaUpgrade` — the draft of a start is sound at each point of its
  transaction, whatever the file was, and one start writes at a time. Result:
  `UpgradesAreSafe`.
- `RoomProofs`, for `MailDelivery` — `MInv` ties each row to the one call whose attempt it carries:
  a fresh attempt is not used by any row or call, so a claim, a release, a receipt
  and a mark can only meet their own attempt. Together `MailStaysTrue`.
- `AgentProofs`, for `AgentRuntime` — `AInv`: entries in the map are shared by those who hold
  a reference, counts are the number of users, the mutex is held by one, queued
  invocations are the jobs, and where Close stands bounds what may still execute. The
  counting facts go through `FiniteSetTheorems`. Together `TurnsStayKeyed`; also
  `ClosedIsQuiet`.
- `AgentProofs`, for `AgentMemory` — as long as the clock has not stepped back: ids and times
  give rows one order (`InOrder`), what a summary has swallowed ends at its cursor and
  dies no later than it (`SummarySound`), and at most `RawTurns + 1` live rows lie above the
  cursor, `RawTurns` while a turn runs (`FewOpened`). The last is why nothing falls out of
  the window of `Turns` rows: a turn that finds more compacts, and a turn that cannot
  store its summary does not run, so it appends nothing. `CursorDivides` shows that the id
  of the last compacted row separates what is told word for word from what the summary
  tells. Result: `MemoryKeepsFaith`.
- `AgentProofs`, for `Participation` — whoever asked for quiet has an entry that ends
  `QuietTicks` later, or that time is over (`QuietIsNoted`); the candidates since the last
  ambient turn are the remainder of those counted; and every turn was made by one of the
  two constructors (`TurnsAreMade`), from which its capabilities follow. Result:
  `PeopleAreLeftAlone`, for any pace, roles and people.
- `AgentProofs`, for `MessageMonitor` — `MonitorInv`: what is kept of an identity is the end of
  its history, and all that was cut off is older than the longer window (`EndOf`). So a
  window counts the same in both: moving places by the length of the cut is a bijection
  between the two sets that are counted (`EndCounts`). For the ladder, the last verdict is
  on record as long as it is fresh (`OnRecord`), whatever was pruned in between. Result:
  `MonitorStaysFair`, for any windows, counts, senders and texts, whichever window is longer.
- `AgentProofs`, for `JoinMonitor` — for each hash there is a join `r` with which its bucket
  started over (`SoundSince`): the bucket has later joins only, and all of them that are
  young enough; a captcha was decided at most a cooldown before `r`; and a signal of the
  hash is the raid that ended with `r`. `BreachIsRaid` is the core: a bucket breaches its
  limit exactly when the joins after `r` end with a raid. A raid that reaches back to `r` or
  before it was therefore met when `r` was. Result: `RaidsStayMet`.
- `ModelProofs`, for `AgentArguments` — `ArgumentsInv` is little: a call that went on has
  passed the checks of its stage, with its own tail. The work is in the lemmas about
  texts: `Words`, `Pieces` and `SplitToken` undo `Joined` for texts that do not hold the
  mark (`WordsOfJoined`, ...), trimming changes no word, a bounded tail is a trimmed one. From
  them one lemma per tool says what its handler makes of its encoding. Result:
  `ArgumentsHonest`, for any wordings, lists, numbers, rooms, authors and limit of the tail.
- `ModelProofs`, for `TurnContext` — the property is about the request that is shown, and
  each request is cut anew from the transcript; so `ContextInv` says of the transcript
  what makes any cut of it sound (`Complete`: policy and newest request are in it, calls
  come after the request only, every call is followed by its results and every result
  stands behind its call), of the request that it is within its budget, tells of every
  result (`Tells`) and keeps calls and results together (`Together`), and of the store
  that every page is one of a stored result (`Paged`). Then, from the bottom up: the positions of a
  projection are put in order (`OrderGrows`); the arrangement spreads them over four parts
  whose places are known (`LaidSpreads`), and a call whose answers are all kept has the
  run it had (`RunsAgree`); the greedy choice never exceeds the limit, the index that is
  written at last is not larger than the one that was reserved (`IndexSizes`,
  `SmallerFits`), and if as many units are kept as there are, all are kept, so that an index that
  announces no omission hides nothing. Result: `TranscriptStaysSound`, for any memory,
  room log, calls, results, budget and limits.
- `AgentTurnProofs` — `TInv` relates the ledger, the places and the results of a batch:
  what is behind, at and ahead of the call that `ExecuteAll` serves (`Order`), a started
  effect and its ledger entry (`OnceSound`), results and their calls (`OutSound`), a
  read that lacks a prerequisite has everything before it done (`MissingSound`), every
  effect is behind a result that shows it (`EffectsKnown`; the honest silence needs it),
  and failures are charged to calls that are over (`FailuresCounted`; the bound of the
  types needs it). That a batch never exceeds the budget of a tool is an injection of the
  calls it admits into what is left (`AdmissionIsBounded`). Results: `EffectsStaySafe`
  and `SuppressionStaysTrue`, for any model, tools, requirements and limits.
- `ReplicaControlProofs` — `RInv`: what each phase of the call has built
  (`CallSound`); a lifetime that nobody stopped is cancelled only by its dispatcher's
  end, which has called the handler (`LifetimeSound`); the handler marks before it
  evicts, so a registration after the mark is refused and one before it is found
  (`HandlerSound`). This last pair is why `registrationMu` exists. Together
  `ReplicasStayOwned`.
- `RoomSnapshotProofs` — `RInv` is types, the table (`TableSound`: an ID belongs to the
  workflow that runs under it, and the IDs kept are distinct; without that a dropped
  ID could still be kept further on) and three parts per workflow: the receipt while
  it is made, the outcome once it is settled, and, for a command that waits, that
  nothing has failed as long as nothing was disturbed. An action touches one workflow,
  so each lemma shows that the others stay as they are (`Same`) and looks at one.
  `Publish` rests on lemmas about cutting an element out of a sequence. Together
  `SnapshotsStayTrue`.

What the proofs changed. A proof that did not go through told something about the model:

- An instance that keeps two of three exchanges raw hid that an exchange is told twice
  once the clock has stepped back: with `Turns - RawTurns` of two or more the last row in
  time need not have the highest id, so the cursor does not cover all that was
  summarised. `NothingIsToldTwice` now excepts a clock that stepped back, as the
  coverage of a summary did, and the run keeps one exchange raw.
- In `ShadowBans` what an unban removes and what its reply says were one step; they are two,
  as in the code, and the reply can fail after rows are gone. A word of which nothing is
  left without its mark (`@`) fails the whole command.
- Guards of `CASE` that overlapped (`CommandGateway`, `MessageMonitor`, `SchemaUpgrade`) left
  a choice that the code does not have; they are ordered now.
- The windows of both monitors were filters of a sequence, which no backend can expand; they
  are what the code has, a cut off the front (`pruneMessages`, `prune`). With a filter the
  proof would not have noticed that this is right only as long as buckets are in
  order, which is now part of the invariant (`SoundSince`, `EndOf`).
- What the projection keeps was a filter of a sequence of units, flattened; it is a set of
  positions now, written out in order, which is also how the code's `order` works and makes the
  place of every message a fact to reason with.
- What a user wrote may look like the correction or the status of a round. `ProjectTurn`
  then takes the remembered message for its own and counts it nowhere; the proof
  (`TakenAre`, `TakingLeavesSound`) shows that nothing is lost, since what is taken is what the
  round says anyway. The run has such a history. Of an index this is assumed away: "the
  index" of a request means the program's own.
- `TurnsAreMade` needs that no author has the empty nick, which stands for "no target" of
  an invocation; `RoomState` needs the same of a room.

Only model-checked: every liveness property (`AcceptedIsReported`, `HostIsReplaced`,
`SignalEndsProcess`, `CloseReturns`, `AcceptedEnds`, `RequiredReplyIsSent`, `TurnEnds`,
`WorkflowsEnd`, `StoppedIsQuiet`, `BrokenEndsTheEngine`, `CompleteEnds`, `CallsAreAnswered`,
`TrustedAreMoved`), since liveness under fairness is out of the prover's reach. Every
safety property a run checks and the code keeps has a theorem.

Where a fact about a recursive definition was needed (`Joined` in `AgentArguments`, sums,
positions and the greedy choice in `TurnContext`, windows and buckets in the monitors,
timings in `ModelClient`), it is proved without an induction theorem: a set of numbers has a
least element (`LeastNumber`, `FirstPlace`, from `WFMin`), and at the least place where the
fact would fail it does not. `RecursionExists` does the same for the solution of a
recursion over an initial segment of the numbers, and `Climbing` for what it keeps.

## 6. Findings and observations

Four runs show a disagreement between the code and what it says of itself.

1. `host_recovery` (`RecoversUntilShutdown`): `main.go:406` says the scheduler keeps
   recovering a disconnected host until shutdown. After one clean-up that returned an
   error the host is kept as `unretired`, and every later restart is refused
   (`host_supervisor.go:64`). The supervisor's own comment (line 139) agrees with the
   code. `Connection.Close` returns the error of closing a broken socket, so a lost
   connection is a likely cause.
2. `agent_master` (`MissingMasterIsAnError`): `main.go:159` turns a nil `*EngineImpl`
   into a non-nil `common.Engine`. While a restart has withdrawn the master the
   checks `current == nil` do not fire, and the reply is sent on a nil engine, in a
   goroutine that does not recover.
3. `room_detached` (`AdmittedWorkIsDone`): `docs/commands.md:142` says that nuke snapshots
   a room, bans every observed user and locks it. Given in the chat, the command
   returns when its session has joined the room; `UserChatListener` then cancels the
   context of the message (`user_chat_listener.go:74`), the parent of the workflow's,
   which gives up before the roster arrives. `msgchannel` and `resurrect` do the same.
   `list` waits for its outcome, and a comment there names this very reason
   (`handlers.go:271`); commands of the agent are awaited by its capture engine.
4. `turn_feedback` (`FeedbackIsSaidOnce`): a test fails with "repair feedback duplicated"
   unless the correction appears once (`registry_loop_test.go:767`). The budgeter looks
   for the required messages from the end of the transcript; the status message is
   never in it and uses up the search, so the correction is kept in the transcript and
   added again (`assemble/context.go:317`) whenever the budget has room for both.

Observations for which the repository makes no promise that a run could refute:

Host, transport, replicas

- `newLiveAgent` (`main.go:322`) resolves the engine before a master exists; for the
  same typed-nil reason the type assertion succeeds, `ComposeMessageAutomation`
  returns nil and the message monitor is never attached.
- A request that coalesces between `finish` and `active = nil` is told *coalesced*
  though nothing runs for it (`host_lifecycle.go:166`); the next health check repeats
  it. `healthy()` is read before a restart is requested (`startup.go:85`): a host replaced
  in between is restarted once more.
- `Connection.start` can publish a socket after `Close` has run between its
  `isClosed` test and the assignment (`connection.go:98`): the socket stays open behind a
  closed transport until the next frame. `NoSocketIsLeft` excepts exactly this window.
- A failed `automove on` leaves the flag on; enabling from a replica's engine sets the
  shared flag and reports an error, disabling there reports success with the replicas
  left. `Configure` never removes a source and may make the destination a source. The
  notice of a move always names ?lounge. The move is by nick.

Room and database

- After a change of nick two AFK entries of one name and trip can exist, and
  `RemoveIfAfk` takes one of them. `AddActiveUser` removes by the exact name while lookups
  ignore case. Any error of a handler suppresses the commands behind it. A command of the
  agent that marks a user away replaces his entry and drops its pending mention.
- Who is present when the bot (re)joins is not tested for a shadow ban; a record of an
  absent nick in another case does not match; users who share the trip or hash of the
  one named are not kicked.
- Overlapping `reg ann` and `reg Ann` leave two names up to case, and later lookups are
  ambiguous (`TwinsOverlapped` says that nothing else does). `remove` by a moderator of a
  trip's last name drops the trip's role, be it administrator.
- A captcha whose execution failed is not tried again within its cooldown
  (`JoinMonitor`); a sanction whose execution failed still counts as a step of the ladder
  (`MessageMonitor`), which starts over at the warning after `PostKickWindow`.
- The first frame of a room, whatever it is, is taken for its roster
  (`coordinator.go:267`). A transport error that arrives while the owner closes the
  session is accepted as a failure (`session_factory.go:111`). A nuke that stops at a
  blank name after some bans reports its outcome as known (`nuke_operation.go:43`).

Agent

- `docs/agent.md:23` says turns of a key are ordered; the code serialises them in the
  order in which they reach the mutex. A second call of `Runtime.Close` returns while the
  first still joins its turns (`runtime.go:264`); only `main` calls it.
- Calls of one batch that overlap are admitted before any has failed, so a tool can
  fail more often than its failure limit (`ledger.go:54`).
- With `memoryRawTurns` equal to `memoryTurns` nothing is ever summarised, and an exchange
  beyond the window is forgotten. A clock that steps back breaks the coverage of a
  summary (rows are ordered by time, skipped by id), and an exchange may then be told twice. Turns that acted but delivered
  nothing, or chose silence, leave no record. A summary's life is renewed each time.
- A unit of evidence loses its priority in the next round, and what was pruned from the
  first request does not come back in the turn. Duplicates inflate the omitted count.
- After a job was accepted the gateway ignores the handler's own error; raw messages are
  not captured; a panic after a job was submitted answers *unknown* without awaiting it.
- A read error on the last attempt after the end of the context is reported as a
  transport error; a long Retry-After turns a 429 or a 5xx into a time-out
  (`client.go`).
- An empty roster makes every message an agent error. A refused review skips the ambient
  count, and a failed ambient submission waits for the next N messages. `run_command` is
  not composed by `main.go`. A moderation turn carries the bot's nick with the creator's
  trip.
- `validateToken` names five separators while `strings.Fields` splits at all white space;
  `automove configure` of a room called *on* or *off* is read as a switch; 3.0 passes the
  schema and is refused by the encoder.

## 7. What is not modelled

Pure text: parsing of frames and dates, the SQL policy, prompts, wording of replies,
tables; of parsing only what the arguments of an agent's command go through. Pure
construction: factories, assembly of a runtime, configuration. Diagnostics: profiling,
logs, the audit and activity tables, which nothing reads back into control. Single
assignments under a mutex: prefixes, the support relay. Commands that read a service and
reply. Code that the composition no longer uses: `EngineImpl.Start`,
`core/connection.go`, `core/lifecycle.go`, the older coordinator of `listener/snapshot.go`.
Remote services (weather, the language model, the chat server) are reduced to what they
may answer. Within modelled components the `note` of each row says what is left out.

One listed hazard has no property: turns of one memory key run in the order in which
they reach the mutex (`runtime.go:119`), which the code does not fix.

Hazards of the same kind as a listed one, at other lines, are covered by the same
properties and not listed again: the displaced restart and the late wake-up
(`host_lifecycle.go:106`, `:183`, `:210`), the cancelled candidate (`host_supervisor.go:123`),
the ambient lane (`runtime.go:117`), the ledger's release and the missing prerequisites
(`ledger.go:51`, `:66`), batches at their limits (`batch.go:47`, `:53`), receipts without a
send (`mail_delivery.go:52`, `:179`), and the table of workflows
(`coordinator.go:337`, `:373`, `:441`).

## 8. Plan

1. An abstract ledger (a call is executed at most once per turn unless it provably did not
   take effect), implemented by `AgentTurn`; `TInv` already has the facts.
2. An abstract specification of a remote-room command (asked, carried out or given up,
   answered once) implemented by `RoomSnapshot`, and its share of `CommandGateway`.
3. Refinement of the reduced lifecycle owner in `HostProcess` by `HostLifecycle`, and of
   `ReplicaControl`'s `socket` and `broken` by `Transport`.
4. The remaining commands that write more than one table.
