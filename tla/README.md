# Componode in TLA+

Componode is an IT component catalogue: a hub (Node, one process, PostgreSQL or
SQLite through Kysely) imports assets from cloud and platform APIs, relates them
to components and products, and probes the URLs of what it found. Imports run in
the hub itself or on *import agents*: processes in other networks that hold one
WebSocket to the hub and execute the runs and probes the hub sends them.

The modules beside this file model the parts whose correctness is a matter of
order: which of two handlers resumed first after an `await`, what a timer finds
when it fires, what one transaction read before another committed, what is left
when the process or a session dies. `PROJECT.json` maps every definition to the
lines it stands for and lists the runs, the seeded faults every property is
tested against, the hazards, the findings and the theorems.

## The system

| Part | State it keeps | Operations | What is hard about it | Module |
|---|---|---|---|---|
| Remote run dispatcher (`remote-run-service.ts`) | per agent a FIFO array, `queuedJobs`, `inFlight`, `deadRuns`, three timers per run | `enqueue`, `tryDispatch`, `onJobAck`, `onRunComplete`, `cancelRemoteRun`, three timeouts, `onSessionReady`, `onSessionLost` | many handlers suspended at awaits over the same maps; frames of finished runs | `RemoteRuns` |
| Agent sessions (`agent-session-service.ts`) | `live`, `pendingTests`, `pendingProbes`, the session row | `attach`, `closeSession`, `testCredential`, `requestProbe`, the stale sweep, `reconcileOrphans` | superseding while a session is half made, answers racing timeouts, a closing that awaits | `AgentSessions` |
| Agents and enrolment (`agent-service.ts`, `agent-auth.ts`) | the agent row, its token and credential | enrol, rotate, revoke, bind, delete | every operation drops the session after it has committed | `AgentEnrolment` |
| Import agent (`packages/agent`) | running jobs, probes, abort controllers, the socket | assign, cancel, complete, reconnect with backoff | jobs outlive their session, and the next one starts with an empty count | `AgentExecutor` |
| Import runs (`import-run-service.ts`, `scheduler-service.ts`, `recovery-service.ts`) | rows of `import_runs`, the worker queue, abort controllers, cron jobs | `startRun`, `cancelRun`, `worker`, `recoverRuns` | double start, cancel against completion, restart at any point | `ImportRuns` |
| Sources and reconciliation (`importer-source-service.ts`) | sources, asset and instance memberships, components | register, rebind, reconcile, retire, reactivate, unmonitor | decisions by the memberships of other sources at READ COMMITTED | `SourceMemberships` |
| Automatic groups (`source-group-service.ts`) | the group of every component | the pass, opt-out | humans assign groups between its reads and its writes | `AutoGroups` |
| Managed URL checks (`url-check-service.ts`) | checks and their owners | declare, recompute, pause, resume, delete | `enabled` is a cached function of rows that others change | `ManagedChecks` |
| Probing (`url-check-scheduler.ts`, `probe-dispatcher.ts`, `url-check-auto-disable.ts`) | `nextProbeAt`, observations, streaks, the pools | sweep, dispatch, record, disable | duplicated, late and missed slots; a full pool | `ProbeSchedule` |
| Product edges and suggestions (`product-edge-service.ts`, `edge-suggestion-service.ts`) | DEPENDS_ON edges, staged suggestions | wire, unwire, accept, dismiss, generate | five writers of one row, each on its own snapshot | `EdgeSuggestions` |
| Docker targets (`docker-target-service.ts`) | the row of a target | enable, disable, the reads of the target by `startRun` and `worker` | a disabling looks for runs that were let in before it and act after it | `DockerTargets` |
| Credentials, configs, accounts, settings, audit, search, promotion, bootstrap, routes, importers, frontend | rows and requests | CRUD, queries, batch transforms | nothing that spans two steps, or nothing that outlives a call | see *Not modelled* |

The parts meet in three ways: direct calls inside one event loop (between two
awaits a step is atomic, and at an await anything may run), frames over an
agent's socket (ordered, lost with the session), and rows of the database (each
statement sees what was committed when it began; migration 003 has a trigger that
refuses any update of a run whose status is terminal).

What makes each part correct, in one line:

* a run reaches exactly one terminal status, in bounded time, and no other
  writer changes it afterwards; a run that has ended is never sent to an agent;
* an agent is never given more jobs than it said it can run, and its queue is
  drained whenever it has room;
* an agent has one session; a lost one ends what it carried; a request sent on it
  is settled once;
* a token buys one credential, and a credential that fell takes its session along;
* a restart leaves no row active, and a requested cancel is honoured;
* a component stays while any source reports it and goes when none does;
* a group a human chose is kept;
* a check runs while somebody wants it, a slot is probed at most once and never
  lost, and the streak is what the observations say;
* a decision about a suggestion is final.

## Modules

Abstract specifications, which others implement:

* `RunLifecycle` - what everybody may assume of a row of `import_runs`: inserted
  PENDING, begun, ended once, a cancel only requested while it is active, a
  restart ending all that is active. Implemented by `RemoteRuns` and `ImportRuns`.
* `RequestLife` - what the caller of a credential test or a probe is promised: it
  is taken, then settled once, and settled in the end. Implemented by
  `AgentSessions`.
* `AgentContract` - what the hub may count on from an agent on one session: one
  answer per assignment, an acknowledgement before a result, one result per job.
  Implemented by `AgentExecutor`.

Components:

* `RemoteRuns` - the dispatcher of one agent, with the callers that drive it.
  No operation of the service touches two agents, so one agent is enough.
* `ImportRuns` - runs the hub executes itself.
* `DockerTargets` - EXTENDS `ImportRuns`: the same steps under a target that is
  enabled and disabled.
* `AgentSessions` - the connections of one agent and the requests on them.
* `AgentEnrolment` - EXTENDS `AgentSessions`: the composition of an agent's
  identity with its sessions.
* `AgentExecutor` - the agent's process over several sessions.
* `SourceMemberships` - sources, what runs report of components, reconciliation.
* `AutoGroups`, `ManagedChecks` - each EXTENDS `SourceMemberships`: the same
  steps, with what they do to groups or to checks in the same transaction.
* `ProbeSchedule` - the schedule of the checks, their probes and observations.
* `EdgeSuggestions` - the edges of one product and the suggestions staged for it.

`MC*` modules give model values and symmetry; `*_proofs` modules hold proofs.

`RemoteRuns` and `ImportRuns` share no state: a run has one executor, and what
they have in common, the row, is what both implement `RunLifecycle` for.
`RemoteRuns` sees sessions as a variable `conn` and an agent as what it may send;
`AgentSessions` and `AgentExecutor` are what stands behind these two.

### RemoteRuns

* `content`, `pendingByAgent`: the arrays of the `pendingByAgent` map *by
  identity*. `tryDispatch` holds its array across awaits while another handler
  may delete the map entry and a third may create a new array; both exist then.
* `entry[r][k]` is the k-th `InFlight` object created for run r, `inFlight[r]`
  the number of the one in the map: a timer or a suspended handler may hold an
  object the map has replaced.
* `queuedJobs`, `dispatchTimers`, `deadRuns`: the maps of those names.
* `task`: the asynchronous calls that are suspended at an await. `pc` names the
  await, `root` says who awaits the call and so where an exception goes: a
  request handler or frame queue catches it, `void this.f()` in a timer does
  not, and then the process ends (`fatal`) and starts again.
* An action is what one handler does from one await to the next. `tryDispatch`'s
  trailing loop (`NextIteration`), the dequeue before a write, the clearing of
  timers before a terminal write (`Finalize`) are inside the action of the
  handler that performs them.
* `wire` is what the agent does with what it was sent. Frames of a session that
  has closed but whose queue is still being handled come from source `old`.
* `conn` is the session: `attaching` from the claim of the slot to `hello.ok`
  (frames can be sent but not yet heard), `dead` when the socket has gone and
  `closeSession` has not run.
* `Capacity` is one constant. The code compares with the `maxConcurrentJobs` that
  `loadJob` read from the agent's row (`remote-run-service.ts:281`, `336`), which every
  hello writes (`agent-session-service.ts:368`). An agent that comes back with another
  number, and a job loaded before that hello and sent after it, are not modelled.
* `policy` is what happens to the run's config, agent or credentials while it
  waits: it may become `blocked` (the job gate refuses) or `gone`.

The frames `asset.batch`, `source.identity`, `run.phase` and `run.error` change
nothing the properties of this module see. The database fails in this model only
through the trigger, the one exception the code itself provokes.

### ImportRuns

* `start[r]` is the await at which the call of `startRun` that creates run r is
  suspended: `new` before its check, `insert` between the `SELECT ... FOR UPDATE`
  and the `INSERT`, `gates` after the commit, `over` when it has returned, `thrown`
  when an exception has left it after the commit. No `try` surrounds the statements
  between the commit and `queue.add`, `getManifest` of an importer that is not built
  among them, so `StartThrows` leaves a PENDING row nobody owns. Until the next boot
  recovers it every start of its config is refused. The cron of `scheduler-service.ts` calls the same function and drops its errors, so
  a tick is one more `StartCheck`.
* `queue` is the p-queue, `worker[r]` the await of `worker(r)`; `aborted` are the
  controllers that were aborted.
* `cancelCalls[r]` counts the calls of `cancelRun` between the stamp of the row
  and the lookup of the controller: the window in which a worker may start.
* `Throws` stands for every exception the `try` block can meet. When the write of
  the `catch` block fails as well nobody handles the rejection and the process
  ends, which is `Crash` at that await.
* `Crash` leaves the rows alone and empties the rest; `RecoverRun` is one
  iteration of `recoverRuns`, so the hub may die again in the middle of it; `Boot`
  is the moment the server listens and the scheduler starts.
* `DeleteConfig` has no guard on runs because `deleteImporterConfig` has none.

`DockerTargets` splits two awaits of a run at its read of the target. `Admits` is the
read of `startRun`, after which alone `StartEnqueue` is possible, `Resolves` that of
`worker`, before the importer gets the run; `FindsDisabled` is the exception it
throws. `setEnabled(false)` is a sequence of `Disable` (its commit), `Select` (the query that
joins runs and configs), one `CancelsFound` per run, which is `CancelStamp` with its guard,
and `Disabled`; `DisableFails` is an exception after the commit, which a retry does not
make good because it finds the target disabled and returns. `enable` may come at any
moment.

### AgentSessions and AgentEnrolment

* `sess[s]` is a connection from the upgrade on: `pc` the await of `attach`,
  `closing` that of `closeSession`, `closed` its flag, `row` the session's row,
  `awaits` the closing of the incumbent a claim has to wait for.
* `sock` is what has become of the socket. A `silent` one is open for the hub and
  dead at the other end: no close event comes, and only the sweep notices.
* `live` is the map's entry. `Claim` writes it before the first await,
  `closeSession` compares with it; `Unclaim` is the clean-up of a failed attach.
* A request is `asked` while the agent works on it, `replied` with its answer on
  the wire, `unheard` when the answer came before the listener of the session was
  attached. `Timeout` is its timer, and closing the session settles it too.
* `boot` is the progress of `reconcileOrphans`, which the server does not wait
  for: the first sessions may attach beside it. An empty table of requests in
  `MCEnrolment` is no loss: a request looks at no identity.
* `Exchange` is one conditional `UPDATE`, so one step; `Drop` is the call of
  `dropSession` after the commit of an exchange or a revocation, on whatever
  session is live *then*. `DeleteDrop` and `DeleteRow` are the two halves of
  `deleteAgent` with the awaited drop between them.
* `bought` is history: it is what `TokenSpentOnce` speaks about.

### AgentExecutor

* `n` numbers the sessions of the process; every one has an executor and a probe
  runner, whose tables are `job[s]` and `probe[s]`, because the importer of an
  ended session runs on until it honours its signal.
* `job[s][r].pc` is the await of `onAssign`: the importer lookup, the preflight of
  the target, the secrets, the run itself. `aborted` is the controller's signal.
* `verdict` is `closeVerdict` of `client.ts`, `loop` the loop of `main.ts`.
* `frames` and `word` are history: what the hub has seen of every job on this
  session, and the reason of its close frame.

### SourceMemberships, AutoGroups and ManagedChecks

* A transaction that decides by what it read and then writes is two steps, a read
  and a commit; `tx[a]` holds its plan (the sources to flip, the memberships to
  deactivate, the components to retire) and stands for the row locks it has. A
  transaction that writes what it was given is one step. The plan's `saw` and `isaw`
  are history: who reported each component and instance when the transaction read.
* A component has one instance; `life` and `inst` are the two statuses, `member`
  and `imember` the two tables of memberships with the run that saw each last. An
  asset makes its instance `up`, unless an observed check owns the status, which is
  then kept, GONE too.
* `run[r].solo` and `yielded` are history.
* `AutoGroups` wraps the steps of `SourceMemberships`: `Trigger(A)` is a step
  after which a pass is due, `Quiet(A)` one after which it is not. A pass holds
  the source rows it planned for; whoever needs one of them waits (`PassFree`),
  while assets of sources it has, reconciliations, humans and opt-outs go on beside
  it. `plan.had` is history: who had a membership when the pass read.
* `recomputeManagedCheckEnabled` reads the check and its owners without a lock and
  writes later, so every transaction that calls it has two steps in `ManagedChecks`
  as well: an asset (`SyncRead`, `SyncCommit`), a reconciliation
  (`ReconcileChecksRead`, `ReconcileChecks`), the switching of a configuration
  (`SwitchRead`, `SwitchCommit`) and its deletion (`DeletePausedRead`,
  `DeletePaused`). `reads[a]` is what an open one has read and decided: `turn[k]`
  says whether the check is left alone, switched on, off or brought back. Its commit
  carries that out on whatever check there is then.
* `Held`, `Declared` and `Redefined` are the row locks of an open asset, which the
  others wait for: the component's and instance's rows, the owner row it upserted,
  the check it rewrote.
* A reconciliation deletes the checks of the instances that its own UPDATE turned
  GONE. `Aside(A)` are the steps that look at no check: a retirement and a
  reactivation are among them, as in the code.
* `owner[s][k].def` is history: the definition the source declared. So are `saw` and
  `failed` of `reads[a]`: the effective owners and the automatically disabled checks
  that were committed when the transaction read.

### ProbeSchedule

* Time is counted in cadences: slot t is due at time t, `row[c].next` is
  `nextProbeAt`. The observations have a unique index per check and slot.
* `sweep` is the sweep in progress with the rows it selected; `Backlog` writes
  `MissedPerSweep` missed slots per transaction and `Advance` is the separate
  statement after it that moves `nextProbeAt`.
* `task[d]` is a dispatch. d is the `current` one of a check, or the one `left` in
  flight by an earlier sweep. It is at `load` while it reads the observation and the setup, then
  the probe is `queued` (an agent's pool holds `Concurrency` in flight and
  `QueueMax` deferred), `probing`, or `missed` when there is no session or room.
  `Record` is the transaction of observation, streak, disabling and next slot.
* `SweepFails` is a write of a later row that throws before `Promise.allSettled`:
  `safeSweep` swallows the exception and lets the next sweep start, while the
  dispatches that were pushed without being awaited go on. Those without a claim
  (`Abandoned`: hub probes, and dispatches that are still loading or writing a missed slot) become `left`;
  an agent's keep their claim and the next sweeps skip their check. `alone` is
  history: the dispatch was neither left by a failed sweep nor started beside one
  that was.
* `Pause`, `Resume`, `Park`, `Move`, `Session`, `RecordFails`, `Restart` are the
  events that may come in between; `from` and `steady` are history.

### EdgeSuggestions

* A step is one SQL statement at READ COMMITTED. What a call has written and not
  committed is in `call[t]` (`rows`, `add`, `del`, `group`), visible to it alone;
  `RowLocked` and the guards on `add` are the waits for rows and unique keys.
* A call is a chain of statements: a wire flips the pair's suggestion and
  leaves a tombstone where there is none (`Tombstone`); an accept claims the row
  and then inserts the edge; a pass reads the group, the edges and the group
  edges, and stages. The reads of a pass are outside the transaction that stages.
* An UPDATE takes its rows from the snapshot of its beginning (`FlipBegins`, `seen`),
  waits for their locks and looks at them again (`Flip`): a row that another call
  inserted while it waited is not among them.
* `Init` has any set of edges without a suggestion row, wired before suggestions
  existed.
* `Abort` is the victim of a deadlock or a failing statement.

## Runs

| Run | States | Checks | Shows |
|---|---|---|---|
| `remote_queue` | 513k | `CapacityRespected`, `EveryWaitIsTimed`, `ActiveRunIsOwned`, `LifecycleSpec` | two runs, one slot: no over-assignment, every wait is under a timer, no row is abandoned, rows live the abstract life |
| `remote_slots` | 461k | `NoSessionNoFlight` | two runs, two slots: no active run in flight without a session |
| `remote_progress` | 18k | `PendingEnds`, `CancelEnds` | one credentialed run whose config may be blocked or deleted: it leaves PENDING, and a cancel that was sent ends it, whatever the agent does |
| `local_runs` | 365k | `ActiveRunIsOwned`, `CancelReachesWorker`, `DisableReachesRuns`, `LifecycleSpec`, `PendingCancelWins`, `RunEnds` | two in-process runs of one config, its docker target and one slot: no row is abandoned but the one of a `startRun` that threw after its commit, a cancel reaches the worker by row or by signal, disabling the target reaches every run it let in, every other run ends |
| `agent_sessions` | 63k | `ClosedHoldsNothing`, `EstablishedIsLive`, `RequestSpec`, `GoneSessionEnds`, `OrphanRowsClose` | two connections, a probe, a database fault, a crash: one session per agent, requests settle once, silent sockets and orphaned rows are closed |
| `agent_enrolment` | 405k | `TokenSpentOnce`, `BoundAgentExists`, `FallenCredentialDrops` | two tokens and two connections: a token is spent once, the session of a credential that fell is dropped however the drop meets attach and close |
| `agent_executor` | 416k | `NothingOutlivesItsSession`, `WorkWithinCaps`, `CancelIsHeard`, `ContractSpec` | two runs and a probe over two sessions: jobs of a dead session are aborted and the caps hold across sessions; the contract, with its liveness, is kept |
| `auto_groups` | 2.0M | `SoloRunIsExact`, `HumanGroupsKept`, `GroupsFollowReporters` | two sources, two overlapping runs, two transactions open at a time and passes with a human beside them |
| `managed_checks` | 154k | `DefinitionsAgree`, `AutoDisabledStaysOff`, `VisibleOwnerKeepsRunning`, `NoReporterOverruled`, `OnlySharedIsOrphaned` | three runs of two sources that share an instance and its check, two transactions open at a time, with retirement, rebinding, deletion, switching and automatic disabling |
| `probe_schedule` | 971k | `NoSecondProbe`, `NoSlotLost`, `StreakIsTrailing`, `ScheduleCatchesUp` | two checks in a pool of one and one, three slots, two events of any kind, a failing sweep among them |
| `edge_suggestions` | 991k | `UnwiredNeverPends`, `DecisionsAreFinal`, `AcceptMakesItsEdge` | two calls at a time on two components of one product, wired or not to begin with |
| `history_lost` | - | `HistoryOutlivesOwners` | must be violated: see *Findings* |

### Bounds

*Remote runs*: 1 or 2 runs of one agent, 2 asynchronous calls suspended at the
same time (`MaxTasks`) and at most two `InFlight` objects per run (`MaxAssigns`;
one in `remote_slots`, where two slots already give two). Two calls are what the
races found here need. `DeadRunCap` is 1 so that eviction happens. `MaxTasks`
delays a callback, and `CancelRun` leaves one slot to the hub's own callbacks.

*Local runs*: the two runs compete for a config and for the slot; `MaxCancels` is
2, so that two requests cancel one run at the same time. One target, named by the
config of both runs, and one call of `setEnabled(false)` at a time; it is enabled and disabled
any number of times.

*Sessions*: two connections are a session and its successor; a third would only
supersede again. One request suffices, requests do not meet. One fault and one
crash, each at any await. *Enrolment* has no faults and no crashes: a crash loses
the drops and the sessions together.

*Executor*: one job at a time with two runs makes refusals at the cap; two sessions
make a job of the first meet the second. `MaxSettled` is 2, so that a run is
assigned again after its end.

*Sources*: two sources sharing one component is where every rule about shared things
bites. `MaxOpen` is 2 in both runs: two transactions that decide by each other's rows
are open at the same time, which is what an overlap needs. `managed_checks` has two
configurations and one run reporting at a time (`MaxRunning`), beside which a run that is
over has left its rows, operators retire, rebind, delete and switch, and a check disables
itself. `MaxOperations` counts pauses, deletions and retirements; one of them next to runs
that overlap with it is enough for the disagreements below. `auto_groups` has two runs
at a time and one configuration, since what two configurations add, the rebinding, makes a
pass wait. Human assignments and opt-outs run beside an open pass.

*Probes*: a pool of one in flight and one deferred with two checks and the agent's
session coming and going reaches the full pool; a threshold of 2 and one missed
slot per transaction make the streak pass the threshold inside a backlog; three
slots suffice for a backlog of two. Both checks begin with the hub (`Remote` is empty),
since a hub probe is the one that a failing sweep leaves without a claim; a `Move` brings
them to the agent. Two events of any kind; the resume of a paused check is not counted as
one. At most one dispatch per check is left in flight by failed sweeps.

*Suggestions*: two calls, since the rules are about pairs of writers; two components,
one paired by a signal and one not, with or without an edge to begin with. One move into
or out of the group.

Deadlock is checked in the runs of `RemoteRuns` and `ImportRuns`: the hub can always
take a step, and a dead hub can always boot. The other configurations say
`CHECK_DEADLOCK FALSE` because their bounds (connections, runs, the clock, events)
end: when all are used up and everything is settled there is nothing left to do.

### Fairness

* `RemoteRuns`: an awaited call returns - weak fairness of each suspended call -
  and an armed timer fires. The latter is *strong* fairness of "some timer fires"
  only because the bound on suspended calls may disable it now and then; in the
  code a timer needs no slot. Nothing is assumed of agents, sockets or users.
* `ImportRuns`: awaits of the hub settle and the p-queue starts a job that has a
  slot. That an importer returns is an assumption about importers: `worker` sets no
  deadline. Nothing restarts a dead hub (the compose file sets no restart policy),
  so `RunEnds` is claimed while the hub stays up. The reads of the target in
  `DockerTargets` settle like any await; nobody is made to finish a disabling.
* `AgentSessions`: awaits of `attach` and `closeSession` settle, a dead socket has
  its close event or the sweep finds it (an interval timer), the timer of a request
  fires, `reconcileOrphans` proceeds. The agent owes nothing.
* `AgentEnrolment`: the call after a commit is made and what it awaits returns.
* `AgentExecutor`: the awaits of a job return and a probe has a deadline; a socket
  that was closed from one side gets its close event; the backoff timer fires. As in
  `ImportRuns`, "a job ends" is an assumption about importers.
* `ProbeSchedule`: the interval timer sweeps, a dispatch that was started goes on,
  a probe has a deadline. Database faults are bounded events, so a record that
  failed is eventually tried again by a later sweep.
* The other modules claim no liveness: whether a human or an importer acts is not
  the hub's to promise.

## Findings

`history_lost` must violate `HistoryOutlivesOwners`, FR-019 of spec 058 (quoted in
`PROJECT.json`). An instance becomes GONE by the retirement of the one source that reports
it. Another source reports it: the membership is effective, but the instance stays GONE,
because its observed check owns the status. The first source is reactivated and its next
run reports the component without the instance. `cleanupManagedChecksForGoneInstances`
finds the instance GONE and deletes the check with all its observations, although a source
reports it.

### Disagreements on record

Each of these configurations finds a behaviour of the code that a sentence of the
repository excludes. They are kept beside the project and run by hand
(`tlc -config X.cfg M`); none is part of the runs above.

| Configuration (module) | Property | Code | What the repository says |
|---|---|---|---|
| `MCWaitingRunIsInQueue` (`MCRemoteRuns`) | `WaitingRunIsInQueue` | `remote-run-service.ts:284` `queue.shift()` removes the present head, not the run that was loaded; the run removed is in no queue any more | `docs/import-agents.md:141` "Runs beyond capacity queue on the hub and dispatch in FIFO order as slots free" |
| `MCHubStaysUp` (`MCRemoteRuns`) | `HubStaysUp` | `:316` a terminal-write race in a timer callback is an unhandled rejection | `remote-run-service.ts:767` "Each finalize is isolated"; `remote-run-failures.test.ts:385` "late frames after a terminal run are ignored (no error, no crash)" |
| `MCCompliantAgentKept` (`MCRemoteRuns`) | `CompliantAgentKept` | `agent-session-service.ts:389` frames sent before the listener is attached are lost, and the next one closes the session as a violation | `docs/agent-protocol.md:278` the offence is a frame for "a run the hub never assigned on that session" |
| `MCCancelWins` (`MCRemoteRuns`) | `CancelWins` | `remote-run-service.ts:721` a cancel during the auto-group pass loses to COMPLETED | `:713` "A cancel request landing during reconcile still wins below"; `:740` "A COMPLETED confirmation after a cancel request lands as CANCELLED" |
| `MCTwoSlotsOwned` (`MCRemoteRuns`) | `ActiveRunIsOwned` | `:318` the head is sent on the row `loadJob` read several awaits earlier; with two slots a run can be sent twice and stay RUNNING with no owner | `specs/027-remote-import-execution/spec.md:432` "100% of remote runs reach a terminal state in bounded time" |
| `MCOneActivePerConfig` (`MCDockerTargets`) | `OneActivePerConfig` | `import-run-service.ts:1295` locks the active row if there is one; when there is none two calls both insert | `specs/027-remote-import-execution/research.md:63`, `docs/api.md:76`: one active run per config |
| `MCDisableReachesAll` (`MCDockerTargets`) | `DisableReachesAll` | `docker-target-service.ts:93` looks for the runs after the commit: when that fails nobody looks again, and the join misses runs whose config was deleted | `specs/049-docker-hub-execution/spec.md:151` "MUST request cancellation of active Hub runs and tests" |
| `MCOnlyCompletedRetires` (`MCDockerTargets`) | `OnlyCompletedRetires` | `:1196` the reconciliation commits before the terminal write, so a run that retired components can end FAILED or CANCELLED | `specs/049-docker-hub-execution/spec.md:159`, `specs/002-importer-framework/spec.md:66`: only a completed run reconciles |
| `MCNoOrphanRow` (`MCDockerTargets`) | `NoOrphanRow` | `import-run-service.ts:1331` `getManifest` throws for an importer that is not built, outside any `try`, after the PENDING row has committed (1305); so may the writes at 1333 and 1354 | `import-run-service.ts:1361` "a PENDING orphan would block every future run for the config and can never resolve on its own" |
| `MCOverlaps` (`MCManagedChecks`) | `SharedCheckKeepsRunning` | `url-check-service.ts:671` the owners are read without a lock and `enabled` is written later: a pausing transaction misses an owner that commits in between, and that owner saw the check enabled and wrote nothing | `url-check-service.ts:936` "shared checks stay up only via other effective owners" |
| `MCOverlaps` (`MCManagedChecks`) | `SharedStaysActive` | `importer-source-service.ts:653` a source that begins to report a component after the retiring transaction read the memberships is overruled | FR-007 of `specs/044-importer-source-core/spec.md`: a shared component stays while any source reports it |
| `MCOverlaps` (`MCManagedChecks`) | `NothingOrphaned` | the same read: two sources that stop reporting a component in overlapping transactions each see the other's membership, and nobody retires it | the same FR-007: RETIRED applies "when no active membership remains" |
| `MCOneProbePerSlot` (`MCProbeSchedule`) | `OneProbePerSlot` | `url-check-scheduler.ts:200` dispatches are pushed and not awaited; a later write that throws ends the sweep (232) before `Promise.allSettled` (210), and the next sweep dispatches a slot whose hub probe is still running | `probe-dispatcher.ts:596` "running again could only ever write a duplicate" |
| `MCRevokedHasNoSession` (`MCAgentEnrolment`) | `RevokedHasNoSession` | `agent-service.ts:595` a connection whose credential was accepted before the commit claims its slot after the drop (`agent-session-service.ts:276`) | SC-004 of spec 025 (`spec.md:359`) |
| `MCCancelWinsOverFailure` (`MCAgentExecutor`) | `CancelWinsOverFailure` | `executor.ts:139` the preflight refuses the job without a look at its signal | `executor.ts:207` "Cancel wins over any concurrent failure" |
| `MCScheduledByOwner` (`MCManagedChecks`) | `ScheduledByOwner` | switching a configuration on resumes its checks without a look at the status of the source | the ownership contract of spec 058: an ACTIVE source's enabled configuration |
| `MCWiredIsNotPending` (`MCEdgeSuggestions`) | `WiredIsNotPending` | `product-edge-service.ts:31` and the pass read before either commits | FR-006 of `specs/022-edge-suggestions/spec.md` |

TLC reports the first property that falls; to see each of `MCOverlaps`, leave only that one
in the configuration. `MCTwoSlotsOwned` is the reason `ActiveRunIsOwned` of `RemoteRuns` is
checked with one slot only. What the code does keep of the sentences of `MCNoOrphanRow`, `MCOverlaps` and
`MCOneProbePerSlot` is what the runs above check: `ActiveRunIsOwned` excepts the row of a
`startRun` that threw, `VisibleOwnerKeepsRunning`, `NoReporterOverruled` and
`OnlySharedIsOrphaned` speak about what a transaction could see when it read, and
`NoSecondProbe` excepts the dispatches that a failed sweep left and those started beside them.

### Findings without a run

Read in the code while it was modelled; most are inside the models as possible
steps, none has a property of its own.

* `RemoteRuns`: `onJobAck` for a run that left PENDING and a `finalize` whose write
  throws free a slot and do not drain the queue; a loop over a detached array reloads
  the same finished head. `ImportRuns` has the twin of `MCCancelWins`.
* `import-run-service.ts:796`: overlapping runs of one source deactivate each other's
  memberships; the in-flight run of a source that was retired revives a component with
  no effective reporter (`importer-source-service.ts:496`).
* `importer-source-service.ts`: a reactivation leaves components RETIRED (589); a
  deletion of a config racing a registration leaves an ACTIVE source bound to nothing;
  two registrations at once bind two sources to one config.
* `agent-session-service.ts`: a session row committed after its session was superseded
  stays open until the next restart (347); `closeSession` tests the live map and updates
  the status in two steps, so an agent can show CONNECTED without a session (870).
* `agent/src/client.ts`: the hub's close frame overwrites a `protocol_mismatch` verdict
  (302, 371). `agent/src/main.ts:107`: an enrolment token is spent before the credential
  file is written; if the write fails the agent has neither.
* `docker-target-service.ts:92`: a connectivity test that read the enabled row before the
  disabling and registers in `activeTests` after it is not aborted.
* `importer-config-service.ts`: an update reads the row it compares with outside its
  transaction.
* `import-run-service.ts:530`: an instance that a retirement ended and whose check has
  observations stays GONE when it is reported again, since nobody but the check may change
  its status (the first half of `history_lost`).
* `url-check-scheduler.ts:161`: the guard against writing a slot MISSED that is still being
  probed knows agent claims only; after a failed sweep a hub probe may be running, and the
  next sweep's backlog writes MISSED for its slot, so that its result is dropped.
* `url-check-scheduler.ts:188` arms a check that was disabled meanwhile (such a row is not
  swept); a pause and a resume let a late result advance the fresh streak; a component
  retired and revived gets all slots in between MISSED.
* `edge-suggestion-service.ts`: an accept and a wire of one pair take two locks in opposite
  orders, so the database ends one of them with an error 500; a pair covered by a group edge
  whose pass failed before the component left the group is never tombstoned.
* `product-edge-service.ts:133`: the check for cycles of COMPOSES runs outside the
  transaction that inserts, so two additions can close a cycle together.
* `import-run-service.ts:1123`: an importer that never returns holds its slot for ever;
  (1250) the FAILED write of the `catch` block may itself fail, and nobody handles that.

## Proofs

Every theorem holds for all values of the constants that satisfy the named
assumptions of its module. The inductive invariants were first checked by TLC.

`RemoteRuns` (`RemoteAssumption`: the bounds are positive, `Runs` is finite):

* `TypeInvariant`: `Spec => []TypeOK`. Inductive because a suspended call is typed
  together with its await (`WellFormed`): a call at an await that uses its array, its
  run or its `InFlight` object has one. The sequence facts come down to a least position
  existing, proved from the well-foundedness of strict subset.
* `CapacityHolds`: `[]CapacityRespected`. `FlightStep`: a step only gives slots up, or
  has just seen a free one and takes one; the rest is cardinality.
* `WaitsAreTimed`: `[]EveryWaitIsTimed`, strengthened by: an ack that is being handled is
  the ack of the object that is in the map (`AckCall` compares the object's number).
  Without that the handling of an old ack would count for a newer assignment.
* `DispatcherImplementsLifecycle`: `Spec => LifecycleSpec`. `Knowledge` says what a suspended
  call may rely on although it read the row awaits ago: facts that only grow.
* `NoSessionHolds`: `[]NoSessionNoFlight`, any number of runs and slots. `Doomed(r)`: the row is
  terminal or a call goes on to end it. `Claims`: while no session is up only an assignment whose
  ack is due is in flight; an ack that a *closed* session may still bring is of a run that is
  doomed; one that the open session may bring is of a run in flight or doomed. This is
  what keeps a late ack from putting a run back to RUNNING after its session is gone.
  `Framed`: a session handles one frame at a time, and no call forgets the rest of a lost
  session's runs. `EffectStep`: a step leaves a run alone, dooms it, or is one of the few that
  act on it, so `Claims` is examined for those only.
* `PendingRunsAreOwned`: for any number of runs and slots a PENDING run is in flight, queued under
  its deadline, or carried by a call that will queue or write it. The last part of `Claims`; a
  late ack (`Snapshots`) is of a run that is no longer PENDING, so giving up its slot forgets
  nothing.
* `LoneSlotRunsAreOwned`: `[]ActiveRunIsOwned` for `Capacity = 1`, any number of runs. `Once`: a RUNNING
  run that is not doomed is in flight, and the one ack of a run finds it PENDING.
  The hypothesis is used where a job is sent: the one slot is free, so nothing is in flight
  and no ack of the run can be pending. It is needed: with two slots the same run can be sent
  twice (`MCTwoSlotsOwned.cfg`).

`ImportRuns` (`LocalAssumption`), for every assignment of runs to configs:

* `TypeInvariant`; `RowsAreOwned`: `[]ActiveRunIsOwned`. `Consistent` says for each run which
  combinations of row, `start`, place in the queue and `worker` exist. It is needed because
  the property does not say *which* owner there is, and a step takes the run from one to the
  next. A step changes one run (`OneRunStep`), so each action is examined for its own run. A
  `startRun` that threw before the enqueue is an owner of its own kind: the row it leaves is
  PENDING, in no queue and with no worker.
* `PendingCancelHolds`: `Spec => PendingCancelWins`. `Stopped`: the row is stamped and
  not COMPLETED, its worker has still to read the stamp and no completion of it is under way.
  `StoppedStep` carries it through the queue, the worker's reads, a crash and the recovery.
* `CancelReaches`: `[]CancelReachesWorker`: the stamp and the pending call are one step, the
  controller exists before the row is read.
* `LocalRunsImplementLifecycle`: `Spec => LifecycleSpec`, from `Consistent`.
* `TargetTypes`; `TargetImplementsRuns`: `TargetSpec => Spec`; each step of `DockerTargets` is a step of
  `ImportRuns` or leaves it alone, so the theorems above hold under a docker target.
* `DisableReaches`: `[]DisableReachesRuns`. `Reached`: from the `Select` on, every run that was let
  in and is active has its stamp or is still to be stamped. It is inductive because the row
  is inserted before the target is read (a run that was let in is in the `Select` or over)
  and a run never becomes active again (`BegunStep`, from `Consistent`).

`AgentSessions` (`SessionsAssumption`, `BoundsAssumption`), any number of connections and
requests:

* `TypeInvariant`; `ClosedSessionsHoldNothing` and `EstablishedSessionIsLive`. They need
  `Claims`: a session that has not claimed the slot has no request and is not live or closed,
  one that is past its claim and not closed is live. The step that makes it
  inductive is the claim, which closes the incumbent before it writes the map, so that two
  connections in `attach` at once cannot both be past it.
* `RequestsSettleOnce`: `Spec => Promise!RequestSafety`, each step of a request mapped to a step
  of `RequestLife` or a stutter; a closing or a crash settles a *set* of requests at once,
  which is why the abstract step is over a set.

`AgentEnrolment` (the same and `TokensAssumption`):

* `TokensAreSpentOnce`: a token in the slot has bought nothing and one not yet issued has
  bought nothing (`Tokens`), so an exchange counts a fresh one.
* `BoundAgentIsKept`: the deletion of the row sees the binding, whatever its check had seen.
* `SessionsSurviveEnrolment`: the invariants of the sessions hold in the composition, since its
  steps are session steps or leave `live` and the requests alone.

`AgentExecutor` (`CapsAssumption`, `BoundsAssumption`), any number of sessions and runs:

* `InvHolds`: the inductive invariant. A session to come has no work (`Fresh`); what the hub
  has seen of each job of the open session agrees with the await it is at (`Placed`); the
  tables of every session are within the caps (`Capped`); only the open session has work that
  is not aborted; a job that is held has not used up the bound on assignments (`Room`).
  Each step of a job is described once (`JobEffect`), and the parts cite that.
* `SessionsEndTheirWork`, `CapsBoundTheWork`: from the above. The bound over *all* sessions is
  where cardinality comes in: the un-aborted jobs are those of one session.
* `CancelsAreHeard`, `GoodbyeIsFinal`: action properties from the same invariant.
* `ExecutorKeepsContract`: `Spec => Contract!ContractSafety`.

`EdgeSuggestions` (`HitsAssumption`, `BoundsAssumption`, `NoneAssumption`), any number of calls:

* `TypeInvariant`; `UnwiredStaysDecided`, `DecidedOnce`, `AcceptedWithItsEdge`. The invariant has
  three parts. `CallOK`: what a call has written but not committed is a legal successor of
  what is committed (a row it decided was undecided, an edge it deletes exists and its row is
  decided, an accepted row comes with the added edge). `LegacyKept`, in it, is for the edges older than
  suggestions: a wired pair without a row is not staged by a pass that has read the edges, and a
  call that gives it a row gives it a decided one. `Exclusive`: two calls have no row
  and no key in common. Commit is then harmless to every other call because what they
  wrote is disjoint.

`ProbeSchedule` (its assumptions bound the clock and the pool and ask `Threshold` and
`MissedPerSweep` to be positive), any checks, slots and agents:

* `TypeInvariant`; `NoSecondProbeHolds`, `NoSlotLostHolds`, `StreakIsTrailingHolds`, from one
  invariant. `Turns`: a check the sweep has still to visit has no current dispatch, or one that
  holds its claim (`Free`), so a sweep starts a second dispatch only beside one that a failed
  sweep left. `Apart`: a dispatch that is `alone` is the only one of its check, and that is
  what `NoSecondProbe` needs, since nobody else can record its slot. `Coverage`: not only the
  row's `next` but whatever slot somebody will move it to (the sweep's copy of the row, the
  missed slots it is writing, the slots of the dispatches, `InFlight`) has no gap before it.
  `Steady`: the observations of a check nobody paused have no gap, so that the number of
  slots without a success grows by one where the code adds one. The cardinality of the
  trailing run is the lemma the streak comes down to: a new slot at the end adds one, a
  success empties it. The last two hold for every dispatch, those of failed sweeps too.

`SourceMemberships`, `ManagedChecks` and `AutoGroups` (`NoneAssumption`, `BoundsAssumption`,
`DefsAssumption`, `CapableAssumption`, `GroupsAssumption`: no source is called "none" or
"human"), any sources, configurations, components, runs and definitions, all in
`SourceMemberships_proofs`:

* `TypeInvariant`, `CheckTypeInvariant`, `GroupTypeInvariant`. `Known` says whom an open transaction is for: the
  source of a run that reports exists, a plan to drop a component drops its instances too.
* `SoloRunIsExactHolds`. `Alone`: while a run is solo, the memberships of its
  source that carry its mark are what it has yielded, and the set of stale ones it has
  read is still the one there is. It holds because `solo` is cleared when any other run of
  the source is let in, before that run can write.
* `NoReporterOverruledHolds`, `OnlySharedIsOrphanedHolds`. `PlanSound`: what an open plan retires
  was reported, when it was read, by nobody but the plan's own source, and what it deactivates
  without retiring was reported by another. A plan does not change between its read and
  its commit, so this is inductive whatever else commits in between; the commit, in
  `ByReconcile` and `ByRetire`, and the asset that drops its own instance, in `ByAsset`, then
  show both properties.
* `DefinitionsAgreeHolds`, `AutoDisabledStaysOffHolds`, `VisibleOwnerKeepsRunningHolds`, from
  `ChecksInv`. `Sound`: every active owner agrees with its check. `Agrees`: a declaration that was
  found not to conflict conflicts with no other owner until it commits, because it has the
  check's row. `Loses`: a transaction that will switch a check off had seen no owner but those
  it ends itself, by its run's source or by its configuration. `ReadsKnown`: a check that it will switch on
  had not disabled itself when it was read, and only the enabling of a configuration
  brings one back. `OneAsset`: the row locks keep a component to one open asset, without which two first
  declarations could disagree. Each action is taken in three parts: what it does to the
  checks, what to the open reads, and the two action properties.
* `ChecksImplementCatalog`, `GroupsImplementCatalog`: `CheckSpec => Spec`, `GroupSpec => Spec`. The theorems
  about the catalogue carry over: `CatalogUnderChecks`, `SoloRunIsExactBesidePasses`.
* `HumanGroupsKeptHolds`: the guard is in the UPDATE, so the stale plan is harmless.
* `GroupsFollowReportersHolds`: `PassFresh`. The source rows a pass holds keep registrations,
  retirements and deletions out (`Undisturbed`), so that who counts does not change. What may still come is a
  membership, and the property excepts it: of those that had one when the pass read, the source that gets a
  component is the only one that counts (`SoleReader`).

None of these bounds `MaxOpen`: they hold for any number of overlapping transactions.

Only model-checked:

* The liveness properties: `PendingEnds`, `CancelEnds`, `RunEnds`, `GoneSessionEnds`,
  `OrphanRowsClose`, `FallenCredentialDrops`, `ScheduleCatchesUp`, and the liveness parts of
  `RequestSpec` and `ContractSpec`, whose safety parts are proved (`RequestsSettleOnce`,
  `ExecutorKeepsContract`). Liveness under fairness is out of the prover's reach.
* What the disagreements on record show: a theorem cannot state it.

Every other property of the runs is stated by a theorem above. One hypothesis is not an
assumption of a module, `Capacity = 1` of `LoneSlotRunsAreOwned`, and it is needed
(`MCTwoSlotsOwned.cfg`).

No module declares a RECURSIVE operator.

## Not modelled

* *Frames of data*: `asset.batch`, `source.identity`, `run.phase`, `run.error` of
  `RemoteRuns`. What an asset does to the catalogue is in `SourceMemberships`; slugs, fields and
  the mapping of attributes are data.
* *The legacy path of the reconciliation* and the adoption of rows without identity: every
  importer in the repository sets `reportsSourceIdentity: true`.
* *Cadence changes, the retention purge, headers* of URL checks: the first moves
  `nextProbeAt` by arithmetic on real time; the purge deletes old observations.
* *Heartbeat payloads and the drain on shutdown* of sessions, *the spool of asset batches* of
  the agent.
* *Products and their health, COMPOSES and CONSUMES_FROM edges*: pure functions and CRUD, but for
  the race on cycles noted above, which is two SELECTs and two INSERTs.
* *Credentials, configs (beyond deletion and switching), accounts and reset tokens,
  settings, audit, search, dashboards*: single transactions on one row, or queries.
* *Connectivity tests and the probe of a docker target*, and its CRUD.
* *Promotion and bootstrap*: batch transformations in one transaction.
* *Routes and plugins*: adapters. *Importers*: their input is third-party data. *The frontend*: a
  client of the HTTP API without state that outlives a request.

The map names few of the repository's lines for that reason: most of them are frontend
components, CRUD services, queries and importers.

## Plan

1. Compose `RemoteRuns` with `AgentContract` in the place of `wire`.
2. Accounts: the single use of a reset token and the expiry of sessions.
