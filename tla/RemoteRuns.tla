----------------------------- MODULE RemoteRuns -----------------------------
(***************************************************************************)
(* The hub's dispatcher of remote import runs (RemoteRunService in         *)
(* packages/backend/src/services/remote-run-service.ts), with the callers  *)
(* that drive it: startRun and cancelRun (import-run-service.ts), the      *)
(* session service that connects, loses and supersedes an agent's session  *)
(* (agent-session-service.ts), and recoverRuns at boot.                    *)
(*                                                                         *)
(* All of the service's state is keyed by agent and no operation touches   *)
(* two agents, so the module models the runs of ONE agent.                 *)
(*                                                                         *)
(* The hub is a single-threaded event loop: what runs between two awaits   *)
(* is one step, and at every await any other callback may run.  A started  *)
(* asynchronous call is a record of the pool `task`, its `pc` names the    *)
(* await it is suspended at, and `root` says who awaits the whole call     *)
(* and so what an exception does:                                          *)
(*   "http"       a request or the cron catches it                         *)
(*   "void"       a timer or session-ready callback: nobody catches it,    *)
(*                the process dies of an unhandled rejection               *)
(*   "live","old" the frame queue of the current / of a closed session     *)
(*                logs it; a session handles one frame at a time           *)
(*   "lost","supersede"  the loop of onSessionLost logs it and goes on     *)
(***************************************************************************)
EXTENDS Integers, Sequences, FiniteSets, SequencesExt

CONSTANTS
  Runs,          \* runs of this agent's configs
  NoRun,         \* "no run" in an idle task
  Capacity,      \* import_agents.maxConcurrentJobs
  DeadRunCap,    \* DEAD_RUN_CAP
  MaxTasks,      \* bound: asynchronous calls suspended at the same time
  MaxAssigns,    \* bound: InFlight records created for one run
  Credentialed,  \* runs whose config links credentials (the stamp is written)
  Drifts         \* what may go wrong with a run's config while it waits

ASSUME RemoteAssumption ==
  /\ NoRun \notin Runs
  /\ IsFiniteSet(Runs)
  /\ Capacity \in Nat \ {0}
  /\ DeadRunCap \in Nat \ {0}
  /\ MaxTasks \in Nat \ {0}
  /\ MaxAssigns \in Nat \ {0}
  /\ Credentialed \subseteq Runs
  /\ Drifts \subseteq {"blocked", "gone"}

VARIABLES
  status, cancelRequestedAt,   \* the rows of import_runs
  policy,          \* config/agent/credential of the run: "ok", "blocked" (jobGate
                   \* refuses) or "gone" (config or agent row deleted)
  content,         \* the FIFO arrays, by identity: a suspended tryDispatch keeps
                   \* its array even after the map has dropped or replaced it
  pendingByAgent,  \* the array the map holds for the agent, or NoArray
  queuedJobs, dispatchTimers,  \* runs waiting for a slot; runs with a deadline
  entry,           \* every InFlight object created for a run, by number
  inFlight,        \* the number of the InFlight object in the map, 0 if none
  deadRuns,        \* finalized runs whose late frames are ignored, oldest first
  task,            \* asynchronous calls, see above
  conn,            \* the agent's session: "down", "attaching" (claimed, before
                   \* hello.ok), "ready", "dead" (socket gone, not yet closed)
  wire,            \* what the agent does with each run it was assigned
  fatal,           \* an unhandled rejection has killed the hub
  rejected         \* a session was closed for a protocol violation

dbVars == <<status, cancelRequestedAt, policy>>
queueVars == <<content, pendingByAgent, queuedJobs, dispatchTimers>>
flightVars == <<entry, inFlight, deadRuns>>
agentVars == <<conn, wire, rejected>>
vars == <<dbVars, queueVars, flightVars, agentVars, task, fatal>>

Lifecycle == INSTANCE RunLifecycle
Active == Lifecycle!Active
Terminal == Lifecycle!Terminal

Tasks == 1..MaxTasks
Arrays == 1..(MaxTasks + 1)
NoArray == 0
EntryIds == 1..MaxAssigns
Handles == Runs \X EntryIds
Sources == {"live", "old"}
Roots == Sources \cup {"none", "http", "void", "lost", "supersede"}
PCs == {"idle", "enqueue_load", "enqueue_got", "dispatch_load", "dispatch_got",
        "load_fail", "queued_write", "stamp", "final_write", "lost_next",
        "ack_mark", "ack_got", "reconcile", "auto_groups", "cancel_call"}

FreeEntry == [state |-> "FREE", cancelRequested |-> FALSE,
              ackTimer |-> FALSE, cancelTimer |-> FALSE]
NoJob == [state |-> "none", abort |-> FALSE]
Idle == [pc |-> "idle", run |-> NoRun, k |-> 0, arr |-> NoArray, root |-> "none",
         status |-> "ABSENT", cancel |-> FALSE, todo |-> {}]

Entries == [state: {"FREE", "ASSIGNED", "RUNNING"}, cancelRequested: BOOLEAN,
            ackTimer: BOOLEAN, cancelTimer: BOOLEAN]
AgentJobs == [state: {"none", "assigned", "running"}, abort: BOOLEAN]

\* A suspended call knows the run, the array or the InFlight object it is about.
WellFormed(c) ==
  /\ c.pc \notin {"idle", "lost_next"} => c.run \in Runs
  /\ c.pc \in {"dispatch_load", "dispatch_got", "stamp"} => c.arr \in Arrays
  /\ c.pc \in {"ack_mark", "ack_got", "reconcile", "auto_groups"} => c.k \in EntryIds
Calls ==
  {c \in [pc: PCs, run: Runs \cup {NoRun}, k: EntryIds \cup {0},
          arr: Arrays \cup {NoArray}, root: Roots, status: Lifecycle!Statuses,
          cancel: BOOLEAN, todo: SUBSET Handles] : WellFormed(c)}

TypeOK ==
  /\ status \in [Runs -> Lifecycle!Statuses]
  /\ cancelRequestedAt \in [Runs -> BOOLEAN]
  /\ policy \in [Runs -> {"ok", "blocked", "gone"}]
  /\ content \in [Arrays -> Seq(Runs)]
  /\ pendingByAgent \in Arrays \cup {NoArray}
  /\ queuedJobs \subseteq Runs
  /\ dispatchTimers \subseteq Runs
  /\ entry \in [Runs -> [EntryIds -> Entries]]
  /\ inFlight \in [Runs -> EntryIds \cup {0}]
  /\ deadRuns \in Seq(Runs) /\ Len(deadRuns) <= DeadRunCap
  /\ task \in [Tasks -> Calls]
  /\ conn \in {"down", "attaching", "ready", "dead"}
  /\ wire \in [Sources -> [Runs -> AgentJobs]]
  /\ fatal \in BOOLEAN
  /\ rejected \in BOOLEAN

Init ==
  /\ status = [r \in Runs |-> "ABSENT"]
  /\ cancelRequestedAt = [r \in Runs |-> FALSE]
  /\ policy = [r \in Runs |-> "ok"]
  /\ content = [a \in Arrays |-> <<>>]
  /\ pendingByAgent = NoArray
  /\ queuedJobs = {}
  /\ dispatchTimers = {}
  /\ entry = [r \in Runs |-> [k \in EntryIds |-> FreeEntry]]
  /\ inFlight = [r \in Runs |-> 0]
  /\ deadRuns = <<>>
  /\ task = [t \in Tasks |-> Idle]
  /\ conn = "down"
  /\ wire = [s \in Sources |-> [r \in Runs |-> NoJob]]
  /\ fatal = FALSE
  /\ rejected = FALSE
-----------------------------------------------------------------------------
(* Helpers shared by the handlers.                                         *)

\* A new asynchronous call takes the lowest idle slot of the pool.
Spawnable(t) ==
  /\ task[t].pc = "idle"
  /\ \A u \in Tasks : task[u].pc = "idle" => t <= u

\* sessions.isConnected(agentId)
Connected == conn \in {"attaching", "ready"}

InFlightCount == Cardinality({r \in Runs : inFlight[r] # 0})

\* Seeded bug: the comparison admits one job too many.
HasSlotMutant == InFlightCount <= Capacity
HasSlot == InFlightCount < Capacity

\* The run's InFlight object awaits its ack / accepts stream frames.
Assigned(r) == inFlight[r] # 0 /\ entry[r][inFlight[r]].state = "ASSIGNED"
Owned(r) == inFlight[r] # 0 /\ entry[r][inFlight[r]].state = "RUNNING"
IsDeadRun(r) == \E i \in DOMAIN deadRuns : deadRuns[i] = r

\* A call has returned to its caller; the loop of onSessionLost goes on.
Returned(root, todo) ==
  IF todo = {} THEN Idle
               ELSE [Idle EXCEPT !.pc = "lost_next", !.root = root, !.todo = todo]

\* The call awaits loadJob for the head of the array it iterates over.
Loading(root, todo, arr, c) ==
  [Idle EXCEPT !.pc = "dispatch_load", !.run = Head(c[arr]), !.arr = arr,
               !.root = root, !.todo = todo]

\* The synchronous start of tryDispatch, for the map p and the arrays c.
TryDispatch(root, todo, p, c) ==
  IF p # NoArray /\ c[p] # <<>> /\ Connected
  THEN Loading(root, todo, p, c)
  ELSE Returned(root, todo)

\* tryDispatch goes round its loop, and leaves it when ITS array is empty --
\* deleting whatever array the map then holds.
NextIteration(job, c) ==
  IF c[job.arr] # <<>> THEN Loading(job.root, job.todo, job.arr, c)
                       ELSE Returned(job.root, job.todo)
PendingAfter(job, p, c) == IF c[job.arr] = <<>> THEN NoArray ELSE p

\* Seeded bug: the timer is created but never registered.
ArmDeadlineMutant(r) == UNCHANGED dispatchTimers
\* armDispatchDeadline
ArmDeadline(r) == dispatchTimers' = dispatchTimers \cup {r}

\* dequeue(agentId, runId)
ContentWithout(r) ==
  IF pendingByAgent = NoArray
  THEN content
  ELSE [content EXCEPT ![pendingByAgent] = RemoveFirst(@, r)]
PendingWithout(r) ==
  IF pendingByAgent # NoArray /\ ContentWithout(r)[pendingByAgent] = <<>>
  THEN NoArray
  ELSE pendingByAgent
Unqueue(r) ==
  /\ queuedJobs' = queuedJobs \ {r}
  /\ dispatchTimers' = dispatchTimers \ {r}
Dequeue(r) ==
  /\ content' = ContentWithout(r)
  /\ pendingByAgent' = PendingWithout(r)
  /\ Unqueue(r)

\* A discarded head: dequeue, then `continue` in tryDispatch's loop.
DequeueAndContinue(t) ==
  LET job == task[t]
      r == job.run
  IN /\ content' = ContentWithout(r)
     /\ pendingByAgent' = PendingAfter(job, PendingWithout(r), ContentWithout(r))
     /\ Unqueue(r)
     /\ task' = [task EXCEPT ![t] = NextIteration(job, ContentWithout(r))]

\* markDead: the oldest entry makes room, a known run keeps its place.
MarkDead(r) ==
  LET kept == IF Len(deadRuns) >= DeadRunCap THEN Tail(deadRuns) ELSE deadRuns
  IN deadRuns' = IF \E i \in DOMAIN kept : kept[i] = r THEN kept ELSE Append(kept, r)

\* sendCancel: the frame is dropped when no session is connected.
SendCancel(r) ==
  wire' = IF Connected /\ wire["live"][r].state # "none"
          THEN [wire EXCEPT !["live"][r].abort = TRUE]
          ELSE wire

\* clearTimeout of both timers of an InFlight object.
TimersCleared(e) == [e EXCEPT !.ackTimer = FALSE, !.cancelTimer = FALSE]

\* Seeded bug: the confirmation of a cancel is not bounded by a timer.
CancelMarkedMutant(e) == [e EXCEPT !.cancelRequested = TRUE]
\* cancelRemoteRun on an assigned run.
CancelMarked(e) == [e EXCEPT !.cancelRequested = TRUE, !.cancelTimer = TRUE]

\* Seeded bug: only running jobs are snapshot, not those awaiting their ack.
LostHandlesMutant == {h \in Handles : inFlight[h[1]] = h[2] /\ Owned(h[1])}
\* The snapshot onSessionLost takes of the agent's in-flight objects.
LostHandles == {h \in Handles : inFlight[h[1]] = h[2]}

\* The synchronous part of finalize(entry, ...): the slot is given up and the
\* run is dead before the awaited write of the terminal status s.
Finalize(t, r, k, s, root, todo) ==
  /\ entry' = [entry EXCEPT ![r][k] = TimersCleared(@)]
  /\ inFlight' = [inFlight EXCEPT ![r] = 0]
  /\ MarkDead(r)
  /\ task' = [task EXCEPT ![t] =
       [Idle EXCEPT !.pc = "final_write", !.run = r, !.status = s,
                    !.root = root, !.todo = todo]]

\* Seeded bug: without the trigger a terminal row can be overwritten.
WritableMutant(r) == TRUE
\* updateRun(runId, {status: s}): false when the trigger of migration 003
\* raises because the row is terminal.
Writable(r) == status[r] \notin Terminal
WriteStatus(r, s) == status' = [status EXCEPT ![r] = s]

\* The hub process starts again: its memory and its sockets are gone, and
\* recoverRuns ends the active rows before the server listens.
HubRestart ==
  /\ status' = [r \in Runs |->
       IF status[r] \notin Active THEN status[r]
       ELSE IF cancelRequestedAt[r] THEN "CANCELLED" ELSE "FAILED"]
  /\ content' = [a \in Arrays |-> <<>>]
  /\ pendingByAgent' = NoArray
  /\ queuedJobs' = {}
  /\ dispatchTimers' = {}
  /\ entry' = [r \in Runs |-> [k \in EntryIds |-> FreeEntry]]
  /\ inFlight' = [r \in Runs |-> 0]
  /\ deadRuns' = <<>>
  /\ task' = [t \in Tasks |-> Idle]
  /\ conn' = "down"
  /\ wire' = [s \in Sources |-> [r \in Runs |-> NoJob]]
  /\ UNCHANGED <<cancelRequestedAt, policy, rejected>>

\* An exception reaches the caller of the whole asynchronous call.
Throw(t) ==
  \/ /\ task[t].root = "void"
     /\ fatal' = TRUE
     /\ HubRestart
  \/ /\ task[t].root # "void"
     /\ task' = [task EXCEPT ![t] = Returned(task[t].root, task[t].todo)]
     /\ UNCHANGED <<dbVars, queueVars, flightVars, agentVars, fatal>>
-----------------------------------------------------------------------------
(* Starting and queueing a run.                                            *)

\* startRun commits the PENDING row and calls enqueue.
StartRun(r, t) ==
  /\ status[r] = "ABSENT"
  /\ Spawnable(t)
  /\ WriteStatus(r, "PENDING")
  /\ task' = [task EXCEPT ![t] =
       [Idle EXCEPT !.pc = "enqueue_load", !.run = r, !.root = "http"]]
  /\ UNCHANGED <<cancelRequestedAt, policy, queueVars, flightVars, agentVars, fatal>>

\* loadJob reads the run's row first; the config, the agent, the credentials
\* and the manifest are awaited afterwards, and the caller goes on later still.
LoadJob(t) ==
  /\ task[t].pc \in {"enqueue_load", "dispatch_load"}
  /\ task' = [task EXCEPT
       ![t].pc = IF @ = "enqueue_load" THEN "enqueue_got" ELSE "dispatch_got",
       ![t].status = status[task[t].run],
       ![t].cancel = cancelRequestedAt[task[t].run]]
  /\ UNCHANGED <<dbVars, queueVars, flightVars, agentVars, fatal>>

\* loadJob finds the config or the agent deleted: it fails a run it saw
\* PENDING itself, and returns null.
LoadJobGone(t) ==
  /\ task[t].pc \in {"enqueue_got", "dispatch_got"}
  /\ task[t].status = "PENDING"
  /\ policy[task[t].run] = "gone"
  /\ task' = [task EXCEPT ![t].pc = "load_fail"]
  /\ UNCHANGED <<dbVars, queueVars, flightVars, agentVars, fatal>>

\* That write (its exception is swallowed), then the caller of loadJob goes on:
\* enqueue gives up, tryDispatch discards its head.
LoadFail(t) ==
  /\ task[t].pc = "load_fail"
  /\ status' = IF Writable(task[t].run)
               THEN [status EXCEPT ![task[t].run] = "FAILED"] ELSE status
  /\ \/ /\ task[t].arr = NoArray
        /\ task' = [task EXCEPT ![t] = Idle]
        /\ UNCHANGED queueVars
     \/ /\ task[t].arr # NoArray
        /\ DequeueAndContinue(t)
  /\ UNCHANGED <<cancelRequestedAt, policy, flightVars, agentVars, fatal>>

\* enqueue is called once per run, for the row its startRun has just committed,
\* and nothing can end that row before: its return for a row that is no longer
\* PENDING is a guard of EnqueuePush and has no action of its own.
\*
\* enqueue: a cancel stamped before loadJob read the row ends the run as
\* CANCELLED, a hard gate as FAILED; both before it is ever queued.
EnqueueRefuse(t) ==
  LET job == task[t] IN
  /\ job.pc = "enqueue_got"
  /\ policy[job.run] # "gone"
  /\ \/ /\ job.cancel
        /\ task' = [task EXCEPT ![t] =
             [Idle EXCEPT !.pc = "queued_write", !.run = job.run,
                          !.status = "CANCELLED", !.root = "http"]]
     \/ /\ ~job.cancel
        /\ job.status = "PENDING"
        /\ policy[job.run] = "blocked"
        /\ task' = [task EXCEPT ![t] =
             [Idle EXCEPT !.pc = "queued_write", !.run = job.run,
                          !.status = "FAILED", !.root = "http"]]
  /\ UNCHANGED <<dbVars, queueVars, flightVars, agentVars, fatal>>

\* enqueue: push the run on the agent's array (a new one if the map has none),
\* arm the dispatch deadline and call tryDispatch.
EnqueuePush(t) ==
  LET r == task[t].run
      unused(a) == \A u \in Tasks : task[u].arr # a
  IN
  /\ task[t].pc = "enqueue_got"
  /\ task[t].status = "PENDING"
  /\ ~task[t].cancel
  /\ policy[r] = "ok"
  /\ \E a \in Arrays :
       /\ \/ /\ pendingByAgent = a
             /\ content' = [content EXCEPT ![a] = Append(@, r)]
          \/ /\ pendingByAgent = NoArray
             /\ unused(a) /\ \A b \in Arrays : unused(b) => a <= b
             /\ content' = [content EXCEPT ![a] = <<r>>]
       /\ pendingByAgent' = a
       /\ task' = [task EXCEPT ![t] = TryDispatch("http", {}, a, content')]
  /\ queuedJobs' = queuedJobs \cup {r}
  /\ ArmDeadline(r)
  /\ UNCHANGED <<dbVars, flightVars, agentVars, fatal>>
-----------------------------------------------------------------------------
(* tryDispatch: one iteration of its loop, after loadJob has returned.     *)

DispatchDiscard(t) ==
  /\ task[t].pc = "dispatch_got"
  /\ task[t].status # "PENDING"
  /\ DequeueAndContinue(t)
  /\ UNCHANGED <<dbVars, flightVars, agentVars, fatal>>

\* The head was cancelled, or a gate now refuses it: dequeue and write.
DispatchRefuse(t) ==
  LET job == task[t] IN
  /\ job.pc = "dispatch_got"
  /\ job.status = "PENDING"
  /\ policy[job.run] # "gone"
  /\ job.cancel \/ policy[job.run] = "blocked"
  /\ Dequeue(job.run)
  /\ task' = [task EXCEPT ![t].pc = "queued_write",
                          ![t].status = IF job.cancel THEN "CANCELLED" ELSE "FAILED",
                          ![t].cancel = FALSE]
  /\ UNCHANGED <<dbVars, flightVars, agentVars, fatal>>

\* What the snapshot must show for the head to be sent.
Dispatchable(job) ==
  /\ job.pc = "dispatch_got"
  /\ job.status = "PENDING"
  /\ ~job.cancel
  /\ policy[job.run] = "ok"

\* No slot or no session: the call ends, the queue waits for the next signal.
DispatchWait(t) ==
  /\ Dispatchable(task[t])
  /\ ~HasSlot \/ ~Connected
  /\ task' = [task EXCEPT ![t] = Returned(task[t].root, task[t].todo)]
  /\ UNCHANGED <<dbVars, queueVars, flightVars, agentVars, fatal>>

\* queue.shift() removes whatever is the head now; job.assign goes out for the
\* run that was the head when loadJob was called.
DispatchSend(t) ==
  LET job == task[t]
      r == job.run
      c == [content EXCEPT ![job.arr] = IF @ = <<>> THEN @ ELSE Tail(@)]
  IN
  /\ Dispatchable(job)
  /\ HasSlot
  /\ Connected
  /\ \E k \in EntryIds :
       /\ entry[r][k].state = "FREE"
       /\ \A j \in EntryIds : entry[r][j].state = "FREE" => k <= j
       /\ entry' = [entry EXCEPT ![r][k] = [FreeEntry EXCEPT !.state = "ASSIGNED",
                                                             !.ackTimer = TRUE]]
       /\ inFlight' = [inFlight EXCEPT ![r] = k]
  /\ wire' = IF wire["live"][r].state = "none"
             THEN [wire EXCEPT !["live"][r].state = "assigned"] ELSE wire
  /\ content' = c
  /\ Unqueue(r)
  /\ \/ /\ r \in Credentialed
        /\ task' = [task EXCEPT ![t].pc = "stamp", ![t].status = "ABSENT"]
        /\ UNCHANGED pendingByAgent
     \/ /\ r \notin Credentialed
        /\ pendingByAgent' = PendingAfter(job, pendingByAgent, c)
        /\ task' = [task EXCEPT ![t] = NextIteration(job, c)]
  /\ UNCHANGED <<dbVars, deadRuns, conn, rejected, fatal>>

\* The socket dies under the send: the run goes back to the head.
DispatchSendFails(t) ==
  LET job == task[t] IN
  /\ Dispatchable(job)
  /\ HasSlot
  /\ Connected
  /\ content' = [content EXCEPT ![job.arr] =
                   <<job.run>> \o (IF @ = <<>> THEN @ ELSE Tail(@))]
  /\ task' = [task EXCEPT ![t] = Returned(job.root, job.todo)]
  /\ conn' = "dead"
  /\ UNCHANGED <<dbVars, pendingByAgent, queuedJobs, dispatchTimers, flightVars,
                 wire, rejected, fatal>>

\* The credentialIds stamp on the assigned run's row.  Nothing in tryDispatch
\* catches the exception the trigger raises on a terminal row.
Stamp(t) ==
  /\ task[t].pc = "stamp"
  /\ \/ /\ Writable(task[t].run)
        /\ pendingByAgent' = PendingAfter(task[t], pendingByAgent, content)
        /\ task' = [task EXCEPT ![t] = NextIteration(task[t], content)]
        /\ UNCHANGED <<dbVars, content, queuedJobs, dispatchTimers, flightVars,
                       agentVars, fatal>>
     \/ ~Writable(task[t].run) /\ Throw(t)
-----------------------------------------------------------------------------
(* The awaited terminal writes.                                            *)

\* failQueuedRun / finalizeQueuedCancelled: a row that is already terminal is
\* left alone.  Inside tryDispatch the loop goes on.
QueuedWrite(t) ==
  LET job == task[t] IN
  /\ job.pc = "queued_write"
  /\ status' = IF Writable(job.run) THEN [status EXCEPT ![job.run] = job.status]
                                    ELSE status
  /\ \/ /\ job.arr = NoArray
        /\ task' = [task EXCEPT ![t] = Idle]
        /\ UNCHANGED pendingByAgent
     \/ /\ job.arr # NoArray
        /\ pendingByAgent' = PendingAfter(job, pendingByAgent, content)
        /\ task' = [task EXCEPT ![t] = NextIteration(job, content)]
  /\ UNCHANGED <<cancelRequestedAt, policy, content, queuedJobs, dispatchTimers,
                 flightVars, agentVars, fatal>>

\* finalize: the write, then tryDispatch for the freed slot; the trigger's
\* exception skips the latter.
FinalWrite(t) ==
  LET job == task[t] IN
  /\ job.pc = "final_write"
  /\ \/ /\ Writable(job.run)
        /\ WriteStatus(job.run, job.status)
        /\ task' = [task EXCEPT ![t] =
                      TryDispatch(job.root, job.todo, pendingByAgent, content)]
        /\ UNCHANGED <<cancelRequestedAt, policy, queueVars, flightVars, agentVars,
                       fatal>>
     \/ ~Writable(job.run) /\ Throw(t)
-----------------------------------------------------------------------------
(* Timers.                                                                 *)

\* onDispatchTimeout
DispatchTimeout(r, t) ==
  /\ r \in dispatchTimers
  /\ Spawnable(t)
  /\ \/ /\ r \in queuedJobs
        /\ Dequeue(r)
        /\ task' = [task EXCEPT ![t] =
             [Idle EXCEPT !.pc = "queued_write", !.run = r, !.status = "FAILED",
                          !.root = "void"]]
     \/ /\ r \notin queuedJobs
        /\ dispatchTimers' = dispatchTimers \ {r}
        /\ UNCHANGED <<content, pendingByAgent, queuedJobs, task>>
  /\ UNCHANGED <<dbVars, flightVars, agentVars, fatal>>

\* onAckTimeout: the timer of InFlight object k looks up whatever object the
\* map now holds for the run.
AckTimeout(r, k, t) ==
  LET cur == inFlight[r]
      fired == [entry EXCEPT ![r][k].ackTimer = FALSE]
  IN
  /\ entry[r][k].ackTimer
  /\ Spawnable(t)
  /\ \/ /\ Assigned(r)
        /\ SendCancel(r)
        /\ entry' = [fired EXCEPT ![r][cur] = TimersCleared(@)]
        /\ inFlight' = [inFlight EXCEPT ![r] = 0]
        /\ MarkDead(r)
        /\ task' = [task EXCEPT ![t] =
             [Idle EXCEPT !.pc = "final_write", !.run = r, !.status = "FAILED",
                          !.root = "void"]]
     \/ /\ ~Assigned(r)
        /\ entry' = fired
        /\ UNCHANGED <<inFlight, deadRuns, task, wire>>
  /\ UNCHANGED <<dbVars, queueVars, conn, rejected, fatal>>

\* onCancelTimeout
CancelTimeout(r, k, t) ==
  LET cur == inFlight[r]
      fired == [entry EXCEPT ![r][k].cancelTimer = FALSE]
  IN
  /\ entry[r][k].cancelTimer
  /\ Spawnable(t)
  /\ \/ /\ cur # 0
        /\ entry' = [fired EXCEPT ![r][cur] = TimersCleared(@)]
        /\ inFlight' = [inFlight EXCEPT ![r] = 0]
        /\ MarkDead(r)
        /\ task' = [task EXCEPT ![t] =
             [Idle EXCEPT !.pc = "final_write", !.run = r, !.status = "FAILED",
                          !.root = "void"]]
     \/ /\ cur = 0
        /\ entry' = fired
        /\ UNCHANGED <<inFlight, deadRuns, task>>
  /\ UNCHANGED <<dbVars, queueVars, agentVars, fatal>>
-----------------------------------------------------------------------------
(* Cancellation.                                                           *)

\* cancelRun stamps the row (on a terminal row the trigger raises and the
\* request fails), reads it back, and only then calls the dispatcher.  Bound:
\* the last idle slot is kept for the hub's own callbacks.
CancelRun(r, t) ==
  /\ status[r] \in Active
  /\ Spawnable(t)
  /\ \E u \in Tasks \ {t} : task[u].pc = "idle"
  /\ cancelRequestedAt' = [cancelRequestedAt EXCEPT ![r] = TRUE]
  /\ task' = [task EXCEPT ![t] =
       [Idle EXCEPT !.pc = "cancel_call", !.run = r, !.root = "http"]]
  /\ UNCHANGED <<status, policy, queueVars, flightVars, agentVars, fatal>>

\* cancelRemoteRun: an assigned run gets the cancel frame and a bounded wait, a
\* queued one is dequeued and written, for any other there is nothing to do.
CancelRemoteRun(t) ==
  LET r == task[t].run
      k == inFlight[r]
  IN
  /\ task[t].pc = "cancel_call"
  /\ \/ /\ k # 0
        /\ entry' = [entry EXCEPT ![r][k] = CancelMarked(@)]
        /\ SendCancel(r)
        /\ task' = [task EXCEPT ![t] = Idle]
        /\ UNCHANGED queueVars
     \/ /\ k = 0 /\ r \in queuedJobs
        /\ Dequeue(r)
        /\ task' = [task EXCEPT ![t].pc = "queued_write", ![t].status = "CANCELLED"]
        /\ UNCHANGED <<entry, wire>>
     \/ /\ k = 0 /\ r \notin queuedJobs
        /\ task' = [task EXCEPT ![t] = Idle]
        /\ UNCHANGED <<queueVars, entry, wire>>
  /\ UNCHANGED <<dbVars, inFlight, deadRuns, conn, rejected, fatal>>
-----------------------------------------------------------------------------
(* Frames of the agent.  A session handles one frame at a time; the frames *)
(* that were already queued when it closed are still handled ("old").      *)

Handling(s) == \E t \in Tasks : task[t].root = s
Receives(s) == /\ ~Handling(s)
               /\ s = "live" => conn \in {"ready", "dead"}

\* onJobAck.  An ack nobody waits for is ignored.
JobAck(s, r, accepted, t) ==
  LET k == inFlight[r] IN
  /\ Receives(s)
  /\ wire[s][r].state = "assigned"
  /\ Spawnable(t)
  /\ wire' = [wire EXCEPT ![s][r] =
                IF accepted THEN [@ EXCEPT !.state = "running"] ELSE NoJob]
  /\ \/ /\ ~Assigned(r)
        /\ UNCHANGED <<flightVars, task>>
     \/ /\ Assigned(r)
        /\ ~accepted
        /\ Finalize(t, r, k,
                    IF entry[r][k].cancelRequested THEN "CANCELLED" ELSE "FAILED",
                    s, {})
     \/ /\ Assigned(r)
        /\ accepted
        /\ entry' = [entry EXCEPT ![r][k].ackTimer = FALSE]
        /\ task' = [task EXCEPT ![t] = [Idle EXCEPT !.pc = "ack_mark", !.run = r,
                                                    !.k = k, !.root = s]]
        /\ UNCHANGED <<inFlight, deadRuns>>
  /\ UNCHANGED <<dbVars, queueVars, conn, rejected, fatal>>

\* markRunRunning: UPDATE ... WHERE status = 'PENDING'.
AckMark(t) ==
  LET r == task[t].run IN
  /\ task[t].pc = "ack_mark"
  /\ status' = IF status[r] = "PENDING" THEN [status EXCEPT ![r] = "RUNNING"]
                                        ELSE status
  /\ task' = [task EXCEPT ![t].pc = "ack_got",
                          ![t].status = IF status[r] = "PENDING" THEN "RUNNING"
                                                                 ELSE "ABSENT"]
  /\ UNCHANGED <<cancelRequestedAt, policy, queueVars, flightVars, agentVars, fatal>>

\* The rest of onJobAck: the run streams, or -- it had left PENDING -- the
\* agent is told to abort a job the hub no longer owns.
AckGot(t) ==
  LET r == task[t].run
      k == task[t].k
  IN
  /\ task[t].pc = "ack_got"
  /\ \/ /\ task[t].status = "RUNNING"
        /\ entry' = [entry EXCEPT ![r][k].state = "RUNNING"]
        /\ UNCHANGED <<inFlight, deadRuns, wire>>
     \/ /\ task[t].status # "RUNNING"
        /\ inFlight' = [inFlight EXCEPT ![r] = 0]
        /\ MarkDead(r)
        /\ SendCancel(r)
        /\ UNCHANGED entry
  /\ task' = [task EXCEPT ![t] = Idle]
  /\ UNCHANGED <<dbVars, queueVars, conn, rejected, fatal>>

\* onRunComplete.  Only an aborted job reports CANCELLED; a cancel the hub has
\* sent wins over whatever the agent reports; COMPLETED is a failure when the
\* importer owed the hub a source identity it never reported.
RunComplete(s, r, result, t) ==
  LET k == inFlight[r] IN
  /\ Receives(s)
  /\ wire[s][r].state = "running"
  /\ result = "CANCELLED" => wire[s][r].abort
  /\ Spawnable(t)
  /\ Owned(r) \/ IsDeadRun(r)
  /\ wire' = [wire EXCEPT ![s][r] = NoJob]
  /\ \/ /\ ~Owned(r)
        /\ UNCHANGED <<flightVars, task>>
     \/ /\ Owned(r)
        /\ result = "COMPLETED" /\ ~entry[r][k].cancelRequested
        /\ task' = [task EXCEPT ![t] = [Idle EXCEPT !.pc = "reconcile", !.run = r,
                                                    !.k = k, !.root = s]]
        /\ UNCHANGED flightVars
     \/ /\ Owned(r)
        /\ Finalize(t, r, k,
                    IF result = "CANCELLED" \/ entry[r][k].cancelRequested
                    THEN "CANCELLED" ELSE "FAILED",
                    s, {})
  /\ UNCHANGED <<dbVars, queueVars, conn, rejected, fatal>>

\* After the awaited reconcile: the run may have been finalized meanwhile, or a
\* cancel may have come in.
Reconciled(t) ==
  LET r == task[t].run
      k == task[t].k
  IN
  /\ task[t].pc = "reconcile"
  /\ \/ /\ inFlight[r] # k
        /\ task' = [task EXCEPT ![t] = Idle]
        /\ UNCHANGED flightVars
     \/ /\ inFlight[r] = k /\ ~entry[r][k].cancelRequested
        /\ task' = [task EXCEPT ![t].pc = "auto_groups"]
        /\ UNCHANGED flightVars
     \/ /\ inFlight[r] = k /\ entry[r][k].cancelRequested
        /\ Finalize(t, r, k, "CANCELLED", task[t].root, {})
  /\ UNCHANGED <<dbVars, queueVars, agentVars, fatal>>

\* After the awaited maintainAutoGroups nothing is looked at again.
AutoGrouped(t) ==
  /\ task[t].pc = "auto_groups"
  /\ Finalize(t, task[t].run, task[t].k, "COMPLETED", task[t].root, {})
  /\ UNCHANGED <<dbVars, queueVars, agentVars, fatal>>

\* A stream frame of a run the dispatcher neither owns nor knows to be dead:
\* the session service answers with an error and closes the socket.
RejectFrame(s, r) ==
  /\ Receives(s)
  /\ wire[s][r].state = "running"
  /\ ~Owned(r)
  /\ ~IsDeadRun(r)
  /\ s = "live"
  /\ conn' = "dead"
  /\ rejected' = TRUE
  /\ UNCHANGED <<dbVars, queueVars, flightVars, wire, task, fatal>>

\* The new session's message listener is attached after the session row is
\* written: what the agent sends before that is lost.
FrameLost(r) ==
  /\ conn = "attaching"
  /\ wire["live"][r].state # "none"
  /\ \/ /\ wire["live"][r].state = "assigned"
        /\ wire' = [wire EXCEPT !["live"][r].state = "running"]
     \/ wire' = [wire EXCEPT !["live"][r] = NoJob]
  /\ UNCHANGED <<dbVars, queueVars, flightVars, conn, rejected, task, fatal>>
-----------------------------------------------------------------------------
(* Sessions.                                                               *)

\* The socket is no longer OPEN; closeSession has not run yet.
SocketDies ==
  /\ Connected
  /\ conn' = "dead"
  /\ UNCHANGED <<dbVars, queueVars, flightVars, wire, rejected, task, fatal>>

\* onSessionLost snapshots the agent's in-flight objects and finalizes them
\* one after the other.  The closed session's frames stay queued.
LoseSession(root, t) ==
  LET lost == LostHandles
      orphaned == [u \in Tasks |->
                     IF task[u].root = "live" THEN [task[u] EXCEPT !.root = "old"]
                                              ELSE task[u]]
  IN
  /\ wire' = [wire EXCEPT !["old"] = wire["live"], !["live"] = [r \in Runs |-> NoJob]]
  /\ \/ /\ lost = {}
        /\ task' = orphaned
        /\ UNCHANGED flightVars
     \/ \E h \in lost :
        /\ entry' = [entry EXCEPT ![h[1]][h[2]] = TimersCleared(@)]
        /\ inFlight' = [inFlight EXCEPT ![h[1]] = 0]
        /\ MarkDead(h[1])
        /\ task' = [orphaned EXCEPT ![t] =
             [Idle EXCEPT !.pc = "final_write", !.run = h[1], !.status = "FAILED",
                          !.root = root, !.todo = lost \ {h}]]

\* The next object of the snapshot, whatever has become of it.
LostNext(t) ==
  /\ task[t].pc = "lost_next"
  /\ \E h \in task[t].todo :
       Finalize(t, h[1], h[2], "FAILED", task[t].root, task[t].todo \ {h})
  /\ UNCHANGED <<dbVars, queueVars, agentVars, fatal>>

\* closeSession: socket close, heartbeat timeout, revoke, shutdown.
CloseSession(t) ==
  /\ conn \in {"ready", "dead"}
  /\ ~Handling("supersede")
  /\ Spawnable(t)
  /\ conn' = "down"
  /\ LoseSession("lost", t)
  /\ UNCHANGED <<dbVars, queueVars, rejected, fatal>>

\* attach claims the slot; an incumbent session is closed and waited for.
\* Bound: a session that is still attaching is not itself superseded.
Attach(t) ==
  /\ Spawnable(t)
  /\ \/ /\ conn = "down"
        /\ UNCHANGED <<wire, flightVars, task>>
     \/ /\ conn \in {"ready", "dead"}
        /\ ~Handling("supersede")
        /\ LoseSession("supersede", t)
  /\ conn' = "attaching"
  /\ UNCHANGED <<dbVars, queueVars, rejected, fatal>>

\* The session row cannot be written: the claim is released and the socket is
\* closed, and nobody calls onSessionLost for what was sent to it meanwhile.
AttachFails ==
  /\ conn = "attaching"
  /\ ~Handling("supersede")
  /\ conn' = "down"
  /\ wire' = [wire EXCEPT !["live"] = [r \in Runs |-> NoJob]]
  /\ UNCHANGED <<dbVars, queueVars, flightVars, rejected, task, fatal>>

\* The listener is on, hello.ok is sent and onSessionReady calls tryDispatch.
\* Bound: by now the previous session's queued frames have been handled.
SessionReady(t) ==
  /\ conn = "attaching"
  /\ ~Handling("supersede")
  /\ \A r \in Runs : wire["old"][r] = NoJob
  /\ Spawnable(t)
  /\ conn' = "ready"
  /\ task' = [task EXCEPT ![t] = TryDispatch("void", {}, pendingByAgent, content)]
  /\ UNCHANGED <<dbVars, queueVars, flightVars, wire, rejected, fatal>>

\* No more frames of the closed session were in its queue.
OldFramesEnd ==
  /\ \E r \in Runs : wire["old"][r] # NoJob
  /\ wire' = [wire EXCEPT !["old"] = [r \in Runs |-> NoJob]]
  /\ UNCHANGED <<dbVars, queueVars, flightVars, conn, rejected, task, fatal>>
-----------------------------------------------------------------------------
(* Environment.                                                            *)

\* The agent is revoked, its policy edited, a credential revoked or the config
\* deleted while the run waits (read for PENDING runs only).
PolicyDrift(r, p) ==
  /\ status[r] \in {"ABSENT", "PENDING"}
  /\ policy[r] # "gone" /\ policy[r] # p
  /\ policy' = [policy EXCEPT ![r] = p]
  /\ UNCHANGED <<status, cancelRequestedAt, queueVars, flightVars, agentVars, task,
                 fatal>>

\* The hub process is killed and started again.
Crash == HubRestart /\ UNCHANGED fatal

TaskStep(t) ==
  \/ LoadJob(t) \/ LoadJobGone(t) \/ LoadFail(t)
  \/ EnqueueRefuse(t) \/ EnqueuePush(t)
  \/ DispatchDiscard(t) \/ DispatchRefuse(t) \/ DispatchWait(t)
  \/ DispatchSend(t) \/ DispatchSendFails(t) \/ Stamp(t)
  \/ QueuedWrite(t) \/ FinalWrite(t) \/ LostNext(t) \/ CancelRemoteRun(t)
  \/ AckMark(t) \/ AckGot(t) \/ Reconciled(t) \/ AutoGrouped(t)

TimerFires(t) ==
  \E r \in Runs :
    \/ DispatchTimeout(r, t)
    \/ \E k \in EntryIds : AckTimeout(r, k, t) \/ CancelTimeout(r, k, t)

FrameArrives(t) ==
  \E s \in Sources, r \in Runs :
    \/ \E accepted \in BOOLEAN : JobAck(s, r, accepted, t)
    \/ \E result \in {"COMPLETED", "FAILED", "CANCELLED"} : RunComplete(s, r, result, t)
    \/ RejectFrame(s, r)

SessionEvent(t) ==
  \/ CloseSession(t) \/ Attach(t) \/ SessionReady(t)
  \/ AttachFails \/ SocketDies \/ OldFramesEnd \/ \E r \in Runs : FrameLost(r)

Next ==
  \/ \E t \in Tasks :
       \/ TaskStep(t) \/ TimerFires(t) \/ FrameArrives(t) \/ SessionEvent(t)
       \/ \E r \in Runs : StartRun(r, t) \/ CancelRun(r, t)
  \/ \E r \in Runs, p \in Drifts \cup {"ok"} : PolicyDrift(r, p)
  \/ Crash

Spec == Init /\ [][Next]_vars

\* An awaited call returns (WF); a timer that stays armed fires (SF: only the
\* bound on the task pool ever stands in its way).  Nothing is assumed of the
\* agent, of its session or of users.
FairSpec ==
  /\ Spec
  /\ \A t \in Tasks : WF_vars(TaskStep(t))
  /\ SF_vars(\E t \in Tasks : TimerFires(t))
-----------------------------------------------------------------------------
(* Properties.                                                             *)

\* The hub never has more jobs of the agent in flight than the agent said it
\* can run (spec 027 FR-017): the count and the new InFlight record are one
\* synchronous step however many tryDispatch calls are suspended.
CapacityRespected == InFlightCount <= Capacity

\* A call that will still write, queue or give up the run.
Handled(r) ==
  \E t \in Tasks :
    \/ task[t].run = r /\ task[t].pc \in {"enqueue_load", "enqueue_got", "load_fail",
                                          "queued_write", "final_write"}
    \/ task[t].pc = "ack_mark" /\ task[t].run = r
    \/ \E k \in EntryIds : <<r, k>> \in task[t].todo

\* No row is left PENDING or RUNNING with nothing in the hub's memory that can
\* end it (spec 027 SC-003): it is being handled, or waits under a deadline, or
\* is in flight.
ActiveRunIsOwned ==
  \A r \in Runs : status[r] \in Active =>
    Handled(r) \/ r \in dispatchTimers \/ inFlight[r] # 0

\* The ack of the run's assignment is awaited under a timer, or being handled.
AckIsDue(r) ==
  \/ entry[r][inFlight[r]].ackTimer
  \/ \E t \in Tasks : task[t].pc \in {"ack_mark", "ack_got"} /\ task[t].run = r

\* Every wait of a run is bounded by a timer: the queue by the dispatch
\* deadline, the assignment by the ack timer (unless the ack is being handled),
\* a requested cancel by the cancel timer -- a live but stuck agent cannot hold
\* a run for ever.
EveryWaitIsTimed ==
  \A r \in Runs :
    /\ r \in queuedJobs => r \in dispatchTimers
    /\ Assigned(r) => AckIsDue(r)
    /\ inFlight[r] # 0 =>
         (entry[r][inFlight[r]].cancelRequested => entry[r][inFlight[r]].cancelTimer)

\* Without a session no unfinished run stays in flight: a call is about to end
\* it, in the end the loop of onSessionLost (FR-014: the session is the run's
\* lifeline) -- or it was sent to a session that never came up, which its ack
\* timer ends.
NoSessionNoFlight ==
  conn = "down" =>
    \A r \in Runs : inFlight[r] # 0 /\ status[r] \in Active =>
      Handled(r) \/ (Assigned(r) /\ AckIsDue(r))

\* The rows live the life of RunLifecycle: a run completes only from RUNNING, a
\* restart ends it CANCELLED only if a cancel was requested, and a terminal row
\* never changes, whatever order acks, completions, timers and losses come in.
LifecycleSpec == Lifecycle!LifecycleSpec

\* A run that waits for a slot is in the FIFO that a freed slot drains
\* (remote-run-service.ts:254, import-agents.md:142).
WaitingRunIsInQueue ==
  \A r \in queuedJobs :
    pendingByAgent # NoArray /\ \E i \in DOMAIN content[pendingByAgent] :
      content[pendingByAgent][i] = r

\* A terminal-write race never escapes into an unhandled rejection.
HubStaysUp == ~fatal

\* agent-protocol.md:281: an agent that keeps to the protocol never has its
\* session closed for a frame of a run the hub did assign to it.
CompliantAgentKept == ~rejected

\* A run whose cancel reached the in-flight record does not end COMPLETED.
CancelWins ==
  \A r \in Runs : status[r] = "COMPLETED" =>
    \A k \in EntryIds : ~entry[r][k].cancelRequested

\* A run never stays PENDING: with no agent, a silent agent or a full one, a
\* deadline ends it (spec 027 SC-003, "bounded time").
PendingEnds == \A r \in Runs : status[r] = "PENDING" ~> status[r] # "PENDING"

\* A cancel that reached the in-flight record ends the run although the agent
\* never answers (remote-run-service.ts:801).
CancelEnds ==
  \A r \in Runs :
    (inFlight[r] # 0 /\ entry[r][inFlight[r]].cancelRequested)
      ~> status[r] \in Terminal
=============================================================================
