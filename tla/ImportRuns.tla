----------------------------- MODULE ImportRuns -----------------------------
(***************************************************************************)
(* Import runs the hub executes itself (import-run-service.ts): startRun   *)
(* for a config without an agent, the p-queue of in-process workers,       *)
(* worker(), cancelRun, and recoverRuns at boot (recovery-service.ts).     *)
(*                                                                         *)
(* One step is what runs between two awaits, or one statement or           *)
(* transaction of the database; `start` and `worker` name the await at     *)
(* which startRun(r) and worker(r) are suspended.  Requests, the cron of   *)
(* scheduler-service.ts and other workers run at every await.  What an     *)
(* importer yields is left out: here a run matters by how it ends and by   *)
(* whether it has reconciled, that is retired what it did not list.        *)
(***************************************************************************)
EXTENDS Naturals, Sequences, FiniteSets

CONSTANTS
  Runs,        \* ids of import runs
  Configs,     \* ids of importer configs
  ConfigOf,    \* the config each run is started for
  Concurrency, \* IMPORTER_MAX_CONCURRENCY
  MaxCancels   \* bound: cancelRun calls suspended for one run

ASSUME LocalAssumption ==
  /\ ConfigOf \in [Runs -> Configs]
  /\ Concurrency \in Nat \ {0}
  /\ MaxCancels \in Nat \ {0}

VARIABLES
  status, cancelRequestedAt,  \* the rows of import_runs
  configs,      \* the rows of importer_configs
  start,        \* startRun(r): "new", "insert", "gates", "over", "thrown"
  queue,        \* runs waiting in the p-queue, oldest first
  worker,       \* worker(r): "none" or the await it is suspended at
  aborted,      \* runs whose AbortController has been aborted
  cancelCalls,  \* cancelRun(r) calls between the stamp and the abort
  reconciled,   \* runs whose reconcileRetiredComponents has committed
  hub           \* "up", or "booting": down, or in recoverRuns

rowVars == <<status, cancelRequestedAt>>
callVars == <<start, queue, worker, aborted, cancelCalls>>
vars == <<rowVars, configs, callVars, reconciled, hub>>

Lifecycle == INSTANCE RunLifecycle
LifecycleSpec == Lifecycle!LifecycleSpec
Active == Lifecycle!Active
Terminal == Lifecycle!Terminal

Working == {"read", "config", "begin", "import", "check", "checked",
            "reconcile", "complete", "cancel_write", "fail_write"}
Starts == {"new", "insert", "gates", "over", "thrown"}

\* "closing" is the suggestion pass after the COMPLETED write: the run is over
\* but the worker still holds its slot and its AbortController.
Workers == {"none", "closing"} \cup Working

\* A worker holds its slot, and its entry of runningControllers, while it runs.
Running == {r \in Runs : worker[r] # "none"}
Queued == {queue[i] : i \in DOMAIN queue}

TypeOK ==
  /\ status \in [Runs -> Lifecycle!Statuses]
  /\ cancelRequestedAt \in [Runs -> BOOLEAN]
  /\ configs \subseteq Configs
  /\ start \in [Runs -> Starts]
  /\ queue \in Seq(Runs)
  /\ worker \in [Runs -> Workers]
  /\ aborted \subseteq Running
  /\ cancelCalls \in [Runs -> 0..MaxCancels]
  /\ reconciled \subseteq Runs
  /\ hub \in {"up", "booting"}

Init ==
  /\ status = [r \in Runs |-> "ABSENT"]
  /\ cancelRequestedAt = [r \in Runs |-> FALSE]
  /\ configs = Configs
  /\ start = [r \in Runs |-> "new"]
  /\ queue = <<>>
  /\ worker = [r \in Runs |-> "none"]
  /\ aborted = {}
  /\ cancelCalls = [r \in Runs |-> 0]
  /\ reconciled = {}
  /\ hub = "up"

\* updateRun(r, {status: s}) outside a terminal row, whose trigger would raise.
SetStatus(r, s) == status' = [status EXCEPT ![r] = s]
Goto(r, pc) == worker' = [worker EXCEPT ![r] = pc]
-----------------------------------------------------------------------------
(* startRun                                                                *)

\* The transaction's SELECT ... FOR UPDATE: it locks an active row of the config
\* if there is one (409 RUN_IN_PROGRESS) and nothing if there is none.
StartCheck(r) ==
  /\ start[r] = "new"
  /\ \A x \in Runs : ConfigOf[x] = ConfigOf[r] => status[x] \notin Active
  /\ start' = [start EXCEPT ![r] = "insert"]
  /\ UNCHANGED <<rowVars, configs, queue, worker, aborted, cancelCalls, reconciled, hub>>

\* Its INSERT and commit; the foreign key raises when the config is deleted.
StartInsert(r) ==
  /\ start[r] = "insert"
  /\ \/ /\ ConfigOf[r] \in configs
        /\ SetStatus(r, "PENDING")
        /\ start' = [start EXCEPT ![r] = "gates"]
     \/ /\ ConfigOf[r] \notin configs
        /\ start' = [start EXCEPT ![r] = "over"]
        /\ UNCHANGED status
  /\ UNCHANGED <<cancelRequestedAt, configs, queue, worker, aborted, cancelCalls,
                 reconciled, hub>>

\* Seeded bug: the refusal throws without finalizing the committed row.
StartRefuseMutant(r) ==
  /\ start[r] = "gates"
  /\ start' = [start EXCEPT ![r] = "over"]
  /\ UNCHANGED <<rowVars, configs, queue, worker, aborted, cancelCalls, reconciled, hub>>
\* The importer requires an agent, or the docker target does not resolve.
StartRefuse(r) ==
  /\ start[r] = "gates"
  /\ SetStatus(r, "FAILED")
  /\ start' = [start EXCEPT ![r] = "over"]
  /\ UNCHANGED <<cancelRequestedAt, configs, queue, worker, aborted, cancelCalls,
                 reconciled, hub>>

\* Between the commit and the enqueue nothing catches: getManifest raises for an
\* importer that is no longer built, and the refusals' own writes may fail.  The
\* row stays PENDING and startRun has forgotten it.
StartThrows(r) ==
  /\ start[r] = "gates"
  /\ start' = [start EXCEPT ![r] = "thrown"]
  /\ UNCHANGED <<rowVars, configs, queue, worker, aborted, cancelCalls, reconciled, hub>>

\* queue.add(() => worker(runId))
StartEnqueue(r) ==
  /\ start[r] = "gates"
  /\ queue' = Append(queue, r)
  /\ start' = [start EXCEPT ![r] = "over"]
  /\ UNCHANGED <<rowVars, configs, worker, aborted, cancelCalls, reconciled, hub>>
-----------------------------------------------------------------------------
(* worker                                                                  *)

\* The p-queue starts the oldest job when a slot is free; the worker registers
\* its AbortController before anything else.
WorkerStarts(r) ==
  /\ queue # <<>>
  /\ r = Head(queue)
  /\ Cardinality(Running) < Concurrency
  /\ queue' = Tail(queue)
  /\ Goto(r, "read")
  /\ UNCHANGED <<rowVars, configs, start, aborted, cancelCalls, reconciled, hub>>

\* It reads the row.  Nothing but its own worker ends a queued run, so the
\* return for a row that is not PENDING has no action.
WorkerReads(r) ==
  /\ worker[r] = "read"
  /\ Goto(r, IF cancelRequestedAt[r] THEN "cancel_write" ELSE "config")
  /\ UNCHANGED <<rowVars, configs, start, queue, aborted, cancelCalls, reconciled, hub>>

\* It reads the config; CONFIG_NOT_FOUND when it is gone.
ReadsConfig(r) ==
  /\ worker[r] = "config"
  /\ Goto(r, IF ConfigOf[r] \in configs THEN "begin" ELSE "fail_write")
  /\ UNCHANGED <<rowVars, configs, start, queue, aborted, cancelCalls, reconciled, hub>>

\* Seeded bug: the import starts without the row having been marked RUNNING.
BeginsMutant(r) ==
  /\ worker[r] = "begin"
  /\ Goto(r, "import")
  /\ UNCHANGED <<rowVars, configs, start, queue, aborted, cancelCalls, reconciled, hub>>
\* The RUNNING write; secrets, manifest, importer and target are awaited next.
Begins(r) ==
  /\ worker[r] = "begin"
  /\ SetStatus(r, "RUNNING")
  /\ Goto(r, "import")
  /\ UNCHANGED <<cancelRequestedAt, configs, start, queue, aborted, cancelCalls,
                 reconciled, hub>>

\* The next asset, or the importer itself, notices the abort signal.
NoticesAbort(r) ==
  /\ worker[r] = "import"
  /\ r \in aborted
  /\ Goto(r, "cancel_write")
  /\ UNCHANGED <<rowVars, configs, start, queue, aborted, cancelCalls, reconciled, hub>>

\* The importer has yielded its last asset, or returned early on the signal.
ImporterReturns(r) ==
  /\ worker[r] = "import"
  /\ Goto(r, "check")
  /\ UNCHANGED <<rowVars, configs, start, queue, aborted, cancelCalls, reconciled, hub>>

\* Seeded bug: the last look at the row is dropped, only the signal counts.
ChecksRowMutant(r) ==
  /\ worker[r] = "check"
  /\ Goto(r, "checked")
  /\ UNCHANGED <<rowVars, configs, start, queue, aborted, cancelCalls, reconciled, hub>>
\* cancelCheck: the stamp is read from the row ...
ChecksRow(r) ==
  /\ worker[r] = "check"
  /\ Goto(r, IF cancelRequestedAt[r] THEN "cancel_write" ELSE "checked")
  /\ UNCHANGED <<rowVars, configs, start, queue, aborted, cancelCalls, reconciled, hub>>

\* ... and the signal when the answer is there.
ChecksSignal(r) ==
  /\ worker[r] = "checked"
  /\ Goto(r, IF r \in aborted THEN "cancel_write" ELSE "reconcile")
  /\ UNCHANGED <<rowVars, configs, start, queue, aborted, cancelCalls, reconciled, hub>>

\* The transaction of reconcileRetiredComponents, then runAutoGroupPass, which
\* never throws.
Reconciles(r) ==
  /\ worker[r] = "reconcile"
  /\ reconciled' = reconciled \cup {r}
  /\ Goto(r, "complete")
  /\ UNCHANGED <<rowVars, configs, start, queue, aborted, cancelCalls, hub>>

Completes(r) ==
  /\ worker[r] = "complete"
  /\ SetStatus(r, "COMPLETED")
  /\ Goto(r, "closing")
  /\ UNCHANGED <<cancelRequestedAt, configs, start, queue, aborted, cancelCalls,
                 reconciled, hub>>

\* The finally block: the slot and the controller go.
Frees(r) ==
  /\ Goto(r, "none")
  /\ aborted' = aborted \ {r}

\* The suggestion pass is over; it never throws.
Closes(r) ==
  /\ worker[r] = "closing"
  /\ Frees(r)
  /\ UNCHANGED <<rowVars, configs, start, queue, cancelCalls, reconciled, hub>>

\* Any other await of the try block may throw: the database, a secret, the
\* importer, its contract, the reconciliation.
Throws(r) ==
  /\ worker[r] \in Working \ {"cancel_write", "fail_write"}
  /\ Goto(r, "fail_write")
  /\ UNCHANGED <<rowVars, configs, start, queue, aborted, cancelCalls, reconciled, hub>>

\* Seeded bug: an aborted worker returns without leaving the p-queue.
CancelsMutant(r) ==
  /\ worker[r] = "cancel_write"
  /\ SetStatus(r, "CANCELLED")
  /\ Goto(r, "closed")
  /\ UNCHANGED <<cancelRequestedAt, configs, start, queue, aborted, cancelCalls,
                 reconciled, hub>>
Cancels(r) ==
  /\ worker[r] = "cancel_write"
  /\ SetStatus(r, "CANCELLED")
  /\ Frees(r)
  /\ UNCHANGED <<cancelRequestedAt, configs, start, queue, cancelCalls, reconciled, hub>>

\* The catch block.  When this write throws too nobody catches the rejection of
\* queue.add and the process dies: Crash.
Fails(r) ==
  /\ worker[r] = "fail_write"
  /\ SetStatus(r, "FAILED")
  /\ Frees(r)
  /\ UNCHANGED <<cancelRequestedAt, configs, start, queue, cancelCalls, reconciled, hub>>
-----------------------------------------------------------------------------
(* cancelRun, from a request or from disabling a docker target             *)

\* The stamp; the trigger raises when the row is terminal.
CancelStamp(r) ==
  /\ status[r] \in Active
  /\ cancelCalls[r] < MaxCancels
  /\ cancelRequestedAt' = [cancelRequestedAt EXCEPT ![r] = TRUE]
  /\ cancelCalls' = [cancelCalls EXCEPT ![r] = @ + 1]
  /\ UNCHANGED <<status, configs, start, queue, worker, aborted, reconciled, hub>>

\* Seeded bug: the worker registers its controller only once it has read its row
\* and its config.
CancelAbortMutant(r) ==
  /\ cancelCalls[r] > 0
  /\ cancelCalls' = [cancelCalls EXCEPT ![r] = @ - 1]
  /\ aborted' = IF worker[r] \in {"read", "config"} THEN aborted
                ELSE aborted \cup ({r} \cap Running)
  /\ UNCHANGED <<rowVars, configs, start, queue, worker, reconciled, hub>>
\* After the SELECT of agentId: the controller, if a worker has registered one.
CancelAbort(r) ==
  /\ cancelCalls[r] > 0
  /\ cancelCalls' = [cancelCalls EXCEPT ![r] = @ - 1]
  /\ aborted' = aborted \cup ({r} \cap Running)
  /\ UNCHANGED <<rowVars, configs, start, queue, worker, reconciled, hub>>
-----------------------------------------------------------------------------
(* Configs, crash and boot                                                 *)

\* deleteImporterConfig checks no run: active runs outlive their config.
DeleteConfig(c) ==
  /\ c \in configs
  /\ configs' = configs \ {c}
  /\ UNCHANGED <<rowVars, callVars, reconciled, hub>>

\* The process dies; only the database survives.
Crash ==
  /\ hub' = "booting"
  /\ start' = [r \in Runs |-> IF start[r] = "new" THEN "new" ELSE "over"]
  /\ queue' = <<>>
  /\ worker' = [r \in Runs |-> "none"]
  /\ aborted' = {}
  /\ cancelCalls' = [r \in Runs |-> 0]
  /\ UNCHANGED <<rowVars, configs, reconciled>>

\* One iteration of recoverRuns, for a row without an agent.
RecoverRun(r) ==
  /\ hub = "booting"
  /\ status[r] \in Active
  /\ SetStatus(r, IF status[r] = "RUNNING" /\ cancelRequestedAt[r]
                  THEN "CANCELLED" ELSE "INTERRUPTED")
  /\ UNCHANGED <<cancelRequestedAt, configs, callVars, reconciled, hub>>

\* The server listens, and the cron runs, only after recoverRuns.
Boot ==
  /\ hub = "booting"
  /\ \A r \in Runs : status[r] \notin Active
  /\ hub' = "up"
  /\ UNCHANGED <<rowVars, configs, callVars, reconciled>>
-----------------------------------------------------------------------------
StartStep(r) ==
  \/ StartCheck(r) \/ StartInsert(r)
  \/ StartRefuse(r) \/ StartThrows(r) \/ StartEnqueue(r)

\* The steps of a worker that wait for the importer's own code ...
ImporterStep(r) == NoticesAbort(r) \/ ImporterReturns(r)

\* ... and those the hub takes by itself.
WorkerStep(r) ==
  \/ WorkerStarts(r) \/ WorkerReads(r) \/ ReadsConfig(r) \/ Begins(r)
  \/ ChecksRow(r) \/ ChecksSignal(r) \/ Reconciles(r) \/ Completes(r)
  \/ Closes(r) \/ Cancels(r) \/ Fails(r)

RunStep(r) ==
  \/ StartStep(r) \/ WorkerStep(r) \/ ImporterStep(r) \/ Throws(r)
  \/ CancelStamp(r) \/ CancelAbort(r)

Next ==
  \/ /\ hub = "up"
     /\ \/ Crash
        \/ \E r \in Runs : RunStep(r)
        \/ \E c \in Configs : DeleteConfig(c)
  \/ Boot
  \/ \E r \in Runs : RecoverRun(r)

Spec == Init /\ [][Next]_vars

\* Awaits of the hub settle and the p-queue starts a job that has a slot.  That
\* an importer returns (or throws) is an assumption about importers: worker()
\* sets it no deadline.  Nobody restarts a dead hub here.
FairSpec ==
  /\ Spec
  /\ \A r \in Runs :
       /\ WF_vars(hub = "up" /\ (StartInsert(r) \/ StartRefuse(r) \/ StartThrows(r)
                                  \/ StartEnqueue(r)))
       /\ WF_vars(hub = "up" /\ WorkerStep(r))
       /\ WF_vars(hub = "up" /\ ImporterReturns(r))
       /\ WF_vars(hub = "up" /\ CancelAbort(r))
-----------------------------------------------------------------------------
(* Properties                                                              *)

\* An active row has somebody who will end it: the startRun that is about to gate
\* it, the p-queue or its worker.  The one row that nobody owns, and that makes
\* every later startRun of its config answer RUN_IN_PROGRESS until a boot, is that
\* of a startRun that threw between its commit and the enqueue.  And an owner
\* never finds its row terminal, where its write would raise.
Owned(r) == start[r] = "gates" \/ r \in Queued \/ worker[r] \in Working
ActiveRunIsOwned ==
  hub = "up" =>
    \A r \in Runs : status[r] \in Active <=> Owned(r) \/ start[r] = "thrown"

\* The comment at import-run-service.ts:1361: "a PENDING orphan would block every
\* future run for the config and can never resolve on its own".
NoOrphanRow == hub = "up" => \A r \in Runs : status[r] \in Active => Owned(r)

\* cancelRun races the start of the worker: whichever way the stamp, the read of
\* the row and the lookup of the controller interleave, a worker that has not
\* read the stamp is told by its signal once the cancel call has returned.
CancelReachesWorker ==
  \A r \in Runs :
    /\ cancelRequestedAt[r]
    /\ cancelCalls[r] = 0
    /\ worker[r] \in {"config", "begin", "import"}
    => r \in aborted

\* A cancel of a run that is still PENDING is never lost: whatever happens next,
\* the run does not end as COMPLETED.
PendingCancelWins ==
  \A r \in Runs :
    [](status[r] = "PENDING" /\ cancelRequestedAt[r] => [](status[r] # "COMPLETED"))

\* While importers return and the hub stays up every run ends, queued behind a
\* full p-queue or not, unless its startRun threw before the enqueue; the orphan
\* of such a startRun goes with the next boot.
RunEnds ==
  \A r \in Runs :
    status[r] \in Active
      ~> (status[r] \in Terminal \/ hub = "booting" \/ start[r] = "thrown")

\* specs/027-remote-import-execution/research.md:63: "one active run per config".
OneActivePerConfig ==
  \A r, x \in Runs :
    /\ r # x
    /\ ConfigOf[r] = ConfigOf[x]
    => ~(status[r] \in Active /\ status[x] \in Active)

\* specs/049-docker-hub-execution/spec.md:159: "failed or cancelled runs MUST NOT
\* retire absent memberships".
OnlyCompletedRetires ==
  \A r \in Runs : status[r] \in {"FAILED", "CANCELLED"} => r \notin reconciled
=============================================================================
