---------------------------- MODULE DockerTargets ----------------------------
(***************************************************************************)
(* A docker target of the hub (docker-target-service.ts) composed with the *)
(* in-process runs that use it.  startRun and worker() each read the row   *)
(* of the target and act on it later; disabling the target commits first,  *)
(* then selects the runs to stop, then stamps them one by one, so a run    *)
(* may be anywhere between its reads when each of these happens.           *)
(*                                                                         *)
(* Every config names the one target; targets share nothing.  One call of  *)
(* setEnabled(false) is in progress at a time.  Connectivity tests are     *)
(* left out.                                                               *)
(***************************************************************************)
EXTENDS ImportRuns

VARIABLES
  enabled,    \* the row of docker_targets
  disabling,  \* setEnabled(false): "no", "select" after its commit, "cancel",
              \* or "failed", when the last one raised after its commit
  toCancel,   \* the runs it has selected and not yet stamped
  admitted,   \* the runs whose startRun has found the target enabled
  resolved    \* the runs whose worker has found it enabled

targetVars == <<enabled, disabling, toCancel, admitted, resolved>>
allVars == <<vars, targetVars>>

TargetInit ==
  /\ Init
  /\ enabled = TRUE /\ disabling = "no" /\ toCancel = {}
  /\ admitted = {} /\ resolved = {}

TargetTypeOK ==
  /\ enabled \in BOOLEAN
  /\ disabling \in {"no", "select", "cancel", "failed"}
  /\ toCancel \subseteq Runs
  /\ admitted \subseteq Runs /\ resolved \subseteq Runs
-----------------------------------------------------------------------------
(* The reads of the runs.                                                  *)

\* resolveHubTargetProfile in startRun.  A disabled target refuses: StartRefuse.
Admits(r) ==
  /\ start[r] = "gates" /\ enabled
  /\ r \notin admitted /\ admitted' = admitted \cup {r}
  /\ UNCHANGED <<vars, enabled, disabling, toCancel, resolved>>

\* ... and in worker(), where a disabled target throws.
Resolves(r) ==
  /\ worker[r] = "import" /\ enabled
  /\ r \notin resolved /\ resolved' = resolved \cup {r}
  /\ UNCHANGED <<vars, enabled, disabling, toCancel, admitted>>
FindsDisabled(r) ==
  worker[r] = "import" /\ r \notin resolved /\ ~enabled /\ Throws(r)

\* The steps of ImportRuns that come after these reads, and those that ask no
\* target.
Enqueues(r) == r \in admitted /\ StartEnqueue(r)
Imports(r) == r \in resolved /\ ImporterStep(r)
OtherStep(r) ==
  \/ StartCheck(r) \/ StartInsert(r) \/ StartRefuse(r) \/ StartThrows(r)
  \/ WorkerStep(r) \/ Throws(r) \/ CancelAbort(r)
-----------------------------------------------------------------------------
(* The target.                                                             *)

\* setEnabled(false) up to its commit.
Disable ==
  /\ enabled /\ disabling \in {"no", "failed"}
  /\ enabled' = FALSE /\ disabling' = "select"
  /\ UNCHANGED <<vars, toCancel, admitted, resolved>>

\* Seeded bug: only the runs that have begun are selected.
FoundMutant(r) == status[r] = "RUNNING" /\ ConfigOf[r] \in configs
\* The SELECT joins the config, whose scope names the target.
Found(r) == status[r] \in Active /\ ConfigOf[r] \in configs

Select ==
  /\ disabling = "select" /\ disabling' = "cancel"
  /\ toCancel' = {r \in Runs : Found(r)}
  /\ UNCHANGED <<vars, enabled, admitted, resolved>>

\* The SELECT, or the stamps that are left, fail on the database.  The target is
\* disabled by then, and the next attempt returns at once.
DisableFails ==
  /\ disabling \in {"select", "cancel"} /\ disabling' = "failed"
  /\ toCancel' = {}
  /\ UNCHANGED <<vars, enabled, admitted, resolved>>

\* One of the cancelRun calls; it raises, for itself alone, when the run is over.
CancelsFound(r) ==
  /\ r \in toCancel /\ toCancel' = toCancel \ {r}
  /\ CancelStamp(r) \/ (status[r] \in Terminal /\ UNCHANGED vars)
  /\ UNCHANGED <<enabled, disabling, admitted, resolved>>

Disabled ==
  /\ disabling = "cancel" /\ toCancel = {} /\ disabling' = "no"
  /\ UNCHANGED <<vars, enabled, toCancel, admitted, resolved>>

Enable ==
  /\ ~enabled /\ enabled' = TRUE
  /\ UNCHANGED <<vars, disabling, toCancel, admitted, resolved>>
-----------------------------------------------------------------------------
Aside(A) == A /\ UNCHANGED targetVars

\* A request that was under way is lost with the process.
TargetCrash ==
  /\ Crash
  /\ disabling' = "no" /\ toCancel' = {}
  /\ admitted' = {} /\ resolved' = {}
  /\ UNCHANGED enabled

RunNext(r) ==
  \/ Admits(r) \/ Resolves(r) \/ CancelsFound(r)
  \/ Aside(Enqueues(r) \/ Imports(r) \/ OtherStep(r) \/ CancelStamp(r))

TargetStep ==
  \/ Disable \/ Select \/ DisableFails \/ Disabled \/ Enable

TargetNext ==
  \/ /\ hub = "up"
     /\ \/ TargetCrash \/ TargetStep
        \/ \E r \in Runs : RunNext(r)
        \/ \E c \in Configs : Aside(DeleteConfig(c))
  \/ Aside(Boot \/ \E r \in Runs : RecoverRun(r))

TargetSpec == TargetInit /\ [][TargetNext]_allVars

\* As in ImportRuns, with the reads of the target.
FairTargetSpec ==
  /\ TargetSpec
  /\ \A r \in Runs :
       /\ WF_allVars(hub = "up" /\
            (Admits(r) \/ Aside(StartInsert(r) \/ StartRefuse(r) \/ StartThrows(r)
                                \/ Enqueues(r))))
       /\ WF_allVars(hub = "up" /\ Aside(WorkerStep(r)))
       /\ WF_allVars(hub = "up" /\
            (Resolves(r) \/ Aside(FindsDisabled(r) \/ (r \in resolved /\ ImporterReturns(r)))))
       /\ WF_allVars(hub = "up" /\ Aside(CancelAbort(r)))
-----------------------------------------------------------------------------
(* Properties.                                                             *)

\* FR-020 of spec 049: when a disabling is over, every active run that was let
\* through on the enabled target is asked to cancel, wherever it was between its
\* read of the target and the next, unless its config has been deleted.
DisableReachesRuns ==
  hub = "up" /\ ~enabled /\ disabling = "no" =>
    \A r \in admitted :
      status[r] \in Active /\ ConfigOf[r] \in configs => cancelRequestedAt[r]

\* specs/049-docker-hub-execution/spec.md:151: disabling a target "MUST request
\* cancellation of active Hub runs", whatever happens to the request.
DisableReachesAll ==
  hub = "up" /\ ~enabled /\ disabling \in {"no", "failed"} =>
    \A r \in admitted : status[r] \in Active => cancelRequestedAt[r]
=============================================================================
