-------------------------- MODULE RemoteRuns_proofs --------------------------
(***************************************************************************)
(* Proofs about RemoteRuns, for every capacity, any number of runs and     *)
(* every bound of the model: type correctness, the safety of the slots,    *)
(* and that the dispatcher implements RunLifecycle.                        *)
(***************************************************************************)
EXTENDS RemoteRuns, SequenceTheorems, FiniteSetTheorems,
        WellFoundedInduction, TLAPS

\* A set of positions has a least one: well-foundedness of the strict subset
\* order on its finite initial segments.
LEMMA MinOfPositions ==
  ASSUME NEW n \in Nat, NEW I \in SUBSET (1..n), I # {}
  PROVE  Min(I) \in I
<1> DEFINE Upto(i) == {j \in 1..n : j <= i}
           T == {Upto(i) : i \in I}
<1>1. FiniteSubsetsOf(1..n) = SUBSET (1..n)
  <2>1. IsFiniteSet(1..n)
    BY FS_Interval
  <2> QED BY <2>1, FS_FiniteSubsetsOfFinite
<1>2. IsWellFoundedOn(StrictSubsetOrdering(1..n), SUBSET (1..n))
  BY <1>1, FS_StrictSubsetOrderingWellFounded
<1>3. T \subseteq SUBSET (1..n) /\ T # {}
  OBVIOUS
<1>4. PICK x \in T : \A y \in T : <<y, x>> \notin StrictSubsetOrdering(1..n)
  BY <1>2, <1>3, WFMin
<1>5. PICK m \in I : x = Upto(m)
  OBVIOUS
<1>6. ASSUME NEW i \in I PROVE m <= i
  <2>1. SUFFICES ASSUME i < m PROVE FALSE
    OBVIOUS
  <2>2. Upto(i) \subseteq Upto(m) /\ m \in Upto(m) /\ m \notin Upto(i)
    BY <2>1
  <2>3. <<Upto(i), Upto(m)>> \in StrictSubsetOrdering(1..n)
    BY <2>2 DEF StrictSubsetOrdering
  <2> QED BY <1>4, <1>5, <2>3
<1> QED BY <1>6 DEF Min

LEMMA RemoveFirstType ==
  ASSUME NEW S, NEW s \in Seq(S), NEW e
  PROVE  RemoveFirst(s, e) \in Seq(S)
<1>1. CASE ~(\E i \in 1..Len(s) : s[i] = e)
  BY <1>1 DEF RemoveFirst
<1>2. CASE \E i \in 1..Len(s) : s[i] = e
  <2>1. ASSUME NEW j \in 1..Len(s) PROVE RemoveAt(s, j) \in Seq(S)
    <3>1. SubSeq(s, 1, j - 1) \in Seq(S)
      BY SubSeqProperties
    <3>2. SubSeq(s, j + 1, Len(s)) \in Seq(S)
      BY SubSeqProperties
    <3> QED BY <3>1, <3>2, ConcatProperties DEF RemoveAt
  <2>2. SelectInSeq(s, LAMBDA v: v = e) \in 1..Len(s)
    <3> DEFINE I == {i \in 1..Len(s) : s[i] = e}
    <3>1. I # {} /\ I \in SUBSET (1..Len(s)) /\ Len(s) \in Nat
      BY <1>2
    <3>2. Min(I) \in I
      BY <3>1, MinOfPositions
    <3> QED BY <3>1, <3>2 DEF SelectInSeq
  <2> QED BY <1>2, <2>1, <2>2 DEF RemoveFirst
<1> QED BY <1>1, <1>2
-----------------------------------------------------------------------------
(* Type correctness.                                                       *)

LEMMA ReturnedType ==
  ASSUME NEW root \in Roots, NEW todo \in SUBSET Handles
  PROVE  Returned(root, todo) \in Calls
BY DEF Returned, Idle, Calls, WellFormed, PCs, Tasks, Arrays, EntryIds, NoArray,
       Roots, Lifecycle!Statuses

LEMMA LoadingType ==
  ASSUME NEW root \in Roots, NEW todo \in SUBSET Handles, NEW a \in Arrays,
         NEW c \in [Arrays -> Seq(Runs)], c[a] # <<>>
  PROVE  Loading(root, todo, a, c) \in Calls
<1>1. Head(c[a]) \in Runs
  BY HeadTailProperties
<1> QED BY <1>1 DEF Loading, Idle, Calls, WellFormed, PCs, EntryIds, NoArray,
                    Lifecycle!Statuses

LEMMA TryDispatchType ==
  ASSUME NEW root \in Roots, NEW todo \in SUBSET Handles,
         NEW p \in Arrays \cup {NoArray}, NEW c \in [Arrays -> Seq(Runs)]
  PROVE  TryDispatch(root, todo, p, c) \in Calls
BY ReturnedType, LoadingType DEF TryDispatch

LEMMA NextIterationType ==
  ASSUME NEW job \in Calls, job.arr \in Arrays, NEW c \in [Arrays -> Seq(Runs)]
  PROVE  NextIteration(job, c) \in Calls
<1>1. job.root \in Roots /\ job.todo \in SUBSET Handles
  BY DEF Calls
<1> QED BY <1>1, ReturnedType, LoadingType DEF NextIteration

LEMMA ContentWithoutType ==
  ASSUME TypeOK, NEW r
  PROVE  /\ ContentWithout(r) \in [Arrays -> Seq(Runs)]
         /\ PendingWithout(r) \in Arrays \cup {NoArray}
BY RemoveFirstType DEF TypeOK, ContentWithout, PendingWithout

LEMMA MarkDeadType ==
  ASSUME TypeOK, NEW r \in Runs, MarkDead(r)
  PROVE  deadRuns' \in Seq(Runs) /\ Len(deadRuns') <= DeadRunCap
<1> DEFINE kept == IF Len(deadRuns) >= DeadRunCap THEN Tail(deadRuns) ELSE deadRuns
<1>1. deadRuns \in Seq(Runs) /\ Len(deadRuns) \in Nat /\ Len(deadRuns) <= DeadRunCap
  BY DEF TypeOK
<1>2. DeadRunCap \in Nat \ {0}
  BY RemoteAssumption
<1>3. kept \in Seq(Runs) /\ Len(kept) < DeadRunCap
  <2>1. CASE Len(deadRuns) >= DeadRunCap
    <3>1. deadRuns # <<>>
      BY <1>1, <1>2, <2>1
    <3> QED BY <1>1, <1>2, <2>1, <3>1, HeadTailProperties
  <2>2. CASE ~(Len(deadRuns) >= DeadRunCap)
    BY <1>1, <1>2, <2>2
  <2> QED BY <2>1, <2>2
<1>4. Append(kept, r) \in Seq(Runs) /\ Len(Append(kept, r)) = Len(kept) + 1
  BY <1>3, AppendProperties
<1>5. deadRuns' = kept \/ deadRuns' = Append(kept, r)
  BY DEF MarkDead
<1>6. Len(kept) \in Nat
  BY <1>3
<1> QED BY <1>2, <1>3, <1>4, <1>5, <1>6

LEMMA EntryUpdateType ==
  ASSUME NEW f \in [Runs -> [EntryIds -> Entries]], NEW r \in Runs, NEW k \in EntryIds,
         NEW e \in Entries
  PROVE  [f EXCEPT ![r][k] = e] \in [Runs -> [EntryIds -> Entries]]
OBVIOUS

LEMMA EntryFieldType ==
  ASSUME NEW f \in [Runs -> [EntryIds -> Entries]], NEW r \in Runs, NEW k \in EntryIds
  PROVE  /\ [f EXCEPT ![r][k].ackTimer = FALSE] \in [Runs -> [EntryIds -> Entries]]
         /\ [f EXCEPT ![r][k].cancelTimer = FALSE] \in [Runs -> [EntryIds -> Entries]]
         /\ [f EXCEPT ![r][k].state = "RUNNING"] \in [Runs -> [EntryIds -> Entries]]
         /\ [f EXCEPT ![r][k] = CancelMarked(@)] \in [Runs -> [EntryIds -> Entries]]
         /\ [f EXCEPT ![r][k] = TimersCleared(@)] \in [Runs -> [EntryIds -> Entries]]
<1>1. f[r][k] \in Entries
  OBVIOUS
<1>2. /\ [f[r][k] EXCEPT !.ackTimer = FALSE] \in Entries
      /\ [f[r][k] EXCEPT !.cancelTimer = FALSE] \in Entries
      /\ [f[r][k] EXCEPT !.state = "RUNNING"] \in Entries
  BY <1>1 DEF Entries
<1>3. CancelMarked(f[r][k]) \in Entries /\ TimersCleared(f[r][k]) \in Entries
  BY <1>1 DEF Entries, CancelMarked, TimersCleared
<1>4. /\ [f EXCEPT ![r][k].ackTimer = FALSE] \in [Runs -> [EntryIds -> Entries]]
      /\ [f EXCEPT ![r][k].cancelTimer = FALSE] \in [Runs -> [EntryIds -> Entries]]
      /\ [f EXCEPT ![r][k].state = "RUNNING"] \in [Runs -> [EntryIds -> Entries]]
  BY <1>2, EntryUpdateType
<1>5. /\ [f EXCEPT ![r][k] = CancelMarked(@)] \in [Runs -> [EntryIds -> Entries]]
      /\ [f EXCEPT ![r][k] = TimersCleared(@)] \in [Runs -> [EntryIds -> Entries]]
  BY <1>3, EntryUpdateType
<1> QED BY <1>4, <1>5

LEMMA WireUpdateType ==
  ASSUME NEW f \in [Sources -> [Runs -> AgentJobs]], NEW s \in Sources, NEW r \in Runs
  PROVE  /\ [f EXCEPT ![s][r] = NoJob] \in [Sources -> [Runs -> AgentJobs]]
         /\ [f EXCEPT ![s][r].abort = TRUE] \in [Sources -> [Runs -> AgentJobs]]
         /\ [f EXCEPT ![s][r].state = "assigned"] \in [Sources -> [Runs -> AgentJobs]]
         /\ [f EXCEPT ![s][r].state = "running"] \in [Sources -> [Runs -> AgentJobs]]
<1>1. f[s][r] \in AgentJobs /\ NoJob \in AgentJobs
  BY DEF NoJob, AgentJobs
<1>2. /\ [f[s][r] EXCEPT !.abort = TRUE] \in AgentJobs
      /\ [f[s][r] EXCEPT !.state = "assigned"] \in AgentJobs
      /\ [f[s][r] EXCEPT !.state = "running"] \in AgentJobs
  BY <1>1 DEF AgentJobs
<1>3. ASSUME NEW j \in AgentJobs
      PROVE  [f EXCEPT ![s][r] = j] \in [Sources -> [Runs -> AgentJobs]]
  OBVIOUS
<1> QED BY <1>1, <1>2, <1>3

LEMMA SendCancelType ==
  ASSUME wire \in [Sources -> [Runs -> AgentJobs]], NEW r \in Runs, SendCancel(r)
  PROVE  wire' \in [Sources -> [Runs -> AgentJobs]]
<1>1. "live" \in Sources /\ TRUE \in BOOLEAN
  BY DEF Sources
<1>2. [wire EXCEPT !["live"][r].abort = TRUE] \in [Sources -> [Runs -> AgentJobs]]
  BY <1>1, WireUpdateType
<1> QED BY <1>2 DEF SendCancel

LEMMA IdleType == Idle \in Calls
BY DEF Calls, WellFormed, PCs, Idle, NoArray, Roots, Lifecycle!Statuses

\* The calls handlers start: a terminal write, and one that follows an InFlight.
LEMMA WritingCallType ==
  ASSUME NEW r \in Runs, NEW s \in Lifecycle!Statuses, NEW root \in Roots,
         NEW todo \in SUBSET Handles, NEW p \in {"queued_write", "final_write"}
  PROVE  /\ [Idle EXCEPT !.pc = p, !.run = r, !.status = s, !.root = root] \in Calls
         /\ [Idle EXCEPT !.pc = p, !.run = r, !.status = s, !.root = root, !.todo = todo]
              \in Calls
BY DEF Calls, WellFormed, Idle, NoArray, PCs

LEMMA InFlightCallType ==
  ASSUME NEW r \in Runs, NEW k \in EntryIds, NEW root \in Roots,
         NEW p \in {"ack_mark", "reconcile"}
  PROVE  [Idle EXCEPT !.pc = p, !.run = r, !.k = k, !.root = root] \in Calls
BY DEF Calls, WellFormed, Idle, NoArray, PCs, Lifecycle!Statuses

\* A call that goes on to another await.
LEMMA CallExceptType ==
  ASSUME NEW c \in Calls, c.run \in Runs,
         NEW p \in PCs, NEW s \in Lifecycle!Statuses, NEW b \in BOOLEAN,
         p \in {"dispatch_load", "dispatch_got", "stamp"} => c.arr \in Arrays,
         p \in {"ack_mark", "ack_got", "reconcile", "auto_groups"} => c.k \in EntryIds
  PROVE  /\ [c EXCEPT !.pc = p] \in Calls
         /\ [c EXCEPT !.pc = p, !.status = s] \in Calls
         /\ [c EXCEPT !.pc = p, !.status = s, !.cancel = b] \in Calls
BY DEF Calls, WellFormed

LEMMA TaskUpdateType ==
  ASSUME NEW f \in [Tasks -> Calls], NEW t \in Tasks, NEW c \in Calls
  PROVE  [f EXCEPT ![t] = c] \in [Tasks -> Calls]
OBVIOUS

LEMMA StatusesType ==
  /\ {"ABSENT", "PENDING", "RUNNING", "COMPLETED", "FAILED", "CANCELLED", "INTERRUPTED"}
       = Lifecycle!Statuses
  /\ {"COMPLETED", "FAILED", "CANCELLED"} \subseteq Lifecycle!Terminal
BY DEF Lifecycle!Statuses, Lifecycle!Active, Lifecycle!Terminal

LEMMA TimersClearedType ==
  ASSUME NEW e \in Entries
  PROVE  TimersCleared(e) \in Entries
BY DEF TimersCleared, Entries

LEMMA FinalizeType ==
  ASSUME TypeOK, NEW t \in Tasks, NEW r \in Runs, NEW k \in EntryIds,
         NEW s \in {"COMPLETED", "FAILED", "CANCELLED"}, NEW root \in Roots,
         NEW todo \in SUBSET Handles, Finalize(t, r, k, s, root, todo)
  PROVE  /\ entry' \in [Runs -> [EntryIds -> Entries]]
         /\ inFlight' \in [Runs -> EntryIds \cup {0}]
         /\ deadRuns' \in Seq(Runs) /\ Len(deadRuns') <= DeadRunCap
         /\ task' \in [Tasks -> Calls]
<1>1. deadRuns' \in Seq(Runs) /\ Len(deadRuns') <= DeadRunCap
  BY MarkDeadType DEF Finalize
<1>2. task' \in [Tasks -> Calls]
  BY DEF TypeOK, Finalize, Calls, WellFormed, PCs, Idle, NoArray, Lifecycle!Statuses,
         Lifecycle!Terminal
<1>3. entry' \in [Runs -> [EntryIds -> Entries]]
  <2>1. TimersCleared(entry[r][k]) \in Entries
    BY TimersClearedType DEF TypeOK
  <2> QED BY <2>1, EntryUpdateType DEF TypeOK, Finalize
<1> QED BY <1>1, <1>2, <1>3 DEF TypeOK, Finalize

LEMMA HubRestartType ==
  ASSUME TypeOK, HubRestart, fatal' \in BOOLEAN
  PROVE  TypeOK'
<1>1. Idle \in Calls
  BY DEF Idle, Calls, WellFormed, PCs, NoArray, Roots, Lifecycle!Statuses
<1>2. deadRuns' \in Seq(Runs) /\ Len(deadRuns') <= DeadRunCap
  BY RemoteAssumption DEF HubRestart
<1>3. status' \in [Runs -> Lifecycle!Statuses]
  BY DEF HubRestart, TypeOK, Active, Lifecycle!Statuses, Lifecycle!Terminal
<1> QED BY <1>1, <1>2, <1>3 DEF HubRestart, TypeOK, FreeEntry, Entries, NoJob, AgentJobs


LEMMA ThrowType ==
  ASSUME TypeOK, NEW t \in Tasks, Throw(t)
  PROVE  TypeOK'
<1>1. CASE task[t].root = "void"
  BY <1>1, HubRestartType DEF Throw
<1>2. CASE task[t].root # "void"
  <2>1. Returned(task[t].root, task[t].todo) \in Calls
    BY ReturnedType DEF TypeOK, Calls
  <2> QED BY <1>2, <2>1 DEF Throw, TypeOK, dbVars, queueVars, flightVars, agentVars
<1> QED BY <1>1, <1>2

LEMMA DequeueAndContinueType ==
  ASSUME TypeOK, NEW t \in Tasks, task[t].arr \in Arrays, DequeueAndContinue(t)
  PROVE  /\ content' \in [Arrays -> Seq(Runs)]
         /\ pendingByAgent' \in Arrays \cup {NoArray}
         /\ queuedJobs' \subseteq Runs
         /\ dispatchTimers' \subseteq Runs
         /\ task' \in [Tasks -> Calls]
<1>1. task[t] \in Calls
  BY DEF TypeOK
<1>2. NextIteration(task[t], ContentWithout(task[t].run)) \in Calls
  BY <1>1, ContentWithoutType, NextIterationType
<1> QED BY <1>2, ContentWithoutType DEF TypeOK, DequeueAndContinue, Unqueue, PendingAfter

LEMMA LoseSessionType ==
  ASSUME TypeOK, NEW t \in Tasks, NEW root \in {"lost", "supersede"}, LoseSession(root, t)
  PROVE  /\ entry' \in [Runs -> [EntryIds -> Entries]]
         /\ inFlight' \in [Runs -> EntryIds \cup {0}]
         /\ deadRuns' \in Seq(Runs) /\ Len(deadRuns') <= DeadRunCap
         /\ task' \in [Tasks -> Calls]
         /\ wire' \in [Sources -> [Runs -> AgentJobs]]
<1> DEFINE orphaned == [u \in Tasks |->
                         IF task[u].root = "live" THEN [task[u] EXCEPT !.root = "old"]
                                                  ELSE task[u]]
<1>1. orphaned \in [Tasks -> Calls]
  <2>1. ASSUME NEW u \in Tasks
        PROVE  task[u] \in Calls /\ [task[u] EXCEPT !.root = "old"] \in Calls
    <3>1. task[u] \in Calls /\ "old" \in Roots
      BY DEF TypeOK, Roots, Sources
    <3> QED BY <3>1 DEF Calls, WellFormed
  <2> QED BY <2>1
<1>2. wire' \in [Sources -> [Runs -> AgentJobs]]
  BY DEF LoseSession, TypeOK, Sources, NoJob, AgentJobs
<1>3. CASE task' = orphaned /\ UNCHANGED flightVars
  BY <1>1, <1>2, <1>3 DEF TypeOK, flightVars
<1>4. ASSUME NEW h \in LostHandles,
             entry' = [entry EXCEPT ![h[1]][h[2]] = TimersCleared(@)],
             inFlight' = [inFlight EXCEPT ![h[1]] = 0],
             MarkDead(h[1]),
             task' = [orphaned EXCEPT ![t] =
                        [Idle EXCEPT !.pc = "final_write", !.run = h[1],
                                     !.status = "FAILED", !.root = root,
                                     !.todo = LostHandles \ {h}]]
      PROVE  /\ entry' \in [Runs -> [EntryIds -> Entries]]
             /\ inFlight' \in [Runs -> EntryIds \cup {0}]
             /\ deadRuns' \in Seq(Runs) /\ Len(deadRuns') <= DeadRunCap
             /\ task' \in [Tasks -> Calls]
  <2>1. h[1] \in Runs /\ h[2] \in EntryIds /\ LostHandles \ {h} \in SUBSET Handles
    BY DEF LostHandles, Handles
  <2>2. TimersCleared(entry[h[1]][h[2]]) \in Entries
    BY <2>1, TimersClearedType DEF TypeOK
  <2>3. entry' \in [Runs -> [EntryIds -> Entries]]
    BY <1>4, <2>1, <2>2, EntryUpdateType DEF TypeOK
  <2>4. deadRuns' \in Seq(Runs) /\ Len(deadRuns') <= DeadRunCap
    BY <1>4, <2>1, MarkDeadType
  <2>5. task' \in [Tasks -> Calls]
    <3>1. root \in Roots /\ "FAILED" \in Lifecycle!Statuses
      BY StatusesType DEF Roots
    <3>2. [Idle EXCEPT !.pc = "final_write", !.run = h[1], !.status = "FAILED",
                       !.root = root, !.todo = LostHandles \ {h}] \in Calls
      BY <2>1, <3>1, WritingCallType
    <3> QED BY <1>1, <1>4, <3>2, TaskUpdateType
  <2> QED BY <1>4, <2>1, <2>3, <2>4, <2>5 DEF TypeOK
<1> QED BY <1>2, <1>3, <1>4 DEF LoseSession, flightVars

\* Every step keeps every variable in its type.
LEMMA TypeStep ==
  ASSUME TypeOK, [Next]_vars
  PROVE  TypeOK'
<1> USE DEF dbVars, queueVars, flightVars, agentVars
<1>1. ASSUME NEW t \in Tasks, LoadJob(t) PROVE TypeOK'
  <2> DEFINE r == task[t].run
             p == IF task[t].pc = "enqueue_load" THEN "enqueue_got" ELSE "dispatch_got"
  <2>1. /\ task[t] \in Calls /\ r \in Runs /\ p \in PCs
        /\ p = "dispatch_got" => task[t].arr \in Arrays
        /\ p \in {"enqueue_got", "dispatch_got"}
    BY <1>1 DEF LoadJob, TypeOK, Calls, WellFormed, PCs
  <2>2. [task[t] EXCEPT !.pc = p, !.status = status[r], !.cancel = cancelRequestedAt[r]]
          \in Calls
    BY <2>1, CallExceptType DEF TypeOK
  <2>3. task' = [task EXCEPT ![t] = [task[t] EXCEPT !.pc = p, !.status = status[r],
                                                    !.cancel = cancelRequestedAt[r]]]
    BY <1>1 DEF LoadJob, TypeOK
  <2>4. task' \in [Tasks -> Calls]
    BY <2>2, <2>3, TaskUpdateType DEF TypeOK
  <2> QED BY <1>1, <2>4 DEF LoadJob, TypeOK
<1>2. ASSUME NEW t \in Tasks, LoadJobGone(t) PROVE TypeOK'
  <2>1. task[t] \in Calls /\ task[t].run \in Runs /\ "load_fail" \in PCs
    BY <1>2 DEF LoadJobGone, TypeOK, Calls, WellFormed, PCs
  <2>2. [task[t] EXCEPT !.pc = "load_fail"] \in Calls
    BY <2>1, CallExceptType, StatusesType
  <2>3. task' = [task EXCEPT ![t] = [task[t] EXCEPT !.pc = "load_fail"]]
    BY <1>2 DEF LoadJobGone, TypeOK
  <2>4. task' \in [Tasks -> Calls]
    BY <2>2, <2>3, TaskUpdateType DEF TypeOK
  <2> QED BY <1>2, <2>4 DEF LoadJobGone, TypeOK
<1>3. ASSUME NEW t \in Tasks, LoadFail(t) PROVE TypeOK'
  <2>1. CASE task[t].arr = NoArray
    <3>1. status' \in [Runs -> Lifecycle!Statuses]
      BY <1>3, StatusesType DEF LoadFail, TypeOK
    <3>2. task' = [task EXCEPT ![t] = Idle] /\ UNCHANGED queueVars
      BY <1>3, <2>1 DEF LoadFail
    <3>3. task' \in [Tasks -> Calls]
      BY <3>2, IdleType, TaskUpdateType DEF TypeOK
    <3> QED BY <1>3, <3>1, <3>2, <3>3 DEF LoadFail, TypeOK
  <2>2. CASE task[t].arr # NoArray
    <3>1. task[t].arr \in Arrays
      BY <2>2 DEF TypeOK, Calls
    <3>2. status' \in [Runs -> Lifecycle!Statuses]
      BY <1>3 DEF LoadFail, TypeOK, Lifecycle!Statuses, Lifecycle!Terminal
    <3> QED BY <1>3, <2>2, <3>1, <3>2, DequeueAndContinueType DEF LoadFail, TypeOK
  <2> QED BY <2>1, <2>2
<1>5. ASSUME NEW t \in Tasks, EnqueueRefuse(t) PROVE TypeOK'
  <2>1. PICK s \in {"CANCELLED", "FAILED"} :
          task' = [task EXCEPT ![t] =
             [Idle EXCEPT !.pc = "queued_write", !.run = task[t].run,
                          !.status = s, !.root = "http"]]
    BY <1>5 DEF EnqueueRefuse
  <2>2. /\ task[t].run \in Runs /\ "http" \in Roots
        /\ s \in Lifecycle!Statuses /\ {} \in SUBSET Handles
    BY <1>5, StatusesType DEF EnqueueRefuse, TypeOK, Calls, WellFormed, Roots
  <2>3. [Idle EXCEPT !.pc = "queued_write", !.run = task[t].run,
                     !.status = s, !.root = "http"] \in Calls
    BY <2>2, WritingCallType
  <2>4. task' \in [Tasks -> Calls]
    BY <2>1, <2>3, TaskUpdateType DEF TypeOK
  <2> QED BY <1>5, <2>4 DEF EnqueueRefuse, TypeOK
<1>6. ASSUME NEW t \in Tasks, EnqueuePush(t) PROVE TypeOK'
  <2>1. PICK a \in Arrays :
          /\ content' = [content EXCEPT ![a] = Append(@, task[t].run)]
             \/ content' = [content EXCEPT ![a] = <<task[t].run>>]
          /\ pendingByAgent' = a
          /\ task' = [task EXCEPT ![t] = TryDispatch("http", {}, a, content')]
    BY <1>6 DEF EnqueuePush
  <2>2. task[t].run \in Runs
    BY <1>6 DEF EnqueuePush, TypeOK, Calls, WellFormed, PCs, Idle
  <2>3. content' \in [Arrays -> Seq(Runs)]
    <3>1. Append(content[a], task[t].run) \in Seq(Runs) /\ <<task[t].run>> \in Seq(Runs)
      BY <2>2, AppendProperties DEF TypeOK
    <3> QED BY <2>1, <3>1 DEF TypeOK
  <2>4. TryDispatch("http", {}, a, content') \in Calls
    BY <2>3, TryDispatchType DEF Roots
  <2> QED BY <1>6, <2>1, <2>2, <2>3, <2>4 DEF EnqueuePush, ArmDeadline, TypeOK
<1>7. ASSUME NEW t \in Tasks, DispatchDiscard(t) PROVE TypeOK'
  <2>1. task[t].arr \in Arrays
    BY <1>7 DEF DispatchDiscard, TypeOK, Calls, WellFormed
  <2> QED BY <1>7, <2>1, DequeueAndContinueType DEF DispatchDiscard, TypeOK
<1>8. ASSUME NEW t \in Tasks, DispatchRefuse(t) PROVE TypeOK'
  <2>1. task' \in [Tasks -> Calls]
    BY <1>8 DEF TypeOK, DispatchRefuse, Calls, WellFormed, PCs, Idle, Lifecycle!Statuses, Lifecycle!Terminal
  <2> QED BY <1>8, <2>1, ContentWithoutType DEF TypeOK, DispatchRefuse, Dequeue, Unqueue
<1>9. ASSUME NEW t \in Tasks, DispatchWait(t) PROVE TypeOK'
  <2>1. Returned(task[t].root, task[t].todo) \in Calls
    BY ReturnedType DEF TypeOK, Calls
  <2> QED BY <1>9, <2>1 DEF DispatchWait, TypeOK
<1>10. ASSUME NEW t \in Tasks, DispatchSend(t) PROVE TypeOK'
  <2> DEFINE job == task[t]
             c == [content EXCEPT ![job.arr] = IF @ = <<>> THEN @ ELSE Tail(@)]
  <2>1. job \in Calls /\ job.arr \in Arrays /\ job.run \in Runs
    BY <1>10 DEF DispatchSend, Dispatchable, TypeOK, Calls, WellFormed
  <2>2. c \in [Arrays -> Seq(Runs)]
    BY <2>1, HeadTailProperties DEF TypeOK
  <2>3. NextIteration(job, c) \in Calls
    BY <2>1, <2>2, NextIterationType
  <2>4. entry' \in [Runs -> [EntryIds -> Entries]] /\ inFlight' \in [Runs -> EntryIds \cup {0}]
    <3>1. [FreeEntry EXCEPT !.state = "ASSIGNED", !.ackTimer = TRUE] \in Entries
      BY DEF FreeEntry, Entries
    <3> QED BY <1>10, <2>1, <3>1, EntryUpdateType DEF DispatchSend, TypeOK
  <2>5. task' \in [Tasks -> Calls]
    <3>1. [job EXCEPT !.pc = "stamp", !.status = "ABSENT"] \in Calls
      BY <2>1, CallExceptType, StatusesType DEF PCs
    <3>2. \/ task' = [task EXCEPT ![t] = [job EXCEPT !.pc = "stamp", !.status = "ABSENT"]]
          \/ task' = [task EXCEPT ![t] = NextIteration(job, c)]
      BY <1>10 DEF DispatchSend, TypeOK
    <3> QED BY <2>3, <3>1, <3>2, TaskUpdateType DEF TypeOK
  <2>6. wire' \in [Sources -> [Runs -> AgentJobs]]
    BY <1>10, <2>1, WireUpdateType DEF DispatchSend, TypeOK, Sources
  <2>7. pendingByAgent' \in Arrays \cup {NoArray}
    BY <1>10 DEF DispatchSend, TypeOK, PendingAfter
  <2>8. queuedJobs' \subseteq Runs /\ dispatchTimers' \subseteq Runs /\ content' = c
    BY <1>10 DEF DispatchSend, TypeOK, Unqueue
  <2> QED BY <1>10, <2>2, <2>4, <2>5, <2>6, <2>7, <2>8 DEF DispatchSend, TypeOK
<1>11. ASSUME NEW t \in Tasks, DispatchSendFails(t) PROVE TypeOK'
  <2>1. task[t].arr \in Arrays /\ task[t].run \in Runs
    BY <1>11 DEF DispatchSendFails, Dispatchable, TypeOK, Calls, WellFormed
  <2>2. Returned(task[t].root, task[t].todo) \in Calls
    BY ReturnedType DEF TypeOK, Calls
  <2>3. content' \in [Arrays -> Seq(Runs)]
    <3> DEFINE q == content[task[t].arr]
               rest == IF q = <<>> THEN q ELSE Tail(q)
    <3>1. rest \in Seq(Runs) /\ <<task[t].run>> \in Seq(Runs)
      BY <2>1, HeadTailProperties DEF TypeOK
    <3>2. <<task[t].run>> \o rest \in Seq(Runs)
      BY <3>1, ConcatProperties
    <3> QED BY <1>11, <2>1, <3>2 DEF DispatchSendFails, TypeOK
  <2> QED BY <1>11, <2>2, <2>3 DEF DispatchSendFails, TypeOK
<1>12. ASSUME NEW t \in Tasks, Stamp(t) PROVE TypeOK'
  <2>1. CASE Writable(task[t].run)
    <3>1. task[t] \in Calls /\ task[t].arr \in Arrays
      BY <1>12 DEF Stamp, TypeOK, Calls, WellFormed
    <3>2. NextIteration(task[t], content) \in Calls
      BY <3>1, NextIterationType DEF TypeOK
    <3> QED BY <1>12, <2>1, <3>2 DEF Stamp, TypeOK, PendingAfter
  <2>2. CASE ~Writable(task[t].run)
    BY <1>12, <2>2, ThrowType DEF Stamp
  <2> QED BY <2>1, <2>2
<1>13. ASSUME NEW t \in Tasks, QueuedWrite(t) PROVE TypeOK'
  <2>1. task[t] \in Calls
    BY DEF TypeOK
  <2>2. status' \in [Runs -> Lifecycle!Statuses]
    BY <1>13 DEF QueuedWrite, TypeOK, Calls
  <2>3. CASE task[t].arr = NoArray
    <3>1. Idle \in Calls
      BY DEF Calls, WellFormed, PCs, Idle, NoArray, Roots, Lifecycle!Statuses
    <3>2. task' = [task EXCEPT ![t] = Idle] /\ UNCHANGED pendingByAgent
      BY <1>13, <2>3 DEF QueuedWrite
    <3> QED BY <1>13, <2>2, <3>1, <3>2 DEF QueuedWrite, TypeOK
  <2>4. CASE task[t].arr # NoArray
    <3>1. task[t].arr \in Arrays
      BY <2>4 DEF TypeOK, Calls
    <3>2. NextIteration(task[t], content) \in Calls
      BY <2>1, <3>1, NextIterationType DEF TypeOK
    <3>3. /\ task' = [task EXCEPT ![t] = NextIteration(task[t], content)]
          /\ pendingByAgent' = PendingAfter(task[t], pendingByAgent, content)
      BY <1>13, <2>4 DEF QueuedWrite
    <3> QED BY <1>13, <2>2, <3>2, <3>3 DEF QueuedWrite, TypeOK, PendingAfter
  <2> QED BY <2>3, <2>4
<1>14. ASSUME NEW t \in Tasks, FinalWrite(t) PROVE TypeOK'
  <2>1. CASE Writable(task[t].run)
    <3>1. task[t].root \in Roots /\ task[t].todo \in SUBSET Handles
      BY DEF TypeOK, Calls
    <3>2. TryDispatch(task[t].root, task[t].todo, pendingByAgent, content) \in Calls
      BY <3>1, TryDispatchType DEF TypeOK
    <3>3. status' \in [Runs -> Lifecycle!Statuses]
      BY <1>14, <2>1 DEF FinalWrite, WriteStatus, TypeOK, Calls
    <3> QED BY <1>14, <2>1, <3>2, <3>3 DEF FinalWrite, TypeOK
  <2>2. CASE ~Writable(task[t].run)
    BY <1>14, <2>2, ThrowType DEF FinalWrite
  <2> QED BY <2>1, <2>2
<1>15. ASSUME NEW t \in Tasks, LostNext(t) PROVE TypeOK'
  <2>1. task[t].root \in Roots /\ task[t].todo \in SUBSET Handles
    BY DEF TypeOK, Calls
  <2>2. PICK h \in task[t].todo :
          Finalize(t, h[1], h[2], "FAILED", task[t].root, task[t].todo \ {h})
    BY <1>15 DEF LostNext
  <2>3. h[1] \in Runs /\ h[2] \in EntryIds /\ task[t].todo \ {h} \in SUBSET Handles
    BY <2>1, <2>2 DEF Handles
  <2> QED BY <1>15, <2>1, <2>2, <2>3, FinalizeType DEF LostNext, TypeOK
<1>16. ASSUME NEW t \in Tasks, CancelRemoteRun(t) PROVE TypeOK'
  <2> DEFINE r == task[t].run
             k == inFlight[r]
  <2>1. r \in Runs
    BY <1>16 DEF CancelRemoteRun, TypeOK, Calls, WellFormed
  <2>2. Idle \in Calls
    BY DEF Calls, WellFormed, PCs, Idle, NoArray, Roots, Lifecycle!Statuses
  <2>3. CASE k # 0
    <3>1. k \in EntryIds
      BY <2>1, <2>3 DEF TypeOK
    <3>2. entry' \in [Runs -> [EntryIds -> Entries]]
      <4>1. [entry EXCEPT ![r][k] = CancelMarked(@)] \in [Runs -> [EntryIds -> Entries]]
        BY <2>1, <3>1, EntryFieldType DEF TypeOK
      <4> QED BY <1>16, <2>3, <4>1 DEF CancelRemoteRun
    <3>3. wire' \in [Sources -> [Runs -> AgentJobs]]
      BY <1>16, <2>1, <2>3, SendCancelType DEF CancelRemoteRun, TypeOK
    <3>4. task' = [task EXCEPT ![t] = Idle] /\ UNCHANGED queueVars
      BY <1>16, <2>3 DEF CancelRemoteRun
    <3> QED BY <1>16, <2>2, <3>2, <3>3, <3>4 DEF CancelRemoteRun, TypeOK
  <2>4. CASE k = 0 /\ r \in queuedJobs
    <3>1. task' \in [Tasks -> Calls]
      <4>1. [task[t] EXCEPT !.pc = "queued_write", !.status = "CANCELLED"] \in Calls
        <5>1. task[t] \in Calls /\ "queued_write" \in PCs
          BY DEF TypeOK, PCs
        <5> QED BY <2>1, <5>1, CallExceptType, StatusesType
      <4>2. task' = [task EXCEPT ![t] = [task[t] EXCEPT !.pc = "queued_write",
                                                        !.status = "CANCELLED"]]
        BY <1>16, <2>4 DEF CancelRemoteRun, TypeOK
      <4> QED BY <4>1, <4>2, TaskUpdateType DEF TypeOK
    <3>2. Dequeue(r) /\ UNCHANGED <<entry, wire>>
      BY <1>16, <2>4 DEF CancelRemoteRun
    <3> QED BY <1>16, <3>1, <3>2, ContentWithoutType DEF CancelRemoteRun, Dequeue, Unqueue, TypeOK
  <2>5. CASE k = 0 /\ r \notin queuedJobs
    BY <1>16, <2>2, <2>5 DEF CancelRemoteRun, TypeOK
  <2> QED BY <2>3, <2>4, <2>5
<1>17. ASSUME NEW t \in Tasks, AckMark(t) PROVE TypeOK'
  <2>1. status' \in [Runs -> Lifecycle!Statuses]
    BY <1>17, StatusesType DEF AckMark, TypeOK
  <2>2. PICK s \in {"RUNNING", "ABSENT"} :
          task' = [task EXCEPT ![t] = [task[t] EXCEPT !.pc = "ack_got", !.status = s]]
    BY <1>17 DEF AckMark, TypeOK
  <2>3. task[t] \in Calls /\ task[t].run \in Runs /\ task[t].k \in EntryIds
    BY <1>17 DEF AckMark, TypeOK, Calls, WellFormed
  <2>4. [task[t] EXCEPT !.pc = "ack_got", !.status = s] \in Calls
    BY <2>3, CallExceptType, StatusesType DEF PCs
  <2>5. task' \in [Tasks -> Calls]
    BY <2>2, <2>4, TaskUpdateType DEF TypeOK
  <2> QED BY <1>17, <2>1, <2>5 DEF AckMark, TypeOK
<1>18. ASSUME NEW t \in Tasks, AckGot(t) PROVE TypeOK'
  <2> DEFINE r == task[t].run
             k == task[t].k
  <2>1. r \in Runs /\ k \in EntryIds
    BY <1>18 DEF AckGot, TypeOK, Calls, WellFormed
  <2>2. task' \in [Tasks -> Calls]
    BY <1>18, IdleType, TaskUpdateType DEF AckGot, TypeOK
  <2>3. CASE task[t].status = "RUNNING"
    <3>1. entry' \in [Runs -> [EntryIds -> Entries]]
      <4>1. [entry EXCEPT ![r][k].state = "RUNNING"] \in [Runs -> [EntryIds -> Entries]]
        BY <2>1, EntryFieldType DEF TypeOK
      <4> QED BY <1>18, <2>3, <4>1 DEF AckGot
    <3> QED BY <1>18, <2>2, <2>3, <3>1 DEF AckGot, TypeOK
  <2>4. CASE task[t].status # "RUNNING"
    <3>1. deadRuns' \in Seq(Runs) /\ Len(deadRuns') <= DeadRunCap
      BY <1>18, <2>1, <2>4, MarkDeadType DEF AckGot
    <3>2. wire' \in [Sources -> [Runs -> AgentJobs]]
      BY <1>18, <2>1, <2>4, SendCancelType DEF AckGot, TypeOK
    <3> QED BY <1>18, <2>1, <2>2, <2>4, <3>1, <3>2 DEF AckGot, TypeOK
  <2> QED BY <2>3, <2>4
<1>19. ASSUME NEW t \in Tasks, Reconciled(t) PROVE TypeOK'
  <2> DEFINE r == task[t].run
             k == task[t].k
  <2>1. r \in Runs /\ k \in EntryIds /\ task[t].root \in Roots
    BY <1>19 DEF Reconciled, TypeOK, Calls, WellFormed
  <2>2. CASE inFlight[r] # k
    BY <1>19, <2>2, IdleType DEF Reconciled, TypeOK
  <2>3. CASE inFlight[r] = k /\ ~entry[r][k].cancelRequested
    <3>1. [task[t] EXCEPT !.pc = "auto_groups"] \in Calls
      <4>1. task[t] \in Calls /\ "auto_groups" \in PCs
        BY DEF TypeOK, PCs
      <4> QED BY <2>1, <4>1, CallExceptType, StatusesType
    <3>2. task' = [task EXCEPT ![t] = [task[t] EXCEPT !.pc = "auto_groups"]]
      BY <1>19, <2>3 DEF Reconciled, TypeOK
    <3>3. task' \in [Tasks -> Calls]
      BY <3>1, <3>2, TaskUpdateType DEF TypeOK
    <3> QED BY <1>19, <2>3, <3>3 DEF Reconciled, TypeOK
  <2>4. CASE inFlight[r] = k /\ entry[r][k].cancelRequested
    BY <1>19, <2>1, <2>4, FinalizeType DEF Reconciled, TypeOK
  <2> QED BY <2>2, <2>3, <2>4
<1>20. ASSUME NEW t \in Tasks, AutoGrouped(t) PROVE TypeOK'
  <2>1. task[t].run \in Runs /\ task[t].k \in EntryIds /\ task[t].root \in Roots
    BY <1>20 DEF AutoGrouped, TypeOK, Calls, WellFormed
  <2> QED BY <1>20, <2>1, FinalizeType DEF AutoGrouped, TypeOK
<1>21. ASSUME NEW t \in Tasks, NEW r \in Runs, DispatchTimeout(r, t) PROVE TypeOK'
  <2>1. CASE r \in queuedJobs
    <3>1. task' \in [Tasks -> Calls]
      <4>1. [Idle EXCEPT !.pc = "queued_write", !.run = r, !.status = "FAILED",
                         !.root = "void"] \in Calls
        <5>1. "void" \in Roots /\ {} \in SUBSET Handles /\ "FAILED" \in Lifecycle!Statuses
          BY StatusesType DEF Roots
        <5> QED BY <5>1, WritingCallType
      <4> QED BY <1>21, <2>1, <4>1, TaskUpdateType DEF DispatchTimeout, TypeOK
    <3> QED BY <1>21, <2>1, <3>1, ContentWithoutType DEF DispatchTimeout, Dequeue, Unqueue, TypeOK
  <2>2. CASE r \notin queuedJobs
    BY <1>21, <2>2 DEF DispatchTimeout, TypeOK
  <2> QED BY <2>1, <2>2
<1>22. ASSUME NEW t \in Tasks, NEW r \in Runs, NEW k \in EntryIds, AckTimeout(r, k, t)
       PROVE  TypeOK'
  <2> DEFINE cur == inFlight[r]
             f == [entry EXCEPT ![r][k].ackTimer = FALSE]
  <2>2. f \in [Runs -> [EntryIds -> Entries]]
    BY EntryFieldType DEF TypeOK
  <2>3. CASE Assigned(r)
    <3>1. cur \in EntryIds
      BY <2>3 DEF Assigned, TypeOK
    <3>3. [f EXCEPT ![r][cur] = TimersCleared(@)] \in [Runs -> [EntryIds -> Entries]]
      BY <2>2, <3>1, EntryFieldType
    <3>4. entry' = [f EXCEPT ![r][cur] = TimersCleared(@)]
      BY <1>22, <2>3 DEF AckTimeout
    <3>5. deadRuns' \in Seq(Runs) /\ Len(deadRuns') <= DeadRunCap
      BY <1>22, <2>3, MarkDeadType DEF AckTimeout
    <3>6. wire' \in [Sources -> [Runs -> AgentJobs]]
      BY <1>22, <2>3, SendCancelType DEF AckTimeout, TypeOK
    <3>7. task' \in [Tasks -> Calls]
      <4>1. [Idle EXCEPT !.pc = "final_write", !.run = r, !.status = "FAILED",
                         !.root = "void"] \in Calls
        <5>1. "void" \in Roots /\ {} \in SUBSET Handles /\ "FAILED" \in Lifecycle!Statuses
          BY StatusesType DEF Roots
        <5> QED BY <5>1, WritingCallType
      <4>2. task' = [task EXCEPT ![t] = [Idle EXCEPT !.pc = "final_write", !.run = r, !.status = "FAILED",
                         !.root = "void"]]
        BY <1>22, <2>3 DEF AckTimeout
      <4> QED BY <4>1, <4>2, TaskUpdateType DEF TypeOK
    <3> QED BY <1>22, <2>3, <3>3, <3>4, <3>5, <3>6, <3>7 DEF AckTimeout, TypeOK
  <2>4. CASE ~Assigned(r)
    <3>1. entry' = f
      BY <1>22, <2>4 DEF AckTimeout
    <3> QED BY <1>22, <2>2, <2>4, <3>1 DEF AckTimeout, TypeOK
  <2> QED BY <2>3, <2>4
<1>23. ASSUME NEW t \in Tasks, NEW r \in Runs, NEW k \in EntryIds, CancelTimeout(r, k, t)
       PROVE  TypeOK'
  <2> DEFINE cur == inFlight[r]
             f == [entry EXCEPT ![r][k].cancelTimer = FALSE]
  <2>2. f \in [Runs -> [EntryIds -> Entries]]
    BY EntryFieldType DEF TypeOK
  <2>3. CASE cur # 0
    <3>1. cur \in EntryIds
      BY <2>3 DEF TypeOK
    <3>3. [f EXCEPT ![r][cur] = TimersCleared(@)] \in [Runs -> [EntryIds -> Entries]]
      BY <2>2, <3>1, EntryFieldType
    <3>4. entry' = [f EXCEPT ![r][cur] = TimersCleared(@)]
      BY <1>23, <2>3 DEF CancelTimeout
    <3>5. deadRuns' \in Seq(Runs) /\ Len(deadRuns') <= DeadRunCap
      BY <1>23, <2>3, MarkDeadType DEF CancelTimeout
    <3>7. task' \in [Tasks -> Calls]
      <4>1. [Idle EXCEPT !.pc = "final_write", !.run = r, !.status = "FAILED",
                         !.root = "void"] \in Calls
        <5>1. "void" \in Roots /\ {} \in SUBSET Handles /\ "FAILED" \in Lifecycle!Statuses
          BY StatusesType DEF Roots
        <5> QED BY <5>1, WritingCallType
      <4>2. task' = [task EXCEPT ![t] = [Idle EXCEPT !.pc = "final_write", !.run = r, !.status = "FAILED",
                         !.root = "void"]]
        BY <1>23, <2>3 DEF CancelTimeout
      <4> QED BY <4>1, <4>2, TaskUpdateType DEF TypeOK
    <3> QED BY <1>23, <2>3, <3>3, <3>4, <3>5, <3>7 DEF CancelTimeout, TypeOK
  <2>4. CASE cur = 0
    <3>1. entry' = f
      BY <1>23, <2>4 DEF CancelTimeout
    <3> QED BY <1>23, <2>2, <2>4, <3>1 DEF CancelTimeout, TypeOK
  <2> QED BY <2>3, <2>4
<1>24. ASSUME NEW t \in Tasks, NEW r \in Runs, StartRun(r, t) PROVE TypeOK'
  BY <1>24 DEF StartRun, WriteStatus, TypeOK, Calls, WellFormed, PCs, Idle, NoArray, Roots, Lifecycle!Statuses, Lifecycle!Terminal, Lifecycle!Active
<1>25. ASSUME NEW t \in Tasks, NEW r \in Runs, CancelRun(r, t) PROVE TypeOK'
  BY <1>25 DEF CancelRun, TypeOK, Calls, WellFormed, PCs, Idle, NoArray, Roots, Lifecycle!Statuses
<1>26. ASSUME NEW t \in Tasks, NEW s \in Sources, NEW r \in Runs, NEW accepted \in BOOLEAN,
              JobAck(s, r, accepted, t)
       PROVE  TypeOK'
  <2> DEFINE k == inFlight[r]
  <2>1. wire' \in [Sources -> [Runs -> AgentJobs]]
    BY <1>26, WireUpdateType DEF JobAck, TypeOK
  <2>2. CASE ~Assigned(r)
    BY <1>26, <2>1, <2>2 DEF JobAck, TypeOK
  <2>3. CASE Assigned(r) /\ ~accepted
    <3>1. k \in EntryIds /\ s \in Roots /\ {} \in SUBSET Handles
      BY <2>3 DEF Assigned, TypeOK, Roots
    <3>2. PICK e \in {"COMPLETED", "FAILED", "CANCELLED"} : Finalize(t, r, k, e, s, {})
      BY <1>26, <2>3 DEF JobAck
    <3>3. /\ entry' \in [Runs -> [EntryIds -> Entries]]
          /\ inFlight' \in [Runs -> EntryIds \cup {0}]
          /\ deadRuns' \in Seq(Runs) /\ Len(deadRuns') <= DeadRunCap
          /\ task' \in [Tasks -> Calls]
      BY <3>1, <3>2, FinalizeType
    <3> QED BY <1>26, <2>1, <3>3 DEF JobAck, TypeOK
  <2>4. CASE Assigned(r) /\ accepted
    <3>1. k \in EntryIds /\ s \in Roots
      BY <2>4 DEF Assigned, TypeOK, Roots
    <3>2. entry' \in [Runs -> [EntryIds -> Entries]]
      <4>1. [entry EXCEPT ![r][k].ackTimer = FALSE] \in [Runs -> [EntryIds -> Entries]]
        BY <3>1, EntryFieldType DEF TypeOK
      <4> QED BY <1>26, <2>4, <4>1 DEF JobAck
    <3>3. [Idle EXCEPT !.pc = "ack_mark", !.run = r, !.k = k, !.root = s] \in Calls
      BY <3>1, InFlightCallType
    <3>4. task' \in [Tasks -> Calls]
      BY <1>26, <2>4, <3>3, TaskUpdateType DEF JobAck, TypeOK
    <3> QED BY <1>26, <2>1, <2>4, <3>2, <3>4 DEF JobAck, TypeOK
  <2> QED BY <2>2, <2>3, <2>4
<1>27. ASSUME NEW t \in Tasks, NEW s \in Sources, NEW r \in Runs,
              NEW result \in {"COMPLETED", "FAILED", "CANCELLED"}, RunComplete(s, r, result, t)
       PROVE  TypeOK'
  <2> DEFINE k == inFlight[r]
  <2>1. wire' \in [Sources -> [Runs -> AgentJobs]]
    BY <1>27, WireUpdateType DEF RunComplete, TypeOK
  <2>2. CASE UNCHANGED <<flightVars, task>>
    BY <1>27, <2>1, <2>2 DEF RunComplete, TypeOK
  <2>3. CASE /\ Owned(r)
             /\ task' = [task EXCEPT ![t] = [Idle EXCEPT !.pc = "reconcile", !.run = r,
                                                         !.k = k, !.root = s]]
             /\ UNCHANGED flightVars
    <3>1. k \in EntryIds /\ s \in Roots
      BY <2>3 DEF Owned, TypeOK, Roots
    <3>2. [Idle EXCEPT !.pc = "reconcile", !.run = r, !.k = k, !.root = s] \in Calls
      BY <3>1, InFlightCallType
    <3>3. task' \in [Tasks -> Calls]
      BY <2>3, <3>2, TaskUpdateType DEF TypeOK
    <3> QED BY <1>27, <2>1, <2>3, <3>3 DEF RunComplete, TypeOK
  <2>4. ASSUME Owned(r), NEW e \in {"COMPLETED", "FAILED", "CANCELLED"},
               Finalize(t, r, k, e, s, {})
        PROVE  TypeOK'
    <3>1. k \in EntryIds /\ s \in Roots /\ {} \in SUBSET Handles
      BY <2>4 DEF Owned, TypeOK, Roots
    <3> QED BY <1>27, <2>1, <2>4, <3>1, FinalizeType DEF RunComplete, TypeOK
  <2> QED BY <1>27, <2>2, <2>3, <2>4 DEF RunComplete
<1>28. ASSUME NEW t \in Tasks, NEW s \in Sources, NEW r \in Runs, RejectFrame(s, r)
       PROVE  TypeOK'
  BY <1>28 DEF RejectFrame, TypeOK
<1>29. ASSUME NEW r \in Runs, FrameLost(r) PROVE TypeOK'
  <2>1. wire' \in [Sources -> [Runs -> AgentJobs]]
    <3>1. "live" \in Sources
      BY DEF Sources
    <3>2. /\ [wire EXCEPT !["live"][r].state = "running"] \in [Sources -> [Runs -> AgentJobs]]
          /\ [wire EXCEPT !["live"][r] = NoJob] \in [Sources -> [Runs -> AgentJobs]]
      BY <3>1, WireUpdateType DEF TypeOK
    <3> QED BY <1>29, <3>2 DEF FrameLost
  <2> QED BY <1>29, <2>1 DEF FrameLost, TypeOK
<1>30. ASSUME NEW t \in Tasks, CloseSession(t) PROVE TypeOK'
  BY <1>30, LoseSessionType DEF CloseSession, TypeOK
<1>31. ASSUME NEW t \in Tasks, Attach(t) PROVE TypeOK'
  BY <1>31, LoseSessionType DEF Attach, TypeOK
<1>32. ASSUME NEW t \in Tasks, SessionReady(t) PROVE TypeOK'
  <2>1. TryDispatch("void", {}, pendingByAgent, content) \in Calls
    BY TryDispatchType DEF TypeOK, Roots
  <2> QED BY <1>32, <2>1 DEF SessionReady, TypeOK
<1>33. CASE AttachFails \/ SocketDies \/ OldFramesEnd
  <2>1. [r \in Runs |-> NoJob] \in [Runs -> AgentJobs]
    BY DEF NoJob, AgentJobs
  <2>2. wire' \in [Sources -> [Runs -> AgentJobs]]
    BY <1>33, <2>1 DEF AttachFails, SocketDies, OldFramesEnd, TypeOK
  <2> QED BY <1>33, <2>2 DEF AttachFails, SocketDies, OldFramesEnd, TypeOK
<1>34. ASSUME NEW r \in Runs, NEW q \in Drifts \cup {"ok"}, PolicyDrift(r, q) PROVE TypeOK'
  BY <1>34, RemoteAssumption DEF PolicyDrift, TypeOK
<1>35. CASE Crash
  BY <1>35, HubRestartType DEF Crash, TypeOK
<1>36. CASE UNCHANGED vars
  BY <1>36 DEF vars, TypeOK
<1> QED
  BY <1>1, <1>2, <1>3, <1>5, <1>6, <1>7, <1>8, <1>9, <1>10, <1>11, <1>12, <1>13,
     <1>14, <1>15, <1>16, <1>17, <1>18, <1>19, <1>20, <1>21, <1>22, <1>23, <1>24, <1>25,
     <1>26, <1>27, <1>28, <1>29, <1>30, <1>31, <1>32, <1>33, <1>34, <1>35, <1>36
  DEF Next, TaskStep, TimerFires, FrameArrives, SessionEvent

\* Type correctness of the dispatcher, whatever the capacity and the bounds:
\* in particular no suspended call ever loses the run or the array it is about,
\* and the dead-run registry stays within DEAD_RUN_CAP.
THEOREM TypeInvariant == Spec => []TypeOK
<1>1. Init => TypeOK
  <2> SUFFICES ASSUME Init PROVE TypeOK
    OBVIOUS
  <2>1. status \in [Runs -> Lifecycle!Statuses]
    BY StatusesType DEF Init
  <2>2. entry \in [Runs -> [EntryIds -> Entries]] /\ wire \in [Sources -> [Runs -> AgentJobs]]
    BY DEF Init, FreeEntry, Entries, NoJob, AgentJobs
  <2>3. task \in [Tasks -> Calls]
    BY IdleType DEF Init
  <2>4. deadRuns \in Seq(Runs) /\ Len(deadRuns) <= DeadRunCap
    BY RemoteAssumption DEF Init
  <2> QED BY <2>1, <2>2, <2>3, <2>4 DEF Init, TypeOK
<1>2. TypeOK /\ [Next]_vars => TypeOK'
  BY TypeStep
<1> QED BY <1>1, <1>2, PTL DEF Spec
-----------------------------------------------------------------------------
(* Capacity.                                                                 *)

FlightSet == {r \in Runs : inFlight[r] # 0}

\* Only DispatchSend puts a run in flight, and it has just seen a free slot.
LEMMA FlightStep ==
  ASSUME TypeOK, [Next]_vars
  PROVE  \/ \A r \in Runs : inFlight'[r] \in {0, inFlight[r]}
         \/ /\ HasSlot
            /\ \E x \in Runs : \A r \in Runs \ {x} : inFlight'[r] = inFlight[r]
<1> DEFINE Frees == \A r \in Runs : inFlight'[r] \in {0, inFlight[r]}
           Takes == /\ HasSlot
                    /\ \E x \in Runs : \A r \in Runs \ {x} : inFlight'[r] = inFlight[r]
<1> USE DEF flightVars
<1>0. inFlight \in [Runs -> EntryIds \cup {0}]
  BY DEF TypeOK
<1>1. HubRestart => Frees
  BY <1>0 DEF HubRestart
<1>2. ASSUME NEW t \in Tasks, Throw(t) PROVE Frees
  BY <1>0, <1>1, <1>2 DEF Throw
<1>3. ASSUME NEW t, NEW r, NEW k, NEW s, NEW root, NEW todo, Finalize(t, r, k, s, root, todo)
      PROVE  Frees
  BY <1>0, <1>3 DEF Finalize
<1>4. ASSUME NEW t \in Tasks, NEW root, LoseSession(root, t) PROVE Frees
  BY <1>0, <1>4 DEF LoseSession
<1>5. ASSUME NEW t \in Tasks, TaskStep(t), ~DispatchSend(t) PROVE Frees
  <2>1. CASE LoadJob(t) \/ LoadJobGone(t) \/ LoadFail(t)
             \/ EnqueueRefuse(t) \/ EnqueuePush(t)
    BY <1>0, <2>1 DEF LoadJob, LoadJobGone, LoadFail, EnqueueRefuse, EnqueuePush
  <2>2. CASE DispatchDiscard(t) \/ DispatchRefuse(t) \/ DispatchWait(t) \/ DispatchSendFails(t)
    BY <1>0, <2>2 DEF DispatchDiscard, DispatchRefuse, DispatchWait, DispatchSendFails
  <2>3. CASE Stamp(t) \/ QueuedWrite(t) \/ FinalWrite(t)
    BY <1>0, <1>2, <2>3 DEF Stamp, QueuedWrite, FinalWrite
  <2>4. CASE CancelRemoteRun(t) \/ AckMark(t) \/ AckGot(t)
    BY <1>0, <2>4 DEF CancelRemoteRun, AckMark, AckGot
  <2>5. CASE LostNext(t) \/ Reconciled(t) \/ AutoGrouped(t)
    BY <1>0, <1>3, <2>5 DEF LostNext, Reconciled, AutoGrouped
  <2> QED BY <1>5, <2>1, <2>2, <2>3, <2>4, <2>5 DEF TaskStep
<1>6. ASSUME NEW t \in Tasks, DispatchSend(t) PROVE Takes
  <2>1. task[t].run \in Runs
    BY <1>6 DEF DispatchSend, Dispatchable, TypeOK, Calls, WellFormed
  <2> QED BY <1>0, <1>6, <2>1 DEF DispatchSend
<1>7. ASSUME NEW t \in Tasks, TimerFires(t) PROVE Frees
  BY <1>0, <1>7 DEF TimerFires, DispatchTimeout, AckTimeout, CancelTimeout
<1>8. ASSUME NEW t \in Tasks, FrameArrives(t) PROVE Frees
  BY <1>0, <1>3, <1>8 DEF FrameArrives, JobAck, RunComplete, RejectFrame
<1>9. ASSUME NEW t \in Tasks, SessionEvent(t) PROVE Frees
  BY <1>0, <1>4, <1>9 DEF SessionEvent, CloseSession, Attach, SessionReady, AttachFails,
                          SocketDies, OldFramesEnd, FrameLost
<1>10. ASSUME NEW t \in Tasks, NEW r \in Runs, StartRun(r, t) \/ CancelRun(r, t) PROVE Frees
  BY <1>0, <1>10 DEF StartRun, CancelRun
<1>11. ASSUME NEW r \in Runs, NEW p, PolicyDrift(r, p) PROVE Frees
  BY <1>0, <1>11 DEF PolicyDrift
<1>12. CASE Crash \/ UNCHANGED vars
  BY <1>0, <1>1, <1>12 DEF Crash, vars
<1> QED BY <1>5, <1>6, <1>7, <1>8, <1>9, <1>10, <1>11, <1>12 DEF Next

\* The hub never has more jobs of the agent in flight than maxConcurrentJobs,
\* however many tryDispatch calls are suspended between loadJob and the send.
THEOREM CapacityHolds == Spec => []CapacityRespected
<1>1. IsFiniteSet(FlightSet) /\ IsFiniteSet(FlightSet')
  BY RemoteAssumption, FS_Subset DEF FlightSet
<1>2. InFlightCount = Cardinality(FlightSet) /\ InFlightCount' = Cardinality(FlightSet')
  BY DEF InFlightCount, FlightSet
<1>3. Init => CapacityRespected
  <2> SUFFICES ASSUME Init PROVE CapacityRespected
    OBVIOUS
  <2>1. FlightSet = {}
    BY DEF Init, FlightSet
  <2> QED BY <1>2, <2>1, FS_EmptySet, RemoteAssumption DEF CapacityRespected
<1>4. TypeOK /\ CapacityRespected /\ [Next]_vars => CapacityRespected'
  <2> SUFFICES ASSUME TypeOK, CapacityRespected, [Next]_vars PROVE CapacityRespected'
    OBVIOUS
  <2>1. Cardinality(FlightSet) \in Nat /\ Cardinality(FlightSet') \in Nat /\ Capacity \in Nat
    BY <1>1, FS_CardinalityType, RemoteAssumption
  <2>2. CASE \A r \in Runs : inFlight'[r] \in {0, inFlight[r]}
    <3>1. FlightSet' \in SUBSET FlightSet
      BY <2>2 DEF FlightSet
    <3>2. Cardinality(FlightSet') <= Cardinality(FlightSet)
      BY <1>1, <3>1, FS_Subset
    <3> QED BY <1>2, <2>1, <3>2 DEF CapacityRespected
  <2>3. ASSUME HasSlot, NEW x \in Runs, \A r \in Runs \ {x} : inFlight'[r] = inFlight[r]
        PROVE  CapacityRespected'
    <3>1. FlightSet' \in SUBSET (FlightSet \cup {x})
      BY <2>3 DEF FlightSet
    <3>2. /\ IsFiniteSet(FlightSet \cup {x})
          /\ Cardinality(FlightSet \cup {x}) =
               IF x \in FlightSet THEN Cardinality(FlightSet) ELSE Cardinality(FlightSet) + 1
      BY <1>1, FS_AddElement
    <3>3. Cardinality(FlightSet') <= Cardinality(FlightSet \cup {x})
      BY <3>1, <3>2, FS_Subset
    <3>4. Cardinality(FlightSet) < Capacity
      BY <1>2, <2>3 DEF HasSlot
    <3> QED BY <1>2, <2>1, <3>2, <3>3, <3>4 DEF CapacityRespected
  <2> QED BY <2>2, <2>3, FlightStep
<1> QED BY <1>3, <1>4, TypeInvariant, PTL DEF Spec
-----------------------------------------------------------------------------
(* Every wait is timed.                                                      *)

\* The ack of the InFlight object that is in the map for r is being handled.
AckCall(u, r) ==
  /\ task[u].pc \in {"ack_mark", "ack_got"}
  /\ task[u].run = r
  /\ task[u].k = inFlight[r]

\* The inductive form of the second and third conjunct of EveryWaitIsTimed: the
\* ack that is being handled is the ack of the current InFlight object.
Timed(r) ==
  /\ Assigned(r) => entry[r][inFlight[r]].ackTimer \/ \E u \in Tasks : AckCall(u, r)
  /\ inFlight[r] # 0 =>
       (entry[r][inFlight[r]].cancelRequested => entry[r][inFlight[r]].cancelTimer)

\* A step that gives the run up or leaves its current InFlight object alone.
Calm(r) ==
  \/ inFlight'[r] = 0
  \/ /\ inFlight'[r] = inFlight[r]
     /\ entry'[r][inFlight[r]] = entry[r][inFlight[r]]
     /\ \A u \in Tasks : AckCall(u, r) => AckCall(u, r)'

LEMMA CalmTimed ==
  ASSUME NEW r \in Runs, Timed(r), Calm(r)
  PROVE  Timed(r)'
<1>1. CASE inFlight'[r] = 0
  BY <1>1 DEF Timed, Assigned
<1>2. CASE inFlight'[r] # 0
  BY <1>2 DEF Timed, Assigned, Calm
<1> QED BY <1>1, <1>2

LEMMA HubRestartCalm ==
  ASSUME HubRestart, NEW r \in Runs
  PROVE  Calm(r)
BY DEF HubRestart, Calm

LEMMA ThrowCalm ==
  ASSUME TypeOK, NEW t \in Tasks, Throw(t), task[t].pc \notin {"ack_mark", "ack_got"},
         NEW r \in Runs
  PROVE  Calm(r)
<1>1. CASE HubRestart
  BY <1>1, HubRestartCalm
<1>2. CASE ~HubRestart
  <2>1. task \in [Tasks -> Calls]
    BY DEF TypeOK
  <2> QED BY <1>2, <2>1 DEF Throw, Calm, AckCall, flightVars
<1> QED BY <1>1, <1>2

LEMMA FinalizeCalm ==
  ASSUME TypeOK, NEW t \in Tasks, NEW x \in Runs, NEW k, NEW s, NEW root, NEW todo,
         Finalize(t, x, k, s, root, todo), task[t].pc \notin {"ack_mark", "ack_got"},
         NEW r \in Runs
  PROVE  Calm(r)
<1>1. task \in [Tasks -> Calls] /\ inFlight \in [Runs -> EntryIds \cup {0}]
      /\ entry \in [Runs -> [EntryIds -> Entries]]
  BY DEF TypeOK
<1>2. CASE r = x
  BY <1>1, <1>2 DEF Finalize, Calm
<1>3. CASE r # x
  BY <1>1, <1>3 DEF Finalize, Calm, AckCall
<1> QED BY <1>2, <1>3

LEMMA LoseSessionCalm ==
  ASSUME TypeOK, NEW t \in Tasks, Spawnable(t), NEW root, LoseSession(root, t), NEW r \in Runs
  PROVE  Calm(r)
<1>1. /\ task \in [Tasks -> Calls] /\ inFlight \in [Runs -> EntryIds \cup {0}]
      /\ entry \in [Runs -> [EntryIds -> Entries]]
  BY DEF TypeOK
<1> DEFINE orphaned == [u \in Tasks |->
                         IF task[u].root = "live" THEN [task[u] EXCEPT !.root = "old"]
                                                  ELSE task[u]]
<1>2. ASSUME NEW u \in Tasks
      PROVE  /\ orphaned[u].pc = task[u].pc /\ orphaned[u].run = task[u].run
             /\ orphaned[u].k = task[u].k
  <2>1. task[u] \in Calls
    BY <1>1
  <2> QED BY <2>1 DEF Calls
<1>3. CASE inFlight'[r] # 0
  <2>1. inFlight'[r] = inFlight[r] /\ entry'[r][inFlight[r]] = entry[r][inFlight[r]]
    BY <1>1, <1>3 DEF LoseSession, LostHandles, Handles, flightVars
  <2>2. \A u \in Tasks : u # t => task'[u] = orphaned[u]
    BY DEF LoseSession
  <2>3. task[t].pc = "idle"
    BY DEF Spawnable
  <2> QED BY <1>2, <2>1, <2>2, <2>3 DEF Calm, AckCall
<1> QED BY <1>3 DEF Calm

\* Every step keeps the current InFlight object of every run timed.
LEMMA TimedStep ==
  ASSUME TypeOK, [Next]_vars, NEW r \in Runs, Timed(r)
  PROVE  Timed(r)'
<1> USE DEF flightVars
<1>0. /\ task \in [Tasks -> Calls] /\ inFlight \in [Runs -> EntryIds \cup {0}]
      /\ entry \in [Runs -> [EntryIds -> Entries]]
  BY DEF TypeOK
<1>1. ASSUME NEW t \in Tasks,
             LoadJob(t) \/ LoadJobGone(t) \/ LoadFail(t)
               \/ EnqueueRefuse(t) \/ EnqueuePush(t)
      PROVE  Calm(r)
  BY <1>0, <1>1 DEF LoadJob, LoadJobGone, LoadFail, EnqueueRefuse,
                    EnqueuePush, DequeueAndContinue, Calm, AckCall
<1>2. ASSUME NEW t \in Tasks,
             DispatchDiscard(t) \/ DispatchRefuse(t) \/ DispatchWait(t) \/ DispatchSendFails(t)
      PROVE  Calm(r)
  BY <1>0, <1>2 DEF DispatchDiscard, DispatchRefuse, DispatchWait, DispatchSendFails,
                    Dispatchable, DequeueAndContinue, Calm, AckCall
<1>3. ASSUME NEW t \in Tasks, Stamp(t) \/ QueuedWrite(t) \/ FinalWrite(t) PROVE Calm(r)
  <2>1. CASE Throw(t)
    BY <1>3, <2>1, ThrowCalm DEF Stamp, QueuedWrite, FinalWrite
  <2>2. CASE ~Throw(t)
    BY <1>0, <1>3, <2>2 DEF Stamp, QueuedWrite, FinalWrite, Calm, AckCall
  <2> QED BY <2>1, <2>2
<1>4. ASSUME NEW t \in Tasks, DispatchSend(t) PROVE Timed(r)'
  <2>1. PICK k \in EntryIds :
          /\ entry' = [entry EXCEPT ![task[t].run][k] =
                          [FreeEntry EXCEPT !.state = "ASSIGNED", !.ackTimer = TRUE]]
          /\ inFlight' = [inFlight EXCEPT ![task[t].run] = k]
    BY <1>4 DEF DispatchSend
  <2>2. CASE r = task[t].run
    <3>1. inFlight'[r] = k /\ entry'[r][k] = [FreeEntry EXCEPT !.state = "ASSIGNED", !.ackTimer = TRUE]
      BY <1>0, <2>1, <2>2
    <3> QED BY <3>1 DEF Timed, FreeEntry
  <2>3. CASE r # task[t].run
    <3>1. inFlight'[r] = inFlight[r] /\ entry'[r] = entry[r]
      BY <1>0, <2>1, <2>3
    <3>2. \A u \in Tasks : u # t => task'[u] = task[u]
      BY <1>0, <1>4 DEF DispatchSend
    <3>3. task[t].pc = "dispatch_got"
      BY <1>4 DEF DispatchSend, Dispatchable
    <3>4. Calm(r)
      BY <3>1, <3>2, <3>3 DEF Calm, AckCall
    <3> QED BY <3>4, CalmTimed
  <2> QED BY <2>2, <2>3
<1>5. ASSUME NEW t \in Tasks, LostNext(t) \/ AutoGrouped(t) PROVE Calm(r)
  <2>1. PICK x \in Runs, k \in EntryIds, s \in {"FAILED", "COMPLETED"},
             todo \in SUBSET Handles :
          Finalize(t, x, k, s, task[t].root, todo)
    <3>1. CASE LostNext(t)
      <4>1. task[t].todo \in SUBSET Handles
        BY <1>0 DEF Calls
      <4> QED BY <3>1, <4>1 DEF LostNext, Handles
    <3>2. CASE AutoGrouped(t)
      <4>1. task[t].run \in Runs /\ task[t].k \in EntryIds
        BY <1>0, <3>2 DEF AutoGrouped, Calls, WellFormed
      <4> QED BY <3>2, <4>1 DEF AutoGrouped
    <3> QED BY <1>5, <3>1, <3>2
  <2>2. task[t].pc \notin {"ack_mark", "ack_got"}
    BY <1>5 DEF LostNext, AutoGrouped
  <2> QED BY <2>1, <2>2, FinalizeCalm
<1>6. ASSUME NEW t \in Tasks, CancelRemoteRun(t) PROVE Timed(r)'
  <2> DEFINE x == task[t].run
             k == inFlight[x]
  <2>1. \A u \in Tasks : u # t => task'[u] = task[u]
    BY <1>0, <1>6 DEF CancelRemoteRun
  <2>2. task[t].pc = "cancel_call" /\ inFlight' = inFlight
    BY <1>6 DEF CancelRemoteRun
  <2>3. CASE entry'[r] = entry[r]
    BY <2>1, <2>2, <2>3, CalmTimed DEF Calm, AckCall
  <2>4. CASE entry'[r] # entry[r]
    <3>1. /\ r = x /\ k # 0
          /\ entry' = [entry EXCEPT ![x][k] = CancelMarked(@)]
      BY <1>0, <1>6, <2>4 DEF CancelRemoteRun
    <3>2. entry'[r][k] = CancelMarked(entry[r][k]) /\ entry[r][k] \in Entries
      BY <1>0, <3>1
    <3>3. /\ entry'[r][k].state = entry[r][k].state
          /\ entry'[r][k].ackTimer = entry[r][k].ackTimer
          /\ entry'[r][k].cancelTimer
      BY <3>2 DEF CancelMarked, Entries
    <3>4. \A u \in Tasks : AckCall(u, r) => AckCall(u, r)'
      BY <2>1, <2>2 DEF AckCall
    <3> QED BY <2>2, <3>1, <3>3, <3>4 DEF Timed, Assigned
  <2> QED BY <2>3, <2>4
<1>7. ASSUME NEW t \in Tasks, AckMark(t) PROVE Calm(r)
  BY <1>0, <1>7 DEF AckMark, Calm, AckCall, Calls
<1>8. ASSUME NEW t \in Tasks, AckGot(t) PROVE Timed(r)'
  <2> DEFINE x == task[t].run
             k == task[t].k
  <2>1. \A u \in Tasks : u # t => task'[u] = task[u]
    BY <1>0, <1>8 DEF AckGot
  <2>2. x \in Runs /\ k \in EntryIds
    BY <1>0, <1>8 DEF AckGot, Calls, WellFormed
  <2>3. CASE r # x
    <3>1. inFlight'[r] = inFlight[r] /\ entry'[r] = entry[r]
      BY <1>0, <1>8, <2>2, <2>3 DEF AckGot
    <3>2. Calm(r)
      BY <2>1, <2>3, <3>1 DEF Calm, AckCall
    <3> QED BY <3>2, CalmTimed
  <2>4. CASE r = x /\ task[t].status # "RUNNING"
    <3>1. inFlight'[r] = 0
      BY <1>0, <1>8, <2>2, <2>4 DEF AckGot
    <3> QED BY <3>1, CalmTimed DEF Calm
  <2>5. CASE r = x /\ task[t].status = "RUNNING"
    <3>1. inFlight' = inFlight /\ entry' = [entry EXCEPT ![r][k].state = "RUNNING"]
      BY <1>8, <2>5 DEF AckGot
    <3>2. entry[r][k] \in Entries
      BY <1>0, <2>2
    <3>3. CASE inFlight[r] = k
      <4>1. entry'[r][k] = [entry[r][k] EXCEPT !.state = "RUNNING"]
        BY <1>0, <2>2, <3>1
      <4>2. /\ entry'[r][k].state = "RUNNING"
            /\ entry'[r][k].cancelRequested = entry[r][k].cancelRequested
            /\ entry'[r][k].cancelTimer = entry[r][k].cancelTimer
        BY <3>2, <4>1 DEF Entries
      <4> QED BY <3>1, <3>3, <4>2 DEF Timed, Assigned
    <3>4. CASE inFlight[r] # k
      <4>1. inFlight[r] # 0 => entry'[r][inFlight[r]] = entry[r][inFlight[r]]
        BY <1>0, <3>1, <3>4
      <4>2. Calm(r)
        BY <2>1, <2>5, <3>1, <3>4, <4>1 DEF Calm, AckCall
      <4> QED BY <4>2, CalmTimed
    <3> QED BY <3>3, <3>4
  <2> QED BY <2>3, <2>4, <2>5
<1>9. ASSUME NEW t \in Tasks, Reconciled(t) PROVE Calm(r)
  <2>1. task[t].run \in Runs /\ task[t].pc = "reconcile"
    BY <1>0, <1>9 DEF Reconciled, Calls, WellFormed
  <2>2. CASE UNCHANGED flightVars
    BY <1>0, <1>9, <2>1, <2>2 DEF Reconciled, Calm, AckCall, Finalize
  <2>3. CASE Finalize(t, task[t].run, task[t].k, "CANCELLED", task[t].root, {})
    BY <2>1, <2>3, FinalizeCalm
  <2> QED BY <1>9, <2>2, <2>3 DEF Reconciled
<1>10. ASSUME NEW t \in Tasks, NEW x \in Runs, DispatchTimeout(x, t) PROVE Calm(r)
  BY <1>0, <1>10 DEF DispatchTimeout, Spawnable, Calm, AckCall
<1>11. ASSUME NEW t \in Tasks, NEW x \in Runs, NEW k \in EntryIds, AckTimeout(x, k, t)
       PROVE  Timed(r)'
  <2>1. task[t].pc = "idle" /\ \A u \in Tasks : u # t => task'[u] = task[u]
    BY <1>0, <1>11 DEF AckTimeout, Spawnable
  <2>2. CASE r # x
    <3>1. inFlight'[r] = inFlight[r] /\ entry'[r] = entry[r]
      BY <1>0, <1>11, <2>2 DEF AckTimeout
    <3>2. Calm(r)
      BY <2>1, <3>1 DEF Calm, AckCall
    <3> QED BY <3>2, CalmTimed
  <2>3. CASE r = x /\ Assigned(r)
    <3>1. inFlight'[r] = 0
      BY <1>0, <1>11, <2>3 DEF AckTimeout
    <3> QED BY <3>1, CalmTimed DEF Calm
  <2>4. CASE r = x /\ ~Assigned(r)
    <3>1. inFlight' = inFlight /\ entry' = [entry EXCEPT ![r][k].ackTimer = FALSE]
      BY <1>11, <2>4 DEF AckTimeout
    <3>2. ASSUME inFlight[r] # 0
          PROVE  /\ entry'[r][inFlight[r]].state = entry[r][inFlight[r]].state
                 /\ entry'[r][inFlight[r]].cancelRequested
                      = entry[r][inFlight[r]].cancelRequested
                 /\ entry'[r][inFlight[r]].cancelTimer = entry[r][inFlight[r]].cancelTimer
      <4>1. inFlight[r] \in EntryIds /\ entry[r][inFlight[r]] \in Entries
        BY <1>0, <3>2
      <4>2. entry'[r][inFlight[r]] \in {entry[r][inFlight[r]],
                                        [entry[r][inFlight[r]] EXCEPT !.ackTimer = FALSE]}
        BY <1>0, <3>1, <4>1
      <4> QED BY <4>1, <4>2 DEF Entries
    <3> QED BY <2>4, <3>1, <3>2 DEF Timed, Assigned
  <2> QED BY <2>2, <2>3, <2>4
<1>12. ASSUME NEW t \in Tasks, NEW x \in Runs, NEW k \in EntryIds, CancelTimeout(x, k, t)
       PROVE  Calm(r)
  <2>1. task[t].pc = "idle" /\ \A u \in Tasks : u # t => task'[u] = task[u]
    BY <1>0, <1>12 DEF CancelTimeout, Spawnable
  <2>2. CASE r # x
    <3>1. inFlight'[r] = inFlight[r] /\ entry'[r] = entry[r]
      BY <1>0, <1>12, <2>2 DEF CancelTimeout
    <3> QED BY <2>1, <3>1 DEF Calm, AckCall
  <2>3. CASE r = x
    BY <1>0, <1>12, <2>3 DEF CancelTimeout, Calm
  <2> QED BY <2>2, <2>3
<1>13. ASSUME NEW t \in Tasks, NEW s, NEW x \in Runs, NEW accepted \in BOOLEAN,
              JobAck(s, x, accepted, t)
       PROVE  Timed(r)'
  <2> DEFINE k == inFlight[x]
  <2>1. task[t].pc = "idle"
    BY <1>13 DEF JobAck, Spawnable
  <2>2. CASE ~Assigned(x)
    BY <1>13, <2>2, CalmTimed DEF JobAck, Calm, AckCall
  <2>3. CASE Assigned(x) /\ ~accepted
    <3>1. PICK e \in {"CANCELLED", "FAILED"} : Finalize(t, x, k, e, s, {})
      BY <1>13, <2>3 DEF JobAck
    <3> QED BY <2>1, <3>1, FinalizeCalm, CalmTimed
  <2>4. CASE Assigned(x) /\ accepted
    <3>1. /\ entry' = [entry EXCEPT ![x][k].ackTimer = FALSE]
          /\ task' = [task EXCEPT ![t] = [Idle EXCEPT !.pc = "ack_mark", !.run = x,
                                                      !.k = k, !.root = s]]
          /\ inFlight' = inFlight
      BY <1>13, <2>4 DEF JobAck
    <3>2. CASE r # x
      <4>1. entry'[r] = entry[r]
        BY <1>0, <3>1, <3>2
      <4> QED BY <1>0, <2>1, <3>1, <4>1, CalmTimed DEF Calm, AckCall
    <3>3. CASE r = x
      <4>1. k \in EntryIds /\ entry[r][k] \in Entries
        BY <1>0, <2>4, <3>3 DEF Assigned
      <4>2. entry'[r][k] = [entry[r][k] EXCEPT !.ackTimer = FALSE]
        BY <1>0, <3>1, <3>3, <4>1
      <4>3. /\ entry'[r][k].cancelRequested = entry[r][k].cancelRequested
            /\ entry'[r][k].cancelTimer = entry[r][k].cancelTimer
        BY <4>1, <4>2 DEF Entries
      <4>4. AckCall(t, r)'
        BY <1>0, <3>1, <3>3 DEF AckCall, Idle
      <4> QED BY <3>1, <3>3, <4>3, <4>4 DEF Timed
    <3> QED BY <3>2, <3>3
  <2> QED BY <2>2, <2>3, <2>4
<1>14. ASSUME NEW t \in Tasks, NEW s, NEW x \in Runs, NEW result, RunComplete(s, x, result, t)
       PROVE  Calm(r)
  <2>1. task[t].pc = "idle"
    BY <1>14 DEF RunComplete, Spawnable
  <2>2. CASE UNCHANGED flightVars /\ \A u \in Tasks : u # t => task'[u] = task[u]
    BY <2>1, <2>2 DEF Calm, AckCall
  <2>3. ASSUME NEW e, Finalize(t, x, inFlight[x], e, s, {}) PROVE Calm(r)
    BY <2>1, <2>3, FinalizeCalm
  <2> QED BY <1>0, <1>14, <2>2, <2>3 DEF RunComplete
<1>15. ASSUME NEW t \in Tasks, NEW s, NEW x \in Runs, RejectFrame(s, x) PROVE Calm(r)
  BY <1>15 DEF RejectFrame, Calm, AckCall
<1>16. ASSUME NEW t \in Tasks, CloseSession(t) \/ Attach(t) PROVE Calm(r)
  <2>1. Spawnable(t)
    BY <1>16 DEF CloseSession, Attach
  <2>2. CASE \E root : LoseSession(root, t)
    BY <2>1, <2>2, LoseSessionCalm
  <2>3. CASE UNCHANGED <<flightVars, task>>
    BY <2>3 DEF Calm, AckCall
  <2> QED BY <1>16, <2>2, <2>3 DEF CloseSession, Attach
<1>17. ASSUME NEW t \in Tasks, SessionReady(t) PROVE Calm(r)
  BY <1>0, <1>17 DEF SessionReady, Spawnable, Calm, AckCall
<1>18. ASSUME NEW t \in Tasks, NEW x \in Runs, StartRun(x, t) \/ CancelRun(x, t) PROVE Calm(r)
  BY <1>0, <1>18 DEF StartRun, CancelRun, Spawnable, Calm, AckCall
<1>19. ASSUME NEW x \in Runs, FrameLost(x) PROVE Calm(r)
  BY <1>19 DEF FrameLost, Calm, AckCall
<1>20. CASE AttachFails \/ SocketDies \/ OldFramesEnd
  BY <1>20, CalmTimed DEF AttachFails, SocketDies, OldFramesEnd, Calm, AckCall
<1>21. ASSUME NEW x \in Runs, NEW q, PolicyDrift(x, q) PROVE Calm(r)
  BY <1>21 DEF PolicyDrift, Calm, AckCall
<1>22. CASE Crash
  BY <1>22, HubRestartCalm, CalmTimed DEF Crash
<1>23. CASE UNCHANGED vars
  BY <1>23, CalmTimed DEF vars, Calm, AckCall
<1> QED
  <2>1. CASE \E t \in Tasks : TaskStep(t)
    BY <2>1, <1>1, <1>2, <1>3, <1>4, <1>5, <1>6, <1>7, <1>8, <1>9, CalmTimed DEF TaskStep
  <2>2. CASE \E t \in Tasks : TimerFires(t)
    BY <2>2, <1>10, <1>11, <1>12, CalmTimed DEF TimerFires
  <2>3. CASE \E t \in Tasks : FrameArrives(t)
    BY <2>3, <1>13, <1>14, <1>15, CalmTimed DEF FrameArrives
  <2>4. CASE \E t \in Tasks : SessionEvent(t)
    BY <2>4, <1>16, <1>17, <1>19, <1>20, CalmTimed DEF SessionEvent
  <2> QED BY <2>1, <2>2, <2>3, <2>4, <1>18, <1>21, <1>22, <1>23, CalmTimed DEF Next

\* A run that waits for a slot has its dispatch deadline armed: the two sets are
\* only ever changed together.
LEMMA QueueTimedStep ==
  ASSUME [Next]_vars, queuedJobs \subseteq dispatchTimers
  PROVE  queuedJobs' \subseteq dispatchTimers'
<1> USE DEF queueVars
<1> DEFINE Still == UNCHANGED <<queuedJobs, dispatchTimers>>
           Leaves == \E r : Unqueue(r)
           Fine == queuedJobs' \subseteq dispatchTimers'
<1>1. Still \/ Leaves \/ HubRestart => Fine
  BY DEF Unqueue, HubRestart
<1>2. ASSUME NEW t \in Tasks, TaskStep(t) PROVE Fine
  <2>1. CASE LoadJob(t) \/ LoadJobGone(t) \/ EnqueueRefuse(t)
             \/ DispatchWait(t) \/ DispatchSendFails(t) \/ QueuedWrite(t)
    BY <1>1, <2>1 DEF LoadJob, LoadJobGone, EnqueueRefuse, DispatchWait,
                      DispatchSendFails, QueuedWrite
  <2>2. CASE Stamp(t) \/ FinalWrite(t)
    BY <1>1, <2>2 DEF Stamp, FinalWrite, Throw
  <2>3. CASE LoadFail(t) \/ DispatchDiscard(t) \/ DispatchRefuse(t) \/ DispatchSend(t)
    BY <1>1, <2>3 DEF LoadFail, DispatchDiscard, DispatchRefuse, DispatchSend,
                      DequeueAndContinue, Dequeue
  <2>4. CASE EnqueuePush(t)
    BY <2>4 DEF EnqueuePush, ArmDeadline
  <2>5. CASE CancelRemoteRun(t)
    BY <1>1, <2>5 DEF CancelRemoteRun, Dequeue
  <2>6. CASE LostNext(t) \/ AckMark(t) \/ AckGot(t) \/ Reconciled(t) \/ AutoGrouped(t)
    BY <1>1, <2>6 DEF LostNext, AckMark, AckGot, Reconciled, AutoGrouped
  <2> QED BY <1>2, <2>1, <2>2, <2>3, <2>4, <2>5, <2>6 DEF TaskStep
<1>3. ASSUME NEW t \in Tasks, TimerFires(t) PROVE Fine
  BY <1>1, <1>3 DEF TimerFires, DispatchTimeout, Dequeue, Unqueue, AckTimeout, CancelTimeout
<1>4. ASSUME NEW t \in Tasks, FrameArrives(t) PROVE Fine
  BY <1>1, <1>4 DEF FrameArrives, JobAck, RunComplete, RejectFrame
<1>5. ASSUME NEW t \in Tasks, SessionEvent(t) PROVE Fine
  BY <1>1, <1>5 DEF SessionEvent, CloseSession, Attach, SessionReady, AttachFails,
                    SocketDies, OldFramesEnd, FrameLost
<1>6. ASSUME NEW t \in Tasks, NEW r \in Runs, StartRun(r, t) \/ CancelRun(r, t) PROVE Fine
  BY <1>1, <1>6 DEF StartRun, CancelRun
<1>7. ASSUME NEW r \in Runs, NEW p, PolicyDrift(r, p) PROVE Fine
  BY <1>1, <1>7 DEF PolicyDrift
<1>8. CASE Crash \/ UNCHANGED vars
  BY <1>1, <1>8 DEF Crash, vars
<1> QED BY <1>2, <1>3, <1>4, <1>5, <1>6, <1>7, <1>8 DEF Next

\* No wait of a run is unbounded: a queued run has its dispatch deadline, an
\* assigned one its ack timer or an ack that is being handled, and a requested
\* cancel its own timer, in every interleaving of handlers and timers.
THEOREM WaitsAreTimed == Spec => []EveryWaitIsTimed
<1> DEFINE AllTimed == queuedJobs \subseteq dispatchTimers /\ \A r \in Runs : Timed(r)
<1>1. Init => AllTimed
  BY DEF Init, Timed, Assigned
<1>2. TypeOK /\ AllTimed /\ [Next]_vars => AllTimed'
  BY QueueTimedStep, TimedStep
<1>3. AllTimed => EveryWaitIsTimed
  BY DEF EveryWaitIsTimed, Timed, AckIsDue, AckCall
<1> QED BY <1>1, <1>2, <1>3, TypeInvariant, PTL DEF Spec
-----------------------------------------------------------------------------
(* The dispatcher implements RunLifecycle.  Why a handler that resumes after *)
(* an await may write what it writes rests on knowledge that only grows: a   *)
(* row that exists goes on existing, and a row that has begun never goes     *)
(* back.  The inductive invariant says what each suspended call knows.       *)

Existing == {r \in Runs : status[r] # "ABSENT"}
Begun == {r \in Runs : status[r] \notin {"ABSENT", "PENDING"}}

\* What a suspended call c knows of its run: its row is in E, and where a
\* completion is under way in B; the terminal status it is about to write.
Knows(c, E, B) ==
  /\ c.run \in E \cup {NoRun}
  /\ \A h \in c.todo : h[1] \in E
  /\ c.pc = "ack_got" /\ c.status = "RUNNING" => c.run \in B
  /\ c.pc \in {"reconcile", "auto_groups"} => c.run \in B
  /\ c.pc = "queued_write" => c.status \in {"FAILED", "CANCELLED"}
  /\ c.pc = "final_write" => c.status \in {"COMPLETED", "FAILED", "CANCELLED"}
  /\ c.pc = "final_write" /\ c.status = "COMPLETED" => c.run \in B

QueueKnows(E) ==
  /\ content \in [Arrays -> Seq(E)]
  /\ queuedJobs \subseteq E
  /\ dispatchTimers \subseteq E

FlightKnows(E, B) ==
  /\ \A r \in Runs : inFlight[r] # 0 => r \in E
  /\ \A r \in Runs, k \in EntryIds : entry[r][k].state = "RUNNING" => r \in B

Knowledge ==
  /\ QueueKnows(Existing)
  /\ FlightKnows(Existing, Begun)
  /\ \A t \in Tasks : Knows(task[t], Existing, Begun)
-----------------------------------------------------------------------------
(* Every step is a step of RunLifecycle.                                     *)

LEMMA RestartRecovers ==
  ASSUME TypeOK, HubRestart
  PROVE  Lifecycle!Recover
<1>1. status' \in [Runs -> Lifecycle!Statuses]
  BY StatusesType DEF HubRestart, TypeOK
<1> QED BY <1>1 DEF HubRestart, Lifecycle!Recover, TypeOK, Active, Lifecycle!Active

\* A write of a row that exists and is not terminal is a step of its life.
LEMMA WriteIsMove ==
  ASSUME TypeOK, NEW r \in Existing, NEW s \in {"FAILED", "CANCELLED", "COMPLETED"},
         Writable(r), s = "COMPLETED" => r \in Begun,
         status' = [status EXCEPT ![r] = s], UNCHANGED cancelRequestedAt
  PROVE  Lifecycle!LifecycleNext
<1>1. r \in Runs /\ status[r] \in Lifecycle!Active
  BY DEF Existing, TypeOK, Writable, Terminal, Lifecycle!Statuses
<1>2. s = "COMPLETED" => status[r] = "RUNNING"
  BY <1>1 DEF Begun, Lifecycle!Active
<1> QED
  BY <1>1, <1>2
  DEF Lifecycle!LifecycleNext, Lifecycle!Fail, Lifecycle!Cancel, Lifecycle!Complete,
      Lifecycle!Move

LEMMA CallKnowsItsRun ==
  ASSUME TypeOK, Knowledge, NEW t \in Tasks, task[t].pc \notin {"idle", "lost_next"}
  PROVE  task[t].run \in Existing
<1>1. task[t].run \in Runs
  BY DEF TypeOK, Calls, WellFormed
<1> QED BY <1>1, RemoteAssumption DEF Knowledge, Knows

LEMMA StepIsLifecycle ==
  ASSUME TypeOK, Knowledge, [Next]_vars
  PROVE  [Lifecycle!LifecycleNext]_(Lifecycle!lifecycleVars)
<1> DEFINE Still == UNCHANGED <<status, cancelRequestedAt>>
           Fine == [Lifecycle!LifecycleNext]_(Lifecycle!lifecycleVars)
<1> USE DEF dbVars
<1>0. Still => Fine
  BY DEF Lifecycle!lifecycleVars
<1>1. HubRestart => Fine
  BY RestartRecovers DEF Lifecycle!LifecycleNext
<1>2. ASSUME NEW t \in Tasks, Throw(t) PROVE Fine
  BY <1>0, <1>1, <1>2 DEF Throw
<1>3. ASSUME NEW t \in Tasks, LoadFail(t) PROVE Fine
  <2>1. task[t].run \in Existing
    BY <1>3, CallKnowsItsRun DEF LoadFail
  <2>2. CASE Writable(task[t].run)
    <3>1. status' = [status EXCEPT ![task[t].run] = "FAILED"] /\ UNCHANGED cancelRequestedAt
      BY <1>3, <2>2 DEF LoadFail
    <3> QED BY <2>1, <2>2, <3>1, WriteIsMove
  <2>3. CASE ~Writable(task[t].run)
    BY <1>0, <1>3, <2>3 DEF LoadFail
  <2> QED BY <2>2, <2>3
<1>4. ASSUME NEW t \in Tasks, QueuedWrite(t) PROVE Fine
  <2>1. task[t].run \in Existing /\ task[t].status \in {"FAILED", "CANCELLED"}
    BY <1>4, CallKnowsItsRun DEF QueuedWrite, Knowledge, Knows
  <2>2. CASE Writable(task[t].run)
    <3>1. status' = [status EXCEPT ![task[t].run] = task[t].status] /\ UNCHANGED cancelRequestedAt
      BY <1>4, <2>2 DEF QueuedWrite
    <3> QED BY <2>1, <2>2, <3>1, WriteIsMove
  <2>3. CASE ~Writable(task[t].run)
    BY <1>0, <1>4, <2>3 DEF QueuedWrite
  <2> QED BY <2>2, <2>3
<1>5. ASSUME NEW t \in Tasks, FinalWrite(t) PROVE Fine
  <2>1. /\ task[t].run \in Existing /\ task[t].status \in {"COMPLETED", "FAILED", "CANCELLED"}
        /\ task[t].status = "COMPLETED" => task[t].run \in Begun
    BY <1>5, CallKnowsItsRun DEF FinalWrite, Knowledge, Knows
  <2>2. CASE Writable(task[t].run)
    <3>1. status' = [status EXCEPT ![task[t].run] = task[t].status] /\ UNCHANGED cancelRequestedAt
      BY <1>5, <2>2 DEF FinalWrite, WriteStatus
    <3> QED BY <2>1, <2>2, <3>1, WriteIsMove
  <2>3. CASE ~Writable(task[t].run)
    BY <1>2, <1>5, <2>3 DEF FinalWrite
  <2> QED BY <2>2, <2>3
<1>6. ASSUME NEW t \in Tasks, AckMark(t) PROVE Fine
  <2>1. task[t].run \in Runs
    BY <1>6, CallKnowsItsRun DEF AckMark, Existing
  <2>2. CASE status[task[t].run] = "PENDING"
    BY <1>6, <2>1, <2>2 DEF AckMark, Lifecycle!LifecycleNext, Lifecycle!Begin, Lifecycle!Move
  <2>3. CASE status[task[t].run] # "PENDING"
    BY <1>0, <1>6, <2>3 DEF AckMark
  <2> QED BY <2>2, <2>3
<1>7. ASSUME NEW t \in Tasks, NEW r \in Runs, StartRun(r, t) PROVE Fine
  BY <1>7 DEF StartRun, WriteStatus, Lifecycle!LifecycleNext, Lifecycle!Insert, Lifecycle!Move
<1>8. ASSUME NEW t \in Tasks, NEW r \in Runs, CancelRun(r, t) PROVE Fine
  BY <1>8 DEF CancelRun, Active, Lifecycle!LifecycleNext, Lifecycle!RequestCancel
<1>9. ASSUME NEW t \in Tasks, Stamp(t) PROVE Fine
  BY <1>0, <1>2, <1>9 DEF Stamp
<1>10. ASSUME NEW t \in Tasks, TaskStep(t) PROVE Fine
  <2>1. CASE LoadJob(t) \/ LoadJobGone(t) \/ EnqueueRefuse(t)
             \/ EnqueuePush(t) \/ DispatchDiscard(t) \/ DispatchRefuse(t) \/ DispatchWait(t)
    BY <1>0, <2>1 DEF LoadJob, LoadJobGone, EnqueueRefuse, EnqueuePush,
                      DispatchDiscard, DispatchRefuse, DispatchWait
  <2>2. CASE DispatchSend(t) \/ DispatchSendFails(t) \/ LostNext(t) \/ CancelRemoteRun(t)
             \/ AckGot(t) \/ Reconciled(t) \/ AutoGrouped(t)
    BY <1>0, <2>2 DEF DispatchSend, DispatchSendFails, LostNext, CancelRemoteRun, AckGot,
                      Reconciled, AutoGrouped
  <2> QED BY <1>3, <1>4, <1>5, <1>6, <1>9, <1>10, <2>1, <2>2 DEF TaskStep
<1>11. ASSUME NEW t \in Tasks, TimerFires(t) PROVE Fine
  BY <1>0, <1>11 DEF TimerFires, DispatchTimeout, AckTimeout, CancelTimeout
<1>12. ASSUME NEW t \in Tasks, FrameArrives(t) PROVE Fine
  BY <1>0, <1>12 DEF FrameArrives, JobAck, RunComplete, RejectFrame
<1>13. ASSUME NEW t \in Tasks, SessionEvent(t) PROVE Fine
  BY <1>0, <1>13 DEF SessionEvent, CloseSession, Attach, SessionReady, AttachFails,
                     SocketDies, OldFramesEnd, FrameLost
<1>14. ASSUME NEW r \in Runs, NEW p, PolicyDrift(r, p) PROVE Fine
  BY <1>0, <1>14 DEF PolicyDrift
<1>15. CASE Crash \/ UNCHANGED vars
  BY <1>0, <1>1, <1>15 DEF Crash, vars
<1> QED BY <1>7, <1>8, <1>10, <1>11, <1>12, <1>13, <1>14, <1>15 DEF Next

\* Rows are never deleted and never go back: what a call knows stays true.
LEMMA KnowledgeGrows ==
  ASSUME TypeOK, [Lifecycle!LifecycleNext]_(Lifecycle!lifecycleVars)
  PROVE  Existing \subseteq Existing' /\ Begun \subseteq Begun'
<1> DEFINE Grows == Existing \subseteq Existing' /\ Begun \subseteq Begun'
<1>1. status \in [Runs -> Lifecycle!Statuses]
  BY DEF TypeOK
<1>2. ASSUME NEW r \in Runs, NEW s, status' = [status EXCEPT ![r] = s],
             s \notin {"ABSENT", "PENDING"} \/ (s = "PENDING" /\ status[r] = "ABSENT")
      PROVE  Grows
  BY <1>1, <1>2 DEF Existing, Begun
<1>3. CASE Lifecycle!Recover
  BY <1>1, <1>3 DEF Lifecycle!Recover, Existing, Begun, Lifecycle!Active
<1>4. CASE \E r \in Runs : \/ Lifecycle!Insert(r) \/ Lifecycle!Begin(r) \/ Lifecycle!Complete(r)
                           \/ Lifecycle!Fail(r) \/ Lifecycle!Cancel(r)
  BY <1>2, <1>4 DEF Lifecycle!Insert, Lifecycle!Begin, Lifecycle!Complete, Lifecycle!Fail,
                    Lifecycle!Cancel, Lifecycle!Move
<1>5. CASE \E r \in Runs : Lifecycle!RequestCancel(r)
  BY <1>5 DEF Lifecycle!RequestCancel, Existing, Begun
<1>6. CASE UNCHANGED Lifecycle!lifecycleVars
  BY <1>6 DEF Lifecycle!lifecycleVars, Existing, Begun
<1> QED BY <1>3, <1>4, <1>5, <1>6 DEF Lifecycle!LifecycleNext
-----------------------------------------------------------------------------
(* What calls know is preserved.                                             *)

LEMMA KnowsMore ==
  ASSUME NEW c, NEW E, NEW B, NEW F, NEW D, E \subseteq F, B \subseteq D, Knows(c, E, B)
  PROVE  Knows(c, F, D)
BY DEF Knows

\* Only call t changes, to one that knows.
LEMMA OneCallChanges ==
  ASSUME TypeOK, NEW t \in Tasks, NEW c, NEW E, NEW B,
         \A u \in Tasks : Knows(task[u], E, B),
         Knows(c, E, B), task' = [task EXCEPT ![t] = c]
  PROVE  \A u \in Tasks : Knows(task'[u], E, B)
<1> SUFFICES ASSUME NEW u \in Tasks PROVE Knows(task'[u], E, B)
  OBVIOUS
<1>1. task'[u] = IF u = t THEN c ELSE task[u]
  BY DEF TypeOK
<1> QED BY <1>1

LEMMA SeqGrows ==
  ASSUME NEW E, NEW F, E \subseteq F, NEW c \in [Arrays -> Seq(E)]
  PROVE  c \in [Arrays -> Seq(F)]
<1>1. \A s \in Seq(E) : s \in Seq(F)
  OBVIOUS
<1> QED BY <1>1

LEMMA IdleKnows ==
  ASSUME NEW E, NEW B
  PROVE  Knows(Idle, E, B)
BY DEF Knows, Idle

LEMMA ReturnedKnows ==
  ASSUME NEW E, NEW B, NEW root, NEW todo, \A h \in todo : h[1] \in E
  PROVE  Knows(Returned(root, todo), E, B)
BY DEF Knows, Returned, Idle

LEMMA LoadingKnows ==
  ASSUME NEW E, NEW B, NEW root, NEW todo, \A h \in todo : h[1] \in E,
         NEW c \in [Arrays -> Seq(E)], NEW a \in Arrays, c[a] # <<>>
  PROVE  Knows(Loading(root, todo, a, c), E, B)
<1>1. Head(c[a]) \in E
  BY HeadTailProperties
<1> QED BY <1>1 DEF Knows, Loading, Idle

LEMMA TryDispatchKnows ==
  ASSUME NEW E, NEW B, NEW root, NEW todo, \A h \in todo : h[1] \in E,
         NEW c \in [Arrays -> Seq(E)], NEW p \in Arrays \cup {NoArray}
  PROVE  Knows(TryDispatch(root, todo, p, c), E, B)
BY ReturnedKnows, LoadingKnows DEF TryDispatch

LEMMA NextIterationKnows ==
  ASSUME NEW E, NEW B, NEW job, Knows(job, E, B), job.arr \in Arrays,
         NEW c \in [Arrays -> Seq(E)]
  PROVE  Knows(NextIteration(job, c), E, B)
BY ReturnedKnows, LoadingKnows DEF NextIteration, Knows

LEMMA ContentWithoutKnows ==
  ASSUME TypeOK, NEW E, content \in [Arrays -> Seq(E)], NEW r
  PROVE  ContentWithout(r) \in [Arrays -> Seq(E)]
BY RemoveFirstType DEF TypeOK, ContentWithout

LEMMA WritingCallKnows ==
  ASSUME NEW E, NEW B, NEW r \in E, NEW root, NEW s \in {"FAILED", "CANCELLED"},
         NEW p \in {"queued_write", "final_write"}
  PROVE  Knows([Idle EXCEPT !.pc = p, !.run = r, !.status = s, !.root = root], E, B)
BY DEF Knows, Idle

LEMMA FinalCallKnows ==
  ASSUME NEW E, NEW B, NEW r \in E, NEW root, NEW s \in {"FAILED", "CANCELLED", "COMPLETED"},
         s = "COMPLETED" => r \in B, NEW todo, \A h \in todo : h[1] \in E
  PROVE  Knows([Idle EXCEPT !.pc = "final_write", !.run = r, !.status = s, !.root = root,
                            !.todo = todo], E, B)
BY DEF Knows, Idle

LEMMA FinalizeKnows ==
  ASSUME TypeOK, NEW E, NEW B, FlightKnows(E, B), NEW t, NEW r \in Runs, NEW k \in EntryIds,
         NEW s, NEW root, NEW todo, Finalize(t, r, k, s, root, todo)
  PROVE  /\ \A x \in Runs : inFlight'[x] # 0 => x \in E
         /\ \A x \in Runs, j \in EntryIds : entry'[x][j].state = "RUNNING" => x \in B
<1>1. inFlight \in [Runs -> EntryIds \cup {0}] /\ entry \in [Runs -> [EntryIds -> Entries]]
  BY DEF TypeOK
<1>2. TimersCleared(entry[r][k]).state = entry[r][k].state
  <2>1. entry[r][k] \in Entries
    BY <1>1
  <2> QED BY <2>1 DEF TimersCleared, Entries
<1> QED BY <1>1, <1>2 DEF Finalize, FlightKnows

\* The queue, the queued set and the deadlines hold only rows that exist.
LEMMA QueueStep ==
  ASSUME TypeOK, Knowledge, [Next]_vars, NEW E, QueueKnows(E), Existing \subseteq E,
         Existing' \subseteq E
  PROVE  /\ content' \in [Arrays -> Seq(E)]
         /\ queuedJobs' \subseteq E
         /\ dispatchTimers' \subseteq E
<1> DEFINE Fine == /\ content' \in [Arrays -> Seq(E)]
                   /\ queuedJobs' \subseteq E
                   /\ dispatchTimers' \subseteq E
<1> USE DEF queueVars
<1>0. /\ content \in [Arrays -> Seq(E)] /\ queuedJobs \subseteq E /\ dispatchTimers \subseteq E
      /\ content \in [Arrays -> Seq(Runs)] /\ pendingByAgent \in Arrays \cup {NoArray}
  BY DEF QueueKnows, TypeOK
<1>1. UNCHANGED <<content, queuedJobs, dispatchTimers>> => Fine
  BY <1>0
<1>2. \A r : ContentWithout(r) \in [Arrays -> Seq(E)]
  BY <1>0, ContentWithoutKnows
<1>3. HubRestart => Fine
  BY DEF HubRestart
<1>4. ASSUME NEW t \in Tasks, TaskStep(t) PROVE Fine
  <2>1. CASE LoadJob(t) \/ LoadJobGone(t) \/ EnqueueRefuse(t)
             \/ DispatchWait(t) \/ QueuedWrite(t)
    BY <1>1, <2>1 DEF LoadJob, LoadJobGone, EnqueueRefuse, DispatchWait,
                      QueuedWrite
  <2>2. CASE LostNext(t) \/ AckMark(t) \/ AckGot(t) \/ Reconciled(t) \/ AutoGrouped(t)
    BY <1>1, <2>2 DEF LostNext, AckMark, AckGot, Reconciled, AutoGrouped
  <2>3. CASE Stamp(t) \/ FinalWrite(t)
    BY <1>1, <1>3, <2>3 DEF Stamp, FinalWrite, Throw
  <2>4. CASE LoadFail(t) \/ DispatchDiscard(t) \/ DispatchRefuse(t) \/ CancelRemoteRun(t)
    BY <1>0, <1>1, <1>2, <2>4 DEF LoadFail, DispatchDiscard, DispatchRefuse, CancelRemoteRun,
                                  DequeueAndContinue, Dequeue, Unqueue
  <2>5. CASE EnqueuePush(t)
    <3>1. task[t].run \in E
      BY <2>5, CallKnowsItsRun DEF EnqueuePush
    <3>2. PICK a \in Arrays :
             \/ content' = [content EXCEPT ![a] = Append(@, task[t].run)]
             \/ content' = [content EXCEPT ![a] = <<task[t].run>>]
      BY <2>5 DEF EnqueuePush
    <3>3. Append(content[a], task[t].run) \in Seq(E) /\ <<task[t].run>> \in Seq(E)
      BY <1>0, <3>1, AppendProperties
    <3> QED BY <1>0, <2>5, <3>1, <3>2, <3>3 DEF EnqueuePush, ArmDeadline
  <2>6. CASE DispatchSend(t)
    <3>1. \A a \in Arrays : (IF content[a] = <<>> THEN content[a] ELSE Tail(content[a])) \in Seq(E)
      BY <1>0, HeadTailProperties
    <3>2. content' = [content EXCEPT ![task[t].arr] = IF @ = <<>> THEN @ ELSE Tail(@)]
      BY <2>6 DEF DispatchSend
    <3>3. content' \in [Arrays -> Seq(E)]
      BY <1>0, <3>1, <3>2
    <3> QED BY <1>0, <2>6, <3>3 DEF DispatchSend, Unqueue
  <2>7. CASE DispatchSendFails(t)
    <3>1. task[t].run \in E /\ task[t].arr \in Arrays
      BY <2>7, CallKnowsItsRun DEF DispatchSendFails, Dispatchable, TypeOK, Calls, WellFormed
    <3> DEFINE q == content[task[t].arr]
               rest == IF q = <<>> THEN q ELSE Tail(q)
    <3>2. rest \in Seq(E) /\ <<task[t].run>> \in Seq(E)
      BY <1>0, <3>1, HeadTailProperties
    <3>3. <<task[t].run>> \o rest \in Seq(E)
      BY <3>2, ConcatProperties
    <3>4. content' = [content EXCEPT ![task[t].arr] = <<task[t].run>> \o rest]
      BY <2>7 DEF DispatchSendFails
    <3> QED BY <1>0, <2>7, <3>3, <3>4 DEF DispatchSendFails
  <2> QED BY <1>4, <2>1, <2>2, <2>3, <2>4, <2>5, <2>6, <2>7 DEF TaskStep
<1>5. ASSUME NEW t \in Tasks, TimerFires(t) PROVE Fine
  BY <1>0, <1>1, <1>2, <1>5 DEF TimerFires, DispatchTimeout, Dequeue, Unqueue, AckTimeout,
                                CancelTimeout
<1>6. ASSUME NEW t \in Tasks, FrameArrives(t) PROVE Fine
  BY <1>1, <1>6 DEF FrameArrives, JobAck, RunComplete, RejectFrame
<1>7. ASSUME NEW t \in Tasks, SessionEvent(t) PROVE Fine
  BY <1>1, <1>7 DEF SessionEvent, CloseSession, Attach, SessionReady, AttachFails,
                    SocketDies, OldFramesEnd, FrameLost
<1>8. ASSUME NEW t \in Tasks, NEW r \in Runs, StartRun(r, t) \/ CancelRun(r, t) PROVE Fine
  BY <1>1, <1>8 DEF StartRun, CancelRun
<1>9. ASSUME NEW r \in Runs, NEW p, PolicyDrift(r, p) PROVE Fine
  BY <1>1, <1>9 DEF PolicyDrift
<1>10. CASE Crash \/ UNCHANGED vars
  BY <1>1, <1>3, <1>10 DEF Crash, vars
<1> QED BY <1>4, <1>5, <1>6, <1>7, <1>8, <1>9, <1>10 DEF Next

\* In flight are only rows that exist; an object accepts frames only if its row
\* has begun.
LEMMA InFlightStep ==
  ASSUME TypeOK, Knowledge, [Next]_vars, NEW E, NEW B, FlightKnows(E, B),
         Existing \subseteq E, Begun \subseteq B
  PROVE  /\ \A x \in Runs : inFlight'[x] # 0 => x \in E
         /\ \A x \in Runs, j \in EntryIds : entry'[x][j].state = "RUNNING" => x \in B
<1> DEFINE Fine == /\ \A x \in Runs : inFlight'[x] # 0 => x \in E
                   /\ \A x \in Runs, j \in EntryIds : entry'[x][j].state = "RUNNING" => x \in B
<1> USE DEF flightVars
<1>0. /\ inFlight \in [Runs -> EntryIds \cup {0}] /\ entry \in [Runs -> [EntryIds -> Entries]]
      /\ \A x \in Runs : inFlight[x] # 0 => x \in E
      /\ \A x \in Runs, j \in EntryIds : entry[x][j].state = "RUNNING" => x \in B
  BY DEF FlightKnows, TypeOK
<1>1. UNCHANGED <<entry, inFlight>> => Fine
  BY <1>0
<1>2. HubRestart => Fine
  BY <1>0 DEF HubRestart, FreeEntry
<1>3. ASSUME NEW f \in [Runs -> [EntryIds -> Entries]], NEW r \in Runs, NEW k \in EntryIds,
             \A x \in Runs, j \in EntryIds : f[x][j].state = "RUNNING" => x \in B
      PROVE  /\ \A x \in Runs, j \in EntryIds :
                   [f EXCEPT ![r][k].ackTimer = FALSE][x][j].state = "RUNNING" => x \in B
             /\ \A x \in Runs, j \in EntryIds :
                   [f EXCEPT ![r][k].cancelTimer = FALSE][x][j].state = "RUNNING" => x \in B
             /\ \A x \in Runs, j \in EntryIds :
                   [f EXCEPT ![r][k] = CancelMarked(@)][x][j].state = "RUNNING" => x \in B
             /\ \A x \in Runs, j \in EntryIds :
                   [f EXCEPT ![r][k] = TimersCleared(@)][x][j].state = "RUNNING" => x \in B
  <2>1. f[r][k] \in Entries
    OBVIOUS
  <2>2. /\ [f[r][k] EXCEPT !.ackTimer = FALSE].state = f[r][k].state
        /\ [f[r][k] EXCEPT !.cancelTimer = FALSE].state = f[r][k].state
        /\ CancelMarked(f[r][k]).state = f[r][k].state
        /\ TimersCleared(f[r][k]).state = f[r][k].state
    BY <2>1 DEF Entries, CancelMarked, TimersCleared
  <2> QED BY <1>3, <2>2
<1>4. ASSUME NEW t, NEW r \in Runs, NEW k \in EntryIds, NEW s, NEW root, NEW todo,
             Finalize(t, r, k, s, root, todo)
      PROVE  Fine
  BY <1>4, FinalizeKnows
<1>5. ASSUME NEW t \in Tasks, NEW root, LoseSession(root, t) PROVE Fine
  <2>1. CASE UNCHANGED flightVars
    BY <1>1, <2>1
  <2>2. ASSUME NEW h \in LostHandles,
               entry' = [entry EXCEPT ![h[1]][h[2]] = TimersCleared(@)],
               inFlight' = [inFlight EXCEPT ![h[1]] = 0]
        PROVE  Fine
    <3>1. h[1] \in Runs /\ h[2] \in EntryIds
      BY DEF LostHandles, Handles
    <3> QED BY <1>0, <1>3, <2>2, <3>1
  <2> QED BY <1>5, <2>1, <2>2 DEF LoseSession
<1>6. ASSUME NEW t \in Tasks, DispatchSend(t) PROVE Fine
  <2>1. task[t].run \in Runs /\ task[t].run \in E
    BY <1>6, CallKnowsItsRun DEF DispatchSend, Dispatchable, Existing
  <2>2. PICK k \in EntryIds :
          /\ entry' = [entry EXCEPT ![task[t].run][k] =
                          [FreeEntry EXCEPT !.state = "ASSIGNED", !.ackTimer = TRUE]]
          /\ inFlight' = [inFlight EXCEPT ![task[t].run] = k]
    BY <1>6 DEF DispatchSend
  <2>3. [FreeEntry EXCEPT !.state = "ASSIGNED", !.ackTimer = TRUE].state = "ASSIGNED"
    BY DEF FreeEntry
  <2> QED BY <1>0, <2>1, <2>2, <2>3
<1>7. ASSUME NEW t \in Tasks, LostNext(t) \/ AutoGrouped(t) \/ Reconciled(t) PROVE Fine
  <2>1. task[t] \in Calls
    BY DEF TypeOK
  <2>2. CASE LostNext(t)
    <3>1. task[t].todo \in SUBSET Handles
      BY <2>1 DEF Calls
    <3> QED BY <1>4, <2>2, <3>1 DEF LostNext, Handles
  <2>3. CASE AutoGrouped(t) \/ Reconciled(t)
    <3>1. task[t].run \in Runs /\ task[t].k \in EntryIds
      BY <2>1, <2>3 DEF AutoGrouped, Reconciled, Calls, WellFormed
    <3> QED BY <1>1, <1>4, <2>3, <3>1 DEF AutoGrouped, Reconciled
  <2> QED BY <1>7, <2>2, <2>3
<1>8. ASSUME NEW t \in Tasks, CancelRemoteRun(t) PROVE Fine
  <2>1. task[t].run \in Runs
    BY <1>8, CallKnowsItsRun DEF CancelRemoteRun, Existing
  <2>2. CASE UNCHANGED entry
    BY <1>1, <1>8, <2>2 DEF CancelRemoteRun
  <2>3. CASE ~UNCHANGED entry
    <3>1. /\ inFlight[task[t].run] # 0 /\ inFlight' = inFlight
          /\ entry' = [entry EXCEPT ![task[t].run][inFlight[task[t].run]] = CancelMarked(@)]
      BY <1>8, <2>3 DEF CancelRemoteRun
    <3>2. inFlight[task[t].run] \in EntryIds
      BY <1>0, <2>1, <3>1
    <3> QED BY <1>0, <1>3, <2>1, <3>1, <3>2
  <2> QED BY <2>2, <2>3
<1>9. ASSUME NEW t \in Tasks, AckGot(t) PROVE Fine
  <2>1. task[t].run \in Runs /\ task[t].k \in EntryIds
    BY <1>9 DEF AckGot, TypeOK, Calls, WellFormed
  <2>2. CASE task[t].status = "RUNNING"
    <3>1. task[t].run \in B
      BY <1>9, <2>2 DEF AckGot, Knowledge, Knows
    <3>2. /\ entry' = [entry EXCEPT ![task[t].run][task[t].k].state = "RUNNING"]
          /\ inFlight' = inFlight
      BY <1>9, <2>2 DEF AckGot
    <3> QED BY <1>0, <2>1, <3>1, <3>2
  <2>3. CASE task[t].status # "RUNNING"
    BY <1>0, <1>9, <2>1, <2>3 DEF AckGot
  <2> QED BY <2>2, <2>3
<1>10. ASSUME NEW t \in Tasks, TaskStep(t) PROVE Fine
  <2>1. CASE LoadJob(t) \/ LoadJobGone(t) \/ LoadFail(t)
             \/ EnqueueRefuse(t) \/ EnqueuePush(t)
    BY <1>1, <2>1 DEF LoadJob, LoadJobGone, LoadFail, EnqueueRefuse, EnqueuePush
  <2>2. CASE DispatchDiscard(t) \/ DispatchRefuse(t) \/ DispatchWait(t) \/ DispatchSendFails(t)
             \/ QueuedWrite(t) \/ AckMark(t)
    BY <1>1, <2>2 DEF DispatchDiscard, DispatchRefuse, DispatchWait, DispatchSendFails,
                      QueuedWrite, AckMark
  <2>3. CASE Stamp(t) \/ FinalWrite(t)
    BY <1>1, <1>2, <2>3 DEF Stamp, FinalWrite, Throw
  <2> QED BY <1>6, <1>7, <1>8, <1>9, <1>10, <2>1, <2>2, <2>3 DEF TaskStep
<1>11. ASSUME NEW t \in Tasks, NEW r \in Runs, DispatchTimeout(r, t) PROVE Fine
  BY <1>1, <1>11 DEF DispatchTimeout
<1>12. ASSUME NEW t \in Tasks, NEW r \in Runs, NEW k \in EntryIds,
              AckTimeout(r, k, t) \/ CancelTimeout(r, k, t)
       PROVE  Fine
  <2>1. ASSUME NEW f \in [Runs -> [EntryIds -> Entries]],
               \A x \in Runs, j \in EntryIds : f[x][j].state = "RUNNING" => x \in B,
               \/ /\ inFlight[r] # 0
                  /\ entry' = [f EXCEPT ![r][inFlight[r]] = TimersCleared(@)]
                  /\ inFlight' = [inFlight EXCEPT ![r] = 0]
               \/ entry' = f /\ inFlight' = inFlight
        PROVE  Fine
    <3>1. CASE entry' = f /\ inFlight' = inFlight
      BY <1>0, <2>1, <3>1
    <3>2. CASE ~(entry' = f /\ inFlight' = inFlight)
      <4>1. inFlight[r] \in EntryIds
        BY <1>0, <2>1, <3>2
      <4>2. f[r][inFlight[r]] \in Entries
        BY <4>1
      <4>3. TimersCleared(f[r][inFlight[r]]).state = f[r][inFlight[r]].state
        BY <4>2 DEF TimersCleared, Entries
      <4>4. \A x \in Runs, j \in EntryIds : entry'[x][j].state = f[x][j].state
        BY <2>1, <3>2, <4>1, <4>3
      <4> QED BY <1>0, <2>1, <3>2, <4>4
    <3> QED BY <3>1, <3>2
  <2>2. CASE AckTimeout(r, k, t)
    <3> DEFINE f == [entry EXCEPT ![r][k].ackTimer = FALSE]
    <3>0. entry[r][k] \in Entries
      BY <1>0
    <3>1. /\ f \in [Runs -> [EntryIds -> Entries]]
          /\ \A x \in Runs, j \in EntryIds : f[x][j].state = "RUNNING" => x \in B
      <4>1. [entry[r][k] EXCEPT !.ackTimer = FALSE].state = entry[r][k].state
        BY <3>0 DEF Entries
      <4>2. \A x \in Runs, j \in EntryIds : f[x][j].state = entry[x][j].state
        BY <1>0, <4>1
      <4> QED BY <1>0, <4>2, EntryFieldType
    <3>2. \/ /\ inFlight[r] # 0
             /\ entry' = [f EXCEPT ![r][inFlight[r]] = TimersCleared(@)]
             /\ inFlight' = [inFlight EXCEPT ![r] = 0]
          \/ entry' = f /\ inFlight' = inFlight
      BY <2>2 DEF AckTimeout, Assigned
    <3> QED BY <2>1, <3>1, <3>2
  <2>3. CASE CancelTimeout(r, k, t)
    <3> DEFINE f == [entry EXCEPT ![r][k].cancelTimer = FALSE]
    <3>0. entry[r][k] \in Entries
      BY <1>0
    <3>1. /\ f \in [Runs -> [EntryIds -> Entries]]
          /\ \A x \in Runs, j \in EntryIds : f[x][j].state = "RUNNING" => x \in B
      <4>1. [entry[r][k] EXCEPT !.cancelTimer = FALSE].state = entry[r][k].state
        BY <3>0 DEF Entries
      <4>2. \A x \in Runs, j \in EntryIds : f[x][j].state = entry[x][j].state
        BY <1>0, <4>1
      <4> QED BY <1>0, <4>2, EntryFieldType
    <3>2. \/ /\ inFlight[r] # 0
             /\ entry' = [f EXCEPT ![r][inFlight[r]] = TimersCleared(@)]
             /\ inFlight' = [inFlight EXCEPT ![r] = 0]
          \/ entry' = f /\ inFlight' = inFlight
      BY <2>3 DEF CancelTimeout
    <3> QED BY <2>1, <3>1, <3>2
  <2> QED BY <1>12, <2>2, <2>3
<1>13. ASSUME NEW t \in Tasks, NEW s, NEW r \in Runs, NEW accepted, JobAck(s, r, accepted, t)
       PROVE  Fine
  <2>1. CASE UNCHANGED flightVars
    BY <1>1, <2>1
  <2>2. CASE Assigned(r)
    <3>1. inFlight[r] \in EntryIds
      BY <1>0, <2>2 DEF Assigned
    <3>2. CASE \E e : Finalize(t, r, inFlight[r], e, s, {})
      BY <1>4, <3>1, <3>2
    <3>3. CASE /\ entry' = [entry EXCEPT ![r][inFlight[r]].ackTimer = FALSE]
               /\ inFlight' = inFlight
      BY <1>0, <1>3, <3>1, <3>3
    <3> QED BY <1>13, <2>2, <3>2, <3>3 DEF JobAck
  <2> QED BY <1>13, <2>1, <2>2 DEF JobAck
<1>14. ASSUME NEW t \in Tasks, NEW s, NEW r \in Runs, NEW result, RunComplete(s, r, result, t)
       PROVE  Fine
  <2>1. CASE UNCHANGED flightVars
    BY <1>1, <2>1
  <2>2. CASE Owned(r) /\ \E e : Finalize(t, r, inFlight[r], e, s, {})
    <3>1. inFlight[r] \in EntryIds
      BY <1>0, <2>2 DEF Owned
    <3> QED BY <1>4, <2>2, <3>1
  <2> QED BY <1>14, <2>1, <2>2 DEF RunComplete
<1>15. ASSUME NEW t \in Tasks, SessionEvent(t) PROVE Fine
  BY <1>1, <1>5, <1>15 DEF SessionEvent, CloseSession, Attach, SessionReady, AttachFails,
                           SocketDies, OldFramesEnd, FrameLost
<1>16. ASSUME NEW t \in Tasks, NEW r \in Runs, NEW s, StartRun(r, t) \/ CancelRun(r, t)
              \/ RejectFrame(s, r)
       PROVE  Fine
  BY <1>1, <1>16 DEF StartRun, CancelRun, RejectFrame
<1>17. ASSUME NEW r \in Runs, NEW p, PolicyDrift(r, p) PROVE Fine
  BY <1>1, <1>17 DEF PolicyDrift
<1>18. CASE Crash \/ UNCHANGED vars
  BY <1>1, <1>2, <1>18 DEF Crash, vars
<1> QED BY <1>10, <1>11, <1>12, <1>13, <1>14, <1>15, <1>16, <1>17, <1>18
        DEF Next, TimerFires, FrameArrives

\* A call that changes goes on knowing what it will write.
LEMMA CallsStep ==
  ASSUME TypeOK, TypeOK', Knowledge, [Next]_vars, QueueKnows(Existing'),
         FlightKnows(Existing', Begun'), Existing \subseteq Existing', Begun \subseteq Begun',
         content' \in [Arrays -> Seq(Existing')]
  PROVE  \A u \in Tasks : Knows(task'[u], Existing', Begun')
<1> DEFINE E == Existing'
           B == Begun'
           Fine == \A u \in Tasks : Knows(task'[u], E, B)
<1> USE DEF flightVars, queueVars
<1>0. /\ task \in [Tasks -> Calls]
      /\ \A u \in Tasks : Knows(task[u], E, B)
      /\ \A u \in Tasks : \A h \in task[u].todo : h[1] \in E
  <2>1. \A u \in Tasks : Knows(task[u], E, B)
    BY KnowsMore DEF Knowledge
  <2> QED BY <2>1 DEF TypeOK, Knows
<1>1. ASSUME NEW t \in Tasks, NEW c, Knows(c, E, B), task' = [task EXCEPT ![t] = c] PROVE Fine
  BY <1>0, <1>1, OneCallChanges
<1>2. UNCHANGED task => Fine
  BY <1>0
<1>3. HubRestart => Fine
  BY IdleKnows DEF HubRestart
<1>4. ASSUME NEW t \in Tasks, task[t].pc \notin {"idle", "lost_next"} PROVE task[t].run \in E
  BY <1>4, CallKnowsItsRun
<1>5. ASSUME NEW t \in Tasks PROVE Knows(Returned(task[t].root, task[t].todo), E, B)
  BY <1>0, ReturnedKnows
<1>6. ASSUME NEW t \in Tasks, Throw(t) PROVE Fine
  BY <1>1, <1>3, <1>5, <1>6 DEF Throw
<1>7. ASSUME NEW t \in Tasks, NEW c \in [Arrays -> Seq(E)], task[t].arr \in Arrays
      PROVE  Knows(NextIteration(task[t], c), E, B)
  BY <1>0, <1>7, NextIterationKnows
<1>8. ASSUME NEW t \in Tasks, NEW r \in E, NEW k, NEW s \in {"FAILED", "CANCELLED"}, NEW root,
             NEW todo, \A h \in todo : h[1] \in E, Finalize(t, r, k, s, root, todo)
      PROVE  Fine
  <2>1. Knows([Idle EXCEPT !.pc = "final_write", !.run = r, !.status = s, !.root = root,
                           !.todo = todo], E, B)
    BY <1>8, FinalCallKnows
  <2> QED BY <1>1, <1>8, <2>1 DEF Finalize
<1>9. /\ content \in [Arrays -> Seq(E)]
      /\ \A r : ContentWithout(r) \in [Arrays -> Seq(E)]
      /\ pendingByAgent \in Arrays \cup {NoArray}
      /\ \A r \in Runs : inFlight[r] # 0 => r \in E
      /\ \A r \in Runs, k \in EntryIds : entry[r][k].state = "RUNNING" => r \in B
  BY ContentWithoutKnows DEF QueueKnows, FlightKnows, TypeOK
<1>10. ASSUME NEW t \in Tasks, LoadJob(t) \/ LoadJobGone(t) PROVE Fine
  <2>1. /\ task'[t].run = task[t].run /\ task'[t].todo = task[t].todo
        /\ task'[t].pc \in {"enqueue_got", "dispatch_got", "load_fail"}
        /\ \A u \in Tasks : u # t => task'[u] = task[u]
    <3>1. task[t] \in Calls
      BY <1>0
    <3> QED BY <1>0, <1>10, <3>1 DEF LoadJob, LoadJobGone, Calls
  <2>2. Knows(task'[t], E, B)
    BY <1>0, <2>1 DEF Knows
  <2> QED BY <1>0, <2>1, <2>2
<1>11. ASSUME NEW t \in Tasks, LoadFail(t) \/ DispatchDiscard(t) PROVE Fine
  <2>1. CASE task' = [task EXCEPT ![t] = Idle]
    BY <1>1, <2>1, IdleKnows
  <2>2. CASE task[t].arr \in Arrays /\ DequeueAndContinue(t)
    BY <1>1, <1>7, <1>9, <2>2 DEF DequeueAndContinue
  <2>3. task[t].arr \in Arrays \/ (task[t].arr = NoArray /\ LoadFail(t))
    BY <1>0, <1>11 DEF LoadFail, DispatchDiscard, Calls, WellFormed
  <2> QED BY <1>11, <2>1, <2>2, <2>3 DEF LoadFail, DispatchDiscard, Arrays, NoArray
<1>13. ASSUME NEW t \in Tasks, EnqueueRefuse(t) PROVE Fine
  <2>1. PICK s \in {"CANCELLED", "FAILED"} :
          task' = [task EXCEPT ![t] =
             [Idle EXCEPT !.pc = "queued_write", !.run = task[t].run,
                          !.status = s, !.root = "http"]]
    BY <1>13 DEF EnqueueRefuse
  <2>2. task[t].run \in E
    BY <1>4, <1>13 DEF EnqueueRefuse
  <2>3. Knows([Idle EXCEPT !.pc = "queued_write", !.run = task[t].run,
                           !.status = s, !.root = "http"], E, B)
    BY <2>2, WritingCallKnows
  <2> QED BY <1>1, <2>1, <2>3
<1>14. ASSUME NEW t \in Tasks, EnqueuePush(t) PROVE Fine
  <2>1. PICK a \in Arrays : task' = [task EXCEPT ![t] = TryDispatch("http", {}, a, content')]
    BY <1>14 DEF EnqueuePush
  <2>2. Knows(TryDispatch("http", {}, a, content'), E, B)
    BY TryDispatchKnows
  <2> QED BY <1>1, <2>1, <2>2
<1>15. ASSUME NEW t \in Tasks, DispatchRefuse(t) PROVE Fine
  <2>1. /\ task'[t].run = task[t].run /\ task'[t].todo = task[t].todo
        /\ task'[t].pc = "queued_write" /\ task'[t].status \in {"FAILED", "CANCELLED"}
        /\ \A u \in Tasks : u # t => task'[u] = task[u]
    <3>1. task[t] \in Calls
      BY <1>0
    <3> QED BY <1>0, <1>15, <3>1 DEF DispatchRefuse, Calls
  <2>2. Knows(task'[t], E, B)
    BY <1>0, <2>1 DEF Knows
  <2> QED BY <1>0, <2>1, <2>2
<1>16. ASSUME NEW t \in Tasks, DispatchWait(t) \/ DispatchSendFails(t) PROVE Fine
  BY <1>1, <1>5, <1>16 DEF DispatchWait, DispatchSendFails
<1>17. ASSUME NEW t \in Tasks, DispatchSend(t) PROVE Fine
  <2>1. CASE task' = [task EXCEPT ![t].pc = "stamp", ![t].status = "ABSENT"]
    <3>1. /\ task'[t].run = task[t].run /\ task'[t].todo = task[t].todo
          /\ task'[t].pc = "stamp"
          /\ \A u \in Tasks : u # t => task'[u] = task[u]
      <4>1. task[t] \in Calls
        BY <1>0
      <4> QED BY <1>0, <2>1, <4>1 DEF Calls
    <3>2. Knows(task'[t], E, B)
      BY <1>0, <3>1 DEF Knows
    <3> QED BY <1>0, <3>1, <3>2
  <2>2. CASE task' = [task EXCEPT ![t] = NextIteration(task[t], content')]
    <3>1. task[t].arr \in Arrays
      BY <1>0, <1>17 DEF DispatchSend, Dispatchable, Calls, WellFormed
    <3> QED BY <1>1, <1>7, <2>2, <3>1
  <2> QED BY <1>17, <2>1, <2>2 DEF DispatchSend
<1>18. ASSUME NEW t \in Tasks, Stamp(t) PROVE Fine
  <2>1. task[t].arr \in Arrays
    BY <1>0, <1>18 DEF Stamp, Calls, WellFormed
  <2> QED BY <1>1, <1>6, <1>7, <1>9, <1>18, <2>1 DEF Stamp
<1>19. ASSUME NEW t \in Tasks, QueuedWrite(t) PROVE Fine
  <2>1. task[t].arr \in Arrays \/ task[t].arr = NoArray
    BY <1>0 DEF Calls
  <2> QED BY <1>1, <1>7, <1>9, <1>19, <2>1, IdleKnows DEF QueuedWrite
<1>20. ASSUME NEW t \in Tasks, FinalWrite(t) PROVE Fine
  <2>1. Knows(TryDispatch(task[t].root, task[t].todo, pendingByAgent, content), E, B)
    BY <1>0, <1>9, TryDispatchKnows
  <2> QED BY <1>1, <1>6, <1>20, <2>1 DEF FinalWrite
<1>21. ASSUME NEW t \in Tasks, LostNext(t) PROVE Fine
  <2>1. PICK h \in task[t].todo :
          Finalize(t, h[1], h[2], "FAILED", task[t].root, task[t].todo \ {h})
    BY <1>21 DEF LostNext
  <2> QED BY <1>0, <1>8, <2>1
<1>22. ASSUME NEW t \in Tasks, CancelRemoteRun(t) PROVE Fine
  <2>1. CASE task' = [task EXCEPT ![t] = Idle]
    BY <1>1, <2>1, IdleKnows
  <2>2. CASE task' = [task EXCEPT ![t].pc = "queued_write", ![t].status = "CANCELLED"]
    <3>1. /\ task'[t].run = task[t].run /\ task'[t].todo = task[t].todo
          /\ task'[t].pc = "queued_write" /\ task'[t].status = "CANCELLED"
          /\ \A u \in Tasks : u # t => task'[u] = task[u]
      <4>1. task[t] \in Calls
        BY <1>0
      <4> QED BY <1>0, <2>2, <4>1 DEF Calls
    <3>2. Knows(task'[t], E, B)
      BY <1>0, <3>1 DEF Knows
    <3> QED BY <1>0, <3>1, <3>2
  <2> QED BY <1>22, <2>1, <2>2 DEF CancelRemoteRun
<1>23. ASSUME NEW t \in Tasks, AckMark(t) PROVE Fine
  <2>1. task[t].run \in Runs /\ task[t].run \in E
    BY <1>4, <1>23, CallKnowsItsRun DEF AckMark, Existing
  <2>2. /\ task'[t].run = task[t].run /\ task'[t].todo = task[t].todo
        /\ task'[t].pc = "ack_got"
        /\ task'[t].status = "RUNNING" => status[task[t].run] = "PENDING"
        /\ \A u \in Tasks : u # t => task'[u] = task[u]
    <3>1. task[t] \in Calls
      BY <1>0
    <3> QED BY <1>0, <1>23, <3>1 DEF AckMark, Calls
  <2>3. status[task[t].run] = "PENDING" => task[t].run \in B
    <3>1. status \in [Runs -> Lifecycle!Statuses]
      BY DEF TypeOK
    <3> QED BY <1>23, <2>1, <3>1 DEF AckMark, Begun
  <2>4. Knows(task'[t], E, B)
    BY <1>0, <2>2, <2>3 DEF Knows
  <2> QED BY <1>0, <2>2, <2>4
<1>24. ASSUME NEW t \in Tasks, AckGot(t) PROVE Fine
  BY <1>1, <1>24, IdleKnows DEF AckGot
<1>25. ASSUME NEW t \in Tasks, Reconciled(t) PROVE Fine
  <2>1. CASE task' = [task EXCEPT ![t] = Idle]
    BY <1>1, <2>1, IdleKnows
  <2>2. CASE task' = [task EXCEPT ![t].pc = "auto_groups"]
    <3>1. /\ task'[t].run = task[t].run /\ task'[t].todo = task[t].todo
          /\ task'[t].pc = "auto_groups" /\ task[t].pc = "reconcile"
          /\ \A u \in Tasks : u # t => task'[u] = task[u]
      <4>1. task[t] \in Calls
        BY <1>0
      <4> QED BY <1>0, <1>25, <2>2, <4>1 DEF Reconciled, Calls
    <3>2. Knows(task'[t], E, B)
      BY <1>0, <3>1 DEF Knows
    <3> QED BY <1>0, <3>1, <3>2
  <2>3. CASE Finalize(t, task[t].run, task[t].k, "CANCELLED", task[t].root, {})
    <3>1. task[t].run \in E
      BY <1>4, <1>25 DEF Reconciled
    <3>2. Knows([Idle EXCEPT !.pc = "final_write", !.run = task[t].run, !.status = "CANCELLED",
                             !.root = task[t].root, !.todo = {}], E, B)
      BY <3>1, FinalCallKnows
    <3> QED BY <1>1, <2>3, <3>2 DEF Finalize
  <2> QED BY <1>25, <2>1, <2>2, <2>3 DEF Reconciled
<1>26. ASSUME NEW t \in Tasks, AutoGrouped(t) PROVE Fine
  <2>1. task[t].run \in E /\ task[t].run \in B
    <3>1. task[t].pc = "auto_groups" /\ Knows(task[t], E, B)
      BY <1>0, <1>26 DEF AutoGrouped
    <3> QED BY <1>4, <3>1 DEF Knows
  <2>2. Knows([Idle EXCEPT !.pc = "final_write", !.run = task[t].run, !.status = "COMPLETED",
                           !.root = task[t].root, !.todo = {}], E, B)
    BY <2>1, FinalCallKnows
  <2> QED BY <1>1, <1>26, <2>2 DEF AutoGrouped, Finalize
<1>27. ASSUME NEW t \in Tasks, TaskStep(t) PROVE Fine
  BY <1>10, <1>11, <1>13, <1>14, <1>15, <1>16, <1>17, <1>18, <1>19, <1>20, <1>21, <1>22,
     <1>23, <1>24, <1>25, <1>26, <1>27 DEF TaskStep
<1>28. ASSUME NEW t \in Tasks, TimerFires(t) PROVE Fine
  <2>1. CASE UNCHANGED task
    BY <1>2, <2>1
  <2>2. CASE \E r \in Runs : /\ DispatchTimeout(r, t) /\ ~UNCHANGED task
    <3>1. PICK r \in Runs : /\ r \in queuedJobs
                            /\ task' = [task EXCEPT ![t] = [Idle EXCEPT !.pc = "queued_write",
                                          !.run = r, !.status = "FAILED", !.root = "void"]]
      BY <2>2 DEF DispatchTimeout
    <3>2. r \in E
      BY <3>1 DEF QueueKnows
    <3>3. Knows([Idle EXCEPT !.pc = "queued_write", !.run = r, !.status = "FAILED",
                             !.root = "void"], E, B)
      BY <3>2, WritingCallKnows
    <3> QED BY <1>1, <3>1, <3>3
  <2>3. CASE \E r \in Runs, k \in EntryIds : /\ AckTimeout(r, k, t) \/ CancelTimeout(r, k, t)
                                             /\ ~UNCHANGED task
    <3>1. PICK r \in Runs : /\ inFlight[r] # 0
                            /\ task' = [task EXCEPT ![t] = [Idle EXCEPT !.pc = "final_write",
                                          !.run = r, !.status = "FAILED", !.root = "void"]]
      BY <2>3 DEF AckTimeout, CancelTimeout, Assigned
    <3>2. Knows([Idle EXCEPT !.pc = "final_write", !.run = r, !.status = "FAILED",
                             !.root = "void"], E, B)
      BY <1>9, <3>1, WritingCallKnows
    <3> QED BY <1>1, <3>1, <3>2
  <2> QED BY <1>28, <2>1, <2>2, <2>3 DEF TimerFires
<1>29. ASSUME NEW t \in Tasks, NEW s, NEW r \in Runs, NEW accepted, JobAck(s, r, accepted, t)
       PROVE  Fine
  <2>1. CASE UNCHANGED task
    BY <1>2, <2>1
  <2>2. CASE Assigned(r)
    <3>1. r \in E
      BY <1>9, <2>2 DEF Assigned
    <3>2. CASE \E e \in {"CANCELLED", "FAILED"} : Finalize(t, r, inFlight[r], e, s, {})
      <4>1. PICK e \in {"CANCELLED", "FAILED"} : Finalize(t, r, inFlight[r], e, s, {})
        BY <3>2
      <4>2. Knows([Idle EXCEPT !.pc = "final_write", !.run = r, !.status = e,
                               !.root = s, !.todo = {}], E, B)
        BY <3>1, FinalCallKnows
      <4> QED BY <1>1, <4>1, <4>2 DEF Finalize
    <3>3. CASE task' = [task EXCEPT ![t] = [Idle EXCEPT !.pc = "ack_mark", !.run = r,
                                                        !.k = inFlight[r], !.root = s]]
      <4>1. Knows([Idle EXCEPT !.pc = "ack_mark", !.run = r, !.k = inFlight[r], !.root = s], E, B)
        BY <3>1 DEF Knows, Idle
      <4> QED BY <1>1, <3>3, <4>1
    <3> QED BY <1>29, <2>2, <3>2, <3>3 DEF JobAck
  <2> QED BY <1>29, <2>1, <2>2 DEF JobAck
<1>30. ASSUME NEW t \in Tasks, NEW s, NEW r \in Runs, NEW result, RunComplete(s, r, result, t)
       PROVE  Fine
  <2>1. CASE UNCHANGED task
    BY <1>2, <2>1
  <2>2. CASE Owned(r)
    <3>1. r \in E /\ r \in B
      <4>1. inFlight[r] \in EntryIds
        BY <2>2 DEF Owned, TypeOK
      <4> QED BY <1>9, <2>2, <4>1 DEF Owned
    <3>2. CASE \E e \in {"CANCELLED", "FAILED"} : Finalize(t, r, inFlight[r], e, s, {})
      <4>1. PICK e \in {"CANCELLED", "FAILED"} : Finalize(t, r, inFlight[r], e, s, {})
        BY <3>2
      <4>2. Knows([Idle EXCEPT !.pc = "final_write", !.run = r, !.status = e,
                               !.root = s, !.todo = {}], E, B)
        BY <3>1, FinalCallKnows
      <4> QED BY <1>1, <4>1, <4>2 DEF Finalize
    <3>3. CASE task' = [task EXCEPT ![t] = [Idle EXCEPT !.pc = "reconcile", !.run = r,
                                                        !.k = inFlight[r], !.root = s]]
      <4>1. Knows([Idle EXCEPT !.pc = "reconcile", !.run = r, !.k = inFlight[r], !.root = s], E, B)
        BY <3>1 DEF Knows, Idle
      <4> QED BY <1>1, <3>3, <4>1
    <3> QED BY <1>30, <2>2, <3>2, <3>3 DEF RunComplete
  <2> QED BY <1>30, <2>1, <2>2 DEF RunComplete
<1>31. ASSUME NEW t \in Tasks, NEW root, LoseSession(root, t) PROVE Fine
  <2> DEFINE orphaned == [u \in Tasks |->
                           IF task[u].root = "live" THEN [task[u] EXCEPT !.root = "old"]
                                                    ELSE task[u]]
  <2>1. \A u \in Tasks : Knows(orphaned[u], E, B)
    <3>1. ASSUME NEW u \in Tasks
          PROVE  /\ orphaned[u].pc = task[u].pc /\ orphaned[u].run = task[u].run
                 /\ orphaned[u].status = task[u].status /\ orphaned[u].todo = task[u].todo
      <4>1. task[u] \in Calls
        BY <1>0
      <4> QED BY <4>1 DEF Calls
    <3> QED BY <1>0, <3>1 DEF Knows
  <2>2. CASE task' = orphaned
    BY <2>1, <2>2
  <2>3. CASE task' # orphaned
    <3>1. PICK h \in LostHandles :
            task' = [orphaned EXCEPT ![t] =
               [Idle EXCEPT !.pc = "final_write", !.run = h[1], !.status = "FAILED",
                            !.root = root, !.todo = LostHandles \ {h}]]
      BY <1>31, <2>3 DEF LoseSession
    <3>2. \A g \in LostHandles : g[1] \in E
      BY <1>9 DEF LostHandles, Handles, EntryIds
    <3>3. Knows([Idle EXCEPT !.pc = "final_write", !.run = h[1], !.status = "FAILED",
                             !.root = root, !.todo = LostHandles \ {h}], E, B)
      BY <3>2, FinalCallKnows
    <3> QED BY <2>1, <3>1, <3>3
  <2> QED BY <2>2, <2>3
<1>32. ASSUME NEW t \in Tasks, SessionReady(t) PROVE Fine
  <2>1. Knows(TryDispatch("void", {}, pendingByAgent, content), E, B)
    BY <1>9, TryDispatchKnows
  <2> QED BY <1>1, <1>32, <2>1 DEF SessionReady
<1>33. ASSUME NEW t \in Tasks, SessionEvent(t) PROVE Fine
  BY <1>2, <1>31, <1>32, <1>33 DEF SessionEvent, CloseSession, Attach, AttachFails, SocketDies,
                                   OldFramesEnd, FrameLost
<1>34. ASSUME NEW t \in Tasks, NEW r \in Runs, StartRun(r, t) \/ CancelRun(r, t) PROVE Fine
  <2>1. PICK p \in {"enqueue_load", "cancel_call"} :
          task' = [task EXCEPT ![t] = [Idle EXCEPT !.pc = p, !.run = r, !.root = "http"]]
    BY <1>34 DEF StartRun, CancelRun
  <2>2. r \in E
    BY <1>34 DEF StartRun, CancelRun, WriteStatus, Active, Lifecycle!Active, TypeOK, Existing
  <2>3. Knows([Idle EXCEPT !.pc = p, !.run = r, !.root = "http"], E, B)
    BY <2>2 DEF Knows, Idle
  <2> QED BY <1>1, <2>1, <2>3
<1>35. ASSUME NEW r \in Runs, NEW s, NEW p, RejectFrame(s, r) \/ PolicyDrift(r, p) PROVE Fine
  BY <1>2, <1>35 DEF RejectFrame, PolicyDrift
<1>36. CASE Crash \/ UNCHANGED vars
  BY <1>2, <1>3, <1>36 DEF Crash, vars
<1> QED BY <1>27, <1>28, <1>29, <1>30, <1>33, <1>34, <1>35, <1>36 DEF Next, FrameArrives

\* What the calls know is an invariant.
LEMMA KnowledgeStep ==
  ASSUME TypeOK, Knowledge, [Next]_vars
  PROVE  Knowledge'
<1>1. TypeOK'
  BY TypeStep
<1>2. Existing \subseteq Existing' /\ Begun \subseteq Begun'
  BY StepIsLifecycle, KnowledgeGrows
<1>3. QueueKnows(Existing') /\ FlightKnows(Existing', Begun')
  BY <1>2, SeqGrows DEF Knowledge, QueueKnows, FlightKnows
<1>4. /\ content' \in [Arrays -> Seq(Existing')]
      /\ queuedJobs' \subseteq Existing'
      /\ dispatchTimers' \subseteq Existing'
  BY <1>2, <1>3, QueueStep
<1>5. /\ \A x \in Runs : inFlight'[x] # 0 => x \in Existing'
      /\ \A x \in Runs, j \in EntryIds : entry'[x][j].state = "RUNNING" => x \in Begun'
  BY <1>2, <1>3, InFlightStep
<1>6. \A u \in Tasks : Knows(task'[u], Existing', Begun')
  BY <1>1, <1>2, <1>3, <1>4, CallsStep
<1> QED BY <1>4, <1>5, <1>6 DEF Knowledge, QueueKnows, FlightKnows, Knows

\* The dispatcher implements RunLifecycle for any number of runs and slots: no
\* order of acks, completions, cancels, timers, lost sessions and restarts
\* revives a terminal row, completes a run that never began, or writes a row
\* that does not exist.
THEOREM DispatcherImplementsLifecycle == Spec => LifecycleSpec
<1>1. Init => Knowledge /\ Lifecycle!LifecycleInit
  <2> SUFFICES ASSUME Init PROVE Knowledge /\ Lifecycle!LifecycleInit
    OBVIOUS
  <2>1. QueueKnows(Existing) /\ FlightKnows(Existing, Begun)
    BY DEF Init, QueueKnows, FlightKnows, FreeEntry
  <2>2. \A t \in Tasks : Knows(task[t], Existing, Begun)
    BY IdleKnows DEF Init
  <2> QED BY <2>1, <2>2 DEF Init, Knowledge, Lifecycle!LifecycleInit
<1>2. TypeOK /\ Knowledge /\ [Next]_vars => Knowledge'
  BY KnowledgeStep
<1>3. TypeOK /\ Knowledge /\ [Next]_vars
        => [Lifecycle!LifecycleNext]_(Lifecycle!lifecycleVars)
  BY StepIsLifecycle
<1> QED BY <1>1, <1>2, <1>3, TypeInvariant, PTL
        DEF Spec, LifecycleSpec, Lifecycle!LifecycleSpec
-----------------------------------------------------------------------------
(* Who speaks for a run.  An active run is in flight, queued, or carried by *)
(* a call that will end it (Doomed) or queue it (Cares).  The inductive     *)
(* invariant says what stands behind every run in flight and every ack that *)
(* may still come; a step either leaves a run alone, dooms it, or is one of *)
(* the few that act on it (Effect), and only those are looked at again.     *)

\* The call c goes on to end r; it acknowledges r; it cares for r, which is not
\* queued yet or no more.
Ends(c, r) == (c.pc = "final_write" /\ c.run = r) \/ \E k \in EntryIds : <<r, k>> \in c.todo
Acks(c, r) == c.pc \in {"ack_mark", "ack_got"} /\ c.run = r
Cares(c, r) == c.pc \in {"enqueue_load", "enqueue_got", "load_fail", "queued_write"} /\ c.run = r

\* r is over, or a call goes on to end it.
Doomed(r) == status[r] \in Terminal \/ \E t \in Tasks : Ends(task[t], r)

\* No call forgets the rest of a lost session's runs, and acks come from sessions.
SoundCall(c) ==
  /\ c.todo # {} => c.pc \in {"dispatch_load", "dispatch_got", "load_fail", "queued_write",
                              "stamp", "final_write", "lost_next"}
  /\ c.todo # {} /\ c.pc \in {"load_fail", "queued_write"} => c.arr # NoArray
  /\ c.pc \in {"ack_mark", "ack_got"} => c.root \in Sources

\* A session handles one frame at a time, the live one only while it is open; the
\* run whose ack it handles is running at the agent.
Framed ==
  /\ \A t \in Tasks : SoundCall(task[t])
  /\ \A t, u \in Tasks : task[t].root = "live" /\ task[u].root = "live" => t = u
  /\ conn \in {"down", "attaching"} => ~Handling("live")
  /\ \A t \in Tasks, r \in Runs :
       task[t].root = "live" /\ Acks(task[t], r) => wire["live"][r].state = "running"
-----------------------------------------------------------------------------
\* The call d is the rest of one awaited by root, with todo still to be ended.
Resumed(d, root, todo) ==
  /\ d.todo = todo
  /\ d.root \in {root, "none"}
  /\ d.pc \in {"idle", "dispatch_load", "lost_next"}
  /\ d.pc = "idle" => todo = {}

LEMMA CallsResume ==
  ASSUME NEW root, NEW todo, NEW p, NEW c, NEW job
  PROVE  /\ Resumed(Returned(root, todo), root, todo)
         /\ Resumed(TryDispatch(root, todo, p, c), root, todo)
         /\ Resumed(NextIteration(job, c), job.root, job.todo)
BY DEF Resumed, Returned, TryDispatch, NextIteration, Loading, Idle

LEMMA ResumedSound ==
  ASSUME NEW root, NEW todo, NEW d, Resumed(d, root, todo)
  PROVE  SoundCall(d)
BY DEF Resumed, SoundCall

\* Only call t changes, and not into one of another session.
TameCall(t, d) ==
  /\ task' = [task EXCEPT ![t] = d]
  /\ SoundCall(d)
  /\ d.root = "live" => task[t].root = "live" /\ \A r \in Runs : Acks(d, r) => Acks(task[t], r)

\* What a session's frames rely on is left alone.
TameAgent ==
  \/ /\ conn' \in {"down", "attaching"} => conn \in {"down", "attaching"}
     /\ \A r \in Runs : wire["live"][r].state = "running" => wire'["live"][r].state = "running"
  \/ ~Handling("live")'

LEMMA TameFramed ==
  ASSUME TypeOK, Framed, NEW t \in Tasks, NEW d, TameCall(t, d), TameAgent
  PROVE  Framed'
<1>1. \A u \in Tasks : task'[u] = IF u = t THEN d ELSE task[u]
  BY DEF TypeOK, TameCall
<1>2. \A u \in Tasks :
        /\ SoundCall(task'[u])
        /\ task'[u].root = "live" =>
             task[u].root = "live" /\ \A r \in Runs : Acks(task'[u], r) => Acks(task[u], r)
  BY <1>1 DEF Framed, TameCall
<1>3. CASE ~Handling("live")'
  BY <1>2, <1>3 DEF Framed, Handling
<1>4. CASE Handling("live")'
  BY <1>2, <1>4 DEF Framed, Handling, TameAgent
<1> QED BY <1>3, <1>4

\* An idle call is a call that only just begins.
LEMMA SpawnTame ==
  ASSUME NEW t \in Tasks, NEW d, task' = [task EXCEPT ![t] = d], d.root # "live",
         d.todo = {}, d.pc \notin {"ack_mark", "ack_got"}
  PROVE  TameCall(t, d)
BY DEF TameCall, SoundCall

LEMMA StillTame ==
  ASSUME TypeOK, Framed, NEW t \in Tasks, UNCHANGED task
  PROVE  TameCall(t, task[t])
BY DEF TameCall, Framed, TypeOK

LEMMA AgentTame ==
  ASSUME conn' = conn \/ conn' = "dead" \/ conn' = "ready",
         \A r \in Runs : wire'["live"][r].state = wire["live"][r].state
  PROVE  TameAgent
BY DEF TameAgent

LEMMA SendCancelKeeps ==
  ASSUME TypeOK, NEW x \in Runs, SendCancel(x)
  PROVE  \A s \in Sources, r \in Runs : wire'[s][r].state = wire[s][r].state
<1>1. wire \in [Sources -> [Runs -> AgentJobs]]
  BY DEF TypeOK
<1>2. \A s \in Sources, r \in Runs : wire[s][r] \in AgentJobs
  BY <1>1
<1>3. ASSUME wire' = [wire EXCEPT !["live"][x].abort = TRUE], NEW s \in Sources, NEW r \in Runs
      PROVE  wire'[s][r].state = wire[s][r].state
  BY <1>1, <1>2, <1>3 DEF AgentJobs, Sources
<1> QED BY <1>3 DEF SendCancel

LEMMA HubRestartFramed ==
  ASSUME HubRestart PROVE Framed'
BY DEF HubRestart, Framed, SoundCall, Handling, Idle

LEMMA ThrowFramed ==
  ASSUME TypeOK, Framed, NEW t \in Tasks, Throw(t) PROVE Framed'
<1> DEFINE d == Returned(task[t].root, task[t].todo)
<1>1. CASE HubRestart
  BY <1>1, HubRestartFramed
<1>2. CASE task' = [task EXCEPT ![t] = d] /\ UNCHANGED agentVars
  <2>1. Resumed(d, task[t].root, task[t].todo)
    BY CallsResume
  <2>2. TameCall(t, d)
    BY <1>2, <2>1, ResumedSound DEF TameCall, Resumed, Acks
  <2>3. TameAgent
    BY <1>2 DEF TameAgent, agentVars
  <2> QED BY <2>2, <2>3, TameFramed
<1> QED BY <1>1, <1>2 DEF Throw

\* A call whose only step is to go on in the same session.
LEMMA ResumedFramed ==
  ASSUME TypeOK, Framed, NEW t \in Tasks, NEW d, task' = [task EXCEPT ![t] = d],
         Resumed(d, task[t].root, task[t].todo), TameAgent
  PROVE  Framed'
<1>1. TameCall(t, d)
  BY ResumedSound DEF TameCall, Resumed, Acks
<1> QED BY <1>1, TameFramed

\* A call that goes on to another await.
LEMMA MovedFramed ==
  ASSUME TypeOK, Framed, NEW t \in Tasks, NEW d, task' = [task EXCEPT ![t] = d], SoundCall(d),
         d.root = task[t].root \/ d.root # "live", d.run = task[t].run \/ d.root # "live",
         d.pc \in {"ack_mark", "ack_got"} => task[t].pc \in {"ack_mark", "ack_got"},
         TameAgent
  PROVE  Framed'
<1>1. TameCall(t, d)
  BY DEF TameCall, Acks
<1> QED BY <1>1, TameFramed

LEMMA FinalizeFramed ==
  ASSUME TypeOK, Framed, NEW t \in Tasks, NEW r \in Runs, NEW k, NEW s, NEW root, NEW todo,
         Finalize(t, r, k, s, root, todo), root # "live" \/ root = task[t].root, UNCHANGED agentVars
  PROVE  Framed'
<1> DEFINE d == [Idle EXCEPT !.pc = "final_write", !.run = r, !.status = s, !.root = root,
                             !.todo = todo]
<1>1. d.pc = "final_write" /\ d.root = root
  BY DEF Idle
<1>2. TameCall(t, d)
  BY <1>1 DEF TameCall, Finalize, SoundCall, Acks
<1>3. TameAgent
  BY DEF TameAgent, agentVars
<1> QED BY <1>2, <1>3, TameFramed

\* The steps of the hub's own calls.
LEMMA TaskFramed ==
  ASSUME TypeOK, Framed, NEW t \in Tasks, TaskStep(t) PROVE Framed'
<1> USE DEF agentVars
<1>0. /\ task \in [Tasks -> Calls] /\ task[t] \in Calls /\ SoundCall(task[t])
      /\ UNCHANGED agentVars => TameAgent
  BY DEF TypeOK, Framed, TameAgent
<1>1. CASE LoadJob(t)
  <2>1. PICK p, s, c : /\ task' = [task EXCEPT ![t] = [task[t] EXCEPT !.pc = p, !.status = s, !.cancel = c]]
                       /\ task[t].pc \in {"enqueue_load", "dispatch_load"}
                       /\ p = IF task[t].pc = "enqueue_load" THEN "enqueue_got" ELSE "dispatch_got"
    BY <1>0, <1>1 DEF LoadJob
  <2> DEFINE d == [task[t] EXCEPT !.pc = p, !.status = s, !.cancel = c]
  <2>2. d.pc = p /\ d.root = task[t].root /\ d.run = task[t].run /\ d.todo = task[t].todo
    BY <1>0 DEF Calls
  <2>3. SoundCall(d) /\ d.pc \notin {"ack_mark", "ack_got"} /\ TameAgent
    BY <1>0, <1>1, <2>1, <2>2 DEF SoundCall, LoadJob
  <2>4. task' = [task EXCEPT ![t] = d]
    BY <2>1
  <2> HIDE DEF d
  <2> QED BY <2>2, <2>3, <2>4, MovedFramed
<1>2. CASE LoadJobGone(t)
  <2> DEFINE d == [task[t] EXCEPT !.pc = "load_fail"]
  <2>1. /\ d.pc = "load_fail" /\ d.root = task[t].root /\ d.run = task[t].run
        /\ d.todo = task[t].todo /\ d.arr = task[t].arr
    BY <1>0 DEF Calls
  <2>2. task[t].pc \in {"enqueue_got", "dispatch_got"}
    BY <1>2 DEF LoadJobGone
  <2>3. SoundCall(d)
    BY <1>0, <2>1, <2>2 DEF SoundCall, Calls, WellFormed, NoArray, Arrays
  <2>4. task' = [task EXCEPT ![t] = d]
    BY <1>0, <1>2 DEF LoadJobGone
  <2> QED BY <1>0, <1>2, <2>1, <2>3, <2>4, MovedFramed DEF LoadJobGone
<1>3. CASE LoadFail(t) \/ QueuedWrite(t)
  <2>1. TameAgent
    BY <1>0, <1>3 DEF LoadFail, QueuedWrite
  <2>2. CASE task' = [task EXCEPT ![t] = Idle]
    <3>1. SoundCall(Idle) /\ Idle.root # "live" /\ Idle.pc = "idle"
      BY DEF SoundCall, Idle
    <3> QED BY <2>1, <2>2, <3>1, MovedFramed
  <2>3. CASE \E c : task' = [task EXCEPT ![t] = NextIteration(task[t], c)]
    BY <2>1, <2>3, CallsResume, ResumedFramed
  <2> QED BY <1>3, <2>2, <2>3 DEF LoadFail, QueuedWrite, DequeueAndContinue
<1>4. CASE EnqueueRefuse(t)
  <2>1. PICK s, r : task' = [task EXCEPT ![t] = [Idle EXCEPT !.pc = "queued_write", !.run = r,
                                                     !.status = s, !.root = "http"]]
    BY <1>4 DEF EnqueueRefuse
  <2> DEFINE d == [Idle EXCEPT !.pc = "queued_write", !.run = r, !.status = s, !.root = "http"]
  <2>2. SoundCall(d) /\ d.root # "live" /\ d.pc = "queued_write"
    BY DEF SoundCall, Idle
  <2> QED BY <1>0, <1>4, <2>1, <2>2, MovedFramed DEF EnqueueRefuse
<1>5. CASE EnqueuePush(t)
  <2>1. PICK d : task' = [task EXCEPT ![t] = d] /\ Resumed(d, "http", {})
    BY <1>5, CallsResume DEF EnqueuePush
  <2>2. SoundCall(d) /\ d.root # "live" /\ d.pc \notin {"ack_mark", "ack_got"}
    BY <2>1, ResumedSound DEF Resumed
  <2> QED BY <1>0, <1>5, <2>1, <2>2, MovedFramed DEF EnqueuePush
<1>6. CASE DispatchDiscard(t) \/ DispatchWait(t) \/ DispatchSendFails(t)
  <2>1. TameAgent
    BY <1>6 DEF DispatchDiscard, DispatchWait, DispatchSendFails, TameAgent
  <2> QED BY <1>6, <2>1, CallsResume, ResumedFramed
          DEF DispatchDiscard, DispatchWait, DispatchSendFails, DequeueAndContinue
<1>7. CASE DispatchRefuse(t)
  <2>1. PICK s, c : task' = [task EXCEPT ![t] = [task[t] EXCEPT !.pc = "queued_write", !.status = s,
                                                                !.cancel = c]]
    BY <1>0, <1>7 DEF DispatchRefuse
  <2> DEFINE d == [task[t] EXCEPT !.pc = "queued_write", !.status = s, !.cancel = c]
  <2>2. /\ d.pc = "queued_write" /\ d.root = task[t].root /\ d.run = task[t].run
        /\ d.todo = task[t].todo /\ d.arr = task[t].arr
    BY <1>0 DEF Calls
  <2>3. SoundCall(d)
    BY <1>0, <1>7, <2>2 DEF SoundCall, Calls, WellFormed, NoArray, Arrays, DispatchRefuse
  <2> QED BY <1>0, <1>7, <2>1, <2>2, <2>3, MovedFramed DEF DispatchRefuse
<1>8. CASE DispatchSend(t)
  <2>1. TameAgent
    <3>1. conn' = conn /\ \A r \in Runs : wire["live"][r].state = "running" => wire'["live"][r] = wire["live"][r]
      BY <1>8 DEF DispatchSend, TypeOK, Sources
    <3> QED BY <3>1 DEF TameAgent
  <2>2. CASE \E c : task' = [task EXCEPT ![t] = NextIteration(task[t], c)]
    BY <2>1, <2>2, CallsResume, ResumedFramed
  <2>3. CASE task' = [task EXCEPT ![t].pc = "stamp", ![t].status = "ABSENT"]
    <3> DEFINE d == [task[t] EXCEPT !.pc = "stamp", !.status = "ABSENT"]
    <3>1. d.pc = "stamp" /\ d.root = task[t].root /\ d.run = task[t].run
      BY <1>0 DEF Calls
    <3>2. SoundCall(d) /\ task' = [task EXCEPT ![t] = d]
      BY <1>0, <2>3, <3>1 DEF SoundCall
    <3> QED BY <2>1, <3>1, <3>2, MovedFramed
  <2> QED BY <1>8, <2>2, <2>3 DEF DispatchSend
<1>9. CASE Stamp(t) \/ FinalWrite(t)
  <2>1. CASE Throw(t)
    BY <2>1, ThrowFramed
  <2>2. CASE ~Throw(t)
    BY <1>0, <1>9, <2>2, CallsResume, ResumedFramed DEF Stamp, FinalWrite
  <2> QED BY <2>1, <2>2
<1>10. CASE LostNext(t) \/ AutoGrouped(t) \/ Reconciled(t)
  <2>1. CASE \E r \in Runs : \E k, s, todo : Finalize(t, r, k, s, task[t].root, todo)
    BY <1>10, <2>1, FinalizeFramed DEF LostNext, AutoGrouped, Reconciled
  <2>2. CASE Reconciled(t) /\ task' = [task EXCEPT ![t] = Idle]
    <3>1. SoundCall(Idle) /\ Idle.root # "live" /\ Idle.pc = "idle"
      BY DEF SoundCall, Idle
    <3> QED BY <1>0, <2>2, <3>1, MovedFramed DEF Reconciled
  <2>3. CASE Reconciled(t) /\ task' = [task EXCEPT ![t].pc = "auto_groups"]
    <3> DEFINE d == [task[t] EXCEPT !.pc = "auto_groups"]
    <3>1. /\ d.pc = "auto_groups" /\ d.root = task[t].root /\ d.run = task[t].run
          /\ d.todo = task[t].todo
      BY <1>0 DEF Calls
    <3>2. SoundCall(d) /\ task' = [task EXCEPT ![t] = d]
      BY <1>0, <2>3, <3>1 DEF SoundCall, Reconciled
    <3> QED BY <1>0, <2>3, <3>1, <3>2, MovedFramed DEF Reconciled
  <2>4. task[t].pc # "lost_next" => task[t].run \in Runs
    BY <1>0, <1>10 DEF Calls, WellFormed, LostNext, AutoGrouped, Reconciled
  <2> QED BY <1>0, <1>10, <2>1, <2>2, <2>3, <2>4
          DEF LostNext, AutoGrouped, Reconciled, Calls, Handles
<1>11. CASE CancelRemoteRun(t)
  <2>1. TameAgent
    <3>1. SendCancel(task[t].run) => TameAgent
      BY <1>0, <1>11, SendCancelKeeps, AgentTame DEF CancelRemoteRun, Calls, WellFormed, Sources
    <3> QED BY <1>0, <1>11, <3>1 DEF CancelRemoteRun
  <2>2. CASE task' = [task EXCEPT ![t] = Idle]
    <3>1. SoundCall(Idle) /\ Idle.root # "live" /\ Idle.pc = "idle"
      BY DEF SoundCall, Idle
    <3> QED BY <2>1, <2>2, <3>1, MovedFramed
  <2>3. CASE task' = [task EXCEPT ![t].pc = "queued_write", ![t].status = "CANCELLED"]
    <3> DEFINE d == [task[t] EXCEPT !.pc = "queued_write", !.status = "CANCELLED"]
    <3>1. /\ d.pc = "queued_write" /\ d.root = task[t].root /\ d.run = task[t].run
          /\ d.todo = task[t].todo
      BY <1>0 DEF Calls
    <3>2. SoundCall(d) /\ task' = [task EXCEPT ![t] = d]
      BY <1>0, <1>11, <2>3, <3>1 DEF SoundCall, CancelRemoteRun
    <3> QED BY <2>1, <3>1, <3>2, MovedFramed
  <2> QED BY <1>11, <2>2, <2>3 DEF CancelRemoteRun
<1>12. CASE AckMark(t)
  <2>1. PICK s : task' = [task EXCEPT ![t] = [task[t] EXCEPT !.pc = "ack_got", !.status = s]]
    BY <1>0, <1>12 DEF AckMark
  <2> DEFINE d == [task[t] EXCEPT !.pc = "ack_got", !.status = s]
  <2>2. /\ d.pc = "ack_got" /\ d.root = task[t].root /\ d.run = task[t].run
        /\ d.todo = task[t].todo
    BY <1>0 DEF Calls
  <2>3. SoundCall(d)
    BY <1>0, <1>12, <2>2 DEF SoundCall, AckMark
  <2> QED BY <1>0, <1>12, <2>1, <2>2, <2>3, MovedFramed DEF AckMark
<1>13. CASE AckGot(t)
  <2>1. TameAgent
    <3>1. SendCancel(task[t].run) => TameAgent
      BY <1>0, <1>13, SendCancelKeeps, AgentTame DEF AckGot, Calls, WellFormed, Sources
    <3> QED BY <1>0, <1>13, <3>1 DEF AckGot, TameAgent
  <2>2. SoundCall(Idle) /\ Idle.root # "live" /\ Idle.pc = "idle"
    BY DEF SoundCall, Idle
  <2> QED BY <1>13, <2>1, <2>2, MovedFramed DEF AckGot
<1> QED BY <1>1, <1>2, <1>3, <1>4, <1>5, <1>6, <1>7, <1>8, <1>9, <1>10, <1>11, <1>12, <1>13
        DEF TaskStep

LEMMA SessionFramed ==
  ASSUME TypeOK, Framed, NEW t \in Tasks, NEW root \in {"lost", "supersede"}, LoseSession(root, t)
  PROVE  Framed'
<1> DEFINE orphaned == [u \in Tasks |->
                         IF task[u].root = "live" THEN [task[u] EXCEPT !.root = "old"]
                                                  ELSE task[u]]
           final(h) == [Idle EXCEPT !.pc = "final_write", !.run = h[1], !.status = "FAILED",
                                    !.root = root, !.todo = LostHandles \ {h}]
<1>1. ASSUME NEW u \in Tasks
      PROVE  SoundCall(orphaned[u]) /\ orphaned[u].root # "live"
  <2>1. task[u] \in Calls /\ SoundCall(task[u])
    BY DEF TypeOK, Framed
  <2> QED BY <2>1 DEF SoundCall, Calls, Sources
<1>2. ASSUME NEW h PROVE SoundCall(final(h)) /\ final(h).root # "live"
  BY DEF SoundCall, Idle
<1>3. task' = orphaned \/ \E h : task' = [orphaned EXCEPT ![t] = final(h)]
  BY DEF LoseSession
<1>4. ASSUME NEW u \in Tasks PROVE SoundCall(task'[u]) /\ task'[u].root # "live"
  <2>1. task'[u] = orphaned[u] \/ \E h : task'[u] = final(h)
    BY <1>3
  <2> HIDE DEF orphaned, final
  <2> QED BY <1>1, <1>2, <2>1
<1> QED BY <1>4 DEF Framed, Handling

\* Every step keeps the frames of sessions apart.
LEMMA FramedStep ==
  ASSUME TypeOK, Framed, [Next]_vars PROVE Framed'
<1> USE DEF agentVars
<1>1. ASSUME NEW t \in Tasks, TaskStep(t) PROVE Framed'
  BY <1>1, TaskFramed
<1>2. ASSUME UNCHANGED task, TameAgent PROVE Framed'
  <2>1. PICK t \in Tasks : TRUE
    BY RemoteAssumption DEF Tasks
  <2> QED BY <1>2, <2>1, StillTame, TameFramed
<1>3. ASSUME NEW t \in Tasks, NEW d, task' = [task EXCEPT ![t] = d], d.root # "live",
             d.todo = {}, d.pc \notin {"ack_mark", "ack_got"}, TameAgent
      PROVE  Framed'
  BY <1>3, SpawnTame, TameFramed
<1>4. ASSUME NEW t \in Tasks, TimerFires(t) PROVE Framed'
  <2>1. PICK x \in Runs : DispatchTimeout(x, t) \/ \E k \in EntryIds : AckTimeout(x, k, t) \/ CancelTimeout(x, k, t)
    BY <1>4 DEF TimerFires
  <2>2. TameAgent
    <3>1. SendCancel(x) /\ conn' = conn => TameAgent
      BY SendCancelKeeps, AgentTame DEF Sources
    <3> QED BY <2>1, <3>1 DEF DispatchTimeout, AckTimeout, CancelTimeout, TameAgent
  <2>3. CASE UNCHANGED task
    BY <1>2, <2>2, <2>3
  <2>4. CASE \E p, s : task' = [task EXCEPT ![t] = [Idle EXCEPT !.pc = p, !.run = x, !.status = s, !.root = "void"]]
                       /\ p \in {"queued_write", "final_write"}
    <3>1. PICK p, s : /\ task' = [task EXCEPT ![t] = [Idle EXCEPT !.pc = p, !.run = x, !.status = s, !.root = "void"]]
                      /\ p \in {"queued_write", "final_write"}
      BY <2>4
    <3> DEFINE d == [Idle EXCEPT !.pc = p, !.run = x, !.status = s, !.root = "void"]
    <3>2. d.root # "live" /\ d.todo = {} /\ d.pc \notin {"ack_mark", "ack_got"}
      BY <3>1 DEF Idle
    <3>3. task' = [task EXCEPT ![t] = d]
      BY <3>1
    <3> HIDE DEF d
    <3> QED BY <1>3, <2>2, <3>2, <3>3
  <2> QED BY <2>1, <2>3, <2>4 DEF DispatchTimeout, AckTimeout, CancelTimeout
<1>5. ASSUME NEW t \in Tasks, NEW s \in Sources, NEW x \in Runs, NEW b \in BOOLEAN, JobAck(s, x, b, t)
      PROVE  Framed'
  <2>0. wire \in [Sources -> [Runs -> AgentJobs]] /\ wire[s][x] \in AgentJobs /\ task \in [Tasks -> Calls]
    BY DEF TypeOK
  <2>1. /\ conn' = conn
        /\ s = "live" => ~Handling("live") /\ conn \in {"ready", "dead"}
        /\ \A r \in Runs : wire["live"][r].state = "running" => wire'["live"][r].state = "running"
    BY <1>5, <2>0 DEF JobAck, Receives, Sources
  <2>2. TameAgent
    BY <2>1 DEF TameAgent
  <2>3. CASE UNCHANGED task
    BY <1>2, <2>2, <2>3
  <2>4. ASSUME NEW d, task' = [task EXCEPT ![t] = d], SoundCall(d),
               s # "live" => d.root # "live",
               s = "live" => \A r \in Runs : Acks(d, r) => r = x /\ wire'["live"][x].state = "running"
        PROVE  Framed'
    <3>1. CASE s # "live"
      BY <2>2, <2>4, <3>1, TameFramed DEF TameCall
    <3>2. CASE s = "live"
      <4>1. \A u \in Tasks : task'[u] = IF u = t THEN d ELSE task[u]
        BY <2>0, <2>4
      <4>2. \A u \in Tasks : task[u].root # "live"
        BY <2>1, <3>2 DEF Handling
      <4> QED BY <2>1, <2>4, <3>2, <4>1, <4>2 DEF Framed, Handling
    <3> QED BY <3>1, <3>2
  <2>5. ASSUME NEW k, NEW e, Finalize(t, x, k, e, s, {}) PROVE Framed'
    <3> DEFINE d == [Idle EXCEPT !.pc = "final_write", !.run = x, !.status = e, !.root = s, !.todo = {}]
    <3>1. SoundCall(d) /\ d.pc = "final_write" /\ d.root = s
      BY DEF SoundCall, Idle
    <3>2. task' = [task EXCEPT ![t] = d]
      BY <2>5 DEF Finalize
    <3> HIDE DEF d
    <3> QED BY <2>4, <3>1, <3>2 DEF Acks
  <2>6. ASSUME NEW k, b, task' = [task EXCEPT ![t] = [Idle EXCEPT !.pc = "ack_mark", !.run = x, !.k = k, !.root = s]]
        PROVE  Framed'
    <3> DEFINE d == [Idle EXCEPT !.pc = "ack_mark", !.run = x, !.k = k, !.root = s]
    <3>1. SoundCall(d) /\ d.run = x /\ d.root = s
      BY DEF SoundCall, Idle
    <3>2. s = "live" => wire'["live"][x].state = "running"
      BY <1>5, <2>0, <2>6 DEF JobAck, AgentJobs
    <3> HIDE DEF d
    <3> QED BY <2>4, <2>6, <3>1, <3>2 DEF Acks, d
  <2> QED BY <1>5, <2>3, <2>5, <2>6 DEF JobAck
<1>6. ASSUME NEW t \in Tasks, NEW s \in Sources, NEW x \in Runs, NEW result, RunComplete(s, x, result, t)
      PROVE  Framed'
  <2>0. wire \in [Sources -> [Runs -> AgentJobs]] /\ task \in [Tasks -> Calls]
    BY DEF TypeOK
  <2>1. /\ conn' = conn
        /\ s = "live" => ~Handling("live") /\ conn \in {"ready", "dead"}
        /\ s # "live" => \A r \in Runs : wire'["live"][r] = wire["live"][r]
    BY <1>6, <2>0 DEF RunComplete, Receives, Sources
  <2>2. CASE UNCHANGED task
    <3>1. TameAgent
      BY <2>1, <2>2 DEF TameAgent, Handling
    <3> QED BY <1>2, <2>2, <3>1
  <2>3. ASSUME NEW d, task' = [task EXCEPT ![t] = d], SoundCall(d), d.root = s,
               d.pc \notin {"ack_mark", "ack_got"}
        PROVE  Framed'
    <3>1. CASE s # "live"
      <4>1. TameAgent
        BY <2>1, <3>1 DEF TameAgent
      <4> QED BY <2>3, <3>1, <4>1, TameFramed DEF TameCall
    <3>2. CASE s = "live"
      <4>1. \A u \in Tasks : task'[u] = IF u = t THEN d ELSE task[u]
        BY <2>0, <2>3
      <4>2. \A u \in Tasks : task[u].root # "live"
        BY <2>1, <3>2 DEF Handling
      <4> QED BY <2>1, <2>3, <3>2, <4>1, <4>2 DEF Framed, Handling, Acks
    <3> QED BY <3>1, <3>2
  <2>4. ASSUME NEW k, NEW e, Finalize(t, x, k, e, s, {}) PROVE Framed'
    <3> DEFINE d == [Idle EXCEPT !.pc = "final_write", !.run = x, !.status = e, !.root = s, !.todo = {}]
    <3>1. SoundCall(d) /\ d.pc = "final_write" /\ d.root = s
      BY DEF SoundCall, Idle
    <3>2. task' = [task EXCEPT ![t] = d]
      BY <2>4 DEF Finalize
    <3> HIDE DEF d
    <3> QED BY <2>3, <3>1, <3>2
  <2>5. ASSUME NEW k, task' = [task EXCEPT ![t] = [Idle EXCEPT !.pc = "reconcile", !.run = x, !.k = k, !.root = s]]
        PROVE  Framed'
    <3> DEFINE d == [Idle EXCEPT !.pc = "reconcile", !.run = x, !.k = k, !.root = s]
    <3>1. SoundCall(d) /\ d.pc = "reconcile" /\ d.root = s
      BY DEF SoundCall, Idle
    <3> HIDE DEF d
    <3> QED BY <2>3, <2>5, <3>1 DEF d
  <2> QED BY <1>6, <2>2, <2>4, <2>5 DEF RunComplete
<1>7. ASSUME NEW s, NEW x, RejectFrame(s, x) PROVE Framed'
  BY <1>2, <1>7 DEF RejectFrame, TameAgent
<1>8. ASSUME NEW t \in Tasks, CloseSession(t) \/ Attach(t) PROVE Framed'
  <2>1. CASE \E root \in {"lost", "supersede"} : LoseSession(root, t)
    BY <2>1, SessionFramed
  <2>2. CASE Attach(t) /\ conn = "down" /\ UNCHANGED <<wire, task>>
    <3>1. TameAgent
      BY <2>2 DEF TameAgent
    <3> QED BY <1>2, <2>2, <3>1
  <2> QED BY <1>8, <2>1, <2>2 DEF CloseSession, Attach
<1>9. ASSUME NEW t \in Tasks, SessionReady(t) PROVE Framed'
  <2>1. PICK d : task' = [task EXCEPT ![t] = d] /\ Resumed(d, "void", {})
    BY <1>9, CallsResume DEF SessionReady
  <2>2. TameAgent
    BY <1>9 DEF SessionReady, TameAgent
  <2> QED BY <1>3, <2>1, <2>2 DEF Resumed
<1>10. CASE AttachFails \/ SocketDies \/ OldFramesEnd \/ \E x \in Runs : FrameLost(x)
  <2>1. UNCHANGED task
    BY <1>10 DEF AttachFails, SocketDies, OldFramesEnd, FrameLost
  <2>2. TameAgent
    <3>1. CASE conn = "attaching"
      BY <2>1, <3>1 DEF TameAgent, Framed, Handling
    <3>2. CASE conn # "attaching"
      BY <1>10, <3>2 DEF AttachFails, SocketDies, OldFramesEnd, FrameLost, TameAgent, TypeOK, Sources
    <3> QED BY <3>1, <3>2
  <2> QED BY <1>2, <2>1, <2>2
<1>11. ASSUME NEW t \in Tasks, NEW x \in Runs, StartRun(x, t) \/ CancelRun(x, t) PROVE Framed'
  <2>1. PICK d : /\ task' = [task EXCEPT ![t] = d]
                 /\ d.root = "http" /\ d.todo = {} /\ d.pc \in {"enqueue_load", "cancel_call"}
    <3>1. \A p : LET d == [Idle EXCEPT !.pc = p, !.run = x, !.root = "http"] IN d.root = "http" /\ d.todo = {} /\ d.pc = p
      BY DEF Idle
    <3> QED BY <1>11, <3>1 DEF StartRun, CancelRun
  <2>2. TameAgent
    BY <1>11 DEF StartRun, CancelRun, TameAgent
  <2> QED BY <1>3, <2>1, <2>2
<1>12. ASSUME NEW r, NEW p, PolicyDrift(r, p) PROVE Framed'
  BY <1>2, <1>12 DEF PolicyDrift, TameAgent
<1>13. CASE Crash
  BY <1>13, HubRestartFramed DEF Crash
<1>14. CASE UNCHANGED vars
  BY <1>2, <1>14 DEF vars, TameAgent
<1> QED BY <1>1, <1>4, <1>5, <1>6, <1>7, <1>8, <1>9, <1>10, <1>11, <1>12, <1>13, <1>14
        DEF Next, FrameArrives, SessionEvent
-----------------------------------------------------------------------------
\* A snapshot that is not PENDING is of a row that has begun, and so is the row of
\* an ack that came too late.
Snapshots ==
  \A t \in Tasks :
    \/ task[t].pc = "dispatch_got" /\ task[t].status # "PENDING"
    \/ task[t].pc = "ack_got" /\ task[t].status # "RUNNING"
    => task[t].run \in Begun

\* What the run r sees of a call c that becomes d, when nothing happens to it.
Passes(c, d, r) ==
  /\ Ends(c, r) => Ends(d, r)
  /\ Cares(c, r) => Cares(d, r) \/ Ends(d, r)
  /\ Acks(d, r) => Acks(c, r) /\ d.pc = c.pc /\ d.status = c.status /\ d.root = c.root

\* The row, the slot and the agent's job of r are left alone.
Untouched(r) ==
  /\ conn' \in {"down", "attaching"} => conn \in {"down", "attaching"}
  /\ status'[r] = status[r]
  /\ inFlight'[r] = inFlight[r]
  /\ Assigned(r) => Assigned(r)'
  /\ \A s \in Sources : wire'[s][r].state = "assigned" => wire[s][r].state = "assigned"

\* A step in which nothing happens to the run r.
Quiet(r) ==
  /\ Untouched(r)
  /\ r \in queuedJobs /\ status[r] = "PENDING" =>
       r \in queuedJobs' \/ \E t \in Tasks : Cares(task'[t], r)
  /\ \A t \in Tasks : Passes(task[t], task'[t], r)

\* The steps that do something to it without ending it.
Special(r) ==
  \/ HubRestart
  \/ \E t \in Tasks : StartRun(r, t)
  \/ \E t \in Tasks, s \in Sources : Assigned(r) /\ JobAck(s, r, TRUE, t)
  \/ \E t \in Tasks : task[t].run = r /\ (EnqueuePush(t) \/ AckMark(t) \/ AckGot(t) \/ DispatchSend(t))
  \/ /\ inFlight[r] = 0 /\ UNCHANGED <<status, queuedJobs>>
     /\ \E t \in Tasks, root \in {"lost", "supersede"} : Spawnable(t) /\ LoseSession(root, t)

Effect(r) == Quiet(r) \/ Doomed(r)' \/ Special(r)

LEMMA QuietCall ==
  ASSUME TypeOK, NEW r \in Runs, NEW t \in Tasks, NEW d, task' = [task EXCEPT ![t] = d],
         Passes(task[t], d, r), Untouched(r),
         r \in queuedJobs /\ status[r] = "PENDING" => r \in queuedJobs' \/ Cares(d, r)
  PROVE  Quiet(r)
<1>1. \A u \in Tasks : task'[u] = IF u = t THEN d ELSE task[u]
  BY DEF TypeOK
<1>2. \A u \in Tasks : Passes(task[u], task[u], r)
  BY DEF Passes
<1>3. \A u \in Tasks : Passes(task[u], task'[u], r)
  BY <1>1, <1>2
<1>4. Cares(d, r) => \E u \in Tasks : Cares(task'[u], r)
  BY <1>1
<1> QED BY <1>3, <1>4 DEF Quiet

LEMMA QuietStill ==
  ASSUME NEW r \in Runs, Untouched(r), UNCHANGED <<task, queuedJobs>>
  PROVE  Quiet(r)
BY DEF Quiet, Passes

LEMMA ResumedPasses ==
  ASSUME NEW c, NEW d, NEW r, Resumed(d, c.root, c.todo), ~Cares(c, r),
         c.pc = "final_write" => c.run # r
  PROVE  Passes(c, d, r)
BY DEF Resumed, Passes, Ends, Acks

LEMMA SpawnPasses ==
  ASSUME Framed, NEW t \in Tasks, Spawnable(t), NEW d, NEW r, ~Acks(d, r)
  PROVE  Passes(task[t], d, r)
BY DEF Framed, SoundCall, Spawnable, Passes, Ends, Cares

LEMMA EndsDooms ==
  ASSUME TypeOK, NEW r \in Runs, NEW t \in Tasks, NEW d, task' = [task EXCEPT ![t] = d], Ends(d, r)
  PROVE  Doomed(r)'
<1>1. task'[t] = d
  BY DEF TypeOK
<1> QED BY <1>1 DEF Doomed

LEMMA TerminalDooms ==
  ASSUME TypeOK, NEW r \in Runs, NEW s \in {"FAILED", "CANCELLED", "COMPLETED"},
         status' = IF Writable(r) THEN [status EXCEPT ![r] = s] ELSE status
  PROVE  Doomed(r)'
<1>1. s \in Terminal
  BY DEF Terminal, Lifecycle!Terminal
<1>2. status'[r] \in Terminal
  BY <1>1 DEF TypeOK, Writable
<1>3. Terminal' = Terminal
  BY DEF Terminal, Lifecycle!Terminal
<1> QED BY <1>2, <1>3 DEF Doomed

LEMMA FinalizeEffect ==
  ASSUME TypeOK, Framed, NEW r \in Runs, NEW t \in Tasks, NEW x \in Runs, NEW k, NEW e, NEW root, NEW todo,
         Finalize(t, x, k, e, root, todo), UNCHANGED <<status, queuedJobs, agentVars>>,
         \A j \in EntryIds : r # x /\ <<r, j>> \in task[t].todo => <<r, j>> \in todo,
         task[t].pc # "final_write", ~Cares(task[t], r)
  PROVE  Effect(r)
<1> DEFINE d == [Idle EXCEPT !.pc = "final_write", !.run = x, !.status = e, !.root = root, !.todo = todo]
<1>1. d.pc = "final_write" /\ d.run = x /\ d.todo = todo /\ task' = [task EXCEPT ![t] = d]
  BY DEF Finalize, Idle
<1> HIDE DEF d
<1>2. CASE r = x
  BY <1>1, <1>2, EndsDooms DEF Ends, Effect
<1>3. CASE r # x
  <2>1. Passes(task[t], d, r)
    BY <1>1, <1>3 DEF Passes, Ends, Acks
  <2>2. Untouched(r)
    BY <1>3 DEF Finalize, Untouched, Assigned, TypeOK, agentVars
  <2> QED BY <1>1, <2>1, <2>2, QuietCall DEF Effect
<1> QED BY <1>2, <1>3

LEMMA ThrowEffect ==
  ASSUME TypeOK, Framed, NEW r \in Runs, NEW t \in Tasks, Throw(t), ~Cares(task[t], r),
         task[t].pc = "final_write" => task[t].run # r
  PROVE  Effect(r)
<1>1. CASE HubRestart
  BY <1>1 DEF Effect, Special
<1>2. CASE ~HubRestart
  <2>1. /\ task' = [task EXCEPT ![t] = Returned(task[t].root, task[t].todo)]
        /\ UNCHANGED <<dbVars, queueVars, flightVars, agentVars>>
    BY <1>2 DEF Throw
  <2>2. Untouched(r)
    BY <2>1 DEF Untouched, Assigned, dbVars, flightVars, agentVars
  <2>3. Passes(task[t], Returned(task[t].root, task[t].todo), r)
    BY CallsResume, ResumedPasses
  <2> QED BY <2>1, <2>2, <2>3, QuietCall DEF Effect, queueVars
<1> QED BY <1>1, <1>2

\* What a step of the hub's own calls does to a run.
LEMMA TaskEffect ==
  ASSUME TypeOK, Knowledge, Framed, Snapshots, NEW r \in Runs, NEW t \in Tasks, TaskStep(t)
  PROVE  Effect(r)
<1> USE DEF agentVars, dbVars, flightVars, queueVars
<1>0. /\ task \in [Tasks -> Calls] /\ task[t] \in Calls /\ SoundCall(task[t])
      /\ status \in [Runs -> Lifecycle!Statuses] /\ queuedJobs \subseteq Runs
  BY DEF TypeOK, Framed
<1>1. ASSUME NEW d, task' = [task EXCEPT ![t] = d], Passes(task[t], d, r),
             status'[r] = status[r], UNCHANGED <<flightVars, agentVars>>,
             r \in queuedJobs /\ status[r] = "PENDING" => r \in queuedJobs' \/ Cares(d, r)
      PROVE  Effect(r)
  <2>1. Untouched(r)
    BY <1>1 DEF Untouched, Assigned
  <2> QED BY <1>1, <2>1, QuietCall DEF Effect
<1>2. CASE LoadJob(t)
  <2>1. PICK p, s, c : /\ task' = [task EXCEPT ![t] = [task[t] EXCEPT !.pc = p, !.status = s, !.cancel = c]]
                       /\ task[t].pc \in {"enqueue_load", "dispatch_load"}
                       /\ p = IF task[t].pc = "enqueue_load" THEN "enqueue_got" ELSE "dispatch_got"
    BY <1>0, <1>2 DEF LoadJob
  <2> DEFINE d == [task[t] EXCEPT !.pc = p, !.status = s, !.cancel = c]
  <2>2. d.pc = p /\ d.run = task[t].run /\ d.todo = task[t].todo
    BY <1>0 DEF Calls
  <2>3. task' = [task EXCEPT ![t] = d]
    BY <2>1
  <2> HIDE DEF d
  <2>4. Passes(task[t], d, r)
    BY <2>1, <2>2 DEF Passes, Ends, Cares, Acks
  <2> QED BY <1>1, <1>2, <2>3, <2>4 DEF LoadJob
<1>3. CASE LoadJobGone(t)
  <2> DEFINE d == [task[t] EXCEPT !.pc = "load_fail"]
  <2>1. d.pc = "load_fail" /\ d.run = task[t].run /\ d.todo = task[t].todo
    BY <1>0 DEF Calls
  <2>2. Passes(task[t], d, r)
    BY <1>3, <2>1 DEF Passes, Ends, Cares, Acks, LoadJobGone
  <2>3. task' = [task EXCEPT ![t] = d]
    BY <1>0, <1>3 DEF LoadJobGone
  <2> HIDE DEF d
  <2> QED BY <1>1, <1>3, <2>2, <2>3 DEF LoadJobGone
<1>4. CASE LoadFail(t) \/ QueuedWrite(t)
  <2>1. task[t].run \in Runs /\ task[t].pc \in {"load_fail", "queued_write"}
    BY <1>0, <1>4 DEF LoadFail, QueuedWrite, Calls, WellFormed
  <2>2. CASE r = task[t].run
    <3>1. QueuedWrite(t) => task[t].status \in {"FAILED", "CANCELLED"}
      BY DEF QueuedWrite, Knowledge, Knows
    <3> QED BY <1>4, <2>2, <3>1, TerminalDooms DEF LoadFail, QueuedWrite, Effect
  <2>3. CASE r # task[t].run
    <3>1. PICK d : task' = [task EXCEPT ![t] = d] /\ (Resumed(d, task[t].root, task[t].todo) \/ (d = Idle /\ task[t].todo = {}))
      <4>1. task[t].arr = NoArray => task[t].todo = {}
        BY <1>0, <2>1 DEF SoundCall
      <4>2. \/ task[t].arr = NoArray /\ task' = [task EXCEPT ![t] = Idle]
            \/ \E c : task' = [task EXCEPT ![t] = NextIteration(task[t], c)]
        BY <1>4 DEF LoadFail, QueuedWrite, DequeueAndContinue
      <4> QED BY <4>1, <4>2, CallsResume
    <3>2. Passes(task[t], d, r)
      <4>1. ~Cares(task[t], r) /\ task[t].pc # "final_write"
        BY <2>1, <2>3 DEF Cares
      <4>2. CASE Resumed(d, task[t].root, task[t].todo)
        BY <4>1, <4>2, ResumedPasses
      <4>3. CASE d = Idle /\ task[t].todo = {}
        <5>1. d.pc = "idle"
          BY <4>3 DEF Idle
        <5> QED BY <4>1, <4>3, <5>1 DEF Passes, Ends, Acks
      <4> QED BY <3>1, <4>2, <4>3
    <3>3. status'[r] = status[r] /\ (r \in queuedJobs => r \in queuedJobs') /\ UNCHANGED <<flightVars, agentVars>>
      BY <1>0, <1>4, <2>1, <2>3 DEF LoadFail, QueuedWrite, DequeueAndContinue, Unqueue
    <3> QED BY <1>1, <3>1, <3>2, <3>3
  <2> QED BY <2>2, <2>3
<1>5. CASE EnqueueRefuse(t)
  <2>1. PICK s : task' = [task EXCEPT ![t] = [Idle EXCEPT !.pc = "queued_write", !.run = task[t].run,
                                                     !.status = s, !.root = "http"]]
    BY <1>5 DEF EnqueueRefuse
  <2> DEFINE d == [Idle EXCEPT !.pc = "queued_write", !.run = task[t].run, !.status = s, !.root = "http"]
  <2>2. d.run = task[t].run /\ d.pc = "queued_write" /\ d.todo = {}
    BY DEF Idle
  <2>3. Passes(task[t], d, r)
    BY <1>0, <1>5, <2>2 DEF Passes, Ends, Cares, Acks, EnqueueRefuse, SoundCall
  <2>4. task' = [task EXCEPT ![t] = d]
    BY <2>1
  <2> HIDE DEF d
  <2> QED BY <1>1, <1>5, <2>3, <2>4 DEF EnqueueRefuse
<1>6. CASE EnqueuePush(t)
  <2>1. PICK d : task' = [task EXCEPT ![t] = d] /\ Resumed(d, "http", {})
    BY <1>6, CallsResume DEF EnqueuePush
  <2>2. task[t].pc = "enqueue_got" /\ task[t].todo = {} /\ UNCHANGED <<status, flightVars, agentVars>>
        /\ queuedJobs' = queuedJobs \cup {task[t].run}
    BY <1>0, <1>6 DEF EnqueuePush, SoundCall
  <2>3. CASE r # task[t].run
    <3>1. Passes(task[t], d, r)
      BY <2>1, <2>2, <2>3 DEF Resumed, Passes, Ends, Acks, Cares
    <3> QED BY <1>1, <2>1, <2>2, <3>1
  <2>4. CASE r = task[t].run
    BY <1>6, <2>4 DEF Effect, Special
  <2> QED BY <2>3, <2>4
<1>7. CASE DispatchDiscard(t) \/ DispatchWait(t) \/ DispatchSendFails(t)
  <2>1. PICK d : task' = [task EXCEPT ![t] = d] /\ Resumed(d, task[t].root, task[t].todo)
    BY <1>7, CallsResume DEF DispatchDiscard, DispatchWait, DispatchSendFails, DequeueAndContinue
  <2>2. task[t].pc = "dispatch_got"
    BY <1>7 DEF DispatchDiscard, DispatchWait, DispatchSendFails, Dispatchable
  <2>3. Passes(task[t], d, r)
    BY <2>1, <2>2, ResumedPasses DEF Cares
  <2>4. r \in queuedJobs /\ status[r] = "PENDING" => r \in queuedJobs'
    <3>1. DispatchDiscard(t) => task[t].run \in Begun /\ queuedJobs' = queuedJobs \ {task[t].run}
      BY <2>2 DEF DispatchDiscard, DequeueAndContinue, Unqueue, Snapshots
    <3> QED BY <1>7, <3>1 DEF DispatchWait, DispatchSendFails, Begun
  <2>5. Untouched(r)
    BY <1>7 DEF DispatchDiscard, DispatchWait, DispatchSendFails, Untouched, Assigned
  <2> QED BY <2>1, <2>3, <2>4, <2>5, QuietCall DEF Effect
<1>8. CASE DispatchRefuse(t)
  <2>1. PICK s, c : task' = [task EXCEPT ![t] = [task[t] EXCEPT !.pc = "queued_write", !.status = s,
                                                                !.cancel = c]]
    BY <1>0, <1>8 DEF DispatchRefuse
  <2> DEFINE d == [task[t] EXCEPT !.pc = "queued_write", !.status = s, !.cancel = c]
  <2>2. d.pc = "queued_write" /\ d.run = task[t].run /\ d.todo = task[t].todo
    BY <1>0 DEF Calls
  <2>3. Passes(task[t], d, r)
    BY <1>8, <2>2 DEF Passes, Ends, Cares, Acks, DispatchRefuse
  <2>4. r \in queuedJobs => r \in queuedJobs' \/ Cares(d, r)
    BY <1>8, <2>2 DEF DispatchRefuse, Dequeue, Unqueue, Cares
  <2>5. task' = [task EXCEPT ![t] = d] /\ UNCHANGED <<dbVars, flightVars, agentVars>>
    BY <1>8, <2>1 DEF DispatchRefuse
  <2> HIDE DEF d
  <2> QED BY <1>1, <2>3, <2>4, <2>5
<1>9. CASE DispatchSend(t)
  <2>1. CASE r = task[t].run
    BY <1>9, <2>1 DEF Effect, Special
  <2>2. CASE r # task[t].run
    <3>1. task[t].pc = "dispatch_got" /\ task[t].run \in Runs
      BY <1>0, <1>9 DEF DispatchSend, Dispatchable, Calls, WellFormed
    <3>2. PICK d : task' = [task EXCEPT ![t] = d] /\ Passes(task[t], d, r)
      <4>1. CASE \E c : task' = [task EXCEPT ![t] = NextIteration(task[t], c)]
        BY <3>1, <4>1, CallsResume, ResumedPasses DEF Cares
      <4>2. CASE task' = [task EXCEPT ![t].pc = "stamp", ![t].status = "ABSENT"]
        <5> DEFINE d == [task[t] EXCEPT !.pc = "stamp", !.status = "ABSENT"]
        <5>1. d.pc = "stamp" /\ d.run = task[t].run /\ d.todo = task[t].todo
          BY <1>0 DEF Calls
        <5>2. Passes(task[t], d, r) /\ task' = [task EXCEPT ![t] = d]
          BY <1>0, <2>2, <3>1, <4>2, <5>1 DEF Passes, Ends, Cares, Acks
        <5> QED BY <5>2
      <4> QED BY <1>9, <4>1, <4>2 DEF DispatchSend
    <3>3. Untouched(r)
      BY <1>9, <2>2, <3>1 DEF DispatchSend, Untouched, Assigned, TypeOK, Sources
    <3>4. r \in queuedJobs => r \in queuedJobs'
      BY <1>9, <2>2 DEF DispatchSend, Unqueue
    <3> QED BY <3>2, <3>3, <3>4, QuietCall DEF Effect
  <2> QED BY <2>1, <2>2
<1>10. CASE Stamp(t) \/ FinalWrite(t)
  <2>1. task[t].run \in Runs /\ task[t].pc \in {"stamp", "final_write"}
    BY <1>0, <1>10 DEF Stamp, FinalWrite, Calls, WellFormed
  <2>2. CASE task[t].pc = "final_write" /\ r = task[t].run
    <3>1. task[t].status \in {"FAILED", "CANCELLED", "COMPLETED"}
      BY <2>2 DEF Knowledge, Knows
    <3>2. CASE HubRestart
      BY <3>2 DEF Effect, Special
    <3>3. CASE ~HubRestart
      <4>1. status' = IF Writable(r) THEN [status EXCEPT ![r] = task[t].status] ELSE status
        BY <1>10, <2>2, <3>3 DEF Stamp, FinalWrite, Throw, WriteStatus
      <4> QED BY <3>1, <4>1, TerminalDooms DEF Effect
    <3> QED BY <3>2, <3>3
  <2>3. CASE ~(task[t].pc = "final_write" /\ r = task[t].run)
    <3>1. CASE Throw(t)
      BY <2>1, <2>3, <3>1, ThrowEffect DEF Cares
    <3>2. CASE ~Throw(t)
      <4>1. PICK d : task' = [task EXCEPT ![t] = d] /\ Resumed(d, task[t].root, task[t].todo)
        BY <1>10, <3>2, CallsResume DEF Stamp, FinalWrite
      <4>2. Passes(task[t], d, r)
        BY <2>1, <2>3, <4>1, ResumedPasses DEF Cares
      <4>3. status'[r] = status[r] /\ UNCHANGED <<queuedJobs, flightVars, agentVars>>
        BY <1>0, <1>10, <2>1, <2>3, <3>2 DEF Stamp, FinalWrite, WriteStatus
      <4> QED BY <1>1, <4>1, <4>2, <4>3
    <3> QED BY <3>1, <3>2
  <2> QED BY <2>2, <2>3
<1>11. CASE LostNext(t)
  <2>1. PICK h \in task[t].todo : Finalize(t, h[1], h[2], "FAILED", task[t].root, task[t].todo \ {h})
    BY <1>11 DEF LostNext
  <2>2. h[1] \in Runs
    BY <1>0 DEF Calls, Handles
  <2>3. \A j \in EntryIds : r # h[1] /\ <<r, j>> \in task[t].todo => <<r, j>> \in task[t].todo \ {h}
    OBVIOUS
  <2> QED BY <1>11, <2>1, <2>2, <2>3, FinalizeEffect DEF LostNext, Cares
<1>12. CASE AutoGrouped(t) \/ Reconciled(t)
  <2>1. task[t].run \in Runs /\ task[t].pc \in {"auto_groups", "reconcile"} /\ task[t].todo = {}
    BY <1>0, <1>12 DEF AutoGrouped, Reconciled, Calls, WellFormed, SoundCall
  <2>2. CASE \E k, e : Finalize(t, task[t].run, k, e, task[t].root, {})
    BY <1>12, <2>1, <2>2, FinalizeEffect DEF Cares, AutoGrouped, Reconciled
  <2>3. CASE Reconciled(t) /\ task' = [task EXCEPT ![t] = Idle] /\ UNCHANGED flightVars
    <3>1. Passes(task[t], Idle, r)
      BY <2>1 DEF Passes, Ends, Cares, Acks, Idle
    <3> QED BY <1>1, <2>3, <3>1 DEF Reconciled
  <2>4. CASE Reconciled(t) /\ task' = [task EXCEPT ![t].pc = "auto_groups"] /\ UNCHANGED flightVars
    <3> DEFINE d == [task[t] EXCEPT !.pc = "auto_groups"]
    <3>1. d.pc = "auto_groups" /\ d.todo = task[t].todo
      BY <1>0 DEF Calls
    <3>2. Passes(task[t], d, r) /\ task' = [task EXCEPT ![t] = d]
      BY <1>0, <2>1, <2>4, <3>1 DEF Passes, Ends, Cares, Acks
    <3> HIDE DEF d
    <3> QED BY <1>1, <2>4, <3>2 DEF Reconciled
  <2> QED BY <1>12, <2>2, <2>3, <2>4 DEF AutoGrouped, Reconciled
<1>13. CASE CancelRemoteRun(t)
  <2>1. task[t].run \in Runs /\ task[t].pc = "cancel_call" /\ task[t].todo = {}
    BY <1>0, <1>13 DEF CancelRemoteRun, Calls, WellFormed, SoundCall
  <2>2. Untouched(r)
    <3>1. \A s \in Sources : wire'[s][r].state = wire[s][r].state
      BY <1>13, <2>1, SendCancelKeeps DEF CancelRemoteRun
    <3>2. Assigned(r) => Assigned(r)'
      <4> DEFINE x == task[t].run
                 k == inFlight[x]
      <4>1. entry \in [Runs -> [EntryIds -> Entries]] /\ inFlight \in [Runs -> EntryIds \cup {0}]
        BY DEF TypeOK
      <4>2. CASE UNCHANGED entry
        BY <1>13, <4>2 DEF CancelRemoteRun, Assigned
      <4>3. CASE k # 0 /\ entry' = [entry EXCEPT ![x][k] = CancelMarked(@)]
        <5>1. k \in EntryIds /\ entry[x][k] \in Entries
          BY <2>1, <4>1, <4>3
        <5>2. CancelMarked(entry[x][k]).state = entry[x][k].state
          BY <5>1 DEF CancelMarked, Entries
        <5>3. entry'[r] = IF r = x THEN [entry[x] EXCEPT ![k] = CancelMarked(entry[x][k])] ELSE entry[r]
          BY <2>1, <4>1, <4>3
        <5>4. inFlight[r] # 0 => entry'[r][inFlight[r]].state = entry[r][inFlight[r]].state
          BY <4>1, <5>1, <5>2, <5>3
        <5> QED BY <1>13, <5>4 DEF Assigned, CancelRemoteRun
      <4> QED BY <1>13, <4>2, <4>3 DEF CancelRemoteRun
    <3> QED BY <1>13, <3>1, <3>2 DEF CancelRemoteRun, Untouched
  <2>3. CASE task' = [task EXCEPT ![t] = Idle] /\ UNCHANGED queueVars
    <3>1. Passes(task[t], Idle, r)
      BY <2>1 DEF Passes, Ends, Cares, Acks, Idle
    <3> QED BY <2>2, <2>3, <3>1, QuietCall DEF Effect
  <2>4. CASE task' = [task EXCEPT ![t].pc = "queued_write", ![t].status = "CANCELLED"] /\ Dequeue(task[t].run)
    <3> DEFINE d == [task[t] EXCEPT !.pc = "queued_write", !.status = "CANCELLED"]
    <3>1. d.pc = "queued_write" /\ d.run = task[t].run /\ d.todo = task[t].todo
      BY <1>0 DEF Calls
    <3>2. Passes(task[t], d, r) /\ task' = [task EXCEPT ![t] = d]
      BY <1>0, <2>1, <2>4, <3>1 DEF Passes, Ends, Cares, Acks
    <3>3. r \in queuedJobs => r \in queuedJobs' \/ Cares(d, r)
      BY <2>4, <3>1 DEF Dequeue, Unqueue, Cares
    <3> HIDE DEF d
    <3> QED BY <2>2, <3>2, <3>3, QuietCall DEF Effect
  <2> QED BY <1>13, <2>3, <2>4 DEF CancelRemoteRun
<1>14. CASE AckMark(t) \/ AckGot(t)
  <2>1. CASE r = task[t].run
    BY <1>14, <2>1 DEF Effect, Special
  <2>2. CASE r # task[t].run
    <3>1. /\ task[t].run \in Runs /\ task[t].pc \in {"ack_mark", "ack_got"} /\ task[t].todo = {}
          /\ task[t].k \in EntryIds
      <4>1. task[t].pc \in {"ack_mark", "ack_got"}
        BY <1>14 DEF AckMark, AckGot
      <4> QED BY <1>0, <4>1 DEF Calls, WellFormed, SoundCall
    <3>2. PICK d : task' = [task EXCEPT ![t] = d] /\ d.run # r /\ d.todo = {} /\ d.pc # "final_write"
      <4>1. CASE AckGot(t)
        <5>1. Idle.run # r /\ Idle.todo = {} /\ Idle.pc = "idle"
          BY RemoteAssumption DEF Idle
        <5>2. task' = [task EXCEPT ![t] = Idle]
          BY <4>1 DEF AckGot
        <5> QED BY <5>1, <5>2
      <4>2. CASE AckMark(t)
        <5>1. PICK s : task' = [task EXCEPT ![t] = [task[t] EXCEPT !.pc = "ack_got", !.status = s]]
          BY <1>0, <4>2 DEF AckMark
        <5> DEFINE d == [task[t] EXCEPT !.pc = "ack_got", !.status = s]
        <5>2. d.run = task[t].run /\ d.todo = task[t].todo /\ d.pc = "ack_got"
          BY <1>0 DEF Calls
        <5>3. task' = [task EXCEPT ![t] = d]
          BY <5>1
        <5> HIDE DEF d
        <5> QED BY <2>2, <3>1, <5>2, <5>3
      <4> QED BY <1>14, <4>1, <4>2
    <3>3. Passes(task[t], d, r)
      BY <2>2, <3>1, <3>2 DEF Passes, Ends, Cares, Acks
    <3>4. Untouched(r)
      <4>1. \A s \in Sources : wire'[s][r].state = wire[s][r].state
        BY <1>14, <3>1, SendCancelKeeps DEF AckMark, AckGot
      <4> QED BY <1>14, <2>2, <3>1, <4>1 DEF AckMark, AckGot, Untouched, Assigned, TypeOK
    <3> QED BY <1>14, <3>2, <3>3, <3>4, QuietCall DEF AckMark, AckGot, Effect
  <2> QED BY <2>1, <2>2
<1> QED BY <1>2, <1>3, <1>4, <1>5, <1>6, <1>7, <1>8, <1>9, <1>10, <1>11, <1>12, <1>13, <1>14
        DEF TaskStep

\* What any step does to a run.
LEMMA EffectStep ==
  ASSUME TypeOK, Knowledge, Framed, Snapshots, NEW r \in Runs, [Next]_vars
  PROVE  Effect(r)
<1> USE DEF agentVars, dbVars, flightVars, queueVars
<1>0. /\ task \in [Tasks -> Calls] /\ status \in [Runs -> Lifecycle!Statuses]
      /\ entry \in [Runs -> [EntryIds -> Entries]] /\ inFlight \in [Runs -> EntryIds \cup {0}]
      /\ wire \in [Sources -> [Runs -> AgentJobs]]
  BY DEF TypeOK
<1>1. ASSUME Untouched(r), UNCHANGED <<task, queuedJobs>> PROVE Effect(r)
  BY <1>1, QuietStill DEF Effect
<1>2. ASSUME NEW t \in Tasks, Spawnable(t), NEW d, task' = [task EXCEPT ![t] = d], ~Acks(d, r),
             Untouched(r), r \in queuedJobs => r \in queuedJobs' \/ Cares(d, r)
      PROVE  Effect(r)
  BY <1>2, SpawnPasses, QuietCall DEF Effect
<1>3. ASSUME NEW t \in Tasks, Spawnable(t), NEW x \in Runs, NEW d, task' = [task EXCEPT ![t] = d],
             d.pc = "final_write", d.run = x, r # x => Untouched(r), UNCHANGED queuedJobs
      PROVE  Effect(r)
  <2>1. CASE r = x
    BY <1>3, <2>1, EndsDooms DEF Ends, Effect
  <2>2. CASE r # x
    BY <1>2, <1>3, <2>2 DEF Acks
  <2> QED BY <2>1, <2>2
<1>4. ASSUME NEW f \in [Runs -> [EntryIds -> Entries]], NEW x \in Runs, NEW k \in EntryIds
      PROVE  /\ \A j \in EntryIds : [f EXCEPT ![x][k].ackTimer = FALSE][r][j].state = f[r][j].state
             /\ \A j \in EntryIds : [f EXCEPT ![x][k].cancelTimer = FALSE][r][j].state = f[r][j].state
  <2>1. f[r] \in [EntryIds -> Entries] /\ f[x][k] \in Entries
    BY <1>4
  <2> QED BY <2>1 DEF Entries
<1>5. ASSUME NEW t \in Tasks, NEW x \in Runs, DispatchTimeout(x, t) PROVE Effect(r)
  <2>1. Untouched(r)
    BY <1>5 DEF DispatchTimeout, Untouched, Assigned
  <2>2. CASE x \notin queuedJobs
    BY <1>1, <1>5, <2>1, <2>2 DEF DispatchTimeout
  <2>3. CASE x \in queuedJobs
    <3> DEFINE d == [Idle EXCEPT !.pc = "queued_write", !.run = x, !.status = "FAILED", !.root = "void"]
    <3>1. d.pc = "queued_write" /\ d.run = x
      BY DEF Idle
    <3>2. task' = [task EXCEPT ![t] = d] /\ queuedJobs' = queuedJobs \ {x} /\ Spawnable(t)
      BY <1>5, <2>3 DEF DispatchTimeout, Dequeue, Unqueue
    <3> HIDE DEF d
    <3> QED BY <1>2, <2>1, <3>1, <3>2 DEF Acks, Cares
  <2> QED BY <2>2, <2>3
<1>6. ASSUME NEW t \in Tasks, NEW x \in Runs, NEW k \in EntryIds, AckTimeout(x, k, t) PROVE Effect(r)
  <2>1. CASE Assigned(x)
    <3>1. r # x => Untouched(r)
      BY <1>0, <1>6, <2>1, SendCancelKeeps DEF AckTimeout, Untouched, Assigned
    <3> DEFINE d == [Idle EXCEPT !.pc = "final_write", !.run = x, !.status = "FAILED", !.root = "void"]
    <3>2. d.pc = "final_write" /\ d.run = x
      BY DEF Idle
    <3>3. task' = [task EXCEPT ![t] = d] /\ Spawnable(t) /\ UNCHANGED queuedJobs
      BY <1>6, <2>1 DEF AckTimeout
    <3> HIDE DEF d
    <3> QED BY <1>3, <3>1, <3>2, <3>3
  <2>2. CASE ~Assigned(x)
    <3>1. Untouched(r)
      BY <1>0, <1>4, <1>6, <2>2 DEF AckTimeout, Untouched, Assigned
    <3> QED BY <1>1, <1>6, <2>2, <3>1 DEF AckTimeout
  <2> QED BY <2>1, <2>2
<1>7. ASSUME NEW t \in Tasks, NEW x \in Runs, NEW k \in EntryIds, CancelTimeout(x, k, t) PROVE Effect(r)
  <2>1. CASE inFlight[x] # 0
    <3>1. r # x => Untouched(r)
      BY <1>0, <1>7, <2>1 DEF CancelTimeout, Untouched, Assigned
    <3> DEFINE d == [Idle EXCEPT !.pc = "final_write", !.run = x, !.status = "FAILED", !.root = "void"]
    <3>2. d.pc = "final_write" /\ d.run = x
      BY DEF Idle
    <3>3. task' = [task EXCEPT ![t] = d] /\ Spawnable(t) /\ UNCHANGED queuedJobs
      BY <1>7, <2>1 DEF CancelTimeout
    <3> HIDE DEF d
    <3> QED BY <1>3, <3>1, <3>2, <3>3
  <2>2. CASE inFlight[x] = 0
    <3>1. Untouched(r)
      BY <1>0, <1>4, <1>7, <2>2 DEF CancelTimeout, Untouched, Assigned
    <3> QED BY <1>1, <1>7, <2>2, <3>1 DEF CancelTimeout
  <2> QED BY <2>1, <2>2
<1>8. ASSUME NEW t \in Tasks, NEW s \in Sources, NEW x \in Runs, NEW b \in BOOLEAN, JobAck(s, x, b, t)
      PROVE  Effect(r)
  <2>1. \A u \in Sources : wire'[u][r].state = "assigned" => wire[u][r].state = "assigned"
    <3>1. wire[s][x] \in AgentJobs
      BY <1>0
    <3> QED BY <1>0, <1>8, <3>1 DEF JobAck, AgentJobs, NoJob
  <2>2. CASE ~Assigned(x)
    BY <1>1, <1>8, <2>1, <2>2 DEF JobAck, Untouched, Assigned
  <2>3. CASE Assigned(x) /\ ~b
    <3>1. r # x => Untouched(r)
      BY <1>0, <1>8, <2>1, <2>3 DEF JobAck, Finalize, Untouched, Assigned
    <3> DEFINE e == IF entry[x][inFlight[x]].cancelRequested THEN "CANCELLED" ELSE "FAILED"
               d == [Idle EXCEPT !.pc = "final_write", !.run = x, !.status = e, !.root = s, !.todo = {}]
    <3>2. d.pc = "final_write" /\ d.run = x
      BY DEF Idle
    <3>3. task' = [task EXCEPT ![t] = d] /\ Spawnable(t) /\ UNCHANGED queuedJobs
      BY <1>8, <2>3 DEF JobAck, Finalize
    <3> HIDE DEF d
    <3> QED BY <1>3, <3>1, <3>2, <3>3
  <2>4. CASE Assigned(x) /\ b /\ r = x
    BY <1>8, <2>4 DEF Effect, Special
  <2>5. CASE Assigned(x) /\ b /\ r # x
    <3> DEFINE d == [Idle EXCEPT !.pc = "ack_mark", !.run = x, !.k = inFlight[x], !.root = s]
    <3>1. d.run = x
      BY DEF Idle
    <3>2. task' = [task EXCEPT ![t] = d] /\ Spawnable(t) /\ UNCHANGED queuedJobs
      BY <1>8, <2>5 DEF JobAck
    <3>3. Untouched(r)
      BY <1>0, <1>8, <2>1, <2>5 DEF JobAck, Untouched, Assigned
    <3> HIDE DEF d
    <3> QED BY <1>2, <2>5, <3>1, <3>2, <3>3 DEF Acks
  <2> QED BY <2>2, <2>3, <2>4, <2>5
<1>9. ASSUME NEW t \in Tasks, NEW s \in Sources, NEW x \in Runs, NEW result, RunComplete(s, x, result, t)
      PROVE  Effect(r)
  <2>1. \A u \in Sources : wire'[u][r].state = "assigned" => wire[u][r].state = "assigned"
    BY <1>0, <1>9 DEF RunComplete, NoJob
  <2>2. CASE UNCHANGED <<flightVars, task>>
    BY <1>1, <1>9, <2>1, <2>2 DEF RunComplete, Untouched, Assigned
  <2>3. CASE \E k, e : Finalize(t, x, k, e, s, {})
    <3>1. r # x => Untouched(r)
      BY <1>0, <1>9, <2>1, <2>3 DEF RunComplete, Finalize, Untouched, Assigned
    <3>2. PICK e : task' = [task EXCEPT ![t] = [Idle EXCEPT !.pc = "final_write", !.run = x, !.status = e,
                                                            !.root = s, !.todo = {}]]
      BY <2>3 DEF Finalize
    <3> DEFINE d == [Idle EXCEPT !.pc = "final_write", !.run = x, !.status = e, !.root = s, !.todo = {}]
    <3>3. d.pc = "final_write" /\ d.run = x
      BY DEF Idle
    <3>4. task' = [task EXCEPT ![t] = d] /\ Spawnable(t) /\ UNCHANGED queuedJobs
      BY <1>9, <3>2 DEF RunComplete
    <3> HIDE DEF d
    <3> QED BY <1>3, <3>1, <3>3, <3>4
  <2>4. CASE /\ task' = [task EXCEPT ![t] = [Idle EXCEPT !.pc = "reconcile", !.run = x, !.k = inFlight[x],
                                                         !.root = s]]
             /\ UNCHANGED flightVars
    <3> DEFINE d == [Idle EXCEPT !.pc = "reconcile", !.run = x, !.k = inFlight[x], !.root = s]
    <3>1. d.pc = "reconcile" /\ task' = [task EXCEPT ![t] = d]
      BY <2>4 DEF Idle
    <3>2. Untouched(r)
      BY <1>9, <2>1, <2>4 DEF RunComplete, Untouched, Assigned
    <3> HIDE DEF d
    <3> QED BY <1>2, <1>9, <3>1, <3>2 DEF Acks, RunComplete
  <2> QED BY <1>9, <2>2, <2>3, <2>4 DEF RunComplete
<1>10. ASSUME NEW t \in Tasks, CloseSession(t) \/ Attach(t) PROVE Effect(r)
  <2>1. CASE Attach(t) /\ conn = "down" /\ UNCHANGED <<wire, flightVars, task>>
    BY <1>1, <2>1 DEF Attach, Untouched, Assigned
  <2>2. ASSUME NEW root \in {"lost", "supersede"}, LoseSession(root, t), Spawnable(t),
               UNCHANGED <<status, queuedJobs>>
        PROVE  Effect(r)
    <3>1. CASE inFlight[r] = 0
      BY <2>2, <3>1 DEF Effect, Special
    <3>2. CASE inFlight[r] # 0
      <4> DEFINE own == <<r, inFlight[r]>>
                 orphaned == [u \in Tasks |->
                               IF task[u].root = "live" THEN [task[u] EXCEPT !.root = "old"]
                                                        ELSE task[u]]
                 final(h) == [Idle EXCEPT !.pc = "final_write", !.run = h[1], !.status = "FAILED",
                                          !.root = root, !.todo = LostHandles \ {h}]
      <4>1. own \in LostHandles /\ inFlight[r] \in EntryIds
        BY <1>0, <3>2 DEF LostHandles, Handles
      <4>2. PICK h \in LostHandles : task' = [orphaned EXCEPT ![t] = final(h)]
        BY <2>2, <4>1 DEF LoseSession
      <4>3. final(h).pc = "final_write" /\ final(h).run = h[1] /\ final(h).todo = LostHandles \ {h}
        BY DEF Idle
      <4>4. task'[t] = final(h)
        BY <4>2
      <4> HIDE DEF final
      <4>5. Ends(task'[t], r)
        <5>1. CASE h = own
          BY <4>3, <4>4, <5>1 DEF Ends
        <5>2. CASE h # own
          BY <4>1, <4>3, <4>4, <5>2 DEF Ends
        <5> QED BY <5>1, <5>2
      <4> QED BY <4>5 DEF Effect, Doomed
    <3> QED BY <3>1, <3>2
  <2> QED BY <1>10, <2>1, <2>2 DEF CloseSession, Attach
<1>11. ASSUME NEW t \in Tasks, SessionReady(t) PROVE Effect(r)
  <2>1. PICK d : task' = [task EXCEPT ![t] = d] /\ Resumed(d, "void", {})
    BY <1>11, CallsResume DEF SessionReady
  <2>2. Untouched(r) /\ Spawnable(t) /\ UNCHANGED queuedJobs
    BY <1>11 DEF SessionReady, Untouched, Assigned
  <2> QED BY <1>2, <2>1, <2>2 DEF Resumed, Acks
<1>12. CASE AttachFails \/ SocketDies \/ OldFramesEnd \/ \E x \in Runs : FrameLost(x)
  <2>1. \A u \in Sources : wire'[u][r].state = "assigned" => wire[u][r].state = "assigned"
    <3>1. CASE \E x \in Runs : FrameLost(x)
      <4>1. PICK x \in Runs : \/ wire' = [wire EXCEPT !["live"][x].state = "running"]
                              \/ wire' = [wire EXCEPT !["live"][x] = NoJob]
        BY <3>1 DEF FrameLost
      <4>2. [wire["live"][x] EXCEPT !.state = "running"].state = "running" /\ NoJob.state = "none"
        BY <1>0 DEF AgentJobs, NoJob, Sources
      <4>3. wire'["live"][r].state = "assigned" => wire["live"][r].state = "assigned"
        <5>1. wire'["live"][x] = [wire["live"][x] EXCEPT !.state = "running"] \/ wire'["live"][x] = NoJob
          BY <1>0, <4>1 DEF Sources
        <5>2. r # x => wire'["live"][r] = wire["live"][r]
          BY <1>0, <4>1 DEF Sources
        <5> QED BY <4>2, <5>1, <5>2
      <4>4. wire'["old"][r] = wire["old"][r]
        BY <1>0, <4>1 DEF Sources
      <4> QED BY <4>3, <4>4 DEF Sources
    <3>2. CASE AttachFails \/ SocketDies \/ OldFramesEnd
      BY <1>0, <3>2 DEF AttachFails, SocketDies, OldFramesEnd, NoJob, Sources
    <3> QED BY <1>12, <3>1, <3>2
  <2> QED BY <1>1, <1>12, <2>1
          DEF AttachFails, SocketDies, OldFramesEnd, FrameLost, Untouched, Assigned
<1>13. ASSUME NEW t \in Tasks, NEW x \in Runs, StartRun(x, t) PROVE Effect(r)
  <2>1. CASE r = x
    BY <1>13, <2>1 DEF Effect, Special
  <2>2. CASE r # x
    <3> DEFINE d == [Idle EXCEPT !.pc = "enqueue_load", !.run = x, !.root = "http"]
    <3>1. d.pc = "enqueue_load"
      BY DEF Idle
    <3>2. task' = [task EXCEPT ![t] = d] /\ Spawnable(t) /\ UNCHANGED queuedJobs
      BY <1>13 DEF StartRun
    <3>3. Untouched(r)
      BY <1>0, <1>13, <2>2 DEF StartRun, WriteStatus, Untouched, Assigned
    <3> HIDE DEF d
    <3> QED BY <1>2, <3>1, <3>2, <3>3 DEF Acks
  <2> QED BY <2>1, <2>2
<1>14. ASSUME NEW t \in Tasks, NEW x \in Runs, CancelRun(x, t) PROVE Effect(r)
  <2> DEFINE d == [Idle EXCEPT !.pc = "cancel_call", !.run = x, !.root = "http"]
  <2>1. d.pc = "cancel_call"
    BY DEF Idle
  <2>2. task' = [task EXCEPT ![t] = d] /\ Spawnable(t) /\ UNCHANGED queuedJobs /\ Untouched(r)
    BY <1>14 DEF CancelRun, Untouched, Assigned
  <2> HIDE DEF d
  <2> QED BY <1>2, <2>1, <2>2 DEF Acks
<1>15. CASE Crash
  BY <1>15 DEF Crash, Effect, Special
<1>16. CASE (\E x, p : PolicyDrift(x, p)) \/ UNCHANGED vars \/ \E s, x : RejectFrame(s, x)
  BY <1>1, <1>16 DEF PolicyDrift, RejectFrame, Untouched, Assigned, vars
<1> QED BY TaskEffect, <1>5, <1>6, <1>7, <1>8, <1>9, <1>10, <1>11, <1>12, <1>13, <1>14, <1>15, <1>16
        DEF Next, TimerFires, FrameArrives, SessionEvent
-----------------------------------------------------------------------------
\* Only loadJob takes a snapshot, and a row that has begun never goes back.
LEMMA SnapshotsStep ==
  ASSUME TypeOK, Knowledge, Snapshots, [Next]_vars
  PROVE  Snapshots'
<1> USE DEF agentVars, dbVars, flightVars, queueVars
<1>0. task \in [Tasks -> Calls] /\ Begun \subseteq Begun'
  BY StepIsLifecycle, KnowledgeGrows DEF TypeOK
<1>1. ASSUME NEW t \in Tasks, NEW d, d.pc \notin {"dispatch_got", "ack_got"}, task' = [task EXCEPT ![t] = d]
      PROVE  Snapshots'
  <2>1. \A u \in Tasks : task'[u] = IF u = t THEN d ELSE task[u]
    BY <1>0, <1>1
  <2> QED BY <1>0, <1>1, <2>1 DEF Snapshots
<1>2. ASSUME UNCHANGED task PROVE Snapshots'
  BY <1>0, <1>2 DEF Snapshots
<1>3. ASSUME HubRestart PROVE Snapshots'
  BY <1>3 DEF HubRestart, Snapshots, Idle
<1>4. ASSUME NEW t \in Tasks, NEW x, NEW k, NEW e, NEW root, NEW todo, Finalize(t, x, k, e, root, todo)
      PROVE  Snapshots'
  <2> DEFINE d == [Idle EXCEPT !.pc = "final_write", !.run = x, !.status = e, !.root = root, !.todo = todo]
  <2>1. d.pc = "final_write" /\ task' = [task EXCEPT ![t] = d]
    BY <1>4 DEF Finalize, Idle
  <2> HIDE DEF d
  <2> QED BY <1>1, <2>1
<1>5. ASSUME NEW t \in Tasks, NEW d, NEW root, NEW todo, Resumed(d, root, todo),
             task' = [task EXCEPT ![t] = d]
      PROVE  Snapshots'
  BY <1>1, <1>5 DEF Resumed
<1>6. ASSUME NEW t \in Tasks, task'[t].pc \notin {"dispatch_got", "ack_got"},
             \A u \in Tasks \ {t} : task'[u] = task[u]
      PROVE  Snapshots'
  BY <1>0, <1>6 DEF Snapshots
<1>7. Idle.pc \notin {"dispatch_got", "ack_got"}
  BY DEF Idle
<1>8. ASSUME NEW t \in Tasks, TaskStep(t) PROVE Snapshots'
  <2>1. CASE LoadJob(t)
    <3>1. PICK p : /\ task' = [task EXCEPT ![t] = [task[t] EXCEPT !.pc = p, !.status = status[task[t].run],
                                                             !.cancel = cancelRequestedAt[task[t].run]]]
                   /\ status' = status /\ p \in {"enqueue_got", "dispatch_got"}
      BY <1>0, <2>1 DEF LoadJob
    <3> DEFINE d == [task[t] EXCEPT !.pc = p, !.status = status[task[t].run],
                                    !.cancel = cancelRequestedAt[task[t].run]]
    <3>2. d.pc = p /\ d.run = task[t].run /\ d.status = status[task[t].run]
      BY <1>0 DEF Calls
    <3>3. \A u \in Tasks : task'[u] = IF u = t THEN d ELSE task[u]
      BY <1>0, <3>1
    <3> HIDE DEF d
    <3>4. task[t].run \in Existing
      BY <2>1, CallKnowsItsRun DEF LoadJob
    <3> QED BY <1>0, <3>1, <3>2, <3>3, <3>4 DEF Snapshots, Begun, Existing
  <2>2. CASE LoadJobGone(t)
    <3>1. task'[t].pc = "load_fail" /\ \A u \in Tasks \ {t} : task'[u] = task[u]
      BY <1>0, <2>2 DEF LoadJobGone, Calls
    <3> QED BY <1>6, <3>1
  <2>3. CASE LoadFail(t) \/ QueuedWrite(t) \/ DispatchDiscard(t) \/ DispatchWait(t) \/ DispatchSendFails(t)
    <3>1. \/ task' = [task EXCEPT ![t] = Idle]
          \/ \E c : task' = [task EXCEPT ![t] = NextIteration(task[t], c)]
          \/ task' = [task EXCEPT ![t] = Returned(task[t].root, task[t].todo)]
      BY <2>3 DEF LoadFail, QueuedWrite, DispatchDiscard, DispatchWait, DispatchSendFails,
                  DequeueAndContinue
    <3> QED BY <1>1, <1>5, <1>7, <3>1, CallsResume
  <2>4. CASE EnqueueRefuse(t)
    <3>1. task'[t].pc = "queued_write" /\ \A u \in Tasks \ {t} : task'[u] = task[u]
      BY <1>0, <2>4 DEF EnqueueRefuse, Idle
    <3> QED BY <1>6, <3>1
  <2>5. CASE EnqueuePush(t)
    BY <1>5, <2>5, CallsResume DEF EnqueuePush
  <2>6. CASE DispatchRefuse(t)
    <3>1. task'[t].pc = "queued_write" /\ \A u \in Tasks \ {t} : task'[u] = task[u]
      BY <1>0, <2>6 DEF DispatchRefuse, Calls
    <3> QED BY <1>6, <3>1
  <2>7. CASE DispatchSend(t)
    <3>1. CASE \E c : task' = [task EXCEPT ![t] = NextIteration(task[t], c)]
      BY <1>5, <3>1, CallsResume
    <3>2. CASE task' = [task EXCEPT ![t].pc = "stamp", ![t].status = "ABSENT"]
      <4>1. task'[t].pc = "stamp" /\ \A u \in Tasks \ {t} : task'[u] = task[u]
        BY <1>0, <3>2 DEF Calls
      <4> QED BY <1>6, <4>1
    <3> QED BY <2>7, <3>1, <3>2 DEF DispatchSend
  <2>8. CASE Stamp(t) \/ FinalWrite(t)
    BY <1>3, <1>5, <2>8, CallsResume DEF Stamp, FinalWrite, Throw
  <2>9. CASE LostNext(t) \/ AutoGrouped(t)
    BY <1>4, <2>9 DEF LostNext, AutoGrouped
  <2>10. CASE Reconciled(t)
    <3>1. CASE task' = [task EXCEPT ![t].pc = "auto_groups"]
      <4>1. task'[t].pc = "auto_groups" /\ \A u \in Tasks \ {t} : task'[u] = task[u]
        BY <1>0, <3>1 DEF Calls
      <4> QED BY <1>6, <4>1
    <3> QED BY <1>1, <1>4, <1>7, <2>10, <3>1 DEF Reconciled
  <2>11. CASE CancelRemoteRun(t)
    <3>1. CASE task' = [task EXCEPT ![t].pc = "queued_write", ![t].status = "CANCELLED"]
      <4>1. task'[t].pc = "queued_write" /\ \A u \in Tasks \ {t} : task'[u] = task[u]
        BY <1>0, <3>1 DEF Calls
      <4> QED BY <1>6, <4>1
    <3> QED BY <1>1, <1>7, <2>11, <3>1 DEF CancelRemoteRun
  <2>12. CASE AckMark(t)
    <3> DEFINE s == IF status[task[t].run] = "PENDING" THEN "RUNNING" ELSE "ABSENT"
    <3>1. /\ task'[t].run = task[t].run /\ task'[t].status = s /\ task'[t].pc = "ack_got"
          /\ \A u \in Tasks \ {t} : task'[u] = task[u]
      BY <1>0, <2>12 DEF AckMark, Calls
    <3>2. task[t].run \in Existing
      BY <2>12, CallKnowsItsRun DEF AckMark
    <3>3. s # "RUNNING" => task[t].run \in Begun
      BY <3>2 DEF Existing, Begun
    <3> HIDE DEF s
    <3> QED BY <1>0, <3>1, <3>3 DEF Snapshots
  <2>13. CASE AckGot(t)
    BY <1>1, <1>7, <2>13 DEF AckGot
  <2> QED BY <1>8, <2>1, <2>2, <2>3, <2>4, <2>5, <2>6, <2>7, <2>8, <2>9, <2>10, <2>11, <2>12, <2>13
          DEF TaskStep
<1>9. ASSUME NEW t \in Tasks, NEW x \in Runs, DispatchTimeout(x, t) \/ StartRun(x, t) \/ CancelRun(x, t)
      PROVE  Snapshots'
  <2>1. CASE task'[t].pc \notin {"dispatch_got", "ack_got"} /\ \A u \in Tasks \ {t} : task'[u] = task[u]
    BY <1>6, <2>1
  <2>2. task' = task \/ (task'[t].pc \notin {"dispatch_got", "ack_got"} /\ \A u \in Tasks \ {t} : task'[u] = task[u])
    BY <1>0, <1>9 DEF DispatchTimeout, StartRun, CancelRun, Idle
  <2> QED BY <1>2, <2>1, <2>2
<1>10. ASSUME NEW t \in Tasks, NEW x \in Runs, NEW k \in EntryIds, AckTimeout(x, k, t) \/ CancelTimeout(x, k, t)
       PROVE  Snapshots'
  <2>1. CASE task'[t].pc \notin {"dispatch_got", "ack_got"} /\ \A u \in Tasks \ {t} : task'[u] = task[u]
    BY <1>6, <2>1
  <2>2. task' = task \/ (task'[t].pc \notin {"dispatch_got", "ack_got"} /\ \A u \in Tasks \ {t} : task'[u] = task[u])
    <3>1. \/ task' = task
          \/ task' = [task EXCEPT ![t] = [Idle EXCEPT !.pc = "final_write", !.run = x,
                                                      !.status = "FAILED", !.root = "void"]]
      BY <1>10 DEF AckTimeout, CancelTimeout
    <3> QED BY <1>0, <3>1 DEF Idle
  <2> QED BY <1>2, <2>1, <2>2
<1>11. ASSUME NEW t \in Tasks, FrameArrives(t) PROVE Snapshots'
  <2>1. PICK s \in Sources, x \in Runs : 
           \/ \E b \in BOOLEAN : JobAck(s, x, b, t)
           \/ \E result \in {"COMPLETED", "FAILED", "CANCELLED"} : RunComplete(s, x, result, t)
           \/ RejectFrame(s, x)
    BY <1>11 DEF FrameArrives
  <2>2. ASSUME NEW b, JobAck(s, x, b, t) PROVE Snapshots'
    <3>1. CASE task' = [task EXCEPT ![t] = [Idle EXCEPT !.pc = "ack_mark", !.run = x,
                                                        !.k = inFlight[x], !.root = s]]
      <4>1. task'[t].pc = "ack_mark" /\ \A u \in Tasks \ {t} : task'[u] = task[u]
        BY <1>0, <3>1 DEF Idle
      <4> QED BY <1>6, <4>1
    <3> QED BY <1>2, <1>4, <2>2, <3>1 DEF JobAck
  <2>3. ASSUME NEW result, RunComplete(s, x, result, t) PROVE Snapshots'
    <3>1. CASE task' = [task EXCEPT ![t] = [Idle EXCEPT !.pc = "reconcile", !.run = x,
                                                        !.k = inFlight[x], !.root = s]]
      <4>1. task'[t].pc = "reconcile" /\ \A u \in Tasks \ {t} : task'[u] = task[u]
        BY <1>0, <3>1 DEF Idle
      <4> QED BY <1>6, <4>1
    <3> QED BY <1>2, <1>4, <2>3, <3>1 DEF RunComplete
  <2>4. CASE RejectFrame(s, x)
    BY <1>2, <2>4 DEF RejectFrame
  <2> QED BY <2>1, <2>2, <2>3, <2>4
<1>12. ASSUME NEW t \in Tasks, NEW root, LoseSession(root, t) PROVE Snapshots'
  <2> DEFINE orphaned == [u \in Tasks |->
                           IF task[u].root = "live" THEN [task[u] EXCEPT !.root = "old"]
                                                    ELSE task[u]]
             final(h) == [Idle EXCEPT !.pc = "final_write", !.run = h[1], !.status = "FAILED",
                                      !.root = root, !.todo = LostHandles \ {h}]
  <2>1. ASSUME NEW u \in Tasks
        PROVE  /\ orphaned[u].pc = task[u].pc /\ orphaned[u].run = task[u].run
               /\ orphaned[u].status = task[u].status
    BY <1>0 DEF Calls
  <2>2. \A h : final(h).pc = "final_write"
    BY DEF Idle
  <2>3. task' = orphaned \/ \E h : task' = [orphaned EXCEPT ![t] = final(h)]
    BY <1>12 DEF LoseSession
  <2>4. \A u \in Tasks : task'[u] = orphaned[u] \/ \E h : task'[u] = final(h)
    BY <2>3
  <2> HIDE DEF orphaned, final
  <2> QED BY <1>0, <2>1, <2>2, <2>4 DEF Snapshots
<1>13. ASSUME NEW t \in Tasks, SessionEvent(t) PROVE Snapshots'
  BY <1>2, <1>5, <1>12, <1>13, CallsResume
  DEF SessionEvent, CloseSession, Attach, SessionReady, AttachFails, SocketDies, OldFramesEnd, FrameLost
<1>14. CASE (\E x, p : PolicyDrift(x, p)) \/ Crash \/ UNCHANGED vars
  BY <1>2, <1>3, <1>14 DEF PolicyDrift, Crash, vars
<1> QED BY <1>8, <1>9, <1>10, <1>11, <1>13, <1>14 DEF Next, TimerFires
-----------------------------------------------------------------------------
\* What stands behind a run that is in flight, PENDING, or whose ack may still come:
\* while no session is up only an assignment is in flight; an ack of a closed session
\* is of a run that is doomed, an ack of the open one of a run in flight; a PENDING
\* run is queued, or carried by a call, or in flight.
Claims(r) ==
  /\ conn \in {"down", "attaching"} /\ inFlight[r] # 0 => Doomed(r) \/ Assigned(r)
  /\ wire["old"][r].state = "assigned" => Doomed(r)
  /\ \A t \in Tasks : Acks(task[t], r) /\ task[t].root = "old" => Doomed(r)
  /\ wire["live"][r].state = "assigned" => inFlight[r] # 0 \/ Doomed(r)
  /\ \A t \in Tasks : Acks(task[t], r) /\ task[t].root = "live" => inFlight[r] # 0 \/ Doomed(r)
  /\ status[r] = "PENDING" =>
       Doomed(r) \/ inFlight[r] # 0 \/ r \in queuedJobs \/ \E t \in Tasks : Cares(task[t], r)

\* With one slot: a RUNNING run that is not doomed is in flight, and the one ack of a
\* run finds it PENDING.
Once(r) ==
  ~Doomed(r) =>
    /\ status[r] = "RUNNING" => inFlight[r] # 0
    /\ \A t \in Tasks : Acks(task[t], r) =>
         /\ task[t].pc = "ack_mark" => status[r] = "PENDING"
         /\ task[t].pc = "ack_got" => task[t].status = "RUNNING"
    /\ \A t, u \in Tasks : Acks(task[t], r) /\ Acks(task[u], r) => t = u
    /\ wire["live"][r].state = "assigned" =>
         status[r] = "PENDING" /\ \A t \in Tasks : ~Acks(task[t], r)

LEMMA QuietKeeps ==
  ASSUME TypeOK, NEW r \in Runs, Quiet(r), Claims(r)
  PROVE  Claims(r)' /\ (Once(r) => Once(r)')
<1>1. Terminal' = Terminal
  BY DEF Terminal, Lifecycle!Terminal
<1>2. Doomed(r) => Doomed(r)'
  BY <1>1 DEF Doomed, Quiet, Untouched, Passes
<1>3. \A t \in Tasks : Ends(task'[t], r) => Doomed(r)'
  BY DEF Doomed
<1>4. Claims(r)'
  BY <1>2, <1>3 DEF Claims, Quiet, Untouched, Passes, Sources
<1>5. Once(r) => Once(r)'
  BY <1>2, <1>3 DEF Once, Quiet, Untouched, Passes, Acks, Sources
<1> QED BY <1>4, <1>5

LEMMA DoomKeeps ==
  ASSUME NEW r \in Runs, Doomed(r)' PROVE Claims(r)' /\ Once(r)'
BY DEF Claims, Once

LEMMA HubRestartKeeps ==
  ASSUME TypeOK, NEW r \in Runs, HubRestart PROVE Claims(r)' /\ Once(r)'
<1>1. /\ inFlight'[r] = 0
      /\ \A s \in Sources : wire'[s][r].state = "none"
      /\ \A t \in Tasks : task'[t].pc = "idle"
      /\ status[r] \notin Active => status'[r] = status[r]
      /\ status[r] \in Active => status'[r] \in {"CANCELLED", "FAILED"}
  BY DEF HubRestart, NoJob, Idle
<1>2. status'[r] \notin {"PENDING", "RUNNING"}
  BY <1>1 DEF Active, Lifecycle!Active
<1> QED BY <1>1, <1>2 DEF Claims, Once, Acks, Sources

\* A lone slot is free only when no run is in flight.
LEMMA LoneSlot ==
  ASSUME TypeOK, Capacity = 1, HasSlot, NEW r \in Runs
  PROVE  inFlight[r] = 0
<1> DEFINE S == {x \in Runs : inFlight[x] # 0}
<1>1. IsFiniteSet(S) /\ Cardinality(S) \in Nat
  BY FS_Subset, FS_CardinalityType, RemoteAssumption
<1>2. Cardinality(S) < 1
  BY DEF HasSlot, InFlightCount
<1>3. S = {}
  BY <1>1, <1>2, FS_EmptySet
<1> QED BY <1>3

\* One call changes, and the run stays as doomed as it was.
LEMMA CallKeepsDoom ==
  ASSUME TypeOK, NEW r \in Runs, NEW t \in Tasks, NEW d, task' = [task EXCEPT ![t] = d],
         Ends(task[t], r) => Ends(d, r), status[r] \in Terminal => status'[r] = status[r]
  PROVE  Doomed(r) => Doomed(r)'
<1>1. \A u \in Tasks : task'[u] = IF u = t THEN d ELSE task[u]
  BY DEF TypeOK
<1>2. Terminal' = Terminal
  BY DEF Terminal, Lifecycle!Terminal
<1> QED BY <1>1, <1>2 DEF Doomed

LEMMA StartKeeps ==
  ASSUME TypeOK, Knowledge, Framed, NEW r \in Runs, NEW t \in Tasks, StartRun(r, t), Claims(r)
  PROVE  Claims(r)' /\ (Once(r) => Once(r)')
<1> DEFINE d == [Idle EXCEPT !.pc = "enqueue_load", !.run = r, !.root = "http"]
<1>1. d.pc = "enqueue_load" /\ d.run = r /\ task' = [task EXCEPT ![t] = d]
  BY DEF StartRun, Idle
<1> HIDE DEF d
<1>2. ~Ends(task[t], r)
  BY DEF StartRun, Spawnable, Framed, SoundCall, Ends
<1>3. status[r] = "ABSENT" /\ status'[r] = "PENDING" /\ status[r] \notin Terminal
  BY DEF StartRun, WriteStatus, TypeOK, Terminal, Lifecycle!Terminal
<1>4. /\ \A u \in Tasks : task'[u] = IF u = t THEN d ELSE task[u]
      /\ Doomed(r) => Doomed(r)'
  <2>1. task' = [task EXCEPT ![t] = d]
    BY <1>1
  <2>2. \A u \in Tasks : task'[u] = IF u = t THEN d ELSE task[u]
    BY <2>1 DEF TypeOK
  <2>3. Doomed(r) => Doomed(r)'
    BY <2>1, <1>2, <1>3, CallKeepsDoom
  <2> QED BY <2>2, <2>3
<1>5. UNCHANGED <<conn, wire, inFlight, entry>>
  BY DEF StartRun, agentVars, flightVars
<1>6. ~Acks(d, r) /\ Cares(d, r)
  BY <1>1 DEF Acks, Cares
<1>7. Claims(r)'
  BY <1>4, <1>5, <1>6 DEF Claims, Assigned
<1>8. Once(r) => Once(r)'
  BY <1>3, <1>4, <1>5, <1>6 DEF Once
<1> QED BY <1>7, <1>8

LEMMA AckArrives ==
  ASSUME TypeOK, Framed, NEW r \in Runs, NEW t \in Tasks, NEW s \in Sources, Assigned(r),
         JobAck(s, r, TRUE, t), Claims(r)
  PROVE  Claims(r)' /\ (Once(r) => Once(r)')
<1> DEFINE d == [Idle EXCEPT !.pc = "ack_mark", !.run = r, !.k = inFlight[r], !.root = s]
<1>0. /\ wire \in [Sources -> [Runs -> AgentJobs]] /\ wire[s][r] \in AgentJobs
      /\ entry \in [Runs -> [EntryIds -> Entries]] /\ inFlight \in [Runs -> EntryIds \cup {0}]
  BY DEF TypeOK
<1>1. d.pc = "ack_mark" /\ d.run = r /\ d.root = s /\ task' = [task EXCEPT ![t] = d]
  BY DEF JobAck, Idle
<1> HIDE DEF d
<1>2. ~Ends(task[t], r) /\ task[t].pc = "idle"
  BY DEF JobAck, Spawnable, Framed, SoundCall, Ends
<1>3. UNCHANGED <<conn, inFlight, status, queuedJobs>>
  BY DEF JobAck, dbVars, queueVars
<1>4. /\ \A u \in Tasks : task'[u] = IF u = t THEN d ELSE task[u]
      /\ Doomed(r) => Doomed(r)'
  <2>1. task' = [task EXCEPT ![t] = d]
    BY <1>1
  <2>2. \A u \in Tasks : task'[u] = IF u = t THEN d ELSE task[u]
    BY <2>1 DEF TypeOK
  <2>3. Doomed(r) => Doomed(r)'
    BY <2>1, <1>2, <1>3, CallKeepsDoom
  <2> QED BY <2>2, <2>3
<1>5. Assigned(r)' /\ inFlight[r] # 0
  <2>1. inFlight[r] \in EntryIds /\ entry[r][inFlight[r]].state = "ASSIGNED" /\ inFlight' = inFlight
    BY <1>0 DEF JobAck, Assigned
  <2>2. entry' = [entry EXCEPT ![r][inFlight[r]].ackTimer = FALSE]
    BY DEF JobAck
  <2>3. entry'[r][inFlight[r]].state = "ASSIGNED"
    BY <1>0, <2>1, <2>2 DEF Entries
  <2> QED BY <2>1, <2>3 DEF Assigned, EntryIds
<1>6. /\ wire[s][r].state = "assigned" /\ wire'[s][r].state = "running"
      /\ \A u \in Sources : u # s => wire'[u][r] = wire[u][r]
  BY <1>0 DEF JobAck, AgentJobs
<1>7. Claims(r)'
  BY <1>1, <1>3, <1>4, <1>5, <1>6 DEF Claims, Sources
<1>8. s = "old" => Doomed(r)'
  BY <1>4, <1>6 DEF Claims
<1>9. Once(r) => Once(r)'
  BY <1>1, <1>2, <1>3, <1>4, <1>5, <1>6, <1>8 DEF Once, Sources, Acks
<1> QED BY <1>7, <1>9

LEMMA PushKeeps ==
  ASSUME TypeOK, Framed, NEW r \in Runs, NEW t \in Tasks, task[t].run = r, EnqueuePush(t), Claims(r)
  PROVE  Claims(r)' /\ (Once(r) => Once(r)')
<1>1. PICK d : task' = [task EXCEPT ![t] = d] /\ Resumed(d, "http", {})
  BY CallsResume DEF EnqueuePush
<1>2. ~Ends(task[t], r)
  BY DEF EnqueuePush, Framed, SoundCall, Ends
<1>3. UNCHANGED <<conn, wire, inFlight, entry, status>> /\ r \in queuedJobs'
  BY DEF EnqueuePush, agentVars, flightVars, dbVars
<1>4. /\ \A u \in Tasks : task'[u] = IF u = t THEN d ELSE task[u]
      /\ Doomed(r) => Doomed(r)'
  <2>1. task' = [task EXCEPT ![t] = d]
    BY <1>1
  <2>2. \A u \in Tasks : task'[u] = IF u = t THEN d ELSE task[u]
    BY <2>1 DEF TypeOK
  <2>3. Doomed(r) => Doomed(r)'
    BY <2>1, <1>2, <1>3, CallKeepsDoom
  <2> QED BY <2>2, <2>3
<1>5. ~Acks(d, r)
  BY <1>1 DEF Resumed, Acks
<1>6. Claims(r)'
  BY <1>3, <1>4, <1>5 DEF Claims, Assigned
<1>7. Once(r) => Once(r)'
  BY <1>3, <1>4, <1>5 DEF Once
<1> QED BY <1>6, <1>7

LEMMA AckMarkKeeps ==
  ASSUME TypeOK, Framed, NEW r \in Runs, NEW t \in Tasks, task[t].run = r, AckMark(t), Claims(r)
  PROVE  Claims(r)' /\ (Once(r) => Once(r)')
<1> DEFINE s == IF status[r] = "PENDING" THEN "RUNNING" ELSE "ABSENT"
           d == [task[t] EXCEPT !.pc = "ack_got", !.status = s]
<1>1. d.pc = "ack_got" /\ d.run = r /\ d.root = task[t].root /\ d.status = s /\ d.todo = task[t].todo
  BY DEF TypeOK, Calls
<1>2. task' = [task EXCEPT ![t] = d]
  BY DEF AckMark, TypeOK
<1> HIDE DEF d
<1>3. task[t].pc = "ack_mark" /\ Acks(task[t], r) /\ Acks(d, r) /\ task[t].root \in Sources
  BY <1>1 DEF AckMark, Acks, Framed, SoundCall
<1>4. ~Ends(task[t], r)
  BY <1>3 DEF Framed, SoundCall, Ends
<1>5. /\ UNCHANGED <<conn, wire, inFlight, entry, queuedJobs>>
      /\ status'[r] = IF status[r] = "PENDING" THEN "RUNNING" ELSE status[r]
  BY DEF AckMark, agentVars, flightVars, queueVars, TypeOK
<1>6. status[r] \in Terminal => status'[r] = status[r]
  BY <1>5 DEF Terminal, Lifecycle!Terminal
<1>7. /\ \A u \in Tasks : task'[u] = IF u = t THEN d ELSE task[u]
      /\ Doomed(r) => Doomed(r)'
  <2>1. task' = [task EXCEPT ![t] = d]
    BY <1>2
  <2>2. \A u \in Tasks : task'[u] = IF u = t THEN d ELSE task[u]
    BY <2>1 DEF TypeOK
  <2>3. Doomed(r) => Doomed(r)'
    BY <2>1, <1>4, <1>6, CallKeepsDoom
  <2> QED BY <2>2, <2>3
<1>8. Claims(r)'
  BY <1>1, <1>3, <1>5, <1>7 DEF Claims, Assigned
<1>9. ~Doomed(r) => inFlight[r] # 0
  BY <1>3 DEF Claims, Sources
<1>10. Once(r) => Once(r)'
  BY <1>1, <1>3, <1>5, <1>7, <1>9 DEF Once, Acks
<1> QED BY <1>8, <1>10

LEMMA AckGotKeeps ==
  ASSUME TypeOK, Framed, Snapshots, NEW r \in Runs, NEW t \in Tasks, task[t].run = r, AckGot(t), Claims(r)
  PROVE  Claims(r)' /\ (Once(r) => Once(r)')
<1>1. Idle.pc = "idle" /\ task' = [task EXCEPT ![t] = Idle]
  BY DEF AckGot, Idle
<1>2. task[t].pc = "ack_got" /\ Acks(task[t], r) /\ task[t].root \in Sources /\ ~Ends(task[t], r)
  BY DEF AckGot, Acks, Framed, SoundCall, Ends
<1>3. UNCHANGED <<conn, status, queuedJobs>>
  BY DEF AckGot, dbVars, queueVars
<1>4. /\ \A u \in Tasks : task'[u] = IF u = t THEN Idle ELSE task[u]
      /\ Doomed(r) => Doomed(r)'
  <2>1. task' = [task EXCEPT ![t] = Idle]
    BY <1>1
  <2>2. \A u \in Tasks : task'[u] = IF u = t THEN Idle ELSE task[u]
    BY <2>1 DEF TypeOK
  <2>3. Doomed(r) => Doomed(r)'
    BY <2>1, <1>2, <1>3, CallKeepsDoom
  <2> QED BY <2>2, <2>3
<1>5. task[t].root = "old" => Doomed(r)'
  BY <1>2, <1>4 DEF Claims
<1>6. CASE task[t].root = "live"
  <2>1. /\ conn \notin {"down", "attaching"}
        /\ wire["live"][r].state = "running"
        /\ \A u \in Tasks : u # t => task[u].root # "live"
    BY <1>2, <1>6 DEF Framed, Handling
  <2>2. \A s \in Sources : wire'[s][r].state = wire[s][r].state
    BY SendCancelKeeps DEF AckGot
  <2>3. Claims(r)'
    <3>1. inFlight'[r] = inFlight[r] \/ status[r] # "PENDING"
      BY <1>2 DEF AckGot, Snapshots, Begun
    <3> QED BY <1>1, <1>2, <1>3, <1>4, <2>1, <2>2, <3>1 DEF Claims, Acks, Cares, Sources
  <2>4. ASSUME Once(r), ~Doomed(r)' PROVE UNCHANGED inFlight
    BY <1>2, <1>4, <2>4 DEF Once, AckGot
  <2>5. Once(r) => Once(r)'
    BY <1>1, <1>2, <1>3, <1>4, <2>1, <2>2, <2>4 DEF Once, Acks, Cares, Sources
  <2> QED BY <2>3, <2>5
<1>7. CASE task[t].root = "old"
  BY <1>5, <1>7, DoomKeeps
<1> QED BY <1>2, <1>6, <1>7 DEF Sources

LEMMA SendKeeps ==
  ASSUME TypeOK, Knowledge, Framed, NEW r \in Runs, NEW t \in Tasks, task[t].run = r, DispatchSend(t),
         Claims(r)
  PROVE  Claims(r)' /\ (Capacity = 1 /\ Once(r) => Once(r)')
<1>0. /\ wire \in [Sources -> [Runs -> AgentJobs]] /\ task[t] \in Calls
      /\ entry \in [Runs -> [EntryIds -> Entries]] /\ inFlight \in [Runs -> EntryIds \cup {0}]
      /\ task[t].pc = "dispatch_got" /\ HasSlot
  BY DEF TypeOK, DispatchSend, Dispatchable
<1>1. PICK d : /\ task' = [task EXCEPT ![t] = d]
               /\ d.todo = task[t].todo /\ d.pc \notin {"ack_mark", "ack_got"}
  <2>1. CASE \E c : task' = [task EXCEPT ![t] = NextIteration(task[t], c)]
    <3>1. PICK c : task' = [task EXCEPT ![t] = NextIteration(task[t], c)]
      BY <2>1
    <3> DEFINE e == NextIteration(task[t], c)
    <3>2. e.todo = task[t].todo /\ e.pc \notin {"ack_mark", "ack_got"}
      <4>1. Resumed(e, task[t].root, task[t].todo)
        BY CallsResume
      <4> HIDE DEF e
      <4> QED BY <4>1 DEF Resumed
    <3>3. task' = [task EXCEPT ![t] = e]
      BY <3>1
    <3> HIDE DEF e
    <3> QED BY <3>2, <3>3
  <2>2. CASE task' = [task EXCEPT ![t].pc = "stamp", ![t].status = "ABSENT"]
    <3> DEFINE e == [task[t] EXCEPT !.pc = "stamp", !.status = "ABSENT"]
    <3>1. e.pc = "stamp" /\ e.todo = task[t].todo
      BY <1>0 DEF Calls
    <3>2. task' = [task EXCEPT ![t] = e]
      BY <2>2 DEF TypeOK
    <3> HIDE DEF e
    <3> QED BY <3>1, <3>2
  <2> QED BY <2>1, <2>2 DEF DispatchSend
<1>2. UNCHANGED <<conn, status>>
  BY DEF DispatchSend, dbVars
<1>3. /\ \A u \in Tasks : task'[u] = IF u = t THEN d ELSE task[u]
      /\ Doomed(r) => Doomed(r)'
  <2>1. Ends(task[t], r) => Ends(d, r)
    BY <1>0, <1>1 DEF Ends
  <2>2. task' = [task EXCEPT ![t] = d] /\ (status[r] \in Terminal => status'[r] = status[r])
    BY <1>1, <1>2
  <2>3. \A u \in Tasks : task'[u] = IF u = t THEN d ELSE task[u]
    BY <2>2 DEF TypeOK
  <2>4. Doomed(r) => Doomed(r)'
    BY <2>1, <2>2, CallKeepsDoom
  <2> QED BY <2>3, <2>4
<1>4. inFlight'[r] # 0 /\ Assigned(r)'
  <2>1. PICK k \in EntryIds :
          /\ entry' = [entry EXCEPT ![r][k] = [FreeEntry EXCEPT !.state = "ASSIGNED", !.ackTimer = TRUE]]
          /\ inFlight' = [inFlight EXCEPT ![r] = k]
    BY DEF DispatchSend
  <2>2. k # 0
    BY DEF EntryIds
  <2> QED BY <1>0, <2>1, <2>2 DEF Assigned, FreeEntry
<1>5. wire'["old"][r] = wire["old"][r]
  BY <1>0 DEF DispatchSend, Sources
<1>6. ~Acks(d, r)
  BY <1>1 DEF Acks
<1>7. Claims(r)'
  BY <1>2, <1>3, <1>4, <1>5, <1>6 DEF Claims
<1>8. ASSUME Capacity = 1, Once(r), ~Doomed(r)'
      PROVE  status[r] = "PENDING" /\ \A u \in Tasks : ~Acks(task'[u], r)
  <2>1. inFlight[r] = 0
    BY <1>0, <1>8, LoneSlot
  <2>2. status[r] # "RUNNING" /\ status[r] \notin Terminal
    BY <1>3, <1>8, <2>1 DEF Once, Doomed
  <2>3. status[r] # "ABSENT"
    BY <1>0, CallKnowsItsRun DEF Existing
  <2>4. status[r] = "PENDING"
    BY <2>2, <2>3 DEF TypeOK, Lifecycle!Statuses, Lifecycle!Active, Lifecycle!Terminal, Terminal
  <2>5. ASSUME NEW u \in Tasks, Acks(task[u], r) PROVE FALSE
    <3>1. task[u].root \in Sources
      BY <2>5 DEF Framed, SoundCall, Acks
    <3> QED BY <1>3, <1>8, <2>1, <2>5, <3>1 DEF Claims, Sources
  <2> QED BY <1>3, <1>6, <2>4, <2>5
<1>9. Capacity = 1 /\ Once(r) => Once(r)'
  BY <1>2, <1>4, <1>8 DEF Once
<1> QED BY <1>7, <1>9

LEMMA LossKeeps ==
  ASSUME TypeOK, Framed, NEW r \in Runs, NEW t \in Tasks, NEW root \in {"lost", "supersede"},
         Spawnable(t), LoseSession(root, t), inFlight[r] = 0, UNCHANGED <<status, queuedJobs>>, Claims(r)
  PROVE  Claims(r)' /\ (Once(r) => Once(r)')
<1> DEFINE orphaned == [u \in Tasks |->
                         IF task[u].root = "live" THEN [task[u] EXCEPT !.root = "old"]
                                                  ELSE task[u]]
           final(h) == [Idle EXCEPT !.pc = "final_write", !.run = h[1], !.status = "FAILED",
                                    !.root = root, !.todo = LostHandles \ {h}]
<1>1. ASSUME NEW u \in Tasks
      PROVE  /\ orphaned[u].pc = task[u].pc /\ orphaned[u].run = task[u].run
             /\ orphaned[u].todo = task[u].todo /\ orphaned[u].status = task[u].status
             /\ orphaned[u].root # "live"
             /\ orphaned[u].root = "old" => task[u].root \in Sources
  BY DEF TypeOK, Calls, Sources
<1>2. ASSUME NEW h PROVE final(h).pc = "final_write" /\ final(h).root # "live"
  BY DEF Idle
<1>3. task' = orphaned \/ \E h : task' = [orphaned EXCEPT ![t] = final(h)]
  BY DEF LoseSession
<1>4. \A u \in Tasks : task'[u] = orphaned[u] \/ (u = t /\ \E h : task'[u] = final(h))
  BY <1>3
<1> HIDE DEF orphaned, final
<1>5. task[t].pc = "idle" /\ task[t].todo = {}
  BY DEF Spawnable, Framed, SoundCall
<1>6. ASSUME NEW u \in Tasks
      PROVE  /\ Ends(task[u], r) => Ends(task'[u], r)
             /\ Cares(task[u], r) => Cares(task'[u], r)
             /\ task'[u].root # "live"
             /\ Acks(task'[u], r) => /\ Acks(task[u], r) /\ task'[u].pc = task[u].pc
                                     /\ task'[u].status = task[u].status
                                     /\ task[u].root \in Sources
  <2>1. CASE task'[u] = orphaned[u]
    <3>1. Acks(task[u], r) => task[u].root \in Sources
      BY DEF Acks, Framed, SoundCall
    <3> QED BY <1>1, <2>1, <3>1 DEF Ends, Cares, Acks
  <2>2. CASE u = t /\ \E h : task'[u] = final(h)
    BY <1>2, <1>5, <2>2 DEF Ends, Cares, Acks
  <2> QED BY <1>4, <2>1, <2>2
<1>7. Terminal' = Terminal
  BY DEF Terminal, Lifecycle!Terminal
<1>8. Doomed(r) => Doomed(r)'
  BY <1>6, <1>7 DEF Doomed
<1>9. inFlight'[r] = 0
  BY DEF LoseSession, flightVars, TypeOK
<1>10. wire'["old"][r] = wire["live"][r] /\ wire'["live"][r].state = "none"
  BY DEF LoseSession, TypeOK, Sources, NoJob
<1>11. \A u \in Tasks : Acks(task[u], r) /\ task[u].root \in Sources => Doomed(r)
  BY DEF Claims, Sources
<1>12. Claims(r)'
  BY <1>6, <1>8, <1>9, <1>10, <1>11 DEF Claims
<1>13. Once(r) => Once(r)'
  BY <1>6, <1>8, <1>9, <1>10 DEF Once
<1> QED BY <1>12, <1>13

\* No step breaks a claim, and with one slot no step leaves an active run to nobody.
LEMMA ClaimsStep ==
  ASSUME TypeOK, Knowledge, Framed, Snapshots, [Next]_vars, NEW r \in Runs, Claims(r)
  PROVE  Claims(r)' /\ (Capacity = 1 /\ Once(r) => Once(r)')
<1>1. CASE Quiet(r)
  BY <1>1, QuietKeeps
<1>2. CASE Doomed(r)'
  BY <1>2, DoomKeeps
<1>3. CASE Special(r)
  <2>1. CASE HubRestart
    BY <2>1, HubRestartKeeps
  <2>2. CASE \E t \in Tasks : StartRun(r, t)
    BY <2>2, StartKeeps
  <2>3. CASE \E t \in Tasks, s \in Sources : Assigned(r) /\ JobAck(s, r, TRUE, t)
    BY <2>3, AckArrives
  <2>4. CASE \E t \in Tasks : task[t].run = r /\ (EnqueuePush(t) \/ AckMark(t) \/ AckGot(t) \/ DispatchSend(t))
    BY <2>4, PushKeeps, AckMarkKeeps, AckGotKeeps, SendKeeps
  <2>5. CASE /\ inFlight[r] = 0 /\ UNCHANGED <<status, queuedJobs>>
             /\ \E t \in Tasks, root \in {"lost", "supersede"} : Spawnable(t) /\ LoseSession(root, t)
    BY <2>5, LossKeeps
  <2> QED BY <1>3, <2>1, <2>2, <2>3, <2>4, <2>5 DEF Special
<1> QED BY <1>1, <1>2, <1>3, EffectStep DEF Effect

\* The inductive invariant of both theorems below.
Ownership == Knowledge /\ Framed /\ Snapshots /\ \A r \in Runs : Claims(r)

LEMMA OwnershipInit ==
  ASSUME Init PROVE Ownership /\ \A r \in Runs : Once(r)
<1>1. Knowledge
  <2>1. QueueKnows(Existing) /\ FlightKnows(Existing, Begun)
    BY DEF Init, QueueKnows, FlightKnows, FreeEntry
  <2>2. \A t \in Tasks : Knows(task[t], Existing, Begun)
    BY IdleKnows DEF Init
  <2> QED BY <2>1, <2>2 DEF Knowledge
<1>2. \A t \in Tasks : /\ task[t].pc = "idle" /\ task[t].root = "none" /\ task[t].todo = {}
  BY DEF Init, Idle
<1>3. Framed /\ Snapshots
  BY <1>2 DEF Framed, SoundCall, Handling, Snapshots, Acks
<1>4. \A r \in Runs : /\ inFlight[r] = 0 /\ status[r] = "ABSENT"
                      /\ \A s \in Sources : wire[s][r].state = "none"
  BY DEF Init, NoJob
<1>5. \A r \in Runs : Claims(r) /\ Once(r)
  BY <1>2, <1>4 DEF Claims, Once, Acks, Sources
<1> QED BY <1>1, <1>3, <1>5 DEF Ownership

LEMMA OwnershipStep ==
  ASSUME TypeOK, Ownership, [Next]_vars
  PROVE  /\ Ownership'
         /\ Capacity = 1 /\ (\A r \in Runs : Once(r)) => (\A r \in Runs : Once(r))'
<1>1. Knowledge' /\ Framed' /\ Snapshots'
  BY KnowledgeStep, FramedStep, SnapshotsStep DEF Ownership
<1>2. \A r \in Runs : Claims(r)' /\ (Capacity = 1 /\ Once(r) => Once(r)')
  BY ClaimsStep DEF Ownership
<1> QED BY <1>1, <1>2 DEF Ownership

\* A run that is doomed and still active has a call that goes on to end it.
LEMMA DoomedIsHandled ==
  ASSUME NEW r \in Runs, Doomed(r), status[r] \in Active
  PROVE  Handled(r)
<1>1. status[r] \notin Terminal
  BY DEF Active, Terminal, Lifecycle!Active, Lifecycle!Terminal
<1> QED BY <1>1 DEF Doomed, Ends, Handled

\* Without a session no unfinished run stays in flight for ever, however many runs
\* and slots there are: either a call is about to end it -- the loop of
\* onSessionLost, a timeout, a refusal -- or it went to a session that never came
\* up, and its ack timer is armed.
THEOREM NoSessionHolds == Spec => []NoSessionNoFlight
<1>1. Init => Ownership
  BY OwnershipInit
<1>2. TypeOK /\ Ownership /\ [Next]_vars => Ownership'
  BY OwnershipStep
<1>3. Ownership /\ EveryWaitIsTimed => NoSessionNoFlight
  BY DoomedIsHandled DEF Ownership, Claims, EveryWaitIsTimed, NoSessionNoFlight
<1> QED BY <1>1, <1>2, <1>3, TypeInvariant, WaitsAreTimed, PTL DEF Spec

\* Any number of runs and slots: a run that waits -- started, queued, at the head of
\* a loop, refused, timed out, sent and not acknowledged -- is never forgotten.
PendingRunIsOwned ==
  \A r \in Runs : status[r] = "PENDING" =>
    Handled(r) \/ r \in dispatchTimers \/ inFlight[r] # 0

THEOREM PendingRunsAreOwned == Spec => []PendingRunIsOwned
<1> DEFINE Waits == queuedJobs \subseteq dispatchTimers
<1>1. Init => Ownership /\ Waits
  BY OwnershipInit DEF Init
<1>2. TypeOK /\ Ownership /\ Waits /\ [Next]_vars => (Ownership /\ Waits)'
  BY OwnershipStep, QueueTimedStep
<1>3. Ownership /\ Waits => PendingRunIsOwned
  <2> SUFFICES ASSUME Ownership, Waits, NEW r \in Runs, status[r] = "PENDING"
               PROVE  Handled(r) \/ r \in dispatchTimers \/ inFlight[r] # 0
    BY DEF PendingRunIsOwned
  <2>1. Doomed(r) => Handled(r)
    BY DoomedIsHandled DEF Active, Lifecycle!Active
  <2>2. (\E t \in Tasks : Cares(task[t], r)) => Handled(r)
    BY DEF Cares, Handled
  <2> QED BY <2>1, <2>2 DEF Ownership, Claims
<1> HIDE DEF Waits
<1> QED BY <1>1, <1>2, <1>3, TypeInvariant, PTL DEF Spec

\* An agent of one slot, however many runs: no row is left PENDING or RUNNING with
\* nothing in the hub's memory that can end it.  With two slots it may be, see
\* MCTwoSlotsOwned.cfg.
THEOREM LoneSlotRunsAreOwned == ASSUME Capacity = 1 PROVE Spec => []ActiveRunIsOwned
<1> DEFINE AllOnce == \A r \in Runs : Once(r)
           Waits == queuedJobs \subseteq dispatchTimers
<1>1. Init => Ownership /\ AllOnce /\ Waits
  BY OwnershipInit DEF Init
<1>2. TypeOK /\ Ownership /\ AllOnce /\ Waits /\ [Next]_vars => (Ownership /\ AllOnce /\ Waits)'
  BY OwnershipStep, QueueTimedStep
<1>3. Ownership /\ AllOnce /\ Waits => ActiveRunIsOwned
  <2> SUFFICES ASSUME Ownership, AllOnce, Waits, NEW r \in Runs, status[r] \in Active
               PROVE  Handled(r) \/ r \in dispatchTimers \/ inFlight[r] # 0
    BY DEF ActiveRunIsOwned
  <2>1. CASE Doomed(r)
    BY <2>1, DoomedIsHandled
  <2>2. CASE ~Doomed(r)
    <3>1. status[r] \in {"PENDING", "RUNNING"}
      BY DEF Active, Lifecycle!Active
    <3>2. (\E t \in Tasks : Cares(task[t], r)) => Handled(r)
      BY DEF Cares, Handled
    <3> QED BY <2>2, <3>1, <3>2 DEF Ownership, Claims, Once
  <2> QED BY <2>1, <2>2
<1> HIDE DEF AllOnce, Waits
<1> QED BY <1>1, <1>2, <1>3, TypeInvariant, PTL DEF Spec
=============================================================================
