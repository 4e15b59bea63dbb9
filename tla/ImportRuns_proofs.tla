------------------------- MODULE ImportRuns_proofs --------------------------
(***************************************************************************)
(* Proofs about ImportRuns, for any number of runs, configs, p-queue slots *)
(* and suspended cancel calls:                                             *)
(*   - type correctness;                                                   *)
(*   - every active row is owned by exactly the calls that will end it,    *)
(*     or was left by a startRun that threw;                               *)
(*   - a cancel that has returned is known to the worker;                  *)
(*   - the rows implement RunLifecycle;                                    *)
(* and about DockerTargets: it implements ImportRuns, so all of these hold *)
(* of it, and a disabling that is over has reached every run it let in.    *)
(* The inductive invariant, Consistent, says for each run which status     *)
(* goes with the await its startRun or its worker is suspended at.         *)
(***************************************************************************)
EXTENDS DockerTargets, TLAPS

USE DEF Lifecycle!Active, Lifecycle!Terminal, Lifecycle!Statuses, Active, Terminal

LEMMA HeadAndTail ==
  ASSUME TypeOK, queue # <<>>
  PROVE  Head(queue) \in Runs /\ Tail(queue) \in Seq(Runs)
BY DEF TypeOK

\* The steps of a worker that end it.
LEMMA FreesType ==
  ASSUME TypeOK, NEW r \in Runs, Frees(r)
  PROVE  /\ worker' \in [Runs -> Workers]
         /\ aborted' \subseteq Running'
<1>1. worker' = [worker EXCEPT ![r] = "none"] /\ aborted' = aborted \ {r}
  BY DEF Frees, Goto
<1>2. worker' \in [Runs -> Workers]
  BY <1>1 DEF TypeOK, Workers
<1>3. \A x \in Running : x # r => x \in Running'
  BY <1>1 DEF Running, TypeOK
<1> QED BY <1>1, <1>2, <1>3 DEF TypeOK

\* The steps of a worker that go on to another await.
LEMMA GotoType ==
  ASSUME TypeOK, NEW r \in Runs, NEW pc \in Working \cup {"closing"}, Goto(r, pc)
  PROVE  /\ worker' \in [Runs -> Workers]
         /\ Running \subseteq Running'
         /\ r \in Running'
BY DEF TypeOK, Goto, Running, Workers, Working

LEMMA StatusType ==
  ASSUME TypeOK, NEW r \in Runs, NEW s \in Lifecycle!Statuses, SetStatus(r, s)
  PROVE  status' \in [Runs -> Lifecycle!Statuses]
BY DEF TypeOK, SetStatus

LEMMA TypeStep == TypeOK /\ [Next]_vars => TypeOK'
<1> SUFFICES ASSUME TypeOK, [Next]_vars PROVE TypeOK'
  OBVIOUS
<1> USE DEF rowVars, callVars
<1>1. ASSUME NEW r \in Runs, StartStep(r) PROVE TypeOK'
  <2>1. CASE StartCheck(r)
    BY <2>1 DEF StartCheck, TypeOK, Starts, Running
  <2>2. CASE StartInsert(r)
    BY <2>2, StatusType DEF StartInsert, TypeOK, Starts, Running
  <2>3. CASE StartRefuse(r)
    BY <2>3, StatusType DEF StartRefuse, TypeOK, Starts, Running
  <2>4. CASE StartEnqueue(r)
    BY <2>4 DEF StartEnqueue, TypeOK, Starts, Running
  <2>5. CASE StartThrows(r)
    BY <2>5 DEF StartThrows, TypeOK, Starts, Running
  <2> QED BY <1>1, <2>1, <2>2, <2>3, <2>4, <2>5 DEF StartStep
<1>2. ASSUME NEW r \in Runs, WorkerStarts(r) PROVE TypeOK'
  <2>1. Running \subseteq Running' /\ worker' \in [Runs -> Workers]
    BY <1>2, GotoType DEF WorkerStarts, Working
  <2> QED BY <1>2, <2>1, HeadAndTail DEF WorkerStarts, TypeOK
<1>3. ASSUME NEW r \in Runs,
             \/ WorkerReads(r) \/ ReadsConfig(r) \/ NoticesAbort(r) \/ ImporterReturns(r)
             \/ ChecksRow(r) \/ ChecksSignal(r) \/ Reconciles(r) \/ Throws(r)
      PROVE  TypeOK'
  <2>1. PICK pc \in Working : Goto(r, pc)
    BY <1>3 DEF WorkerReads, ReadsConfig, NoticesAbort, ImporterReturns, ChecksRow,
                ChecksSignal, Reconciles, Throws, Working
  <2>2. Running \subseteq Running' /\ worker' \in [Runs -> Workers]
    BY <2>1, GotoType
  <2>3. reconciled' \subseteq Runs
    BY <1>3 DEF WorkerReads, ReadsConfig, NoticesAbort, ImporterReturns, ChecksRow,
                ChecksSignal, Reconciles, Throws, TypeOK
  <2>4. UNCHANGED <<status, cancelRequestedAt, configs, start, queue, aborted, cancelCalls, hub>>
    BY <1>3 DEF WorkerReads, ReadsConfig, NoticesAbort, ImporterReturns, ChecksRow,
                ChecksSignal, Reconciles, Throws
  <2> QED BY <2>2, <2>3, <2>4 DEF TypeOK
<1>4. ASSUME NEW r \in Runs, Begins(r) \/ Completes(r) PROVE TypeOK'
  <2>1. PICK s \in Lifecycle!Statuses, pc \in Working \cup {"closing"} :
          SetStatus(r, s) /\ Goto(r, pc)
    BY <1>4 DEF Begins, Completes, Working
  <2>2. /\ status' \in [Runs -> Lifecycle!Statuses]
        /\ Running \subseteq Running' /\ worker' \in [Runs -> Workers]
    BY <2>1, StatusType, GotoType
  <2> QED BY <1>4, <2>2 DEF Begins, Completes, TypeOK
<1>5. ASSUME NEW r \in Runs, Closes(r) \/ Cancels(r) \/ Fails(r) PROVE TypeOK'
  <2>1. worker' \in [Runs -> Workers] /\ aborted' \subseteq Running'
    BY <1>5, FreesType DEF Closes, Cancels, Fails
  <2>2. status' \in [Runs -> Lifecycle!Statuses]
    BY <1>5, StatusType DEF Closes, Cancels, Fails, TypeOK
  <2> QED BY <1>5, <2>1, <2>2 DEF Closes, Cancels, Fails, TypeOK
<1>6. ASSUME NEW r \in Runs, CancelStamp(r) \/ CancelAbort(r) PROVE TypeOK'
  <2>1. cancelCalls' \in [Runs -> 0..MaxCancels]
    <3>1. cancelCalls[r] \in Nat /\ cancelCalls[r] <= MaxCancels /\ MaxCancels \in Nat
      BY LocalAssumption DEF TypeOK
    <3>2. CASE CancelStamp(r)
      <4>1. cancelCalls[r] + 1 \in 0..MaxCancels
        BY <3>1, <3>2 DEF CancelStamp
      <4> QED BY <3>2, <4>1 DEF CancelStamp, TypeOK
    <3>3. CASE CancelAbort(r)
      <4>1. cancelCalls[r] - 1 \in 0..MaxCancels
        BY <3>1, <3>3 DEF CancelAbort
      <4> QED BY <3>3, <4>1 DEF CancelAbort, TypeOK
    <3> QED BY <1>6, <3>2, <3>3
  <2>2. aborted' \subseteq Running'
    BY <1>6 DEF CancelStamp, CancelAbort, TypeOK, Running
  <2> QED BY <1>6, <2>1, <2>2 DEF CancelStamp, CancelAbort, TypeOK
<1>7. ASSUME NEW c \in Configs, DeleteConfig(c) PROVE TypeOK'
  BY <1>7 DEF DeleteConfig, TypeOK, Running
<1>8. CASE Crash
  BY <1>8, LocalAssumption DEF Crash, TypeOK, Running, Workers, Starts
<1>9. CASE Boot
  BY <1>9 DEF Boot, TypeOK, Running
<1>10. ASSUME NEW r \in Runs, RecoverRun(r) PROVE TypeOK'
  <2>1. status' \in [Runs -> Lifecycle!Statuses]
    BY <1>10, StatusType DEF RecoverRun
  <2> QED BY <1>10, <2>1 DEF RecoverRun, TypeOK, Running
<1>11. CASE UNCHANGED vars
  BY <1>11 DEF vars, TypeOK, Running
<1> QED
  BY <1>1, <1>2, <1>3, <1>4, <1>5, <1>6, <1>7, <1>8, <1>9, <1>10, <1>11
  DEF Next, RunStep, WorkerStep, ImporterStep

\* Type correctness, for all runs and bounds; an AbortController that has been
\* aborted belongs to a worker that still runs (the finally block of worker()).
THEOREM TypeInvariant == Spec => []TypeOK
<1>1. Init => TypeOK
  BY LocalAssumption DEF Init, TypeOK, Starts, Workers
<1>2. TypeOK /\ [Next]_vars => TypeOK'
  BY TypeStep
<1> QED BY <1>1, <1>2, PTL DEF Spec
-----------------------------------------------------------------------------
(* Ownership                                                               *)

Fresh == {"read", "config", "begin"}
Importing == {"import", "check", "checked", "reconcile", "complete"}
Ending == {"cancel_write", "fail_write"}

\* Which status goes with the await at which r's startRun or worker stands.
ConsistentRun(r) ==
  /\ start[r] \in {"new", "insert"} => status[r] = "ABSENT"
  /\ start[r] \in {"gates", "thrown"} => status[r] = "PENDING"
  /\ start[r] # "over" => r \notin Queued /\ worker[r] = "none"
  /\ r \in Queued => worker[r] = "none" /\ status[r] = "PENDING"
  /\ worker[r] \in Fresh => status[r] = "PENDING"
  /\ worker[r] \in Importing => status[r] = "RUNNING"
  /\ worker[r] \in Ending => status[r] \in Active
  /\ worker[r] = "closing" => status[r] = "COMPLETED"
  /\ hub = "up" /\ status[r] \in Active => Owned(r) \/ start[r] = "thrown"
  /\ hub = "booting" => worker[r] = "none" /\ start[r] \in {"new", "over"}

\* No run waits twice in the p-queue, and a dead hub has none.
QueuedOnce ==
  /\ \A i, j \in DOMAIN queue : queue[i] = queue[j] => i = j
  /\ hub = "booting" => queue = <<>>

Consistent == QueuedOnce /\ \A r \in Runs : ConsistentRun(r)

LEMMA Pcs ==
  /\ Working = Fresh \cup Importing \cup Ending
  /\ Fresh \cap Importing = {} /\ Fresh \cap Ending = {} /\ Importing \cap Ending = {}
  /\ "closing" \notin Working /\ "none" \notin Working
BY DEF Working, Fresh, Importing, Ending

LEMMA Pushed ==
  ASSUME TypeOK, NEW r \in Runs, r \notin Queued, QueuedOnce, hub = "up",
         queue' = Append(queue, r), hub' = hub
  PROVE  QueuedOnce' /\ Queued' = Queued \cup {r}
<1>1. /\ DOMAIN queue = 1..Len(queue) /\ Len(queue) \in Nat
      /\ DOMAIN queue' = 1..(Len(queue) + 1)
      /\ queue'[Len(queue) + 1] = r
      /\ \A i \in 1..Len(queue) : queue'[i] = queue[i]
  BY DEF TypeOK
<1>2. Queued' = Queued \cup {r}
  BY <1>1 DEF Queued
<1>3. \A i \in 1..Len(queue) : queue[i] # r
  BY <1>1 DEF Queued
<1>4. \A i, j \in DOMAIN queue' : queue'[i] = queue'[j] => i = j
  BY <1>1, <1>3 DEF QueuedOnce
<1> QED BY <1>2, <1>4 DEF QueuedOnce

LEMMA Popped ==
  ASSUME TypeOK, queue # <<>>, QueuedOnce, hub = "up",
         queue' = Tail(queue), hub' = hub
  PROVE  /\ QueuedOnce'
         /\ Queued' = Queued \ {Head(queue)}
         /\ Head(queue) \in Queued
<1>1. /\ DOMAIN queue = 1..Len(queue) /\ Len(queue) \in Nat /\ Len(queue) > 0
      /\ DOMAIN queue' = 1..(Len(queue) - 1)
      /\ \A i \in 1..(Len(queue) - 1) : queue'[i] = queue[i + 1]
      /\ Head(queue) = queue[1]
  BY DEF TypeOK
<1>2. \A i, j \in DOMAIN queue' : queue'[i] = queue'[j] => i = j
  BY <1>1 DEF QueuedOnce
<1>3. Head(queue) \in Queued
  BY <1>1 DEF Queued
<1>4. \A i \in 2..Len(queue) : queue[i] # Head(queue)
  BY <1>1 DEF QueuedOnce
<1>5. \A x \in Queued' : x \in Queued /\ x # Head(queue)
  BY <1>1, <1>4 DEF Queued
<1>6. \A x \in Queued : x # Head(queue) => x \in Queued'
  <2> TAKE x \in Queued
  <2> HAVE x # Head(queue)
  <2>1. PICK i \in 1..Len(queue) : x = queue[i]
    BY <1>1 DEF Queued
  <2>2. i - 1 \in 1..(Len(queue) - 1) /\ queue'[i - 1] = x
    BY <1>1, <2>1
  <2> QED BY <1>1, <2>2 DEF Queued
<1> QED BY <1>2, <1>3, <1>5, <1>6 DEF QueuedOnce

\* A step of r leaves the other runs alone, and the queue too unless said.
OthersKept(r) ==
  \A x \in Runs \ {r} :
    /\ status'[x] = status[x] /\ start'[x] = start[x] /\ worker'[x] = worker[x]
    /\ x \in Queued <=> x \in Queued'

LEMMA OneRunStep ==
  ASSUME Consistent, NEW r \in Runs, OthersKept(r), hub' = hub,
         QueuedOnce', ConsistentRun(r)'
  PROVE  Consistent'
BY DEF Consistent, ConsistentRun, OthersKept, Owned

LEMMA StartKeeps ==
  ASSUME TypeOK, Consistent, hub = "up", NEW r \in Runs, StartStep(r)
  PROVE  Consistent'
<1> USE DEF Consistent, rowVars
<1>0. hub' = hub /\ worker' = worker /\ ConsistentRun(r)
  BY DEF StartStep, StartCheck, StartInsert, StartRefuse, StartThrows, StartEnqueue
<1>1. CASE UNCHANGED queue
  <2>1. QueuedOnce' /\ Queued' = Queued
    BY <1>0, <1>1 DEF QueuedOnce, Queued
  <2>2. OthersKept(r)
    BY <1>0, <2>1 DEF OthersKept, StartStep, StartCheck, StartInsert, StartRefuse,
                      StartThrows, StartEnqueue, SetStatus, TypeOK
  <2>3. CASE StartCheck(r)
    BY <1>0, <2>1, <2>2, <2>3, OneRunStep DEF StartCheck, ConsistentRun, Owned, TypeOK
  <2>4. CASE StartInsert(r)
    BY <1>0, <2>1, <2>2, <2>4, OneRunStep
    DEF StartInsert, SetStatus, ConsistentRun, Owned, TypeOK, Fresh, Importing, Ending
  <2>5. CASE StartRefuse(r)
    BY <1>0, <2>1, <2>2, <2>5, OneRunStep
    DEF StartRefuse, SetStatus, ConsistentRun, Owned, TypeOK, Fresh, Importing, Ending
  <2>6. CASE StartEnqueue(r)
    <3>1. Len(queue') = Len(queue) + 1 /\ Len(queue) \in Nat
      BY <2>6 DEF StartEnqueue, TypeOK
    <3> QED BY <1>1, <3>1
  <2>7. CASE StartThrows(r)
    BY <1>0, <2>1, <2>2, <2>7, OneRunStep DEF StartThrows, ConsistentRun, Owned, TypeOK
  <2> QED BY <2>3, <2>4, <2>5, <2>6, <2>7 DEF StartStep
<1>2. CASE StartEnqueue(r)
  <2>1. r \notin Queued /\ worker[r] = "none" /\ status[r] = "PENDING"
    BY <1>0, <1>2 DEF StartEnqueue, ConsistentRun
  <2>2. QueuedOnce' /\ Queued' = Queued \cup {r}
    BY <1>2, <2>1, Pushed DEF StartEnqueue
  <2>3. OthersKept(r)
    BY <1>0, <1>2, <2>2 DEF OthersKept, StartEnqueue, TypeOK
  <2>4. ConsistentRun(r)'
    BY <1>0, <1>2, <2>1, <2>2
    DEF StartEnqueue, ConsistentRun, Owned, TypeOK, Fresh, Importing, Ending
  <2> QED BY <1>0, <2>2, <2>3, <2>4, OneRunStep
<1> QED BY <1>1, <1>2 DEF StartStep, StartCheck, StartInsert, StartRefuse, StartThrows

LEMMA WorkerStartKeeps ==
  ASSUME TypeOK, Consistent, hub = "up", NEW r \in Runs, WorkerStarts(r)
  PROVE  Consistent'
<1> USE DEF Consistent, rowVars
<1>1. /\ QueuedOnce' /\ Queued' = Queued \ {r} /\ r \in Queued
      /\ hub' = hub /\ status' = status /\ start' = start
  BY Popped DEF WorkerStarts
<1>2. worker' = [worker EXCEPT ![r] = "read"]
  BY DEF WorkerStarts, Goto
<1>3. OthersKept(r)
  BY <1>1, <1>2 DEF OthersKept, TypeOK
<1>4. ConsistentRun(r)'
  BY <1>1, <1>2, Pcs DEF ConsistentRun, Owned, TypeOK, Fresh, Importing, Ending
<1> QED BY <1>1, <1>3, <1>4, OneRunStep

LEMMA WorkerKeeps ==
  ASSUME TypeOK, Consistent, hub = "up", NEW r \in Runs, worker[r] # "none",
         hub' = hub, start' = start, queue' = queue,
         NEW pc \in Workers, Goto(r, pc),
         NEW s \in Lifecycle!Statuses, status' = [status EXCEPT ![r] = s],
         /\ pc \in Fresh => s = "PENDING"
         /\ pc \in Importing => s = "RUNNING"
         /\ pc \in Ending => s \in Active
         /\ pc = "closing" => s = "COMPLETED"
         /\ pc = "none" => s \in Terminal
  PROVE  Consistent'
<1> USE DEF Consistent
<1>1. QueuedOnce' /\ Queued' = Queued /\ r \notin Queued /\ start[r] = "over"
  BY DEF QueuedOnce, Queued, ConsistentRun
<1>2. OthersKept(r) /\ worker'[r] = pc /\ status'[r] = s
  BY <1>1 DEF OthersKept, Goto, TypeOK
<1>3. s \in Active => pc \in Working
  BY Pcs DEF Workers
<1>4. ConsistentRun(r)'
  BY <1>1, <1>2, <1>3 DEF ConsistentRun, Owned
<1> QED BY <1>1, <1>2, <1>4, OneRunStep

\* The steps of a worker up to its last, with the row as they leave it.
LEMMA WorkerStepKeeps ==
  ASSUME TypeOK, Consistent, hub = "up", NEW r \in Runs,
         WorkerStep(r) \/ ImporterStep(r) \/ Throws(r)
  PROVE  Consistent'
<1> USE DEF rowVars
<1>0. status = [status EXCEPT ![r] = status[r]] /\ status[r] \in Lifecycle!Statuses
  BY DEF TypeOK
<1>1. CASE WorkerStarts(r)
  BY <1>1, WorkerStartKeeps
<1>2. CASE WorkerReads(r) \/ ReadsConfig(r)
  <2>1. worker[r] \in Fresh /\ status[r] = "PENDING"
    BY <1>2 DEF WorkerReads, ReadsConfig, Fresh, Consistent, ConsistentRun
  <2>2. PICK pc \in Fresh \cup Ending : Goto(r, pc)
    BY <1>2 DEF WorkerReads, ReadsConfig, Fresh, Ending
  <2>3. hub' = hub /\ start' = start /\ queue' = queue /\ status' = status
    BY <1>2 DEF WorkerReads, ReadsConfig
  <2> QED
    BY <1>0, <2>1, <2>2, <2>3, Pcs, WorkerKeeps DEF Workers, Fresh, Importing, Ending
<1>3. CASE NoticesAbort(r) \/ ImporterReturns(r) \/ ChecksRow(r) \/ ChecksSignal(r)
           \/ Reconciles(r)
  <2>1. worker[r] \in Importing /\ status[r] = "RUNNING"
    BY <1>3 DEF NoticesAbort, ImporterReturns, ChecksRow, ChecksSignal, Reconciles,
                Importing, Consistent, ConsistentRun
  <2>2. PICK pc \in Importing \cup Ending : Goto(r, pc)
    BY <1>3 DEF NoticesAbort, ImporterReturns, ChecksRow, ChecksSignal, Reconciles,
                Importing, Ending
  <2>3. hub' = hub /\ start' = start /\ queue' = queue /\ status' = status
    BY <1>3 DEF NoticesAbort, ImporterReturns, ChecksRow, ChecksSignal, Reconciles
  <2> QED
    BY <1>0, <2>1, <2>2, <2>3, Pcs, WorkerKeeps DEF Workers, Fresh, Importing, Ending
<1>4. CASE Throws(r)
  <2>1. worker[r] \in Fresh \cup Importing /\ status[r] \in Active
    BY <1>4, Pcs DEF Throws, Ending, Consistent, ConsistentRun
  <2> QED
    BY <1>0, <1>4, <2>1, Pcs, WorkerKeeps DEF Throws, Workers, Fresh, Importing, Ending
<1>5. CASE Begins(r)
  BY <1>5, Pcs, WorkerKeeps DEF Begins, SetStatus, Workers, Fresh, Importing, Ending
<1>6. CASE Completes(r)
  BY <1>6, Pcs, WorkerKeeps DEF Completes, SetStatus, Workers, Fresh, Importing, Ending
<1>7. CASE Closes(r)
  <2>1. status[r] = "COMPLETED" /\ worker[r] = "closing"
    BY <1>7 DEF Closes, Consistent, ConsistentRun
  <2> QED
    BY <1>0, <1>7, <2>1, WorkerKeeps
    DEF Closes, Frees, Workers, Fresh, Importing, Ending
<1>8. CASE Cancels(r) \/ Fails(r)
  <2>1. PICK s \in {"CANCELLED", "FAILED"} : SetStatus(r, s)
    BY <1>8 DEF Cancels, Fails
  <2>2. /\ Goto(r, "none") /\ worker[r] # "none"
        /\ hub' = hub /\ start' = start /\ queue' = queue
    BY <1>8 DEF Cancels, Fails, Frees
  <2>3. /\ status' = [status EXCEPT ![r] = s] /\ s \in Lifecycle!Statuses /\ s \in Terminal
        /\ "none" \in Workers /\ "none" \notin Fresh \cup Importing \cup Ending
    BY <2>1 DEF SetStatus, Workers, Fresh, Importing, Ending
  <2> QED BY <2>2, <2>3, WorkerKeeps
<1> QED
  BY <1>1, <1>2, <1>3, <1>4, <1>5, <1>6, <1>7, <1>8 DEF WorkerStep, ImporterStep

LEMMA ConsistentStep == TypeOK /\ Consistent /\ [Next]_vars => Consistent'
<1> SUFFICES ASSUME TypeOK, Consistent, [Next]_vars PROVE Consistent'
  OBVIOUS
<1> USE DEF rowVars, callVars
<1>1. ASSUME UNCHANGED <<status, start, queue, worker, hub>> PROVE Consistent'
  BY <1>1 DEF Consistent, ConsistentRun, QueuedOnce, Queued, Owned
<1>2. ASSUME hub = "up", NEW r \in Runs, RunStep(r) PROVE Consistent'
  <2>1. CASE CancelStamp(r) \/ CancelAbort(r)
    BY <1>1, <2>1 DEF CancelStamp, CancelAbort
  <2> QED BY <1>2, <2>1, StartKeeps, WorkerStepKeeps DEF RunStep
<1>3. ASSUME NEW c \in Configs, DeleteConfig(c) PROVE Consistent'
  BY <1>1, <1>3 DEF DeleteConfig
<1>4. CASE Crash
  BY <1>4, Pcs DEF Crash, Consistent, ConsistentRun, QueuedOnce, Queued, Owned, TypeOK,
                   Fresh, Importing, Ending, Starts
<1>5. CASE Boot
  BY <1>5 DEF Boot, Consistent, ConsistentRun, QueuedOnce, Queued, Owned
<1>6. ASSUME NEW r \in Runs, RecoverRun(r) PROVE Consistent'
  <2>1. /\ queue = <<>> /\ queue' = <<>> /\ hub = "booting" /\ hub' = "booting"
        /\ start' = start /\ worker' = worker
    BY <1>6 DEF RecoverRun, Consistent, QueuedOnce
  <2>2. worker[r] = "none" /\ start[r] = "over"
    BY <1>6, <2>1 DEF RecoverRun, Consistent, ConsistentRun
  <2>3. Queued = {} /\ Queued' = {}
    BY <2>1 DEF Queued
  <2>4. PICK s \in Terminal : status' = [status EXCEPT ![r] = s]
    BY <1>6 DEF RecoverRun, SetStatus
  <2>5. OthersKept(r)
    BY <2>1, <2>3, <2>4 DEF OthersKept, TypeOK
  <2>6. QueuedOnce'
    BY <2>1 DEF QueuedOnce
  <2>7. ConsistentRun(r)'
    BY <2>1, <2>2, <2>3, <2>4 DEF ConsistentRun, Fresh, Importing, Ending
  <2> QED BY <2>1, <2>5, <2>6, <2>7, OneRunStep
<1>7. CASE UNCHANGED vars
  BY <1>1, <1>7 DEF vars
<1> QED BY <1>2, <1>3, <1>4, <1>5, <1>6, <1>7 DEF Next

LEMMA ConsistentInit == Init => Consistent
BY Pcs DEF Init, Consistent, ConsistentRun, QueuedOnce, Queued, Owned, Fresh, Importing, Ending

\* Whatever the interleaving, an active row of a hub that is up belongs to a
\* startRun, the p-queue or a worker, unless its startRun threw between commit and
\* enqueue; and what they own is active: no other row is abandoned and no terminal
\* write meets the trigger.
THEOREM RowsAreOwned == Spec => []ActiveRunIsOwned
<1>1. Consistent => ActiveRunIsOwned
  <2> SUFFICES ASSUME Consistent, hub = "up", NEW r \in Runs,
                      Owned(r) \/ start[r] = "thrown"
               PROVE  status[r] \in Active
    BY DEF ActiveRunIsOwned, Consistent, ConsistentRun
  <2> QED BY Pcs DEF Consistent, ConsistentRun, Owned
<1>2. TypeOK /\ Consistent /\ [Next]_vars => Consistent'
  BY ConsistentStep
<1> QED BY <1>1, <1>2, ConsistentInit, TypeInvariant, PTL DEF Spec
-----------------------------------------------------------------------------
(* Cancels                                                                 *)

\* cancelRun's stamp, await and abort against the worker's registration and
\* reads: a worker that missed the stamp in its row gets the signal before the
\* cancel call returns.
THEOREM CancelReaches == Spec => []CancelReachesWorker
<1>1. Init => CancelReachesWorker
  BY DEF Init, CancelReachesWorker
<1>2. TypeOK /\ CancelReachesWorker /\ [Next]_vars => CancelReachesWorker'
  <2> SUFFICES ASSUME TypeOK, CancelReachesWorker, [Next]_vars, NEW x \in Runs,
                      cancelRequestedAt'[x], cancelCalls'[x] = 0,
                      worker'[x] \in {"config", "begin", "import"}
               PROVE  x \in aborted'
    BY DEF CancelReachesWorker
  <2> USE DEF CancelReachesWorker, rowVars, callVars
  <2>1. CASE UNCHANGED <<cancelRequestedAt, cancelCalls, worker, aborted>>
    BY <2>1
  <2>2. ASSUME NEW r \in Runs, StartStep(r) PROVE x \in aborted'
    BY <2>1, <2>2 DEF StartStep, StartCheck, StartInsert, StartRefuse, StartThrows,
                      StartEnqueue
  <2>3. ASSUME NEW r \in Runs, NEW pc \in Workers, Goto(r, pc),
               UNCHANGED <<cancelRequestedAt, cancelCalls, aborted>>,
               \/ worker[r] \in {"config", "begin", "import"}
               \/ pc \notin {"config", "begin", "import"}
               \/ ~cancelRequestedAt[r]
        PROVE  x \in aborted'
    BY <2>3 DEF Goto, TypeOK
  <2>4. ASSUME NEW r \in Runs, WorkerStarts(r) \/ WorkerReads(r) \/ ReadsConfig(r)
                            \/ Begins(r)
        PROVE  x \in aborted'
    BY <2>3, <2>4 DEF WorkerStarts, WorkerReads, ReadsConfig, Begins, Workers, Working, TypeOK
  <2>5. ASSUME NEW r \in Runs, \/ NoticesAbort(r) \/ ImporterReturns(r) \/ ChecksRow(r)
                               \/ ChecksSignal(r) \/ Reconciles(r) \/ Completes(r) \/ Throws(r)
        PROVE  x \in aborted'
    BY <2>3, <2>5 DEF NoticesAbort, ImporterReturns, ChecksRow, ChecksSignal, Reconciles,
                      Completes, Throws, Workers, Working
  <2>6. ASSUME NEW r \in Runs, Closes(r) \/ Cancels(r) \/ Fails(r) PROVE x \in aborted'
    BY <2>6 DEF Closes, Cancels, Fails, Frees, Goto, TypeOK
  <2>7. ASSUME NEW r \in Runs, CancelStamp(r) PROVE x \in aborted'
    BY <2>7 DEF CancelStamp, TypeOK
  <2>8. ASSUME NEW r \in Runs, CancelAbort(r) PROVE x \in aborted'
    BY <2>8 DEF CancelAbort, Running, TypeOK
  <2>9. CASE Crash
    BY <2>9 DEF Crash
  <2>10. CASE Boot \/ (\E r \in Runs : RecoverRun(r)) \/ (\E c \in Configs : DeleteConfig(c))
              \/ UNCHANGED vars
    BY <2>1, <2>10 DEF Boot, RecoverRun, DeleteConfig, vars
  <2> QED
    BY <2>2, <2>4, <2>5, <2>6, <2>7, <2>8, <2>9, <2>10
    DEF Next, RunStep, WorkerStep, ImporterStep
<1> QED BY <1>1, <1>2, TypeInvariant, PTL DEF Spec
-----------------------------------------------------------------------------
(* Refinement                                                              *)

LEMMA StepIsLifecycle ==
  ASSUME TypeOK, Consistent, [Next]_vars
  PROVE  [Lifecycle!LifecycleNext]_(Lifecycle!lifecycleVars)
<1> USE DEF Lifecycle!lifecycleVars, Lifecycle!Move, rowVars, callVars
<1>1. CASE UNCHANGED <<status, cancelRequestedAt>>
  BY <1>1
<1>2. ASSUME NEW r \in Runs, StartInsert(r) PROVE Lifecycle!Insert(r) \/ UNCHANGED <<status, cancelRequestedAt>>
  BY <1>2 DEF StartInsert, SetStatus, Consistent, ConsistentRun, Lifecycle!Insert
<1>3. ASSUME NEW r \in Runs, StartRefuse(r) PROVE Lifecycle!Fail(r)
  BY <1>3 DEF StartRefuse, SetStatus, Consistent, ConsistentRun, Lifecycle!Fail
<1>4. ASSUME NEW r \in Runs, Begins(r) PROVE Lifecycle!Begin(r)
  BY <1>4 DEF Begins, SetStatus, Consistent, ConsistentRun, Fresh, Lifecycle!Begin
<1>5. ASSUME NEW r \in Runs, Completes(r) PROVE Lifecycle!Complete(r)
  BY <1>5 DEF Completes, SetStatus, Consistent, ConsistentRun, Importing, Lifecycle!Complete
<1>6. ASSUME NEW r \in Runs, Cancels(r) PROVE Lifecycle!Cancel(r)
  BY <1>6 DEF Cancels, SetStatus, Consistent, ConsistentRun, Ending, Lifecycle!Cancel
<1>7. ASSUME NEW r \in Runs, Fails(r) PROVE Lifecycle!Fail(r)
  BY <1>7 DEF Fails, SetStatus, Consistent, ConsistentRun, Ending, Lifecycle!Fail
<1>8. ASSUME NEW r \in Runs, CancelStamp(r) PROVE Lifecycle!RequestCancel(r)
  BY <1>8 DEF CancelStamp, Lifecycle!RequestCancel
<1>9. ASSUME NEW r \in Runs, RecoverRun(r) PROVE Lifecycle!Recover
  <2>1. /\ status' = [status EXCEPT ![r] = status'[r]]
        /\ status'[r] \in {"CANCELLED", "INTERRUPTED"}
        /\ status'[r] = "CANCELLED" => cancelRequestedAt[r]
        /\ status[r] \in Active /\ UNCHANGED cancelRequestedAt
    BY <1>9 DEF RecoverRun, SetStatus, TypeOK
  <2> QED BY <2>1 DEF Lifecycle!Recover, TypeOK
<1>10. ASSUME NEW r \in Runs,
              \/ StartCheck(r) \/ StartThrows(r) \/ StartEnqueue(r)
              \/ WorkerStarts(r) \/ WorkerReads(r)
              \/ ReadsConfig(r) \/ ImporterStep(r) \/ ChecksRow(r) \/ ChecksSignal(r)
              \/ Reconciles(r) \/ Closes(r) \/ Throws(r) \/ CancelAbort(r)
       PROVE  UNCHANGED <<status, cancelRequestedAt>>
  BY <1>10 DEF StartCheck, StartThrows, StartEnqueue, WorkerStarts, WorkerReads, ReadsConfig,
               ImporterStep, NoticesAbort, ImporterReturns, ChecksRow, ChecksSignal,
               Reconciles, Closes, Throws, CancelAbort
<1>11. ASSUME NEW r \in Runs, RunStep(r) \/ RecoverRun(r)
       PROVE  Lifecycle!LifecycleNext \/ UNCHANGED <<status, cancelRequestedAt>>
  BY <1>2, <1>3, <1>4, <1>5, <1>6, <1>7, <1>8, <1>9, <1>10, <1>11
  DEF RunStep, StartStep, WorkerStep, Lifecycle!LifecycleNext
<1>12. CASE Crash \/ Boot \/ (\E c \in Configs : DeleteConfig(c)) \/ UNCHANGED vars
  BY <1>1, <1>12 DEF Crash, Boot, DeleteConfig, vars
<1> QED BY <1>1, <1>11, <1>12 DEF Next

\* The in-process runs implement the abstract life of import_runs rows: what is
\* terminal stays so, and COMPLETED is reached only from RUNNING.
THEOREM LocalRunsImplementLifecycle == Spec => LifecycleSpec
<1>1. Init => Lifecycle!LifecycleInit
  BY DEF Init, Lifecycle!LifecycleInit
<1>2. TypeOK /\ Consistent /\ [Next]_vars => Consistent'
  BY ConsistentStep
<1>3. TypeOK /\ Consistent /\ [Next]_vars
        => [Lifecycle!LifecycleNext]_(Lifecycle!lifecycleVars)
  BY StepIsLifecycle
<1> QED
  BY <1>1, <1>2, <1>3, ConsistentInit, TypeInvariant, PTL
  DEF Spec, LifecycleSpec, Lifecycle!LifecycleSpec
-----------------------------------------------------------------------------
(* Cancels of runs that have not begun                                     *)

\* The run was cancelled in time: its worker has still to read the stamp, and no
\* completion of it is under way.
Stopped(r) ==
  /\ cancelRequestedAt[r]
  /\ status[r] \notin {"ABSENT", "COMPLETED"}
  /\ worker[r] \notin {"checked", "reconcile", "complete", "closing"}

LEMMA StoppedStep ==
  ASSUME TypeOK, Consistent, [Next]_vars, NEW x \in Runs, Stopped(x)
  PROVE  Stopped(x)'
<1> USE DEF rowVars, callVars, Stopped
<1>0. /\ status \in [Runs -> Lifecycle!Statuses] /\ worker \in [Runs -> Workers]
      /\ cancelRequestedAt \in [Runs -> BOOLEAN]
  BY DEF TypeOK
<1>1. ASSUME NEW r \in Runs, StartStep(r) PROVE Stopped(x)'
  BY <1>0, <1>1 DEF StartStep, StartCheck, StartInsert, StartRefuse, StartThrows,
                    StartEnqueue, SetStatus
<1>2. ASSUME NEW r \in Runs, WorkerStarts(r) \/ WorkerReads(r) \/ ReadsConfig(r) \/ Begins(r)
      PROVE  Stopped(x)'
  BY <1>0, <1>2 DEF WorkerStarts, WorkerReads, ReadsConfig, Begins, SetStatus, Goto
<1>3. ASSUME NEW r \in Runs, ChecksRow(r) \/ ChecksSignal(r) \/ Reconciles(r) \/ Completes(r)
      PROVE  Stopped(x)'
  BY <1>0, <1>3 DEF ChecksRow, ChecksSignal, Reconciles, Completes, SetStatus, Goto
<1>4. ASSUME NEW r \in Runs, Closes(r) \/ Cancels(r) \/ Fails(r) PROVE Stopped(x)'
  BY <1>0, <1>4 DEF Closes, Cancels, Fails, Frees, SetStatus, Goto
<1>5. ASSUME NEW r \in Runs, ImporterStep(r) \/ Throws(r) PROVE Stopped(x)'
  BY <1>0, <1>5 DEF ImporterStep, NoticesAbort, ImporterReturns, Throws, Goto
<1>6. ASSUME NEW r \in Runs, CancelStamp(r) \/ CancelAbort(r) \/ RecoverRun(r) PROVE Stopped(x)'
  BY <1>0, <1>6 DEF CancelStamp, CancelAbort, RecoverRun, SetStatus
<1>7. CASE Crash \/ Boot \/ (\E c \in Configs : DeleteConfig(c)) \/ UNCHANGED vars
  BY <1>0, <1>7 DEF Crash, Boot, DeleteConfig, vars
<1> QED BY <1>1, <1>2, <1>3, <1>4, <1>5, <1>6, <1>7 DEF Next, RunStep, WorkerStep

\* A cancel of a run that is still PENDING is never lost: wherever the p-queue,
\* its worker, a crash or the recovery stand, the run does not end COMPLETED.
THEOREM PendingCancelHolds == Spec => PendingCancelWins
<1>1. ASSUME NEW r \in Runs
      PROVE  Spec => [](status[r] = "PENDING" /\ cancelRequestedAt[r]
                          => [](status[r] # "COMPLETED"))
  <2>1. Consistent /\ status[r] = "PENDING" /\ cancelRequestedAt[r] => Stopped(r)
    BY DEF Consistent, ConsistentRun, Importing, Stopped
  <2>2. TypeOK /\ Consistent /\ Stopped(r) /\ [Next]_vars => Stopped(r)'
    BY StoppedStep
  <2>3. Stopped(r) => status[r] # "COMPLETED"
    BY DEF Stopped
  <2>4. TypeOK /\ Consistent /\ [Next]_vars => Consistent'
    BY ConsistentStep
  <2> QED BY <2>1, <2>2, <2>3, <2>4, ConsistentInit, TypeInvariant, PTL DEF Spec
<1> QED BY <1>1 DEF PendingCancelWins
-----------------------------------------------------------------------------
(* Docker targets                                                          *)

LEMMA TargetStepIsRunStep == TargetNext => [Next]_vars
<1>1. ASSUME NEW r \in Runs, hub = "up", RunNext(r) PROVE [Next]_vars
  BY <1>1 DEF RunNext, Admits, Resolves, CancelsFound, Aside, Enqueues, Imports,
              OtherStep, Next, RunStep, StartStep
<1> QED
  BY <1>1 DEF TargetNext, TargetStep, TargetCrash, Disable, Select, DisableFails,
              Disabled, Enable, Aside, Next

\* The runs under a docker target are in-process runs, and nothing more: what is
\* proved of ImportRuns holds of them.
THEOREM TargetImplementsRuns == TargetSpec => Spec
<1>1. TargetInit => Init
  BY DEF TargetInit
<1>2. [TargetNext]_allVars => [Next]_vars
  BY TargetStepIsRunStep DEF allVars
<1> QED BY <1>1, <1>2, PTL DEF TargetSpec, Spec

\* Type correctness of the target and of who has read it.
THEOREM TargetTypes == TargetSpec => []TargetTypeOK
<1>1. TargetInit => TargetTypeOK
  BY DEF TargetInit, TargetTypeOK
<1>2. TargetTypeOK /\ [TargetNext]_allVars => TargetTypeOK'
  <2> SUFFICES ASSUME TargetTypeOK, [TargetNext]_allVars PROVE TargetTypeOK'
    OBVIOUS
  <2> USE DEF TargetTypeOK
  <2>1. CASE UNCHANGED targetVars
    BY <2>1 DEF targetVars
  <2>2. ASSUME NEW r \in Runs, Admits(r) \/ Resolves(r) \/ CancelsFound(r)
        PROVE  TargetTypeOK'
    BY <2>2 DEF Admits, Resolves, CancelsFound
  <2>3. CASE TargetStep \/ TargetCrash
    BY <2>3 DEF TargetStep, Disable, Select, DisableFails, Disabled, Enable, TargetCrash
  <2> QED BY <2>1, <2>2, <2>3 DEF TargetNext, RunNext, Aside, allVars
<1> QED BY <1>1, <1>2, PTL DEF TargetSpec

\* Once its row is inserted, a run never becomes active again and never loses its
\* stamp.
Begun(r) == start[r] \in {"gates", "over", "thrown"}
LEMMA BegunStep ==
  ASSUME TypeOK, Consistent, [Next]_vars, NEW r \in Runs, Begun(r)
  PROVE  /\ Begun(r)'
         /\ status'[r] \in Active => status[r] \in Active
         /\ cancelRequestedAt[r] => cancelRequestedAt'[r]
         /\ configs' \subseteq configs
<1> USE DEF Begun
<1>1. ASSUME NEW x \in Runs, StartStep(x)
      PROVE  Begun(r)' /\ (status'[r] \in Active => status[r] \in Active)
             /\ UNCHANGED <<cancelRequestedAt, configs>>
  BY <1>1 DEF StartStep, StartCheck, StartInsert, StartRefuse, StartThrows, StartEnqueue,
              TypeOK, SetStatus, rowVars
<1>2. ASSUME NEW x \in Runs, WorkerStep(x) \/ ImporterStep(x) \/ Throws(x)
      PROVE  UNCHANGED <<start, cancelRequestedAt, configs>>
  BY <1>2 DEF WorkerStep, ImporterStep, Throws, WorkerStarts, WorkerReads, ReadsConfig,
              Begins, NoticesAbort, ImporterReturns, ChecksRow, ChecksSignal, Reconciles,
              Completes, Closes, Cancels, Fails, rowVars
<1>3. ASSUME NEW x \in Runs, WorkerStep(x) \/ ImporterStep(x) \/ Throws(x)
      PROVE  status'[r] \in Active => status[r] \in Active
  <2>1. CASE Begins(x)
    BY <2>1 DEF Begins, SetStatus, Consistent, ConsistentRun, Fresh, TypeOK
  <2>2. CASE Completes(x) \/ Cancels(x) \/ Fails(x)
    BY <2>2 DEF Completes, Cancels, Fails, SetStatus, TypeOK
  <2> QED
    BY <1>3, <2>1, <2>2
    DEF WorkerStep, ImporterStep, Throws, WorkerStarts, WorkerReads, ReadsConfig,
        NoticesAbort, ImporterReturns, ChecksRow, ChecksSignal, Reconciles, Closes, rowVars
<1>4. ASSUME NEW x \in Runs, CancelStamp(x) \/ CancelAbort(x)
      PROVE  /\ UNCHANGED <<start, status, configs>>
             /\ cancelRequestedAt[r] => cancelRequestedAt'[r]
  BY <1>4 DEF CancelStamp, CancelAbort, rowVars, TypeOK
<1>5. ASSUME NEW x \in Runs, RecoverRun(x)
      PROVE  /\ UNCHANGED <<start, cancelRequestedAt, configs>>
             /\ status'[r] \in Active => status[r] \in Active
  BY <1>5 DEF RecoverRun, SetStatus, TypeOK, callVars
<1>6. CASE Crash \/ Boot \/ \E c \in Configs : DeleteConfig(c)
  BY <1>6 DEF Crash, Boot, DeleteConfig, rowVars, callVars, TypeOK
<1>7. CASE UNCHANGED vars
  BY <1>7 DEF vars, rowVars, callVars
<1> QED
  BY <1>1, <1>2, <1>3, <1>4, <1>5, <1>6, <1>7 DEF Next, RunStep

\* The invariant behind it: from its commit to its end a disabling owes a stamp to
\* every run that was let in, and nobody is let in meanwhile.
Owed(r) ==
  /\ r \in Runs /\ Begun(r)
  /\ /\ ~enabled /\ disabling \in {"cancel", "no"}
     /\ status[r] \in Active /\ ConfigOf[r] \in configs
     => cancelRequestedAt[r] \/ r \in toCancel
Reached ==
  /\ disabling = "no" => toCancel = {}
  /\ \A r \in admitted : Owed(r)

LEMMA ReachedStep ==
  ASSUME TypeOK, Consistent, Reached, [TargetNext]_allVars
  PROVE  Reached'
<1>0. [Next]_vars
  BY TargetStepIsRunStep DEF allVars
<1>1. ASSUME NEW r \in admitted
      PROVE  /\ r \in Runs /\ Begun(r) /\ Begun(r)'
             /\ status'[r] \in Active => status[r] \in Active
             /\ cancelRequestedAt[r] => cancelRequestedAt'[r]
             /\ configs' \subseteq configs
  BY <1>0, BegunStep DEF Reached, Owed
<1>2. CASE UNCHANGED targetVars
  BY <1>1, <1>2 DEF targetVars, Reached, Owed
<1>3. ASSUME NEW r \in Runs, Admits(r) PROVE Reached'
  BY <1>1, <1>3 DEF Admits, Reached, Owed, Begun, vars, callVars
<1>4. ASSUME NEW r \in Runs, Resolves(r) PROVE Reached'
  BY <1>1, <1>4 DEF Resolves, Reached, Owed
<1>5. ASSUME NEW r \in Runs, CancelsFound(r) PROVE Reached'
  <2>1. CASE CancelStamp(r)
    BY <1>1, <1>5, <2>1 DEF CancelsFound, CancelStamp, Reached, Owed, TypeOK
  <2>2. CASE status[r] \in Terminal /\ UNCHANGED vars
    BY <1>1, <1>5, <2>2 DEF CancelsFound, Reached, Owed, vars, rowVars
  <2> QED BY <1>5, <2>1, <2>2 DEF CancelsFound
<1>6. CASE Select
  BY <1>1, <1>6 DEF Select, Found, Reached, Owed, vars, rowVars
<1>7. CASE Disable \/ DisableFails \/ Disabled \/ Enable
  BY <1>1, <1>7 DEF Disable, DisableFails, Disabled, Enable, Reached, Owed
<1>8. CASE TargetCrash
  BY <1>8 DEF TargetCrash, Reached
<1> QED
  BY <1>2, <1>3, <1>4, <1>5, <1>6, <1>7, <1>8
  DEF TargetNext, TargetStep, RunNext, Aside, allVars

\* A disabling that is over has stamped every active run that was let through on
\* the enabled target and whose config is still there, wherever the run stood.
THEOREM DisableReaches == TargetSpec => []DisableReachesRuns
<1>1. TargetInit => Reached
  BY DEF TargetInit, Reached
<1>2. TypeOK /\ Consistent /\ Reached /\ [TargetNext]_allVars => Reached'
  BY ReachedStep
<1>3. Reached => DisableReachesRuns
  BY DEF Reached, Owed, DisableReachesRuns
<1>4. TypeOK /\ Consistent /\ [Next]_vars => Consistent'
  BY ConsistentStep
<1> QED
  BY <1>1, <1>2, <1>3, <1>4, ConsistentInit, TypeInvariant, TargetImplementsRuns, PTL
  DEF TargetSpec, Spec
=============================================================================
