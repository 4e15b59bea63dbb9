---------------------------- MODULE AgentExecutor ----------------------------
(***************************************************************************)
(* The import agent's process: its reconnect loop (main.ts), the frames of *)
(* a session (client.ts), the executor of import jobs with its capacity,   *)
(* its awaits before the acknowledgement and its cancellation              *)
(* (executor.ts), and the runner of URL-check probes (probe.ts).           *)
(*                                                                         *)
(* A step is a turn of the event loop: a frame, or the return of an await. *)
(* Every session has an executor and a probe runner of its own; the jobs   *)
(* of a session that ended go on in the process until their importer       *)
(* returns.  Assets, phases and the source identity of a job are one kind  *)
(* of frame.                                                               *)
(***************************************************************************)
EXTENDS Naturals, FiniteSets

CONSTANTS
  Runs, Probes,
  MaxJobs, MaxProbes,   \* AGENT_MAX_JOBS and the in-flight cap of probes
  MaxSessions,          \* bound: the sessions the process opens
  MaxSettled            \* bound: how often a run is assigned on a session

ASSUME CapsAssumption == MaxJobs \in Nat \ {0} /\ MaxProbes \in Nat \ {0}
ASSUME BoundsAssumption == MaxSessions \in Nat \ {0} /\ MaxSettled \in Nat

VARIABLES
  loop,      \* runSessionLoop: "connecting", "session", "backoff", "exited"
  n,         \* the session opened last
  sock,      \* its socket: "open", "closing" (closed by the agent), "closed"
  verdict,   \* closeVerdict: "none", "terminal" or "retry"
  job,       \* activeJobs of every session
  probe,     \* the controllers of every session's probe runner
  frames,    \* what the hub has seen of every job on this session: history
  word       \* the reason of the hub's close frame on this session: history

vars == <<loop, n, sock, verdict, job, probe, frames, word>>
link == <<loop, n, sock, verdict, word>>

AllSessions == 1..MaxSessions

\* The await a job is at; "none" when it is not in activeJobs.
JobPlaces == {"none", "lookup", "target", "secrets", "running"}
Job == [pc : JobPlaces, aborted : BOOLEAN]
NoJob == [pc |-> "none", aborted |-> FALSE]

ProbeStates == {"none", "flight", "aborted"}

Results == {"CANCELLED", "ended"}       \* "ended": COMPLETED or FAILED
LastFrames == Results \union {"idle", "held", "acked", "nacked"}
NoFrames == [r \in Runs |-> [last |-> "idle", settled |-> 0]]

Init ==
  /\ loop = "connecting" /\ n = 0 /\ sock = "closed" /\ verdict = "none"
  /\ job = [s \in AllSessions |-> [r \in Runs |-> NoJob]]
  /\ probe = [s \in AllSessions |-> [p \in Probes |-> "none"]]
  /\ frames = NoFrames
  /\ word = "none"

Held(s, r) == job[s][r].pc # "none"
Active(s) == {r \in Runs : Held(s, r)}
InFlight(s) == {p \in Probes : probe[s][p] # "none"}

TypeOK ==
  /\ loop \in {"connecting", "session", "backoff", "exited"}
  /\ n \in 0..MaxSessions
  /\ sock \in {"open", "closing", "closed"}
  /\ verdict \in {"none", "terminal", "retry"}
  /\ job \in [AllSessions -> [Runs -> Job]]
  /\ probe \in [AllSessions -> [Probes -> ProbeStates]]
  /\ frames \in [Runs -> [last : LastFrames, settled : 0..MaxSettled]]
  /\ word \in {"none", "terminal", "retry"}
  /\ loop = "session" <=> sock # "closed"
-----------------------------------------------------------------------------
(* The session and its frames.                                             *)

\* Frames of the hub are handled until its close frame or the end of the socket,
\* also after the agent's own close; the agent's get out while it is open.
Listens(s) == s = n /\ sock # "closed" /\ word = "none"
Sends(s) == s = n /\ sock = "open"

\* The job leaves the map, or moves on, with what it sends to the hub.
Noted(s, r, last, count) ==
  IF Sends(s)
  THEN frames' = [frames EXCEPT ![r] = [last |-> last, settled |-> @.settled + count]]
  ELSE UNCHANGED frames

Moves(s, r, pc) == job' = [job EXCEPT ![s][r].pc = pc]
Leaves(s, r) == job' = [job EXCEPT ![s][r] = NoJob]
Nack(s, r) == Leaves(s, r) /\ Noted(s, r, "nacked", 1)
EndsAs(s, r, result) == Leaves(s, r) /\ Noted(s, r, result, 1)

\* Seeded bug: the job that fills the last slot is not counted.
AtCapacityMutant(s) == Cardinality(Active(s)) > MaxJobs
AtCapacity(s) == Cardinality(Active(s)) >= MaxJobs

\* An acknowledgement and a result in the same turn.
ConfirmCancelled(s, r) == EndsAs(s, r, "CANCELLED")

\* Seeded bug: an assignment for a run that is already held is acknowledged again.
JobAssignMutant(s, r) ==
  /\ Listens(s) /\ frames[r].settled < MaxSettled
  /\ IF AtCapacity(s)
     THEN Noted(s, r, "nacked", 1) /\ UNCHANGED job
     ELSE /\ job' = [job EXCEPT ![s][r] = [NoJob EXCEPT !.pc = "lookup"]]
          /\ Noted(s, r, "held", 0)
  /\ UNCHANGED <<probe, link>>

\* A job is registered before the awaits, so that a cancel finds it.
JobAssign(s, r) ==
  /\ Listens(s) /\ ~Held(s, r) /\ frames[r].settled < MaxSettled
  /\ IF AtCapacity(s)
     THEN Noted(s, r, "nacked", 1) /\ UNCHANGED job
     ELSE /\ job' = [job EXCEPT ![s][r] = [NoJob EXCEPT !.pc = "lookup"]]
          /\ Noted(s, r, "held", 0)
  /\ UNCHANGED <<probe, link>>

HandleCancel(s, r) ==
  /\ Listens(s) /\ Held(s, r)
  /\ job' = [job EXCEPT ![s][r] = [@ EXCEPT !.aborted = TRUE]]
  /\ UNCHANGED <<probe, frames, link>>
-----------------------------------------------------------------------------
(* The job, from await to await.                                           *)

\* getImporter and getManifest.
Lookup(s, r) ==
  /\ job[s][r].pc = "lookup"
  /\ \/ Moves(s, r, "target") /\ UNCHANGED frames
     \/ job[s][r].aborted /\ ConfirmCancelled(s, r)
     \/ ~job[s][r].aborted /\ Nack(s, r)
  /\ UNCHANGED <<probe, link>>

\* The target preflight: passed, not wanted, or refused, whatever was cancelled.
Target(s, r) ==
  /\ job[s][r].pc = "target"
  /\ \/ Moves(s, r, "secrets") /\ UNCHANGED frames
     \/ Nack(s, r)
  /\ UNCHANGED <<probe, link>>

Secrets(s, r) ==
  /\ job[s][r].pc = "secrets"
  /\ IF job[s][r].aborted
     THEN ConfirmCancelled(s, r)
     ELSE \/ Moves(s, r, "running") /\ Noted(s, r, "acked", 0)
          \/ Nack(s, r)
  /\ UNCHANGED <<probe, link>>

\* Seeded bug: the catch block reports the failure whatever the signal says.
RunEndsMutant(s, r) ==
  /\ job[s][r].pc = "running"
  /\ \E result \in Results : EndsAs(s, r, result)
  /\ UNCHANGED <<probe, link>>

\* The importer returns or throws; an aborted job is CANCELLED either way.
RunEnds(s, r) ==
  /\ job[s][r].pc = "running"
  /\ EndsAs(s, r, IF job[s][r].aborted THEN "CANCELLED" ELSE "ended")
  /\ UNCHANGED <<probe, link>>
-----------------------------------------------------------------------------
(* Probes.                                                                 *)

\* At the cap a probe is refused, SATURATED, in the same turn.
HandleProbe(s, p) ==
  /\ Listens(s) /\ probe[s][p] = "none" /\ Cardinality(InFlight(s)) < MaxProbes
  /\ probe' = [probe EXCEPT ![s][p] = "flight"]
  /\ UNCHANGED <<job, frames, link>>

CancelProbe(s, p) ==
  /\ Listens(s) /\ probe[s][p] = "flight"
  /\ probe' = [probe EXCEPT ![s][p] = "aborted"]
  /\ UNCHANGED <<job, frames, link>>

ProbeEnds(s, p) ==
  /\ probe[s][p] # "none"
  /\ probe' = [probe EXCEPT ![s][p] = "none"]
  /\ UNCHANGED <<job, frames, link>>
-----------------------------------------------------------------------------
(* The connection and the reconnect loop.                                  *)

Connect ==
  /\ loop = "connecting" /\ n < MaxSessions
  /\ loop' = "session" /\ n' = n + 1 /\ sock' = "open"
  /\ verdict' = "none" /\ word' = "none" /\ frames' = NoFrames
  /\ UNCHANGED <<job, probe>>

\* The upgrade is refused: 401 and 403 end the process, anything else is retried.
ConnectFails ==
  /\ loop = "connecting" /\ loop' \in {"exited", "backoff"}
  /\ UNCHANGED <<n, sock, verdict, job, probe, frames, word>>

\* The hub's close frame, its last.
HubCloses ==
  /\ sock # "closed" /\ word = "none"
  /\ \E v \in {"terminal", "retry"} : verdict' = v /\ word' = v
  /\ UNCHANGED <<loop, n, sock, job, probe, frames>>

\* An unparseable frame or an unknown type.
RejectFrame ==
  /\ sock # "closed" /\ word = "none"
  /\ verdict' = "terminal" /\ sock' = "closing"
  /\ UNCHANGED <<loop, n, job, probe, frames, word>>

Aborted(jobs) ==
  [r \in Runs |-> IF jobs[r].pc = "none" THEN jobs[r] ELSE [jobs[r] EXCEPT !.aborted = TRUE]]

\* Seeded bug: the teardown aborts the jobs that were acknowledged.
AbortAllMutant(jobs) ==
  [r \in Runs |-> IF jobs[r].pc # "running" THEN jobs[r] ELSE [jobs[r] EXCEPT !.aborted = TRUE]]
AbortAll(jobs) == Aborted(jobs)

AfterSession(v) == IF v = "terminal" THEN "exited" ELSE "backoff"

\* The 'close' event: local work is aborted, the session has ended.
SocketClosed ==
  /\ sock # "closed" /\ sock' = "closed"
  /\ job' = [job EXCEPT ![n] = AbortAll(@)]
  /\ probe' = [probe EXCEPT ![n] =
       [p \in Probes |-> IF @[p] = "flight" THEN "aborted" ELSE @[p]]]
  /\ loop' = AfterSession(verdict)
  /\ UNCHANGED <<n, verdict, frames, word>>

Retry ==
  /\ loop = "backoff" /\ loop' = "connecting"
  /\ UNCHANGED <<n, sock, verdict, job, probe, frames, word>>
-----------------------------------------------------------------------------
Advance(s, r) == Lookup(s, r) \/ Target(s, r) \/ Secrets(s, r) \/ RunEnds(s, r)

Connection == Connect \/ ConnectFails \/ HubCloses \/ RejectFrame \/ SocketClosed \/ Retry

Next ==
  \/ \E s \in AllSessions, r \in Runs : JobAssign(s, r) \/ HandleCancel(s, r) \/ Advance(s, r)
  \/ \E s \in AllSessions, p \in Probes : HandleProbe(s, p) \/ CancelProbe(s, p) \/ ProbeEnds(s, p)
  \/ Connection

Spec == Init /\ [][Next]_vars

\* The awaits of a job return, its importer ends, a probe has a timeout, a socket
\* the agent closed or the hub said goodbye on is closed.
Fairness ==
  /\ \A s \in AllSessions, r \in Runs : WF_vars(Advance(s, r))
  /\ \A s \in AllSessions, p \in Probes : WF_vars(ProbeEnds(s, p))
  /\ WF_vars(SocketClosed /\ verdict # "none")
  /\ WF_vars(Retry)

FairSpec == Spec /\ Fairness
-----------------------------------------------------------------------------
(* Properties.                                                             *)

\* A session is each job's lifeline: once it is over, every job and probe it
\* still has in the process is aborted, whatever await it was at.
NothingOutlivesItsSession ==
  \A s \in AllSessions : ~(s = n /\ sock # "closed") =>
    /\ \A r \in Active(s) : job[s][r].aborted
    /\ \A p \in InFlight(s) : probe[s][p] = "aborted"

\* The caps bound the work of the process that nobody has told to stop, over all
\* its sessions: a reconnected agent does not run twice its jobs.
WorkWithinCaps ==
  /\ Cardinality({j \in AllSessions \X Runs : Held(j[1], j[2]) /\ ~job[j[1]][j[2]].aborted}) <= MaxJobs
  /\ Cardinality({p \in AllSessions \X Probes : probe[p[1]][p[2]] = "flight"}) <= MaxProbes

\* A job settles in this step, as the hub sees it.
Settles(r) == frames'[r].settled > frames[r].settled

\* A cancel that reached the agent while it held the job is heard: the job ends
\* CANCELLED, or with the rejection of a preflight, and never as a result.
CancelIsHeard ==
  [][\A s \in AllSessions, r \in Runs :
       s = n /\ job[s][r].aborted /\ Settles(r) =>
         frames'[r].last \in {"CANCELLED", "nacked"}]_vars

\* The comment of confirmCancelled, "Cancel wins over any concurrent failure":
\* a cancelled job is confirmed CANCELLED, also when its target is refused.
CancelWinsOverFailure ==
  [][\A s \in AllSessions, r \in Runs :
       s = n /\ job[s][r].aborted /\ Settles(r) => frames'[r].last = "CANCELLED"]_vars

\* An agent that the hub superseded, revoked or found incompatible does not come
\* back and take the place of the one that replaced it.
TerminalIsFinal == [][word = "terminal" => n' = n]_vars

\* The executor keeps the contract of AgentContract on every session.
Standing(last) ==
  IF last \in {"held", "acked"} THEN last ELSE "free"
Contract == INSTANCE AgentContract
  WITH Jobs <- Runs,
       standing <- [r \in Runs |-> Standing(frames[r].last)],
       settled <- [r \in Runs |-> frames[r].settled],
       over <- sock # "open"
ContractSpec == Contract!ContractSpec
=============================================================================
