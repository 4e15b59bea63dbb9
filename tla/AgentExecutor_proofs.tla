------------------------ MODULE AgentExecutor_proofs ------------------------
(***************************************************************************)
(* Proofs about AgentExecutor, for any runs, probes, caps and sessions:    *)
(*   - the jobs and probes of a session that is over are all aborted;      *)
(*   - the caps bound the work nobody has told to stop;                    *)
(*   - a cancel the executor has seen is heard;                            *)
(*   - after a terminal close frame the agent does not come back;          *)
(*   - every session keeps the safety part of AgentContract.               *)
(* A step of a job is one of a few kinds (JobEffect); the inductive        *)
(* invariant, Inv, relates the jobs of the current session to what the hub *)
(* has been sent, and says that a session yet to come has no work.         *)
(***************************************************************************)
EXTENDS AgentExecutor, FiniteSetTheorems, TLAPS

Over(s) == ~(s = n /\ sock # "closed")

Fresh ==
  \A s \in AllSessions : s > n =>
    /\ \A r \in Runs : job[s][r].pc = "none"
    /\ \A p \in Probes : probe[s][p] = "none"

Room ==
  \A s \in AllSessions, r \in Runs :
    s = n /\ Held(s, r) => frames[r].settled < MaxSettled

\* While the session is open the hub knows where each of its jobs stands.
StandingOf(pc) ==
  CASE pc = "none" -> "free" [] pc = "running" -> "acked" [] OTHER -> "held"
Placed ==
  \A s \in AllSessions, r \in Runs :
    s = n /\ sock = "open" => Standing(frames[r].last) = StandingOf(job[s][r].pc)

Capped ==
  \A s \in AllSessions :
    /\ IsFiniteSet(Active(s)) /\ Cardinality(Active(s)) <= MaxJobs
    /\ IsFiniteSet(InFlight(s)) /\ Cardinality(InFlight(s)) <= MaxProbes

Inv == TypeOK /\ Fresh /\ Room /\ Placed /\ Capped /\ NothingOutlivesItsSession

\* The other jobs stay as they are.
Others(s, r) ==
  \A t \in AllSessions, q \in Runs : ~(t = s /\ q = r) => job'[t][q] = job[t][q]

Refused(s, r) ==
  /\ ~Held(s, r) /\ Listens(s) /\ job' = job
  /\ frames[r].settled < MaxSettled /\ Noted(s, r, "nacked", 1)
Taken(s, r) ==
  /\ ~Held(s, r) /\ Listens(s) /\ ~AtCapacity(s)
  /\ job'[s][r].pc = "lookup" /\ ~job'[s][r].aborted
  /\ frames[r].settled < MaxSettled /\ Noted(s, r, "held", 0)
Cancelled(s, r) ==
  /\ Held(s, r) /\ job'[s][r].pc = job[s][r].pc /\ job'[s][r].aborted /\ frames' = frames
Moved(s, r) ==
  /\ job[s][r].pc \in {"lookup", "target"} /\ job'[s][r].pc \in {"target", "secrets"}
  /\ (job'[s][r].aborted <=> job[s][r].aborted) /\ frames' = frames
Acked(s, r) ==
  /\ job[s][r].pc = "secrets" /\ job'[s][r].pc = "running"
  /\ ~job[s][r].aborted /\ ~job'[s][r].aborted
  /\ Noted(s, r, "acked", 0)
Ended(s, r, last) ==
  /\ Held(s, r) /\ job'[s][r].pc = "none"
  /\ last = "nacked" => job[s][r].pc # "running"
  /\ job[s][r].aborted => last \in {"CANCELLED", "nacked"}
  /\ Noted(s, r, last, 1)
JobEffect(s, r) ==
  /\ job' \in [AllSessions -> [Runs -> Job]]
  /\ Others(s, r)
  /\ UNCHANGED <<probe, loop, n, sock, verdict, word>>
  /\ \/ Refused(s, r) \/ Taken(s, r) \/ Cancelled(s, r) \/ Moved(s, r) \/ Acked(s, r)
     \/ \E last \in Results \cup {"nacked"} : Ended(s, r, last)

\* One job of one session gets another record.
LEMMA JobUpdate ==
  ASSUME TypeOK, NEW s \in AllSessions, NEW r \in Runs, NEW v \in Job,
         job' = [job EXCEPT ![s][r] = v]
  PROVE  /\ job' \in [AllSessions -> [Runs -> Job]]
         /\ Others(s, r)
         /\ job'[s][r] = v
BY DEF TypeOK, Others

LEMMA JobStepEffect ==
  ASSUME TypeOK, NEW s \in AllSessions, NEW r \in Runs,
         JobAssign(s, r) \/ HandleCancel(s, r) \/ Advance(s, r)
  PROVE  JobEffect(s, r)
<1>1. job[s][r] \in Job
  BY DEF TypeOK
<1>2. NoJob \in Job /\ NoJob.pc = "none"
  BY DEF NoJob, Job, JobPlaces
<1>3. ASSUME Leaves(s, r) PROVE
        /\ job' \in [AllSessions -> [Runs -> Job]] /\ Others(s, r) /\ job'[s][r].pc = "none"
  <2>1. job' = [job EXCEPT ![s][r] = NoJob]
    BY <1>3 DEF Leaves
  <2> QED BY <1>2, <2>1, JobUpdate
<1>4. ASSUME NEW pc \in JobPlaces, Moves(s, r, pc) PROVE
        /\ job' \in [AllSessions -> [Runs -> Job]] /\ Others(s, r)
        /\ job'[s][r].pc = pc /\ job'[s][r].aborted = job[s][r].aborted
  <2> DEFINE v == [job[s][r] EXCEPT !.pc = pc]
  <2>1. v \in Job /\ v.pc = pc /\ v.aborted = job[s][r].aborted
    BY <1>1 DEF Job
  <2>2. job' = [job EXCEPT ![s][r] = v]
    BY <1>4 DEF Moves, TypeOK
  <2> HIDE DEF v
  <2> QED BY <2>1, <2>2, JobUpdate
<1>5. CASE JobAssign(s, r)
  <2>1. CASE AtCapacity(s)
    BY <1>5, <2>1 DEF JobAssign, JobEffect, Refused, Others, link, TypeOK
  <2>2. CASE ~AtCapacity(s)
    <3> DEFINE v == [NoJob EXCEPT !.pc = "lookup"]
    <3>1. v \in Job /\ v.pc = "lookup" /\ ~v.aborted
      BY DEF Job, JobPlaces, NoJob
    <3>2. job' = [job EXCEPT ![s][r] = v] /\ Noted(s, r, "held", 0)
      BY <1>5, <2>2 DEF JobAssign
    <3> HIDE DEF v
    <3>3. /\ job' \in [AllSessions -> [Runs -> Job]] /\ Others(s, r)
          /\ job'[s][r].pc = "lookup" /\ ~job'[s][r].aborted
      BY <3>1, <3>2, JobUpdate
    <3>4. Taken(s, r)
      BY <1>5, <2>2, <3>2, <3>3 DEF JobAssign, Taken
    <3> QED BY <1>5, <3>3, <3>4 DEF JobAssign, JobEffect, link
  <2> QED BY <2>1, <2>2
<1>6. CASE HandleCancel(s, r)
  <2> DEFINE v == [job[s][r] EXCEPT !.aborted = TRUE]
  <2>1. v \in Job /\ v.pc = job[s][r].pc /\ v.aborted
    BY <1>1 DEF Job
  <2>2. job' = [job EXCEPT ![s][r] = v]
    BY <1>6 DEF HandleCancel, TypeOK
  <2> HIDE DEF v
  <2>3. /\ job' \in [AllSessions -> [Runs -> Job]] /\ Others(s, r)
        /\ job'[s][r].pc = job[s][r].pc /\ job'[s][r].aborted
    BY <2>1, <2>2, JobUpdate
  <2>4. Cancelled(s, r)
    BY <1>6, <2>3 DEF HandleCancel, Cancelled
  <2> QED BY <1>6, <2>3, <2>4 DEF HandleCancel, JobEffect, link
<1>7. CASE Advance(s, r)
  <2>1. UNCHANGED <<probe, loop, n, sock, verdict, word>>
    BY <1>7 DEF Advance, Lookup, Target, Secrets, RunEnds, link
  <2>2. ASSUME NEW last \in Results \cup {"nacked"}, Held(s, r),
               Leaves(s, r), Noted(s, r, last, 1),
               last = "nacked" => job[s][r].pc # "running",
               job[s][r].aborted => last \in {"CANCELLED", "nacked"}
        PROVE  JobEffect(s, r)
    BY <1>3, <2>1, <2>2 DEF JobEffect, Ended
  <2>3. ASSUME Moves(s, r, "target"), job[s][r].pc = "lookup", frames' = frames
        PROVE  JobEffect(s, r)
    <3>1. "target" \in JobPlaces
      BY DEF JobPlaces
    <3> QED BY <1>4, <2>1, <2>3, <3>1 DEF JobEffect, Moved
  <2>4. ASSUME Moves(s, r, "secrets"), job[s][r].pc = "target", frames' = frames
        PROVE  JobEffect(s, r)
    <3>1. "secrets" \in JobPlaces
      BY DEF JobPlaces
    <3> QED BY <1>4, <2>1, <2>4, <3>1 DEF JobEffect, Moved
  <2>5. CASE Lookup(s, r)
    BY <2>2, <2>3, <2>5 DEF Lookup, ConfirmCancelled, EndsAs, Nack, Results, Held
  <2>6. CASE Target(s, r)
    BY <2>2, <2>4, <2>6 DEF Target, Nack, Held
  <2>7. CASE Secrets(s, r)
    <3>1. ASSUME Moves(s, r, "running"), Noted(s, r, "acked", 0), ~job[s][r].aborted
          PROVE  JobEffect(s, r)
      <4>1. "running" \in JobPlaces
        BY DEF JobPlaces
      <4>2. job' \in [AllSessions -> [Runs -> Job]] /\ Others(s, r)
            /\ job'[s][r].pc = "running" /\ ~job'[s][r].aborted
        BY <1>4, <3>1, <4>1
      <4> QED BY <2>1, <2>7, <3>1, <4>2 DEF Secrets, JobEffect, Acked
    <3> QED BY <2>2, <2>7, <3>1 DEF Secrets, ConfirmCancelled, EndsAs, Nack, Results, Held
  <2>8. CASE RunEnds(s, r)
    BY <2>2, <2>8 DEF RunEnds, EndsAs, Results, Held
  <2> QED BY <1>7, <2>5, <2>6, <2>7, <2>8 DEF Advance
<1> QED BY <1>5, <1>6, <1>7

\* What is noted of a job.
LEMMA NotedType ==
  ASSUME TypeOK, NEW s \in AllSessions, NEW r \in Runs, NEW last \in LastFrames,
         NEW count \in {0, 1}, Sends(s) => frames[r].settled + count <= MaxSettled,
         Noted(s, r, last, count)
  PROVE  /\ frames' \in [Runs -> [last : LastFrames, settled : 0..MaxSettled]]
         /\ \A q \in Runs \ {r} : frames'[q] = frames[q]
         /\ ~Sends(s) => frames' = frames
         /\ Sends(s) => /\ frames'[r].last = last
                        /\ frames'[r].settled = frames[r].settled + count
<1>1. CASE ~Sends(s)
  BY <1>1 DEF Noted, TypeOK
<1>2. CASE Sends(s)
  <2> DEFINE v == [last |-> last, settled |-> frames[r].settled + count]
  <2>1. frames[r].settled \in 0..MaxSettled
    BY DEF TypeOK
  <2>2. frames[r].settled + count \in 0..MaxSettled
    BY <1>2, <2>1, BoundsAssumption
  <2>3. v \in [last : LastFrames, settled : 0..MaxSettled]
        /\ v.last = last /\ v.settled = frames[r].settled + count
    BY <2>2
  <2>4. frames' = [frames EXCEPT ![r] = v]
    BY <1>2 DEF Noted, TypeOK
  <2> HIDE DEF v
  <2> QED BY <1>2, <2>3, <2>4 DEF TypeOK
<1> QED BY <1>1, <1>2

\* What a step of a job notes: the frames of the other runs stay, and those of
\* this one too unless the session is open.
LEMMA EffectFrames ==
  ASSUME Inv, NEW s \in AllSessions, NEW r \in Runs, JobEffect(s, r)
  PROVE  /\ frames' \in [Runs -> [last : LastFrames, settled : 0..MaxSettled]]
         /\ \A q \in Runs \ {r} : frames'[q] = frames[q]
         /\ ~Sends(s) => frames' = frames
         /\ Sends(s) /\ Refused(s, r) => Standing(frames'[r].last) = "free"
         /\ Sends(s) /\ Taken(s, r) => frames'[r].last = "held"
         /\ Sends(s) /\ Acked(s, r) => frames'[r].last = "acked"
         /\ Sends(s) /\ (\E last \in Results \cup {"nacked"} : Ended(s, r, last)) =>
              Standing(frames'[r].last) = "free"
         /\ Taken(s, r) \/ Acked(s, r) => frames'[r].settled = frames[r].settled
<1> USE DEF Inv
<1>1. frames[r].settled \in Nat
  BY DEF TypeOK
<1>2. CASE Refused(s, r)
  <2>1. /\ "nacked" \in LastFrames /\ Standing("nacked") = "free"
        /\ frames[r].settled + 1 <= MaxSettled /\ Noted(s, r, "nacked", 1)
    BY <1>1, <1>2, BoundsAssumption DEF Refused, LastFrames, Standing, TypeOK
  <2> QED BY <1>2, <2>1, NotedType DEF Refused, Taken, Acked, Ended, Held
<1>3. CASE Taken(s, r)
  <2>1. /\ "held" \in LastFrames /\ frames[r].settled + 0 <= MaxSettled
        /\ frames[r].settled + 0 = frames[r].settled /\ Noted(s, r, "held", 0)
    BY <1>1, <1>3, BoundsAssumption DEF Taken, LastFrames, TypeOK
  <2>2. ~Acked(s, r) /\ ~Refused(s, r) /\ \A last : ~Ended(s, r, last)
    BY <1>3 DEF Taken, Refused, Acked, Ended, Held, TypeOK
  <2> QED BY <1>3, <2>1, <2>2, NotedType
<1>4. CASE Cancelled(s, r) \/ Moved(s, r)
  <2>1. ~Refused(s, r) /\ ~Taken(s, r) /\ ~Acked(s, r) /\ \A last : ~Ended(s, r, last)
    BY <1>4 DEF Cancelled, Moved, Refused, Taken, Acked, Ended, Held
  <2>2. frames' = frames
    BY <1>4 DEF Cancelled, Moved
  <2> QED BY <2>1, <2>2 DEF TypeOK
<1>5. CASE Acked(s, r)
  <2>1. /\ "acked" \in LastFrames /\ frames[r].settled + 0 <= MaxSettled
        /\ frames[r].settled + 0 = frames[r].settled /\ Noted(s, r, "acked", 0)
    BY <1>1, <1>5 DEF Acked, LastFrames, TypeOK
  <2>2. ~Refused(s, r) /\ ~Taken(s, r) /\ \A last : ~Ended(s, r, last)
    BY <1>5 DEF Taken, Refused, Acked, Ended, Held
  <2> QED BY <1>5, <2>1, <2>2, NotedType
<1>6. ASSUME NEW last \in Results \cup {"nacked"}, Ended(s, r, last)
      PROVE  /\ frames' \in [Runs -> [last : LastFrames, settled : 0..MaxSettled]]
             /\ \A q \in Runs \ {r} : frames'[q] = frames[q]
             /\ ~Sends(s) => frames' = frames
             /\ Sends(s) => Standing(frames'[r].last) = "free"
             /\ ~Refused(s, r) /\ ~Taken(s, r) /\ ~Acked(s, r)
  <2>1. last \in LastFrames /\ Standing(last) = "free" /\ Noted(s, r, last, 1)
    BY <1>6 DEF Results, LastFrames, Standing, Ended
  <2>2. Sends(s) => frames[r].settled + 1 <= MaxSettled
    BY <1>1, <1>6, BoundsAssumption DEF Sends, Room, Ended
  <2>3. ~Refused(s, r) /\ ~Taken(s, r) /\ ~Acked(s, r)
    BY <1>6 DEF Taken, Refused, Acked, Ended, Held
  <2> QED BY <2>1, <2>2, <2>3, NotedType
<1> QED BY <1>2, <1>3, <1>4, <1>5, <1>6 DEF JobEffect

LEMMA EffectKeeps ==
  ASSUME Inv, NEW s \in AllSessions, NEW r \in Runs, JobEffect(s, r)
  PROVE  Inv'
<1> USE DEF Inv
<1>1. TypeOK'
  BY EffectFrames DEF TypeOK, JobEffect
<1>2. Fresh'
  BY DEF Fresh, JobEffect, Others, Refused, Taken, Cancelled, Moved, Acked, Ended, Held,
         Listens, TypeOK
<1>3. Room'
  <2> SUFFICES ASSUME NEW t \in AllSessions, NEW q \in Runs, t = n', Held(t, q)'
               PROVE  frames'[q].settled < MaxSettled
    BY DEF Room
  <2>1. CASE t = s /\ q = r
    <3>1. CASE Taken(s, r)
      BY <2>1, <3>1, EffectFrames DEF Taken
    <3>2. CASE Acked(s, r)
      BY <2>1, <3>2, EffectFrames DEF Acked, Held, Room, JobEffect
    <3>3. CASE Cancelled(s, r) \/ Moved(s, r)
      BY <2>1, <3>3 DEF Cancelled, Moved, Held, Room, JobEffect
    <3>4. ~Refused(s, r) /\ \A last : ~Ended(s, r, last)
      BY <2>1 DEF Refused, Ended, Held
    <3> QED BY <3>1, <3>2, <3>3, <3>4 DEF JobEffect
  <2>2. CASE ~(t = s /\ q = r)
    <3>1. Held(t, q) /\ t = n
      BY <2>2 DEF JobEffect, Others, Held
    <3>2. frames'[q] = frames[q]
      BY <2>2, <3>1, EffectFrames DEF Sends
    <3> QED BY <3>1, <3>2 DEF Room
  <2> QED BY <2>1, <2>2
<1>4. Placed'
  <2> SUFFICES ASSUME NEW t \in AllSessions, NEW q \in Runs, t = n', sock' = "open"
               PROVE  Standing(frames'[q].last) = StandingOf(job'[t][q].pc)
    BY DEF Placed
  <2>1. t = n /\ sock = "open"
    BY DEF JobEffect
  <2>2. CASE t = s /\ q = r
    <3>1. Sends(s)
      BY <2>1, <2>2 DEF Sends
    <3>2. CASE Refused(s, r)
      BY <2>2, <3>1, <3>2, EffectFrames DEF Refused, Held, StandingOf
    <3>3. CASE Taken(s, r)
      BY <2>2, <3>1, <3>3, EffectFrames DEF Taken, Standing, StandingOf
    <3>4. CASE Cancelled(s, r) \/ Moved(s, r)
      BY <2>1, <2>2, <3>4 DEF Cancelled, Moved, Placed, StandingOf
    <3>5. CASE Acked(s, r)
      BY <2>2, <3>1, <3>5, EffectFrames DEF Acked, Standing, StandingOf
    <3>6. ASSUME NEW last \in Results \cup {"nacked"}, Ended(s, r, last)
          PROVE  Standing(frames'[q].last) = StandingOf(job'[t][q].pc)
      BY <2>2, <3>1, <3>6, EffectFrames DEF Ended, StandingOf
    <3> QED BY <3>2, <3>3, <3>4, <3>5, <3>6 DEF JobEffect
  <2>3. CASE ~(t = s /\ q = r)
    <3>1. job'[t][q] = job[t][q]
      BY <2>3 DEF JobEffect, Others
    <3>2. frames'[q] = frames[q]
      BY <2>1, <2>3, EffectFrames DEF Sends
    <3> QED BY <2>1, <3>1, <3>2 DEF Placed
  <2> QED BY <2>2, <2>3
<1>5. Capped'
  <2> SUFFICES ASSUME NEW t \in AllSessions
               PROVE  /\ IsFiniteSet(Active(t)') /\ Cardinality(Active(t)') <= MaxJobs
                      /\ IsFiniteSet(InFlight(t)') /\ Cardinality(InFlight(t)') <= MaxProbes
    BY DEF Capped
  <2>1. InFlight(t)' = InFlight(t)
    BY DEF JobEffect, InFlight
  <2>2. CASE t = s /\ Taken(s, r)
    <3>1. Active(t)' = Active(t) \cup {r} /\ r \notin Active(t)
      BY <2>2 DEF JobEffect, Others, Taken, Active, Held
    <3>2. Cardinality(Active(t)) \in Nat /\ ~(Cardinality(Active(t)) >= MaxJobs)
      BY <2>2, FS_CardinalityType DEF Capped, Taken, AtCapacity
    <3>3. IsFiniteSet(Active(t)') /\ Cardinality(Active(t)') = Cardinality(Active(t)) + 1
      BY <3>1, FS_AddElement DEF Capped
    <3> QED BY <2>1, <3>2, <3>3, CapsAssumption DEF Capped
  <2>3. CASE ~(t = s /\ Taken(s, r))
    <3>1. Active(t)' \subseteq Active(t)
      BY <2>3 DEF JobEffect, Others, Refused, Cancelled, Moved, Acked, Ended, Active, Held
    <3>2. /\ IsFiniteSet(Active(t)') /\ Cardinality(Active(t)') <= Cardinality(Active(t))
          /\ Cardinality(Active(t)') \in Nat /\ Cardinality(Active(t)) \in Nat
      BY <3>1, FS_Subset, FS_CardinalityType DEF Capped
    <3> QED BY <2>1, <3>2, CapsAssumption DEF Capped
  <2> QED BY <2>2, <2>3
<1>6. NothingOutlivesItsSession'
  <2>1. ASSUME NEW t \in AllSessions, NEW q \in Active(t)', ~(t = n' /\ sock' # "closed")
        PROVE  job'[t][q].aborted
    <3>1. ~(t = n /\ sock # "closed") /\ q \in Runs /\ job'[t][q].pc # "none"
      BY <2>1 DEF JobEffect, Active, Held
    <3>2. CASE t = s /\ q = r
      <4>1. Held(s, r) => job[s][r].aborted
        BY <3>1, <3>2 DEF NothingOutlivesItsSession, Active
      <4>2. ~Refused(s, r) /\ ~Taken(s, r) /\ \A last : ~Ended(s, r, last)
        BY <3>1, <3>2 DEF Refused, Taken, Ended, Held, Listens
      <4> QED BY <3>2, <4>1, <4>2 DEF JobEffect, Cancelled, Moved, Acked, Held
    <3>3. CASE ~(t = s /\ q = r)
      BY <3>1, <3>3 DEF JobEffect, Others, NothingOutlivesItsSession, Active, Held
    <3> QED BY <3>2, <3>3
  <2>2. ASSUME NEW t \in AllSessions, NEW p \in InFlight(t)', ~(t = n' /\ sock' # "closed")
        PROVE  probe'[t][p] = "aborted"
    BY <2>2 DEF JobEffect, InFlight, NothingOutlivesItsSession
  <2> QED BY <2>1, <2>2 DEF NothingOutlivesItsSession
<1> QED BY <1>1, <1>2, <1>3, <1>4, <1>5, <1>6

\* A step of a probe.
LEMMA ProbeKeeps ==
  ASSUME Inv, NEW s \in AllSessions, NEW p \in Probes,
         HandleProbe(s, p) \/ CancelProbe(s, p) \/ ProbeEnds(s, p)
  PROVE  Inv'
<1> USE DEF Inv
<1>1. UNCHANGED <<job, frames, loop, n, sock, verdict, word>>
  BY DEF HandleProbe, CancelProbe, ProbeEnds, link
<1>2. /\ probe' \in [AllSessions -> [Probes -> ProbeStates]]
      /\ \A t \in AllSessions, q \in Probes : ~(t = s /\ q = p) => probe'[t][q] = probe[t][q]
  BY DEF HandleProbe, CancelProbe, ProbeEnds, TypeOK, ProbeStates
<1>3. \/ /\ probe'[s][p] = "flight" /\ probe[s][p] = "none" /\ Listens(s)
         /\ Cardinality(InFlight(s)) < MaxProbes
      \/ probe'[s][p] = "aborted" /\ probe[s][p] # "none"
      \/ probe'[s][p] = "none" /\ probe[s][p] # "none"
  BY DEF HandleProbe, CancelProbe, ProbeEnds, TypeOK
<1>4. TypeOK'
  BY <1>1, <1>2 DEF TypeOK
<1>5. Fresh'
  BY <1>1, <1>2, <1>3 DEF Fresh, Listens, TypeOK
<1>6. Room' /\ Placed'
  BY <1>1 DEF Room, Placed, Held
<1>7. Capped'
  <2> SUFFICES ASSUME NEW t \in AllSessions
               PROVE  /\ IsFiniteSet(Active(t)') /\ Cardinality(Active(t)') <= MaxJobs
                      /\ IsFiniteSet(InFlight(t)') /\ Cardinality(InFlight(t)') <= MaxProbes
    BY DEF Capped
  <2>1. Active(t)' = Active(t)
    BY <1>1 DEF Active, Held
  <2>2. CASE t = s /\ probe'[s][p] = "flight"
    <3>1. InFlight(t)' = InFlight(t) \cup {p} /\ p \notin InFlight(t)
          /\ Cardinality(InFlight(t)) < MaxProbes
      BY <1>2, <1>3, <2>2 DEF InFlight
    <3>2. Cardinality(InFlight(t)) \in Nat
      BY FS_CardinalityType DEF Capped
    <3>3. IsFiniteSet(InFlight(t)') /\ Cardinality(InFlight(t)') = Cardinality(InFlight(t)) + 1
      BY <3>1, FS_AddElement DEF Capped
    <3> QED BY <2>1, <3>1, <3>2, <3>3, CapsAssumption DEF Capped
  <2>3. CASE ~(t = s /\ probe'[s][p] = "flight")
    <3>1. InFlight(t)' \subseteq InFlight(t)
      BY <1>2, <1>3, <2>3 DEF InFlight
    <3>2. /\ IsFiniteSet(InFlight(t)') /\ Cardinality(InFlight(t)') <= Cardinality(InFlight(t))
          /\ Cardinality(InFlight(t)') \in Nat /\ Cardinality(InFlight(t)) \in Nat
      BY <3>1, FS_Subset, FS_CardinalityType DEF Capped
    <3> QED BY <2>1, <3>2, CapsAssumption DEF Capped
  <2> QED BY <2>2, <2>3
<1>8. NothingOutlivesItsSession'
  <2>1. ASSUME NEW t \in AllSessions, NEW r \in Active(t)', ~(t = n' /\ sock' # "closed")
        PROVE  job'[t][r].aborted
    BY <1>1, <2>1 DEF Active, Held, NothingOutlivesItsSession
  <2>2. ASSUME NEW t \in AllSessions, NEW q \in InFlight(t)', ~(t = n' /\ sock' # "closed")
        PROVE  probe'[t][q] = "aborted"
    <3>1. q \in Probes /\ probe'[t][q] # "none"
      BY <2>2 DEF InFlight
    <3>2. CASE t = s /\ q = p
      BY <1>1, <1>3, <2>2, <3>1, <3>2 DEF Listens
    <3>3. CASE ~(t = s /\ q = p)
      BY <1>1, <1>2, <2>2, <3>1, <3>3 DEF InFlight, NothingOutlivesItsSession
    <3> QED BY <3>2, <3>3
  <2> QED BY <2>1, <2>2 DEF NothingOutlivesItsSession
<1> QED BY <1>4, <1>5, <1>6, <1>7, <1>8

\* A new session has no work, and its frames start afresh.
LEMMA ConnectKeeps ==
  ASSUME Inv, Connect
  PROVE  Inv'
<1> USE DEF Inv
<1>1. /\ n' = n + 1 /\ n' \in 0..MaxSessions /\ sock' = "open" /\ loop' = "session"
      /\ frames' = NoFrames /\ UNCHANGED <<job, probe>> /\ sock = "closed" /\ n \in 0..MaxSessions
  BY BoundsAssumption DEF Connect, TypeOK
<1>2. \A r \in Runs : NoFrames[r].last = "idle" /\ NoFrames[r].settled = 0
  BY DEF NoFrames
<1>3. NoFrames \in [Runs -> [last : LastFrames, settled : 0..MaxSettled]]
  BY BoundsAssumption DEF NoFrames, LastFrames
<1>4. TypeOK'
  <2>1. verdict' = "none" /\ word' = "none"
    BY DEF Connect
  <2>2. frames' \in [Runs -> [last : LastFrames, settled : 0..MaxSettled]]
    BY <1>1, <1>3
  <2>3. loop' = "session" <=> sock' # "closed"
    BY <1>1
  <2>4. job' \in [AllSessions -> [Runs -> Job]]
        /\ probe' \in [AllSessions -> [Probes -> ProbeStates]]
    BY <1>1 DEF TypeOK
  <2> QED BY <1>1, <2>1, <2>2, <2>3, <2>4 DEF TypeOK
<1>5. Fresh'
  <2> SUFFICES ASSUME NEW s \in AllSessions, s > n'
               PROVE  /\ \A r \in Runs : job'[s][r].pc = "none"
                      /\ \A p \in Probes : probe'[s][p] = "none"
    BY DEF Fresh
  <2>1. s > n
    BY <1>1, BoundsAssumption DEF AllSessions
  <2> QED BY <1>1, <2>1 DEF Fresh
<1>6. \A s \in AllSessions, r \in Runs : s = n' => job'[s][r].pc = "none"
  BY <1>1 DEF Fresh
<1>7. Room'
  BY <1>6 DEF Room, Held
<1>8. Placed'
  BY <1>1, <1>2, <1>6 DEF Placed, Standing, StandingOf
<1>9. Capped'
  BY <1>1 DEF Capped, Active, Held, InFlight
<1>10. NothingOutlivesItsSession'
  BY <1>1 DEF NothingOutlivesItsSession, Active, Held, InFlight
<1> QED BY <1>4, <1>5, <1>7, <1>8, <1>9, <1>10

\* The end of the socket aborts what the session has.
LEMMA SocketClosedKeeps ==
  ASSUME Inv, SocketClosed
  PROVE  Inv'
<1> USE DEF Inv
<1>1. sock' = "closed" /\ n' = n /\ frames' = frames /\ loop' \in {"exited", "backoff"}
  BY DEF SocketClosed, AfterSession
<1>2. /\ job' \in [AllSessions -> [Runs -> Job]]
      /\ \A s \in AllSessions, r \in Runs :
           /\ job'[s][r].pc = job[s][r].pc
           /\ s # n => job'[s][r] = job[s][r]
           /\ s = n /\ job[s][r].pc # "none" => job'[s][r].aborted
  <2>1. \A j \in Job : /\ [j EXCEPT !.aborted = TRUE] \in Job
                      /\ [j EXCEPT !.aborted = TRUE].pc = j.pc
                      /\ [j EXCEPT !.aborted = TRUE].aborted
    BY DEF Job
  <2>2. \A s \in AllSessions :
          /\ Aborted(job[s]) \in [Runs -> Job]
          /\ \A r \in Runs : /\ Aborted(job[s])[r].pc = job[s][r].pc
                             /\ job[s][r].pc # "none" => Aborted(job[s])[r].aborted
    <3>1. \A s \in AllSessions, r \in Runs : job[s][r] \in Job
      BY DEF TypeOK
    <3> QED BY <2>1, <3>1 DEF Aborted
  <2>3. job' = [job EXCEPT ![n] = Aborted(job[n])]
    BY DEF SocketClosed, AbortAll
  <2> QED BY <2>2, <2>3 DEF TypeOK
<1>3. /\ probe' \in [AllSessions -> [Probes -> ProbeStates]]
      /\ \A s \in AllSessions, p \in Probes :
           /\ probe'[s][p] = "none" <=> probe[s][p] = "none"
           /\ s # n => probe'[s][p] = probe[s][p]
           /\ s = n /\ probe[s][p] # "none" => probe'[s][p] = "aborted"
  <2> DEFINE stopped == [p \in Probes |-> IF probe[n][p] = "flight" THEN "aborted" ELSE probe[n][p]]
  <2>1. probe' = [probe EXCEPT ![n] = stopped]
    BY DEF SocketClosed
  <2>2. n \in AllSessions =>
          /\ stopped \in [Probes -> ProbeStates]
          /\ \A p \in Probes : stopped[p] = IF probe[n][p] = "none" THEN "none" ELSE "aborted"
    BY DEF TypeOK, ProbeStates
  <2> HIDE DEF stopped
  <2> QED BY <2>1, <2>2 DEF TypeOK
<1>4. TypeOK'
  BY <1>1, <1>2, <1>3 DEF SocketClosed, TypeOK
<1>5. Fresh'
  BY <1>1, <1>2, <1>3 DEF Fresh
<1>6. Room' /\ Placed'
  BY <1>1, <1>2 DEF Room, Placed, Held
<1>7. \A s \in AllSessions : Active(s)' = Active(s) /\ InFlight(s)' = InFlight(s)
  BY <1>2, <1>3 DEF Active, Held, InFlight
<1>8. Capped'
  BY <1>7 DEF Capped
<1>9. NothingOutlivesItsSession'
  <2>1. ASSUME NEW s \in AllSessions, NEW r \in Active(s)' PROVE job'[s][r].aborted
    <3>1. r \in Runs /\ r \in Active(s) /\ job[s][r].pc # "none"
      BY <1>7, <2>1 DEF Active, Held
    <3> QED BY <1>2, <3>1 DEF NothingOutlivesItsSession
  <2>2. ASSUME NEW s \in AllSessions, NEW p \in InFlight(s)' PROVE probe'[s][p] = "aborted"
    <3>1. p \in Probes /\ p \in InFlight(s) /\ probe[s][p] # "none"
      BY <1>7, <2>2 DEF InFlight
    <3> QED BY <1>3, <3>1 DEF NothingOutlivesItsSession
  <2> QED BY <2>1, <2>2 DEF NothingOutlivesItsSession
<1> QED BY <1>4, <1>5, <1>6, <1>8, <1>9

LEMMA ConnectionKeeps ==
  ASSUME Inv, ConnectFails \/ HubCloses \/ RejectFrame \/ Retry \/ UNCHANGED vars
  PROVE  Inv'
<1> USE DEF Inv
<1>1. UNCHANGED <<job, probe, frames, n>>
  BY DEF ConnectFails, HubCloses, RejectFrame, Retry, vars
<1>2. /\ sock' \in {sock, "closing"} /\ (sock = "closed" <=> sock' = "closed")
      /\ sock' = "open" => sock = "open"
  BY DEF ConnectFails, HubCloses, RejectFrame, Retry, vars, TypeOK
<1>3. TypeOK'
  BY <1>1, <1>2 DEF ConnectFails, HubCloses, RejectFrame, Retry, vars, TypeOK
<1>4. Fresh' /\ Room' /\ Placed'
  BY <1>1, <1>2 DEF Fresh, Room, Placed, Held
<1>5. Capped'
  BY <1>1 DEF Capped, Active, Held, InFlight
<1>6. NothingOutlivesItsSession'
  BY <1>1, <1>2 DEF NothingOutlivesItsSession, Active, Held, InFlight
<1> QED BY <1>3, <1>4, <1>5, <1>6

LEMMA InvStep == Inv /\ [Next]_vars => Inv'
<1> SUFFICES ASSUME Inv, [Next]_vars PROVE Inv'
  OBVIOUS
<1>1. ASSUME NEW s \in AllSessions, NEW r \in Runs,
             JobAssign(s, r) \/ HandleCancel(s, r) \/ Advance(s, r)
      PROVE  Inv'
  BY <1>1, JobStepEffect, EffectKeeps DEF Inv
<1> QED
  BY <1>1, ProbeKeeps, ConnectKeeps, SocketClosedKeeps, ConnectionKeeps DEF Next, Connection

LEMMA InitInv == Init => Inv
<1> SUFFICES ASSUME Init PROVE Inv
  OBVIOUS
<1>1. TypeOK
  BY BoundsAssumption
     DEF Init, TypeOK, NoJob, Job, JobPlaces, ProbeStates, NoFrames, LastFrames
<1>2. \A s \in AllSessions : Active(s) = {} /\ InFlight(s) = {}
  BY DEF Init, Active, Held, InFlight, NoJob
<1>3. Fresh /\ Room /\ Placed
  BY DEF Init, Fresh, Room, Placed, Held, NoJob
<1>4. Capped
  BY <1>2, FS_EmptySet, CapsAssumption DEF Capped
<1>5. NothingOutlivesItsSession
  BY <1>2 DEF NothingOutlivesItsSession
<1> QED BY <1>1, <1>3, <1>4, <1>5 DEF Inv

\* The inductive invariant, and with it type correctness: the hub is never sent
\* more settlements of a run than it made assignments of it.
THEOREM InvHolds == Spec => []Inv
BY InitInv, InvStep, PTL DEF Spec

\* When a session is over every job and probe it still has in the process is
\* aborted, for any number of sessions, and whatever await each job was at.
THEOREM SessionsEndTheirWork == Spec => []NothingOutlivesItsSession
<1>1. Inv => NothingOutlivesItsSession
  BY DEF Inv
<1> QED BY <1>1, InvHolds, PTL

\* A set of pairs whose first component is one session is no larger than the set
\* of their second components.
LEMMA OneSession ==
  ASSUME NEW W, NEW A, NEW s, IsFiniteSet(A), W \subseteq {s} \X A
  PROVE  Cardinality(W) \in Nat /\ Cardinality(A) \in Nat /\ Cardinality(W) <= Cardinality(A)
<1> DEFINE f == [w \in W |-> w[2]]
<1>1. f \in Injection(W, A)
  <2>1. f \in [W -> A]
    OBVIOUS
  <2>2. \A v, w \in W : f[v] = f[w] => v = w
    OBVIOUS
  <2> QED BY <2>1, <2>2 DEF Injection, IsInjective
<1>2. IsFiniteSet(W) /\ Cardinality(W) <= Cardinality(A)
  BY <1>1, FS_Injection
<1> QED BY <1>2, FS_CardinalityType

\* AGENT_MAX_JOBS and the probe cap bound what runs un-aborted in the process,
\* over all its sessions.
THEOREM CapsBoundTheWork == Spec => []WorkWithinCaps
<1>1. ASSUME Inv PROVE WorkWithinCaps
  <2> USE <1>1 DEF Inv
  <2> DEFINE Jobs == {j \in AllSessions \X Runs : Held(j[1], j[2]) /\ ~job[j[1]][j[2]].aborted}
             Flying == {p \in AllSessions \X Probes : probe[p[1]][p[2]] = "flight"}
  <2>1. CASE n \in AllSessions
    <3>1. Jobs \subseteq {n} \X Active(n)
      BY DEF NothingOutlivesItsSession, Active
    <3>2. Flying \subseteq {n} \X InFlight(n)
      BY DEF NothingOutlivesItsSession, InFlight
    <3>3. /\ Cardinality(Jobs) \in Nat /\ Cardinality(Active(n)) \in Nat
          /\ Cardinality(Jobs) <= Cardinality(Active(n))
      BY <2>1, <3>1, OneSession DEF Capped
    <3>4. /\ Cardinality(Flying) \in Nat /\ Cardinality(InFlight(n)) \in Nat
          /\ Cardinality(Flying) <= Cardinality(InFlight(n))
      BY <2>1, <3>2, OneSession DEF Capped
    <3>5. Cardinality(Active(n)) <= MaxJobs /\ Cardinality(InFlight(n)) <= MaxProbes
      BY <2>1 DEF Capped
    <3> HIDE DEF Jobs, Flying
    <3>6. Cardinality(Jobs) <= MaxJobs /\ Cardinality(Flying) <= MaxProbes
      BY <3>3, <3>4, <3>5, CapsAssumption
    <3> QED BY <3>6 DEF Jobs, Flying, WorkWithinCaps
  <2>2. CASE n \notin AllSessions
    <3>1. Jobs = {}
      BY <2>2 DEF NothingOutlivesItsSession, Active
    <3>2. Flying = {}
      BY <2>2 DEF NothingOutlivesItsSession, InFlight
    <3>3. Cardinality(Jobs) <= MaxJobs /\ Cardinality(Flying) <= MaxProbes
      BY <3>1, <3>2, FS_EmptySet, CapsAssumption
    <3> QED BY <3>3 DEF WorkWithinCaps
  <2> QED BY <2>1, <2>2
<1> QED BY <1>1, InvHolds, PTL
-----------------------------------------------------------------------------
\* A step settles a job only by ending it or by refusing it.
LEMMA SettlesByItsStep ==
  ASSUME Inv, [Next]_vars, NEW s \in AllSessions, NEW r \in Runs,
         s = n, Settles(r), job[s][r].aborted
  PROVE  frames'[r].last \in {"CANCELLED", "nacked"}
<1> USE DEF Inv
<1>1. frames' # frames /\ frames[r].settled \in Nat
  BY DEF Settles, TypeOK
<1>2. ASSUME Connect PROVE FALSE
  <2>1. frames'[r].settled = 0
    BY <1>2 DEF Connect, NoFrames
  <2> QED BY <1>1, <2>1 DEF Settles
<1>3. ASSUME NEW t \in AllSessions, NEW q \in Runs, JobEffect(t, q)
      PROVE  frames'[r].last \in {"CANCELLED", "nacked"}
  <2>1. Sends(t) /\ t = s /\ q = r
    BY <1>1, <1>3, EffectFrames DEF Sends, Settles
  <2>2. ASSUME NEW last \in {"CANCELLED", "nacked"}, Noted(s, r, last, 1)
        PROVE  frames'[r].last \in {"CANCELLED", "nacked"}
    BY <2>1, <2>2 DEF Noted, TypeOK
  <2>3. ~Taken(s, r) /\ ~Acked(s, r) /\ ~Cancelled(s, r) /\ ~Moved(s, r)
    BY <1>1, <1>3, <2>1, EffectFrames DEF Settles, Cancelled, Moved
  <2> QED BY <1>3, <2>1, <2>2, <2>3 DEF JobEffect, Refused, Ended
<1>4. ASSUME NEW t \in AllSessions, NEW q \in Runs,
             JobAssign(t, q) \/ HandleCancel(t, q) \/ Advance(t, q)
      PROVE  frames'[r].last \in {"CANCELLED", "nacked"}
  BY <1>3, <1>4, JobStepEffect
<1> QED
  BY <1>1, <1>2, <1>4
  DEF Next, Connection, HandleProbe, CancelProbe, ProbeEnds, ConnectFails, HubCloses,
      RejectFrame, SocketClosed, Retry, vars

\* A cancel that reached the executor while it held the job is never answered
\* with a result, whatever await the job was at.
THEOREM CancelsAreHeard == Spec => CancelIsHeard
<1> DEFINE Heard == \A s \in AllSessions, r \in Runs :
                      s = n /\ job[s][r].aborted /\ Settles(r) =>
                        frames'[r].last \in {"CANCELLED", "nacked"}
<1>1. Inv /\ [Next]_vars => Heard
  BY SettlesByItsStep
<1> HIDE DEF Heard
<1>2. Spec => [][Heard]_vars
  BY <1>1, InvHolds, PTL DEF Spec
<1> QED BY <1>2 DEF Heard, CancelIsHeard
-----------------------------------------------------------------------------
\* The hub said goodbye for good: the loop is in that session, or out of the process.
SaidGoodbye ==
  word = "terminal" => loop = "exited" \/ (loop = "session" /\ verdict = "terminal")

LEMMA GoodbyeStep ==
  ASSUME TypeOK, SaidGoodbye, [Next]_vars
  PROVE  SaidGoodbye' /\ (word = "terminal" => n' = n)
<1>1. ASSUME UNCHANGED <<loop, n, verdict, word>> PROVE SaidGoodbye' /\ n' = n
  BY <1>1 DEF SaidGoodbye
<1>2. ASSUME NEW s \in AllSessions, NEW r \in Runs,
             JobAssign(s, r) \/ HandleCancel(s, r) \/ Advance(s, r)
      PROVE  UNCHANGED <<loop, n, verdict, word>>
  BY <1>2 DEF JobAssign, HandleCancel, Advance, Lookup, Target, Secrets, RunEnds, link
<1>3. ASSUME NEW s \in AllSessions, NEW p \in Probes,
             HandleProbe(s, p) \/ CancelProbe(s, p) \/ ProbeEnds(s, p)
      PROVE  UNCHANGED <<loop, n, verdict, word>>
  BY <1>3 DEF HandleProbe, CancelProbe, ProbeEnds, link
<1>4. CASE Connection
  BY <1>4 DEF Connection, Connect, ConnectFails, HubCloses, RejectFrame, SocketClosed,
              Retry, AfterSession, SaidGoodbye, TypeOK
<1> QED BY <1>1, <1>2, <1>3, <1>4 DEF Next, vars

\* An agent that the hub superseded, revoked or found incompatible does not open
\* another session.
THEOREM GoodbyeIsFinal == Spec => TerminalIsFinal
<1> DEFINE Final == word = "terminal" => n' = n
<1>1. Init => SaidGoodbye
  BY DEF Init, SaidGoodbye
<1>2. Inv /\ SaidGoodbye /\ [Next]_vars => SaidGoodbye' /\ Final
  BY GoodbyeStep DEF Inv
<1> HIDE DEF Final
<1>3. Spec => [][Final]_vars
  BY <1>1, <1>2, InvHolds, PTL DEF Spec
<1> QED BY <1>3 DEF Final, TerminalIsFinal
-----------------------------------------------------------------------------
(* The contract.                                                           *)

StandingNow == [r \in Runs |-> Standing(frames[r].last)]
SettledNow == [r \in Runs |-> frames[r].settled]

\* One job's entry changes while the session is open.
LEMMA ContractJob ==
  ASSUME Inv, TypeOK', NEW r \in Runs, sock = "open", sock' = sock,
         \A q \in Runs \ {r} : frames'[q] = frames[q],
         LET from == Standing(frames[r].last)
             to == Standing(frames'[r].last)
             count == frames'[r].settled - frames[r].settled
         IN  \/ from = "free" /\ to = "held" /\ count = 0
             \/ from = "free" /\ to = "free" /\ count = 1
             \/ from = "held" /\ to = "acked" /\ count = 0
             \/ from \in {"held", "acked"} /\ to = "free" /\ count = 1
  PROVE  Contract!ContractNext
<1> DEFINE from == Standing(frames[r].last)
           to == Standing(frames'[r].last)
<1>1. StandingNow' = [StandingNow EXCEPT ![r] = to] /\ StandingNow[r] = from
  BY DEF StandingNow
<1>2. frames[r].settled \in Nat /\ frames'[r].settled \in Nat
  BY DEF Inv, TypeOK
<1>3. ASSUME frames'[r].settled - frames[r].settled = 0 PROVE SettledNow' = SettledNow
  BY <1>2, <1>3 DEF SettledNow
<1>4. ASSUME frames'[r].settled - frames[r].settled = 1
      PROVE  SettledNow' = [SettledNow EXCEPT ![r] = @ + 1]
  <2>1. frames'[r].settled = frames[r].settled + 1
    BY <1>2, <1>4
  <2>2. SettledNow[r] = frames[r].settled
    BY DEF SettledNow
  <2>3. SettledNow' = [SettledNow EXCEPT ![r] = frames'[r].settled]
    BY DEF SettledNow
  <2> QED BY <2>1, <2>2, <2>3
<1>5. ~(sock # "open") /\ UNCHANGED (sock # "open")
  OBVIOUS
<1>6. Contract!JobStep(r)
  <2>1. CASE from = "free" /\ to = "held" /\ frames'[r].settled - frames[r].settled = 0
    BY <1>1, <1>3, <2>1
    DEF Contract!JobStep, Contract!Take, Contract!Goes, StandingNow, SettledNow
  <2>2. CASE from = "free" /\ to = "free" /\ frames'[r].settled - frames[r].settled = 1
    BY <1>1, <1>4, <2>2
    DEF Contract!JobStep, Contract!Refuse, Contract!Goes, StandingNow, SettledNow
  <2>3. CASE from = "held" /\ to = "acked" /\ frames'[r].settled - frames[r].settled = 0
    BY <1>1, <1>3, <2>3
    DEF Contract!JobStep, Contract!Acknowledge, Contract!Goes, StandingNow, SettledNow
  <2>4. CASE /\ from \in {"held", "acked"} /\ to = "free"
             /\ frames'[r].settled - frames[r].settled = 1
    BY <1>1, <1>4, <2>4
    DEF Contract!JobStep, Contract!Complete, StandingNow, SettledNow
  <2> QED BY <2>1, <2>2, <2>3, <2>4
<1> QED BY <1>5, <1>6 DEF Contract!ContractNext

LEMMA EffectOnContract ==
  ASSUME Inv, NEW s \in AllSessions, NEW r \in Runs, JobEffect(s, r), frames' # frames
  PROVE  Contract!ContractNext
<1>1. Inv'
  BY EffectKeeps
<1>2. Sends(s)
  BY EffectFrames
<1>3. s = n /\ sock = "open" /\ sock' = sock
  BY <1>2 DEF Sends, JobEffect
<1>4. /\ \A q \in Runs \ {r} : frames'[q] = frames[q]
      /\ frames[r].settled \in Nat
  BY EffectFrames DEF Inv, TypeOK
<1>5. Standing(frames[r].last) = StandingOf(job[s][r].pc)
  BY <1>3 DEF Inv, Placed
<1>6. ASSUME NEW last \in LastFrames, Noted(s, r, last, 1)
      PROVE  frames'[r].settled - frames[r].settled = 1
  BY <1>2, <1>4, <1>6 DEF Noted, Inv, TypeOK
<1>7. CASE Refused(s, r)
  <2>1. Standing(frames[r].last) = "free"
    BY <1>5, <1>7 DEF Refused, Held, StandingOf
  <2>2. frames'[r].settled - frames[r].settled = 1
    BY <1>6, <1>7 DEF Refused, LastFrames
  <2> QED BY <1>1, <1>2, <1>3, <1>4, <1>7, <2>1, <2>2, EffectFrames, ContractJob DEF Inv
<1>8. CASE Taken(s, r)
  <2>1. Standing(frames[r].last) = "free"
    BY <1>5, <1>8 DEF Taken, Held, StandingOf
  <2>2. Standing(frames'[r].last) = "held" /\ frames'[r].settled - frames[r].settled = 0
    BY <1>2, <1>4, <1>8, EffectFrames DEF Standing
  <2> QED BY <1>1, <1>3, <1>4, <2>1, <2>2, ContractJob DEF Inv
<1>9. CASE Acked(s, r)
  <2>1. Standing(frames[r].last) = "held"
    BY <1>5, <1>9 DEF Acked, StandingOf
  <2>2. Standing(frames'[r].last) = "acked" /\ frames'[r].settled - frames[r].settled = 0
    BY <1>2, <1>4, <1>9, EffectFrames DEF Standing
  <2> QED BY <1>1, <1>3, <1>4, <2>1, <2>2, ContractJob DEF Inv
<1>10. ASSUME NEW last \in Results \cup {"nacked"}, Ended(s, r, last)
       PROVE  Contract!ContractNext
  <2>1. Standing(frames[r].last) \in {"held", "acked"}
    BY <1>5, <1>10 DEF Ended, Held, StandingOf
  <2>2. frames'[r].settled - frames[r].settled = 1
    BY <1>6, <1>10 DEF Ended, Results, LastFrames
  <2>3. Standing(frames'[r].last) = "free"
    BY <1>2, <1>10, EffectFrames
  <2> QED BY <1>1, <1>3, <1>4, <2>1, <2>2, <2>3, ContractJob DEF Inv
<1>11. ~Cancelled(s, r) /\ ~Moved(s, r)
  BY DEF Cancelled, Moved
<1> QED BY <1>7, <1>8, <1>9, <1>10, <1>11 DEF JobEffect

LEMMA ContractStep ==
  ASSUME Inv, [Next]_vars
  PROVE  Contract!ContractNext \/ UNCHANGED <<StandingNow, SettledNow, sock # "open">>
<1>1. ASSUME frames' = frames, (sock # "open")' = (sock # "open")
      PROVE  UNCHANGED <<StandingNow, SettledNow, sock # "open">>
  BY <1>1 DEF StandingNow, SettledNow
<1>2. ASSUME frames' = frames, sock = "open", sock' # "open"
      PROVE  Contract!ContractNext
  BY <1>2 DEF Contract!ContractNext, Contract!Ends
<1>3. ASSUME NEW s \in AllSessions, NEW r \in Runs,
             JobAssign(s, r) \/ HandleCancel(s, r) \/ Advance(s, r)
      PROVE  Contract!ContractNext \/ UNCHANGED <<StandingNow, SettledNow, sock # "open">>
  <2>1. JobEffect(s, r)
    BY <1>3, JobStepEffect DEF Inv
  <2>2. sock' = sock
    BY <2>1 DEF JobEffect
  <2> QED BY <1>1, <2>1, <2>2, EffectOnContract
<1>4. ASSUME NEW s \in AllSessions, NEW p \in Probes,
             HandleProbe(s, p) \/ CancelProbe(s, p) \/ ProbeEnds(s, p)
      PROVE  frames' = frames /\ sock' = sock
  BY <1>4 DEF HandleProbe, CancelProbe, ProbeEnds, link
<1>5. CASE Connect
  <2>1. sock # "open" /\ sock' = "open" /\ frames' = NoFrames
    BY <1>5 DEF Connect, Inv, TypeOK
  <2>2. StandingNow' = [r \in Runs |-> "free"] /\ SettledNow' = [r \in Runs |-> 0]
    BY <2>1 DEF StandingNow, SettledNow, NoFrames, Standing
  <2>3. Contract!Reopens
    BY <2>1, <2>2 DEF Contract!Reopens, StandingNow, SettledNow
  <2> QED BY <2>3 DEF Contract!ContractNext
<1>6. CASE ConnectFails \/ HubCloses \/ RejectFrame \/ SocketClosed \/ Retry \/ UNCHANGED vars
  <2>1. frames' = frames /\ (sock' = sock \/ sock' # "open")
    BY <1>6 DEF ConnectFails, HubCloses, RejectFrame, SocketClosed, Retry, vars
  <2> QED BY <1>1, <1>2, <2>1
<1> QED BY <1>1, <1>3, <1>4, <1>5, <1>6 DEF Next, Connection

\* The safety part of AgentContract on every session: one answer to an assignment,
\* an acknowledgement before a stream, one result per acknowledged job.
THEOREM ExecutorKeepsContract == Spec => Contract!ContractSafety
<1>1. Init => Contract!ContractInit
  BY DEF Init, NoFrames, Standing, Contract!ContractInit
<1>2. Inv /\ [Next]_vars =>
        Contract!ContractNext \/ UNCHANGED <<StandingNow, SettledNow, sock # "open">>
  BY ContractStep
<1> QED BY <1>1, <1>2, InvHolds, PTL
        DEF Spec, Contract!ContractSafety, StandingNow, SettledNow
=============================================================================
