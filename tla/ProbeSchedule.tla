---------------------------- MODULE ProbeSchedule ----------------------------
(***************************************************************************)
(* The schedule of the URL checks: the sweep that writes the missed slots  *)
(* and dispatches the current one (url-check-scheduler.ts), the probes of  *)
(* the hub and of an agent with its bounded pool (probe-dispatcher.ts),    *)
(* and the automatic disabling (url-check-auto-disable.ts).  The checks    *)
(* are paused and resumed by their owners meanwhile, their component       *)
(* retires, the agent goes away, a transaction fails, a sweep fails with   *)
(* its dispatches in flight, the hub restarts.                             *)
(*                                                                         *)
(* The cadence is one unit of time: slot t is due at time t.               *)
(***************************************************************************)
EXTENDS Integers, FiniteSets

CONSTANTS
  Checks, Remote,          \* Remote: those an agent probes to begin with
  Concurrency, QueueMax,   \* the agent's pool: probes in flight, probes deferred
  Threshold,               \* effectiveAutoDisableThreshold
  MissedPerSweep,          \* MAX_MISSED_PER_SWEEP
  None,
  MaxTime, MaxEvents       \* bounds: the clock; pauses, changes of the setup, the
                           \* agent or the component, failed writes and restarts

ASSUME RemoteAssumption == Remote \subseteq Checks
ASSUME PoolAssumption == Concurrency \in Nat \ {0} /\ QueueMax \in Nat \ {0}
ASSUME PolicyAssumption == Threshold \in Nat \ {0} /\ MissedPerSweep \in Nat \ {0}
ASSUME NoneAssumption == None \notin Checks \union Nat
ASSUME LimitsAssumption == MaxTime \in Nat /\ MaxEvents \in Nat

VARIABLES
  now,
  row,        \* url_checks: the scheduler's columns
  obs,        \* url_check_observations: at most one per slot, by the unique index
  parked,     \* the checks whose component is RETIRED
  vantage,    \* HUB or AGENT, by the monitoring setup
  online,     \* the agent has a session
  sweep,      \* the sweep in progress
  task,       \* the dispatches of a check, those in the pool of the agent included
  from,       \* since when the check is enabled without a break (history)
  steady,     \* the checks that nobody paused (history)
  events

setupVars == <<parked, vantage, online>>
vars == <<now, row, obs, setupVars, sweep, task, from, steady, events>>

Time == 0..MaxTime
Outcomes == {"SUCCESS", "FAILURE", "MISSED"}
Row == [enabled : BOOLEAN, next : 0..MaxTime + 1 \union {None},
        streak : Nat, auto : BOOLEAN]

\* A check has the dispatch of the last sweep that came to it and, bound, one that an
\* earlier sweep left in flight when it failed.
Dispatches == Checks \X {"current", "left"}
Current(c) == <<c, "current">>
Left(c) == <<c, "left">>

\* "alone": it was not left in flight by a sweep, nor started beside one that was (history).
NoTask == [pc |-> "none", slot |-> None, via |-> "HUB", alone |-> FALSE]
Task == [pc : {"none", "load", "queued", "probing", "missed"},
         slot : Time \union {None}, via : {"HUB", "AGENT"}, alone : BOOLEAN]

\* "cur": the check whose backlog is longer than a sweep writes, up to slot "upto".
NoSweep == [on |-> FALSE, at |-> 0, rows |-> {}, next |-> [c \in Checks |-> None],
            cur |-> None, upto |-> 0]

Init ==
  /\ now = 0
  /\ row = [c \in Checks |-> [enabled |-> TRUE, next |-> 0, streak |-> 0, auto |-> FALSE]]
  /\ obs = [c \in Checks |-> [t \in Time |-> "none"]]
  /\ parked = {}
  /\ vantage = [c \in Checks |-> IF c \in Remote THEN "AGENT" ELSE "HUB"] /\ online = TRUE
  /\ sweep = NoSweep
  /\ task = [d \in Dispatches |-> NoTask]
  /\ from = [c \in Checks |-> 0]
  /\ steady = Checks /\ events = 0
-----------------------------------------------------------------------------
Larger(x, y) == IF x = None \/ x < y THEN y ELSE x

\* Seeded bug: the next slot is counted from the time of the write.
NextSlotMutant(r, t) == [r EXCEPT !.next = now + 1]
\* nextSlotSql: the slot after t, never rewinding.
NextSlot(r, t) == [r EXCEPT !.next = Larger(r.next, t + 1)]

\* evaluateAutoDisable
Judged(r) ==
  IF r.streak < Threshold THEN r
  ELSE [r EXCEPT !.enabled = FALSE, !.next = None, !.auto = TRUE]

\* Seeded bug: a missed slot does not count as a failure.
StreakMutant(n, o) == IF o = "SUCCESS" THEN 0 ELSE IF o = "MISSED" THEN n ELSE n + 1
Streak(n, o) == IF o = "SUCCESS" THEN 0 ELSE n + 1

\* The check row after recordObservation of slot t: a check that was disabled
\* meanwhile keeps its cleared schedule.
Recorded(r, t, o) ==
  IF ~r.enabled THEN r ELSE Judged([NextSlot(r, t) EXCEPT !.streak = Streak(@, o)])

Pool(pc) == {d \in Dispatches : task[d].via = "AGENT" /\ task[d].pc = pc}

\* agentSlotClaims: from the admission until the task settles.
Holds(d) == task[d].via = "AGENT" /\ task[d].pc \notin {"none", "load", "missed"}
Claimed(c) == Holds(Current(c)) \/ Holds(Left(c))

Saturated == Cardinality(Pool("queued")) >= QueueMax
-----------------------------------------------------------------------------
(* The sweep: rows one after the other, dispatches beside each other.      *)

\* sweepOnce reads what is due.
SweepStart ==
  /\ ~sweep.on
  /\ LET due == {c \in Checks \ parked :
           row[c].enabled /\ row[c].next # None /\ row[c].next <= now}
     IN /\ due # {}
        /\ sweep' = [NoSweep EXCEPT !.on = TRUE, !.at = now, !.rows = due,
             !.next = [c \in Checks |-> IF c \in due THEN row[c].next ELSE None]]
  /\ UNCHANGED <<now, row, obs, setupVars, task, from, steady, events>>

Skip(c) ==
  /\ sweep.on /\ sweep.cur = None /\ c \in sweep.rows /\ Claimed(c)
  /\ sweep' = [sweep EXCEPT !.rows = @ \ {c}, !.next[c] = None]
  /\ UNCHANGED <<now, row, obs, setupVars, task, from, steady, events>>

Writes(c) == row[c].enabled

\* writeMissedSlots: the oldest unobserved slots before the current one.
Pending(c) == {t \in sweep.next[c]..sweep.at - 1 : obs[c][t] = "none"}
Missed(c) == {t \in Pending(c) : Cardinality({u \in Pending(c) : u < t}) < MissedPerSweep}

Backlog(c) ==
  /\ sweep.on /\ sweep.cur = None /\ c \in sweep.rows /\ ~Claimed(c)
  /\ LET missed == Missed(c)
         written == missed # {} /\ Writes(c)
         after == IF written
                  THEN Judged([row[c] EXCEPT !.streak = @ + Cardinality(missed)])
                  ELSE row[c]
         stops == written /\ ~after.enabled
         more == missed # Pending(c)
     IN /\ row' = [row EXCEPT ![c] = after]
        /\ obs' = IF written
             THEN [obs EXCEPT ![c] = [t \in Time |-> IF t \in missed THEN "MISSED" ELSE @[t]]]
             ELSE obs
        /\ IF stops \/ more THEN UNCHANGED task
           ELSE task' = [task EXCEPT ![Current(c)] =
             [NoTask EXCEPT !.pc = "load", !.slot = sweep.at,
                            !.alone = task[Left(c)].pc = "none"]]
        /\ sweep' = [sweep EXCEPT !.rows = @ \ {c}, !.next[c] = None,
             !.cur = IF more /\ ~stops THEN c ELSE None,
             !.upto = IF more /\ ~stops
                      THEN CHOOSE t \in missed : \A u \in missed : u <= t ELSE 0]
  /\ UNCHANGED <<now, setupVars, from, steady, events>>

\* The rest of the backlog waits for the next sweep; the check is not asked
\* whether it is still enabled.
Advance ==
  /\ sweep.cur # None
  /\ row' = [row EXCEPT ![sweep.cur] = NextSlot(@, sweep.upto)]
  /\ sweep' = [sweep EXCEPT !.cur = None, !.upto = 0]
  /\ UNCHANGED <<now, obs, setupVars, task, from, steady, events>>

\* Promise.allSettled: an admission to the agent's pool does not hold the sweep.
SweepEnd ==
  /\ sweep.on /\ sweep.rows = {} /\ sweep.cur = None
  /\ \A c \in Checks : task[Current(c)].pc = "none" \/ Holds(Current(c))
  /\ sweep' = NoSweep
  /\ UNCHANGED <<now, row, obs, setupVars, task, from, steady, events>>

Event == events < MaxEvents /\ events' = events + 1

Abandoned(c) == task[Current(c)].pc # "none" /\ ~Holds(Current(c))

\* A write of a later row throws: safeSweep swallows it and the next sweep may start,
\* while the dispatches started so far go on.
SweepFails ==
  /\ sweep.cur # None \/ \E c \in sweep.rows : ~Claimed(c)
  /\ \A c \in Checks : Abandoned(c) => task[Left(c)].pc = "none"
  /\ Event
  /\ sweep' = NoSweep
  /\ task' = [d \in Dispatches |->
       IF ~Abandoned(d[1]) THEN task[d]
       ELSE IF d[2] = "left" THEN [task[Current(d[1])] EXCEPT !.alone = FALSE]
       ELSE NoTask]
  /\ UNCHANGED <<now, row, obs, setupVars, from, steady>>
-----------------------------------------------------------------------------
(* dispatchProbe.                                                          *)

\* Seeded bug: the observation of the slot is not looked up.
ObservedMutant(c, t) == FALSE
Observed(c, t) == obs[c][t] # "none"

Load(d) ==
  LET c == d[1]
      t == task[d].slot
      via == vantage[c]
      re == row[c].enabled /\ Observed(c, t)
      agent == via = "AGENT" /\ online
  IN /\ task[d].pc = "load"
     /\ row' = IF re THEN [row EXCEPT ![c] = NextSlot(@, t)] ELSE row
     /\ task' = [task EXCEPT ![d] =
          IF ~row[c].enabled \/ re \/ (agent /\ Claimed(c)) THEN NoTask
          ELSE [pc |-> CASE via = "HUB" -> "probing"
                         [] via = "AGENT" /\ (~online \/ Saturated) -> "missed"
                         [] OTHER -> "queued",
                slot |-> t, via |-> via, alone |-> task[d].alone]]
     /\ UNCHANGED <<now, obs, setupVars, sweep, from, steady, events>>

Run(d) ==
  /\ d \in Pool("queued") /\ Cardinality(Pool("probing")) < Concurrency
  /\ task' = [task EXCEPT ![d].pc = "probing"]
  /\ UNCHANGED <<now, row, obs, setupVars, sweep, from, steady, events>>

\* What the probe can come to: an agent that is away, busy or silent misses it.
Results(d) ==
  IF task[d].pc = "missed" THEN {"MISSED"}
  ELSE IF task[d].via = "HUB" THEN {"SUCCESS", "FAILURE"}
  ELSE IF online THEN Outcomes ELSE {"MISSED"}

\* recordObservation, one transaction.  A second row for the slot aborts it.
Record(d) ==
  LET c == d[1]
      t == task[d].slot
  IN /\ task[d].pc \in {"probing", "missed"}
     /\ IF obs[c][t] # "none" THEN UNCHANGED <<row, obs>>
        ELSE \E o \in Results(d) :
          /\ obs' = [obs EXCEPT ![c][t] = o]
          /\ row' = [row EXCEPT ![c] = Recorded(@, t, o)]
     /\ task' = [task EXCEPT ![d] = NoTask]
     /\ UNCHANGED <<now, setupVars, sweep, from, steady, events>>

\* Seeded bug: the claim of the check outlives a failed transaction.
ReleasedMutant(d) ==
  IF Holds(d) THEN [task[d] EXCEPT !.pc = "leaked"] ELSE NoTask
Released(d) == NoTask

\* The transaction fails; the slot stays due.
RecordFails(d) ==
  /\ task[d].pc \in {"probing", "missed"} /\ Event
  /\ task' = [task EXCEPT ![d] = Released(d)]
  /\ UNCHANGED <<now, row, obs, setupVars, sweep, from, steady>>

\* The sweep, the pools and the claims are in memory.
Restart ==
  /\ Event
  /\ sweep' = NoSweep /\ task' = [d \in Dispatches |-> NoTask]
  /\ UNCHANGED <<now, row, obs, setupVars, from, steady>>
-----------------------------------------------------------------------------
(* Everybody else.                                                         *)

\* recomputeManagedCheckEnabled of a check without an owner, pauses included.
Pause(c) ==
  /\ row[c].enabled /\ Event
  /\ row' = [row EXCEPT ![c].enabled = FALSE, ![c].next = None]
  /\ from' = [from EXCEPT ![c] = None] /\ steady' = steady \ {c}
  /\ UNCHANGED <<now, obs, setupVars, sweep, task>>

\* ... of a check with one again, and resumeManagedChecksForConfig, which clears
\* the streak as well.
Resume(c) ==
  /\ ~row[c].enabled /\ IF row[c].auto THEN Event ELSE UNCHANGED events
  /\ \/ ~row[c].auto /\ row' = [row EXCEPT ![c].enabled = TRUE, ![c].next = now]
     \/ row' = [row EXCEPT ![c] = [enabled |-> TRUE, next |-> now, streak |-> 0, auto |-> FALSE]]
  /\ from' = [from EXCEPT ![c] = now] /\ steady' = steady \ {c}
  /\ UNCHANGED <<now, obs, setupVars, sweep, task>>

\* The component retires or comes back; upsertSetup; the agent's session.
Park(c) ==
  /\ Event /\ parked' = IF c \in parked THEN parked \ {c} ELSE parked \union {c}
  /\ UNCHANGED <<now, row, obs, vantage, online, sweep, task, from, steady>>

Move(c) ==
  /\ Event /\ vantage' = [vantage EXCEPT ![c] = IF @ = "HUB" THEN "AGENT" ELSE "HUB"]
  /\ UNCHANGED <<now, row, obs, parked, online, sweep, task, from, steady>>

Session ==
  /\ Event /\ online' = ~online
  /\ UNCHANGED <<now, row, obs, parked, vantage, sweep, task, from, steady>>

Tick ==
  /\ now < MaxTime /\ now' = now + 1
  /\ UNCHANGED <<row, obs, setupVars, sweep, task, from, steady, events>>

Dispatch(d) == Load(d) \/ Run(d) \/ Record(d)
Sweeping == SweepStart \/ Advance \/ SweepEnd \/ \E c \in Checks : Skip(c) \/ Backlog(c)

Next ==
  \/ Sweeping \/ SweepFails \/ Restart \/ Session \/ Tick
  \/ \E d \in Dispatches : Dispatch(d) \/ RecordFails(d)
  \/ \E c \in Checks : Pause(c) \/ Resume(c) \/ Park(c) \/ Move(c)

Spec == Init /\ [][Next]_vars

\* The interval timer sweeps again and again, a dispatch that was started goes on,
\* and every probe has a deadline.
FairSpec == Spec /\ WF_vars(Sweeping) /\ \A d \in Dispatches : WF_vars(Dispatch(d))
-----------------------------------------------------------------------------
(* Properties.                                                             *)

TypeOK ==
  /\ now \in Time
  /\ row \in [Checks -> Row]
  /\ obs \in [Checks -> [Time -> Outcomes \union {"none"}]]
  /\ parked \subseteq Checks /\ vantage \in [Checks -> {"HUB", "AGENT"}] /\ online \in BOOLEAN
  /\ task \in [Dispatches -> Task]
  /\ sweep.rows \subseteq Checks /\ sweep.cur \in Checks \union {None} /\ sweep.at <= now
  /\ from \in [Checks -> Time \union {None}]
  /\ steady \subseteq Checks /\ events \in 0..MaxEvents
  /\ \A c \in Checks : row[c].enabled => row[c].next # None /\ ~row[c].auto

\* Spec 052: no probe runs for a slot that has its observation, after restarts, failed
\* writes and changes of vantage as well.  The only exceptions are a dispatch that a failed
\* sweep left in flight, and one that a later sweep started beside it.
NoSecondProbe ==
  \A d \in Dispatches : task[d].pc \in {"queued", "probing"} /\ task[d].alone =>
    obs[d[1]][task[d].slot] = "none"

\* The comment at probe-dispatcher.ts:596 without the exception; a hub probe holds no
\* claim, and a failed sweep leaves it in flight.
OneProbePerSlot ==
  \A d \in Dispatches : task[d].pc \in {"queued", "probing"} =>
    obs[d[1]][task[d].slot] = "none"

\* SC-003 of spec 052: no slot is lost silently.  Every slot the schedule has
\* passed since the check was enabled has an observation.
NoSlotLost ==
  \A c \in Checks : row[c].enabled =>
    \A t \in Time : from[c] <= t /\ t < row[c].next => obs[c][t] # "none"

\* Consecutive slots without a success, up to the newest observation.
Trailing(c) ==
  Cardinality({t \in Time : obs[c][t] \in {"FAILURE", "MISSED"}
                  /\ \A u \in Time : u > t => obs[c][u] # "SUCCESS"})

\* Spec 056: the streak and the decision to disable agree with the recorded
\* outcomes, for a check that nobody paused.
StreakIsTrailing ==
  \A c \in steady :
    /\ row[c].streak = Trailing(c)
    /\ row[c].auto <=> Trailing(c) >= Threshold

\* The schedule of a check always catches up with the clock, past a backlog, a
\* full pool or a failed write, unless the check is disabled or its component
\* retired.
ScheduleCatchesUp ==
  \A c \in Checks : []<>(row[c].enabled => row[c].next > now \/ c \in parked)
=============================================================================
