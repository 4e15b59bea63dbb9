------------------------ MODULE ProbeSchedule_proofs ------------------------
(***************************************************************************)
(* Proofs about ProbeSchedule, for any number of checks, any clock, pool,  *)
(* threshold and batch of missed slots:                                    *)
(*   - type correctness;                                                   *)
(*   - no probe that met no other dispatch of its check runs for a slot    *)
(*     that has its observation;                                           *)
(*   - no slot the schedule has passed is without one;                     *)
(*   - the streak is what the observations say.                            *)
(* What makes them inductive: everything that carries a slot, the row, the *)
(* copy the sweep took of it, the backlog's position and the dispatches,   *)
(* has only observed slots behind it (Covered), and a sweep comes to a     *)
(* check only while no dispatch of it is running outside the agent's pool, *)
(* those that a failed sweep left in flight excepted (Turns).              *)
(***************************************************************************)
EXTENDS ProbeSchedule, FiniteSetTheorems, WellFoundedInduction, TLAPS

SweepOK ==
  /\ sweep \in [on : BOOLEAN, at : Time, rows : SUBSET Checks,
                next : [Checks -> Time \union {None}], cur : Checks \union {None}, upto : Time]
  /\ sweep.at <= now
  /\ \A c \in sweep.rows : sweep.next[c] \in Time /\ sweep.next[c] <= sweep.at
  /\ sweep.cur # None => sweep.upto < sweep.at

TaskOK == \A d \in Dispatches : task[d].pc # "none" => task[d].slot \in Time /\ task[d].slot <= now

FromOK == \A c \in Checks : row[c].enabled => from[c] \in Time /\ from[c] <= now

Typed == TypeOK /\ SweepOK /\ TaskOK /\ FromOK

\* A check whose turn in the sweep is still to come, or that no sweep is about, has
\* no current dispatch but one in the agent's pool.
Free(c) == task[Current(c)].pc = "none" \/ Holds(Current(c))
Turns == \A c \in Checks : ~sweep.on \/ c \in sweep.rows => Free(c)

\* A dispatch that is alone is the only one of its check.
Apart ==
  \A c \in Checks :
    /\ task[Left(c)].pc # "none" => ~task[Left(c)].alone
    /\ task[Current(c)].pc # "none" /\ task[Current(c)].alone => task[Left(c)].pc = "none"

\* The slots that the dispatches of c carry.
InFlight(c) == {task[d].slot : d \in {e \in Dispatches : e[1] = c /\ task[e].pc # "none"}}

\* Every slot of c before `bound', since c is enabled, has been observed.
Covered(c, bound) == \A t \in Time : from[c] <= t /\ t < bound => obs[c][t] # "none"

Coverage ==
  \A c \in Checks : row[c].enabled =>
    /\ Covered(c, row[c].next)
    /\ c \in sweep.rows => Covered(c, sweep.next[c])
    /\ sweep.cur = c => Covered(c, sweep.upto + 1)
    /\ \A t \in InFlight(c) : Covered(c, t)

\* A dispatch that cannot write.
Harmless(d) == task[d].pc \in {"none", "load"} \/ obs[d[1]][task[d].slot] # "none"

\* The observations of a check that nobody paused have no gap, and it has no
\* dispatch that can write once it has been disabled.
Steady ==
  \A c \in steady :
    /\ from[c] = 0
    /\ ~row[c].enabled => \A d \in Dispatches : d[1] = c => Harmless(d)
    /\ \A t, u \in Time : t < u /\ obs[c][u] # "none" => obs[c][t] # "none"

ProbeInv == Typed /\ Turns /\ Apart /\ NoSecondProbe /\ Coverage /\ Steady /\ StreakIsTrailing
-----------------------------------------------------------------------------
(* Facts about the operators.                                              *)

\* The two dispatches of a check.
LEMMA DispatchFacts ==
  /\ \A c \in Checks : /\ Current(c) \in Dispatches /\ Current(c)[1] = c
                       /\ Left(c) \in Dispatches /\ Left(c)[1] = c
  /\ \A c \in Checks : Current(c)[2] = "current" /\ Left(c)[2] = "left"
  /\ \A d \in Dispatches : d[1] \in Checks /\ (d = Current(d[1]) \/ d = Left(d[1]))
  /\ \A c, k \in Checks : Current(c) # Left(k) /\ (c # k => Current(c) # Current(k) /\ Left(c) # Left(k))
BY DEF Dispatches, Current, Left

\* A set of slots has an earliest and a latest one: the strict subset order on
\* the initial, and the final, segments of time is well-founded.
LEMMA SegmentsOfTime ==
  /\ MaxTime \in Nat
  /\ IsWellFoundedOn(StrictSubsetOrdering(Time), SUBSET Time)
<1>1. MaxTime \in Nat
  BY LimitsAssumption
<1>2. IsFiniteSet(Time)
  BY <1>1, FS_Interval DEF Time
<1> QED BY <1>1, <1>2, FS_FiniteSubsetsOfFinite, FS_StrictSubsetOrderingWellFounded

LEMMA EarliestOfTimes ==
  ASSUME NEW S \in SUBSET Time, S # {}
  PROVE  \E m \in S : \A u \in S : m <= u
<1> DEFINE Upto(t) == {u \in Time : u <= t}
           T == {Upto(t) : t \in S}
<1>1. T \subseteq SUBSET Time /\ T # {}
  OBVIOUS
<1>2. PICK x \in T : \A y \in T : <<y, x>> \notin StrictSubsetOrdering(Time)
  BY <1>1, SegmentsOfTime, WFMin
<1>3. PICK m \in S : x = Upto(m)
  OBVIOUS
<1>4. ASSUME NEW u \in S, ~(m <= u) PROVE FALSE
  <2>1. m \in Nat /\ u \in Nat /\ u < m
    BY <1>4, SegmentsOfTime DEF Time
  <2>2. Upto(u) \subseteq Upto(m) /\ m \in Upto(m) /\ m \notin Upto(u)
    BY <2>1, SegmentsOfTime DEF Time
  <2>3. <<Upto(u), Upto(m)>> \in StrictSubsetOrdering(Time)
    BY <2>2 DEF StrictSubsetOrdering
  <2> QED BY <1>2, <1>3, <2>3
<1> QED BY <1>4

LEMMA LatestOfTimes ==
  ASSUME NEW S \in SUBSET Time, S # {}
  PROVE  \E m \in S : \A u \in S : u <= m
<1> DEFINE Rest == {MaxTime - t : t \in S}
<1>1. Rest \in SUBSET Time /\ Rest # {}
  <2>1. \A t \in Time : MaxTime - t \in Time
    BY SegmentsOfTime DEF Time
  <2> QED BY <2>1
<1>2. PICK l \in Rest : \A k \in Rest : l <= k
  BY <1>1, EarliestOfTimes
<1>3. PICK m \in S : l = MaxTime - m
  OBVIOUS
<1>4. ASSUME NEW u \in S PROVE u <= m
  <2>1. l <= MaxTime - u
    BY <1>2
  <2> QED BY <1>3, <2>1, SegmentsOfTime DEF Time
<1> QED BY <1>4

\* A row whose schedule agrees with its being enabled.
Sound(r) == r \in Row /\ (r.enabled => r.next # None /\ ~r.auto)

LEMMA NextSlotSound ==
  ASSUME NEW r, Sound(r), NEW t \in Time
  PROVE  /\ Sound(NextSlot(r, t))
         /\ NextSlot(r, t).enabled <=> r.enabled
         /\ NextSlot(r, t).auto <=> r.auto
         /\ NextSlot(r, t).streak = r.streak
         /\ NextSlot(r, t).next = Larger(r.next, t + 1)
<1>1. Larger(r.next, t + 1) \in 0..MaxTime + 1
  BY LimitsAssumption DEF Larger, Time, Sound, Row
<1>2. Larger(r.next, t + 1) # None
  BY <1>1, LimitsAssumption, NoneAssumption
<1> QED BY <1>1, <1>2 DEF NextSlot, Sound, Row

LEMMA JudgedSound ==
  ASSUME NEW r, Sound(r)
  PROVE  /\ Sound(Judged(r))
         /\ Judged(r).enabled => r.enabled /\ Judged(r) = r
         /\ Judged(r).streak = r.streak
BY DEF Judged, Sound, Row

LEMMA RecordedSound ==
  ASSUME NEW r, Sound(r), NEW t \in Time, NEW o
  PROVE  /\ Sound(Recorded(r, t, o))
         /\ Recorded(r, t, o).enabled =>
              r.enabled /\ Recorded(r, t, o).next = Larger(r.next, t + 1)
<1>1. CASE ~r.enabled
  BY <1>1 DEF Recorded
<1>2. CASE r.enabled
  <2> DEFINE q == [NextSlot(r, t) EXCEPT !.streak = Streak(@, o)]
  <2>1. Streak(r.streak, o) \in Nat
    BY DEF Streak, Sound, Row
  <2>2. Sound(q) /\ q.next = Larger(r.next, t + 1)
    BY <2>1, NextSlotSound DEF Sound, Row
  <2> QED BY <1>2, <2>2, JudgedSound DEF Recorded
<1> QED BY <1>1, <1>2

LEMMA RowsSound == ASSUME Typed PROVE \A c \in Checks : Sound(row[c])
BY DEF Typed, TypeOK, Sound

\* What the backlog of a check whose turn has come writes: the oldest slots.
LEMMA MissedFacts ==
  ASSUME Typed, NEW c \in sweep.rows
  PROVE  /\ Pending(c) \subseteq Time /\ \A t \in Pending(c) : t < sweep.at
         /\ Missed(c) \subseteq Pending(c)
         /\ IsFiniteSet(Missed(c)) /\ Cardinality(Missed(c)) \in Nat
         /\ Missed(c) = {} => Pending(c) = {}
         /\ \A t \in Pending(c), u \in Missed(c) : t <= u => t \in Missed(c)
<1> DEFINE Before(t) == {u \in Pending(c) : u < t}
<1>1. /\ sweep.at \in Nat /\ sweep.at <= MaxTime /\ MaxTime \in Nat
      /\ sweep.next[c] \in Nat
  BY LimitsAssumption DEF Typed, SweepOK, Time
<1>2. Pending(c) \subseteq Time /\ \A t \in Pending(c) : t < sweep.at
  BY <1>1 DEF Pending, Time
<1>3. IsFiniteSet(Pending(c)) /\ Pending(c) \subseteq Nat
  <2>1. Pending(c) \in SUBSET (0..MaxTime) /\ IsFiniteSet(0..MaxTime)
    BY <1>1, <1>2, FS_Interval DEF Time
  <2> QED BY <1>1, <2>1, FS_Subset
<1>4. Missed(c) \subseteq Pending(c)
  BY DEF Missed
<1>5. IsFiniteSet(Missed(c)) /\ Cardinality(Missed(c)) \in Nat
  BY <1>3, <1>4, FS_Subset, FS_CardinalityType
<1>6. ASSUME Pending(c) # {} PROVE Missed(c) # {}
  <2>1. PICK m \in Pending(c) : \A u \in Pending(c) : m <= u
    BY <1>2, <1>6, EarliestOfTimes
  <2>2. Before(m) = {}
    BY <1>3, <2>1
  <2>3. Cardinality(Before(m)) < MissedPerSweep
    BY <2>2, FS_EmptySet, PolicyAssumption
  <2> QED BY <2>1, <2>3 DEF Missed
<1>7. ASSUME NEW t \in Pending(c), NEW u \in Missed(c), t <= u
      PROVE  t \in Missed(c)
  <2>1. u \in Pending(c) /\ Cardinality(Before(u)) < MissedPerSweep
    BY DEF Missed
  <2>2. Before(t) \subseteq Before(u)
    BY <1>3, <1>7, <2>1
  <2>3. IsFiniteSet(Before(u)) /\ IsFiniteSet(Before(t))
    BY <1>3, FS_Subset
  <2>4. Cardinality(Before(t)) <= Cardinality(Before(u))
    BY <2>2, <2>3, FS_Subset
  <2>5. Cardinality(Before(t)) \in Nat /\ Cardinality(Before(u)) \in Nat
    BY <2>3, FS_CardinalityType
  <2>6. Cardinality(Before(t)) < MissedPerSweep
    BY <2>1, <2>4, <2>5, PolicyAssumption
  <2> QED BY <2>6 DEF Missed
<1> QED BY <1>2, <1>4, <1>5, <1>6, <1>7
-----------------------------------------------------------------------------
(* Type correctness.                                                       *)

LEMMA TypeInit == Init => Typed
<1> SUFFICES ASSUME Init PROVE Typed
  OBVIOUS
<1>1. 0 \in Time /\ 0 \in 0..MaxTime + 1 /\ 0 \in 0..MaxEvents
  BY LimitsAssumption DEF Time
<1>2. TypeOK
  BY <1>1, LimitsAssumption, NoneAssumption
  DEF Init, TypeOK, Row, Task, NoTask, NoSweep, Outcomes
<1>3. SweepOK /\ TaskOK /\ FromOK
  BY <1>1 DEF Init, SweepOK, TaskOK, FromOK, NoTask, NoSweep
<1> QED BY <1>2, <1>3 DEF Typed

\* A row of a check may be replaced by a sound one.
LEMMA RowStep ==
  ASSUME Typed, NEW c \in Checks, NEW r, Sound(r), row' = [row EXCEPT ![c] = r]
  PROVE  /\ row' \in [Checks -> Row] /\ \A k \in Checks : Sound(row'[k])
         /\ row'[c] = r /\ \A k \in Checks \ {c} : row'[k] = row[k]
BY DEF Typed, TypeOK, Sound

LEMMA TaskStep ==
  ASSUME Typed, NEW c \in Dispatches, NEW k \in Task, task' = [task EXCEPT ![c] = k],
         k.pc # "none" => k.slot \in Time /\ k.slot <= now, now' = now
  PROVE  /\ task' \in [Dispatches -> Task] /\ TaskOK'
         /\ task'[c] = k /\ \A d \in Dispatches \ {c} : task'[d] = task[d]
BY DEF Typed, TypeOK, TaskOK

LEMMA NoTaskType == NoTask \in Task
BY DEF NoTask, Task

\* What Typed says of the next state, from its parts.
LEMMA TypedNext ==
  ASSUME Typed, now' \in Time, now <= now',
         row' \in [Checks -> Row], \A c \in Checks : Sound(row'[c]),
         obs' \in [Checks -> [Time -> Outcomes \union {"none"}]],
         UNCHANGED setupVars, task' \in [Dispatches -> Task], TaskOK', SweepOK',
         from' = from, \A c \in Checks : row'[c].enabled => row[c].enabled,
         steady' = steady, events' \in 0..MaxEvents
  PROVE  Typed'
<1>1. FromOK'
  BY SegmentsOfTime DEF Typed, FromOK, TypeOK, Time
<1>2. TypeOK'
  BY DEF Typed, TypeOK, SweepOK, Sound, setupVars
<1> QED BY <1>1, <1>2 DEF Typed

LEMMA SweepSame ==
  ASSUME Typed, sweep' = sweep, now' = now PROVE SweepOK'
BY DEF Typed, SweepOK

LEMMA SweepCleared ==
  ASSUME Typed, sweep' = NoSweep, now' = now PROVE SweepOK'
<1>1. 0 \in Time /\ 0 <= now
  BY SegmentsOfTime DEF Time, Typed, TypeOK
<1> QED BY <1>1 DEF SweepOK, NoSweep

\* The sweep without a check, with nothing or with its backlog left.
LEMMA SweepWithout ==
  ASSUME Typed, now' = now, NEW c \in Checks, NEW k \in Checks \union {None}, NEW u \in Time,
         k # None => u < sweep.at,
         sweep' = [sweep EXCEPT !.rows = @ \ {c}, !.next[c] = None, !.cur = k, !.upto = u]
  PROVE  SweepOK'
<1>1. sweep.next \in [Checks -> Time \union {None}]
  BY DEF Typed, SweepOK
<1>2. [sweep.next EXCEPT ![c] = None] \in [Checks -> Time \union {None}]
  BY <1>1
<1>3. /\ sweep'.rows = sweep.rows \ {c} /\ sweep'.next = [sweep.next EXCEPT ![c] = None]
      /\ sweep'.cur = k /\ sweep'.upto = u /\ sweep'.at = sweep.at /\ sweep'.on = sweep.on
  BY DEF Typed, SweepOK
<1>4. sweep' \in [on : BOOLEAN, at : Time, rows : SUBSET Checks,
                  next : [Checks -> Time \union {None}], cur : Checks \union {None},
                  upto : Time]
  BY <1>2 DEF Typed, SweepOK
<1>5. \A d \in sweep'.rows : sweep'.next[d] = sweep.next[d]
  BY <1>1, <1>3 DEF Typed, SweepOK
<1> QED BY <1>3, <1>4, <1>5 DEF Typed, SweepOK

WritesNothing(c) ==
  /\ Missed(c) = {} \/ ~row[c].enabled
  /\ row'[c] = row[c] /\ obs'[c] = obs[c]

WritesMissed(c) ==
  /\ Missed(c) # {} /\ row[c].enabled
  /\ row'[c] = Judged([row[c] EXCEPT !.streak = @ + Cardinality(Missed(c))])
  /\ obs'[c] = [t \in Time |-> IF t \in Missed(c) THEN "MISSED" ELSE obs[c][t]]

\* The dispatch of the current slot, once there is no backlog.
Started(c) ==
  /\ task'[Current(c)].pc = "load" /\ task'[Current(c)].slot = sweep.at
  /\ task'[Current(c)].alone => task[Left(c)].pc = "none"
  /\ Missed(c) = Pending(c)

\* What the turn of a check in the sweep does to its row, its observations, its
\* dispatch and the position of its backlog.
LEMMA BacklogStep ==
  ASSUME Typed, NEW c \in Checks, Backlog(c)
  PROVE  /\ SweepOK' /\ TaskOK' /\ task' \in [Dispatches -> Task]
         /\ row' \in [Checks -> Row] /\ \A k \in Checks : Sound(row'[k])
         /\ \A k \in Checks \ {c} : row'[k] = row[k] /\ obs'[k] = obs[k]
         /\ \A d \in Dispatches \ {Current(c)} : task'[d] = task[d]
         /\ obs' \in [Checks -> [Time -> Outcomes \union {"none"}]]
         /\ WritesNothing(c) \/ WritesMissed(c)
         /\ task' = task \/ Started(c)
         /\ row'[c].enabled => row[c].enabled
         /\ row[c].enabled /\ ~row'[c].enabled => task' = task
         /\ sweep'.rows = sweep.rows \ {c} /\ sweep'.on = sweep.on
         /\ \A k \in sweep'.rows : sweep'.next[k] = sweep.next[k]
         /\ sweep'.cur = None \/ (sweep'.cur = c /\ sweep'.upto \in Missed(c)
                                  /\ \A u \in Missed(c) : u <= sweep'.upto)
<1> DEFINE missed == Missed(c)
           written == missed # {} /\ Writes(c)
           after == IF written
                    THEN Judged([row[c] EXCEPT !.streak = @ + Cardinality(missed)])
                    ELSE row[c]
           stops == written /\ ~after.enabled
           more == missed # Pending(c)
           last == CHOOSE t \in missed : \A u \in missed : u <= t
           marked == [t \in Time |-> IF t \in missed THEN "MISSED" ELSE obs[c][t]]
<1>1. c \in sweep.rows /\ now' = now
  BY DEF Backlog
<1>2. /\ row' = [row EXCEPT ![c] = after]
      /\ obs' = IF written THEN [obs EXCEPT ![c] = marked] ELSE obs
      /\ IF stops \/ more THEN UNCHANGED task
         ELSE task' = [task EXCEPT ![Current(c)] =
           [NoTask EXCEPT !.pc = "load", !.slot = sweep.at,
                          !.alone = task[Left(c)].pc = "none"]]
      /\ sweep' = [sweep EXCEPT !.rows = @ \ {c}, !.next[c] = None,
             !.cur = IF more /\ ~stops THEN c ELSE None,
             !.upto = IF more /\ ~stops THEN last ELSE 0]
  BY DEF Backlog
<1>3. /\ missed \subseteq Time /\ \A t \in missed : t < sweep.at
      /\ Cardinality(missed) \in Nat /\ (more => missed # {})
  BY <1>1, MissedFacts
<1>4. more => last \in missed /\ \A u \in missed : u <= last
  BY <1>3, LatestOfTimes
<1>5. Sound(row[c])
  BY RowsSound
<1>6. Sound(after) /\ (after.enabled => row[c].enabled)
  <2>1. CASE written
    <3>1. row[c].streak + Cardinality(missed) \in Nat
      BY <1>3, <1>5 DEF Sound, Row
    <3> DEFINE r == [row[c] EXCEPT !.streak = @ + Cardinality(missed)]
    <3>2. Sound(r)
      BY <1>5, <3>1 DEF Sound, Row
    <3>3. r.enabled <=> row[c].enabled
      BY <1>5 DEF Sound, Row
    <3> HIDE DEF r
    <3>4. after = Judged(r)
      BY <2>1 DEF r
    <3> QED BY <3>2, <3>3, <3>4, JudgedSound
  <2>2. CASE ~written
    BY <1>5, <2>2
  <2> QED BY <2>1, <2>2
<1>7. /\ row' \in [Checks -> Row] /\ \A k \in Checks : Sound(row'[k])
      /\ row'[c] = after /\ \A k \in Checks \ {c} : row'[k] = row[k]
  <2> HIDE DEF after
  <2> QED BY <1>2, <1>6, RowStep
<1>8. /\ obs' \in [Checks -> [Time -> Outcomes \union {"none"}]]
      /\ \A k \in Checks \ {c} : obs'[k] = obs[k]
      /\ obs'[c] = IF written THEN marked ELSE obs[c]
  <2>1. obs \in [Checks -> [Time -> Outcomes \union {"none"}]]
    BY DEF Typed, TypeOK
  <2>2. marked \in [Time -> Outcomes \union {"none"}]
    BY <2>1 DEF Outcomes
  <2> HIDE DEF marked, written
  <2> QED BY <1>2, <2>1, <2>2
<1>9. /\ TaskOK' /\ task' \in [Dispatches -> Task]
      /\ \A d \in Dispatches \ {Current(c)} : task'[d] = task[d]
      /\ task' = task \/ (Started(c) /\ ~stops)
  <2> DEFINE load == [NoTask EXCEPT !.pc = "load", !.slot = sweep.at,
                                    !.alone = task[Left(c)].pc = "none"]
  <2>1. /\ load \in Task /\ load.pc = "load" /\ load.slot = sweep.at
        /\ load.slot \in Time /\ load.slot <= now
        /\ load.alone => task[Left(c)].pc = "none"
    BY DEF NoTask, Task, Typed, SweepOK
  <2>2. CASE stops \/ more
    BY <1>1, <1>2, <2>2 DEF Typed, TypeOK, TaskOK
  <2>3. CASE ~(stops \/ more)
    <3>1. task' = [task EXCEPT ![Current(c)] = load]
      BY <1>2, <2>3
    <3>2. Current(c) \in Dispatches
      BY DispatchFacts
    <3> HIDE DEF load
    <3>3. /\ task' \in [Dispatches -> Task] /\ TaskOK' /\ task'[Current(c)] = load
          /\ \A d \in Dispatches \ {Current(c)} : task'[d] = task[d]
      BY <1>1, <2>1, <3>1, <3>2, TaskStep
    <3> QED BY <2>1, <2>3, <3>3 DEF Started
  <2> QED BY <2>2, <2>3
<1>10. /\ SweepOK' /\ sweep'.rows = sweep.rows \ {c} /\ sweep'.on = sweep.on
       /\ \A k \in sweep'.rows : sweep'.next[k] = sweep.next[k]
       /\ sweep'.cur = (IF more /\ ~stops THEN c ELSE None)
       /\ sweep'.upto = (IF more /\ ~stops THEN last ELSE 0)
  <2> DEFINE k == IF more /\ ~stops THEN c ELSE None
             u == IF more /\ ~stops THEN last ELSE 0
  <2>1. k \in Checks \union {None} /\ u \in Time /\ (k # None => u < sweep.at)
    BY <1>3, <1>4, SegmentsOfTime DEF Time
  <2>2. sweep' = [sweep EXCEPT !.rows = @ \ {c}, !.next[c] = None, !.cur = k, !.upto = u]
    BY <1>2
  <2> HIDE DEF k, u
  <2>3. SweepOK'
    BY <1>1, <2>1, <2>2, SweepWithout
  <2>4. /\ sweep'.rows = sweep.rows \ {c} /\ sweep'.on = sweep.on
        /\ sweep'.cur = k /\ sweep'.upto = u
        /\ sweep'.next = [sweep.next EXCEPT ![c] = None]
    BY <2>2 DEF Typed, SweepOK
  <2>5. \A d \in sweep'.rows : sweep'.next[d] = sweep.next[d]
    BY <2>4 DEF Typed, SweepOK
  <2> QED BY <2>3, <2>4, <2>5 DEF k, u
<1>11. row[c].enabled /\ ~row'[c].enabled => task' = task
  <2>1. ASSUME row[c].enabled, ~row'[c].enabled PROVE task' = task
    <3>1. written
      BY <1>7, <2>1
    <3>2. stops
      BY <1>7, <2>1, <3>1
    <3> QED BY <1>2, <3>2
  <2> QED BY <2>1
<1>12. WritesNothing(c) \/ WritesMissed(c)
  BY <1>7, <1>8 DEF Writes, WritesNothing, WritesMissed
<1>13. row'[c].enabled => row[c].enabled
  <2> HIDE DEF after
  <2> QED BY <1>6, <1>7
<1>14. sweep'.cur = None \/ (sweep'.cur = c /\ sweep'.upto \in Missed(c)
                                  /\ \A u \in Missed(c) : u <= sweep'.upto)
  BY <1>4, <1>10
<1> QED BY <1>7, <1>8, <1>9, <1>10, <1>11, <1>12, <1>13, <1>14

LEMMA DispatchType ==
  ASSUME Typed, NEW d \in Dispatches, Load(d) \/ Run(d) \/ Record(d) \/ RecordFails(d)
  PROVE  Typed'
<1> DEFINE c == d[1]
<1>1. c \in Checks /\ \A k \in Checks : Sound(row[k])
  BY RowsSound, DispatchFacts
<1>2. /\ task[d] \in Task /\ now \in Time /\ events \in 0..MaxEvents
      /\ task[d].pc # "none" => task[d].slot \in Time /\ task[d].slot <= now
      /\ row \in [Checks -> Row] /\ obs \in [Checks -> [Time -> Outcomes \union {"none"}]]
  BY DEF Typed, TypeOK, TaskOK
<1>3. CASE Load(d)
  <2> DEFINE t == task[d].slot
             re == row[c].enabled /\ Observed(c, t)
             r == IF re THEN NextSlot(row[c], t) ELSE row[c]
             k == IF ~row[c].enabled \/ re \/ (vantage[c] = "AGENT" /\ online /\ Claimed(c))
                  THEN NoTask
                  ELSE [pc |-> CASE vantage[c] = "HUB" -> "probing"
                            [] vantage[c] = "AGENT" /\ (~online \/ Saturated) -> "missed"
                            [] OTHER -> "queued",
                        slot |-> t, via |-> vantage[c], alone |-> task[d].alone]
  <2>1. /\ t \in Time /\ t <= now /\ now' = now
        /\ row' = IF re THEN [row EXCEPT ![c] = NextSlot(@, t)] ELSE row
        /\ task' = [task EXCEPT ![d] = k]
        /\ UNCHANGED <<obs, setupVars, sweep, from, steady, events>>
    BY <1>2, <1>3 DEF Load
  <2>2. Sound(r) /\ (r.enabled <=> row[c].enabled)
    BY <1>1, <2>1, NextSlotSound
  <2>3. row' = [row EXCEPT ![c] = r]
    BY <1>2, <2>1
  <2>4. k \in Task /\ (k.pc # "none" => k.slot \in Time /\ k.slot <= now)
    <3>1. vantage[c] \in {"HUB", "AGENT"}
      BY <1>1 DEF Typed, TypeOK
    <3> QED BY <1>2, <2>1, <3>1 DEF Task, NoTask
  <2> HIDE DEF r, k
  <2>5. /\ row' \in [Checks -> Row] /\ \A e \in Checks : Sound(row'[e])
        /\ \A e \in Checks : row'[e].enabled => row[e].enabled
    BY <1>1, <2>2, <2>3, RowStep
  <2>6. task' \in [Dispatches -> Task] /\ TaskOK'
    BY <2>1, <2>4, TaskStep
  <2>7. SweepOK'
    BY <2>1, SweepSame
  <2> QED BY <1>2, <2>1, <2>5, <2>6, <2>7, TypedNext, SegmentsOfTime DEF Time
<1>4. CASE Run(d)
  <2> DEFINE k == [task[d] EXCEPT !.pc = "probing"]
  <2>1. /\ task' = [task EXCEPT ![d] = k]
        /\ UNCHANGED <<now, row, obs, setupVars, sweep, from, steady, events>>
    BY <1>4 DEF Run
  <2>2. k \in Task /\ k.slot \in Time /\ k.slot <= now
    BY <1>2, <1>4 DEF Run, Pool, Task
  <2> HIDE DEF k
  <2>3. task' \in [Dispatches -> Task] /\ TaskOK'
    BY <2>1, <2>2, TaskStep
  <2>4. SweepOK'
    BY <2>1, SweepSame
  <2> QED BY <1>1, <1>2, <2>1, <2>3, <2>4, TypedNext, SegmentsOfTime DEF Time
<1>5. CASE Record(d)
  <2> DEFINE t == task[d].slot
  <2>1. /\ t \in Time /\ task' = [task EXCEPT ![d] = NoTask]
        /\ UNCHANGED <<now, setupVars, sweep, from, steady, events>>
    BY <1>2, <1>5 DEF Record
  <2>2. PICK o \in Outcomes :
          \/ row' = row /\ obs' = obs
          \/ /\ obs' = [obs EXCEPT ![c][t] = o]
             /\ row' = [row EXCEPT ![c] = Recorded(@, t, o)]
    BY <1>5 DEF Record, Results, Outcomes
  <2>3. Sound(Recorded(row[c], t, o)) /\ (Recorded(row[c], t, o).enabled => row[c].enabled)
    BY <1>1, <2>1, RecordedSound
  <2>4. /\ row' \in [Checks -> Row] /\ \A e \in Checks : Sound(row'[e])
        /\ \A e \in Checks : row'[e].enabled => row[e].enabled
    <3>1. CASE row' = row
      BY <1>1, <1>2, <3>1
    <3>2. CASE row' = [row EXCEPT ![c] = Recorded(row[c], t, o)]
      BY <1>1, <2>3, <3>2, RowStep
    <3> QED BY <2>2, <3>1, <3>2
  <2>5. obs' \in [Checks -> [Time -> Outcomes \union {"none"}]]
    BY <1>1, <1>2, <2>1, <2>2
  <2>6. task' \in [Dispatches -> Task] /\ TaskOK'
    BY <2>1, NoTaskType, TaskStep DEF NoTask
  <2>7. SweepOK'
    BY <2>1, SweepSame
  <2> QED BY <1>2, <2>1, <2>4, <2>5, <2>6, <2>7, TypedNext, SegmentsOfTime DEF Time
<1>6. CASE RecordFails(d)
  <2>1. /\ task' = [task EXCEPT ![d] = NoTask] /\ events' \in 0..MaxEvents
        /\ UNCHANGED <<now, row, obs, setupVars, sweep, from, steady>>
    BY <1>2, <1>6, LimitsAssumption DEF RecordFails, Released, Event
  <2>2. task' \in [Dispatches -> Task] /\ TaskOK'
    BY <2>1, NoTaskType, TaskStep DEF NoTask
  <2>3. SweepOK'
    BY <2>1, SweepSame
  <2> QED BY <1>1, <1>2, <2>1, <2>2, <2>3, TypedNext, SegmentsOfTime DEF Time
<1> QED BY <1>3, <1>4, <1>5, <1>6

\* What the failure of a sweep leaves of the dispatches of a check: those in the pool stay,
\* the current one becomes the one left in flight.
LEMMA FailsStep ==
  ASSUME Typed, SweepFails
  PROVE  /\ task' \in [Dispatches -> Task] /\ TaskOK' /\ UNCHANGED <<now, row, obs, from, steady>>
         /\ \A c \in Checks :
              \/ /\ task'[Current(c)] = task[Current(c)] /\ task'[Left(c)] = task[Left(c)]
                 /\ Free(c)
              \/ /\ task'[Current(c)] = NoTask /\ task[Left(c)].pc = "none"
                 /\ task'[Left(c)] = [task[Current(c)] EXCEPT !.alone = FALSE]
                 /\ task[Current(c)].pc # "none"
<1>1. /\ task \in [Dispatches -> Task] /\ TaskOK /\ NoTask \in Task
      /\ UNCHANGED <<now, row, obs, from, steady>>
      /\ \A c \in Checks : Abandoned(c) => task[Left(c)].pc = "none"
  BY NoTaskType DEF SweepFails, Typed, TypeOK
<1>2. task' = [d \in Dispatches |->
                IF ~Abandoned(d[1]) THEN task[d]
                ELSE IF d[2] = "left" THEN [task[Current(d[1])] EXCEPT !.alone = FALSE]
                ELSE NoTask]
  BY DEF SweepFails
<1>3. ASSUME NEW c \in Checks
      PROVE  \/ /\ task'[Current(c)] = task[Current(c)] /\ task'[Left(c)] = task[Left(c)]
                /\ Free(c)
             \/ /\ task'[Current(c)] = NoTask /\ task[Left(c)].pc = "none"
                /\ task'[Left(c)] = [task[Current(c)] EXCEPT !.alone = FALSE]
                /\ task[Current(c)].pc # "none"
  <2>1. CASE Abandoned(c)
    <3>1. task'[Current(c)] = NoTask
      BY <1>2, <2>1, DispatchFacts
    <3>2. task'[Left(c)] = [task[Current(c)] EXCEPT !.alone = FALSE]
      BY <1>2, <2>1, DispatchFacts
    <3> QED BY <1>1, <2>1, <3>1, <3>2 DEF Abandoned
  <2>2. CASE ~Abandoned(c)
    <3>1. ~Abandoned(Current(c)[1]) /\ ~Abandoned(Left(c)[1])
      BY <2>2, DispatchFacts
    <3>2. Current(c) \in Dispatches /\ Left(c) \in Dispatches
      BY DispatchFacts
    <3>3. task'[Current(c)] = task[Current(c)] /\ task'[Left(c)] = task[Left(c)]
      BY <1>2, <3>1, <3>2
    <3> QED BY <2>2, <3>3 DEF Abandoned, Free
  <2> QED BY <2>1, <2>2
<1>4. ASSUME NEW d \in Dispatches
      PROVE  /\ task'[d] \in Task
             /\ task'[d].pc # "none" => task'[d].slot \in Time /\ task'[d].slot <= now
  <2>1. d[1] \in Checks /\ (d = Current(d[1]) \/ d = Left(d[1]))
        /\ Current(d[1]) \in Dispatches
    BY DispatchFacts
  <2>2. CASE task'[d] = task[d]
    BY <1>1, <2>2 DEF TaskOK
  <2>3. CASE task'[d] = NoTask
    BY <1>1, <2>3 DEF NoTask
  <2>4. CASE task'[d] = [task[Current(d[1])] EXCEPT !.alone = FALSE]
    <3>1. task[Current(d[1])] \in Task
      BY <1>1, <2>1
    <3>2. /\ task'[d] \in Task /\ task'[d].pc = task[Current(d[1])].pc
          /\ task'[d].slot = task[Current(d[1])].slot
      BY <2>4, <3>1 DEF Task
    <3> QED BY <1>1, <2>1, <3>2 DEF TaskOK
  <2> QED BY <1>3, <2>1, <2>2, <2>3, <2>4
<1>5. task' \in [Dispatches -> Task]
  <2>1. task' = [d \in Dispatches |-> task'[d]]
    BY <1>2
  <2> QED BY <1>4, <2>1
<1>6. TaskOK'
  BY <1>1, <1>4 DEF TaskOK
<1> QED BY <1>1, <1>3, <1>5, <1>6

LEMMA SweepType ==
  ASSUME Typed, SweepStart \/ Advance \/ SweepEnd \/ SweepFails \/ Restart
                  \/ \E c \in Checks : Skip(c) \/ Backlog(c)
  PROVE  Typed'
<1>1. \A k \in Checks : Sound(row[k])
  BY RowsSound
<1>2. /\ task \in [Dispatches -> Task] /\ now \in Time /\ events \in 0..MaxEvents /\ TaskOK
      /\ row \in [Checks -> Row] /\ obs \in [Checks -> [Time -> Outcomes \union {"none"}]]
  BY DEF Typed, TypeOK
<1>3. now <= now
  BY <1>2, SegmentsOfTime DEF Time
<1>4. CASE SweepStart
  <2> DEFINE due == {c \in Checks \ parked :
                       row[c].enabled /\ row[c].next # None /\ row[c].next <= now}
             when == [c \in Checks |-> IF c \in due THEN row[c].next ELSE None]
  <2>1. /\ sweep' = [NoSweep EXCEPT !.on = TRUE, !.at = now, !.rows = due, !.next = when]
        /\ UNCHANGED <<now, row, obs, setupVars, task, from, steady, events>>
    BY <1>4 DEF SweepStart
  <2>2. \A c \in due : row[c].next \in Time
    BY <1>2, SegmentsOfTime DEF Row, Time
  <2>3. when \in [Checks -> Time \union {None}] /\ \A c \in due : when[c] <= now
    BY <2>2
  <2>8. \A c \in due : when[c] \in Time
    BY <2>2
  <2> HIDE DEF when
  <2>4. due \subseteq Checks
    OBVIOUS
  <2> HIDE DEF due
  <2>5. SweepOK'
    <3>1. sweep' = [on |-> TRUE, at |-> now, rows |-> due, next |-> when,
                    cur |-> None, upto |-> 0]
      BY <2>1 DEF NoSweep
    <3>2. sweep' \in [on : BOOLEAN, at : Time, rows : SUBSET Checks,
                     next : [Checks -> Time \union {None}], cur : Checks \union {None},
                     upto : Time]
      <4>1. 0 \in Time
        BY SegmentsOfTime DEF Time
      <4> QED BY <1>2, <2>3, <2>4, <3>1, <4>1
    <3>3. \A c \in due : when[c] \in Time /\ when[c] <= now
      BY <2>3, <2>8
    <3>4. /\ sweep'.at = now /\ sweep'.rows = due /\ sweep'.next = when
          /\ sweep'.cur = None
      BY <3>1
    <3> QED BY <1>3, <2>1, <3>2, <3>3, <3>4 DEF SweepOK
  <2>6. TaskOK'
    BY <1>2, <2>1 DEF TaskOK
  <2> QED BY <1>1, <1>2, <1>3, <2>1, <2>5, <2>6, TypedNext
<1>5. CASE Advance
  <2>1. /\ sweep.cur \in Checks /\ sweep.upto \in Time
        /\ row' = [row EXCEPT ![sweep.cur] = NextSlot(row[sweep.cur], sweep.upto)]
        /\ sweep' = [sweep EXCEPT !.cur = None, !.upto = 0]
        /\ UNCHANGED <<now, obs, setupVars, task, from, steady, events>>
    BY <1>5 DEF Advance, Typed, SweepOK
  <2>2. /\ row' \in [Checks -> Row] /\ \A d \in Checks : Sound(row'[d])
        /\ \A d \in Checks : row'[d].enabled => row[d].enabled
    <3> DEFINE r == NextSlot(row[sweep.cur], sweep.upto)
    <3>1. Sound(r) /\ (r.enabled <=> row[sweep.cur].enabled)
      BY <1>1, <2>1, NextSlotSound
    <3>2. row' = [row EXCEPT ![sweep.cur] = r]
      BY <2>1
    <3> HIDE DEF r
    <3> QED BY <2>1, <3>1, <3>2, RowStep
  <2>3. SweepOK'
    <3>1. /\ sweep'.on = sweep.on /\ sweep'.at = sweep.at /\ sweep'.rows = sweep.rows
          /\ sweep'.next = sweep.next /\ sweep'.cur = None
      BY <2>1 DEF Typed, SweepOK
    <3>2. sweep' \in [on : BOOLEAN, at : Time, rows : SUBSET Checks,
                     next : [Checks -> Time \union {None}], cur : Checks \union {None},
                     upto : Time]
      <4>1. 0 \in Time
        BY SegmentsOfTime DEF Time
      <4>2. sweep' = [on |-> sweep.on, at |-> sweep.at, rows |-> sweep.rows,
                      next |-> sweep.next, cur |-> None, upto |-> 0]
        BY <2>1 DEF Typed, SweepOK
      <4> QED BY <4>1, <4>2 DEF Typed, SweepOK
    <3> QED BY <2>1, <3>1, <3>2 DEF Typed, SweepOK
  <2>4. TaskOK'
    BY <1>2, <2>1 DEF TaskOK
  <2> QED BY <1>2, <1>3, <2>1, <2>2, <2>3, <2>4, TypedNext
<1>6. CASE SweepEnd
  <2>1. sweep' = NoSweep /\ UNCHANGED <<now, row, obs, setupVars, task, from, steady, events>>
    BY <1>6 DEF SweepEnd
  <2>2. TaskOK' /\ SweepOK'
    BY <1>2, <2>1, SweepCleared DEF TaskOK
  <2> QED BY <1>1, <1>2, <1>3, <2>1, <2>2, TypedNext
<1>7. CASE Restart
  <2>1. /\ sweep' = NoSweep /\ task' = [d \in Dispatches |-> NoTask] /\ events' \in 0..MaxEvents
        /\ UNCHANGED <<now, row, obs, setupVars, from, steady>>
    BY <1>2, <1>7, LimitsAssumption DEF Restart, Event
  <2>2. TaskOK' /\ task' \in [Dispatches -> Task] /\ SweepOK'
    BY <2>1, NoTaskType, SweepCleared DEF TaskOK, NoTask
  <2> QED BY <1>1, <1>2, <1>3, <2>1, <2>2, TypedNext
<1>10. CASE SweepFails
  <2>1. /\ sweep' = NoSweep /\ events' \in 0..MaxEvents
        /\ UNCHANGED <<now, row, obs, setupVars, from, steady>>
    BY <1>2, <1>10, LimitsAssumption DEF SweepFails, Event
  <2>2. TaskOK' /\ task' \in [Dispatches -> Task]
    BY <1>2, <1>10, <2>1, FailsStep DEF Typed
  <2>3. SweepOK'
    BY <2>1, SweepCleared
  <2> QED BY <1>1, <1>2, <1>3, <2>1, <2>2, <2>3, TypedNext
<1>8. ASSUME NEW c \in Checks, Skip(c) PROVE Typed'
  <2>1. /\ sweep.cur = None
        /\ sweep' = [sweep EXCEPT !.rows = @ \ {c}, !.next[c] = None]
        /\ UNCHANGED <<now, row, obs, setupVars, task, from, steady, events>>
    BY <1>8 DEF Skip
  <2>2. sweep.upto \in Time /\ sweep' = [sweep EXCEPT !.rows = @ \ {c}, !.next[c] = None,
                                           !.cur = None, !.upto = sweep.upto]
    BY <2>1 DEF Typed, SweepOK
  <2>3. TaskOK' /\ SweepOK'
    BY <1>2, <2>1, <2>2, SweepWithout DEF TaskOK
  <2> QED BY <1>1, <1>2, <1>3, <2>1, <2>3, TypedNext
<1>9. ASSUME NEW c \in Checks, Backlog(c) PROVE Typed'
  <2>1. UNCHANGED <<now, setupVars, from, steady, events>>
    BY <1>9 DEF Backlog
  <2>2. /\ SweepOK' /\ TaskOK' /\ task' \in [Dispatches -> Task]
        /\ row' \in [Checks -> Row] /\ \A k \in Checks : Sound(row'[k])
        /\ obs' \in [Checks -> [Time -> Outcomes \union {"none"}]]
        /\ \A k \in Checks \ {c} : row'[k] = row[k]
        /\ row'[c].enabled => row[c].enabled
    BY <1>9, BacklogStep
  <2>3. \A k \in Checks : row'[k].enabled => row[k].enabled
    BY <2>2
  <2> QED BY <1>2, <1>3, <2>1, <2>2, <2>3, TypedNext
<1> QED BY <1>4, <1>5, <1>6, <1>7, <1>8, <1>9, <1>10

LEMMA OthersType ==
  ASSUME Typed, Session \/ Tick
                  \/ \E c \in Checks : Pause(c) \/ Resume(c) \/ Park(c) \/ Move(c)
  PROVE  Typed'
<1>1. \A k \in Checks : Sound(row[k])
  BY RowsSound
<1>2. /\ task \in [Dispatches -> Task] /\ now \in Time /\ events \in 0..MaxEvents /\ TaskOK
      /\ row \in [Checks -> Row] /\ obs \in [Checks -> [Time -> Outcomes \union {"none"}]]
      /\ now \in Nat
  BY SegmentsOfTime DEF Typed, TypeOK, Time
<1>3. CASE Session
  BY <1>3, LimitsAssumption
  DEF Session, Event, Typed, TypeOK, SweepOK, TaskOK, FromOK
<1>4. CASE Tick
  <2>1. /\ now' \in Time /\ now <= now'
        /\ UNCHANGED <<row, obs, setupVars, sweep, task, from, steady, events>>
    BY <1>2, <1>4, SegmentsOfTime DEF Tick, Time
  <2>2. TaskOK'
    BY <1>2, <2>1, SegmentsOfTime DEF TaskOK, Time
  <2>3. SweepOK'
    BY <1>2, <2>1, SegmentsOfTime DEF Typed, SweepOK, Time
  <2> QED BY <1>1, <1>2, <2>1, <2>2, <2>3, TypedNext
<1>5. ASSUME NEW c \in Checks, Pause(c) PROVE Typed'
  <2> DEFINE r == [row[c] EXCEPT !.enabled = FALSE, !.next = None]
  <2>1. /\ row' = [row EXCEPT ![c].enabled = FALSE, ![c].next = None]
        /\ from' = [from EXCEPT ![c] = None] /\ steady' = steady \ {c}
        /\ events' \in 0..MaxEvents
        /\ UNCHANGED <<now, obs, setupVars, sweep, task>>
    BY <1>2, <1>5, LimitsAssumption DEF Pause, Event
  <2>2. Sound(r) /\ ~r.enabled
    BY <1>1 DEF Sound, Row
  <2>3. row' = [row EXCEPT ![c] = r]
    BY <1>2, <2>1
  <2> HIDE DEF r
  <2>4. /\ row' \in [Checks -> Row] /\ \A d \in Checks : Sound(row'[d])
        /\ row'[c] = r /\ \A d \in Checks \ {c} : row'[d] = row[d]
    BY <2>2, <2>3, RowStep
  <2>5. FromOK' /\ from' \in [Checks -> Time \union {None}]
    BY <2>1, <2>2, <2>4 DEF Typed, TypeOK, FromOK
  <2>6. TypeOK'
    BY <2>1, <2>4, <2>5 DEF Typed, TypeOK, setupVars, Sound
  <2>7. TaskOK' /\ SweepOK'
    BY <1>2, <2>1, SweepSame DEF TaskOK
  <2> QED BY <2>5, <2>6, <2>7 DEF Typed
<1>6. ASSUME NEW c \in Checks, Resume(c) PROVE Typed'
  <2>1. PICK r : /\ row' = [row EXCEPT ![c] = r] /\ Sound(r)
    <3> DEFINE p == [row[c] EXCEPT !.enabled = TRUE, !.next = now]
               q == [enabled |-> TRUE, next |-> now, streak |-> 0, auto |-> FALSE]
    <3>1. now \in 0..MaxTime + 1 /\ now # None
      BY <1>2, SegmentsOfTime, NoneAssumption DEF Time
    <3>2. Sound(q)
      BY <3>1 DEF Sound, Row
    <3>3. ~row[c].auto => Sound(p)
      BY <1>1, <3>1 DEF Sound, Row
    <3>4. \/ ~row[c].auto /\ row' = [row EXCEPT ![c] = p]
          \/ row' = [row EXCEPT ![c] = q]
      BY <1>2, <1>6 DEF Resume
    <3> QED BY <3>2, <3>3, <3>4
  <2>2. /\ from' = [from EXCEPT ![c] = now] /\ steady' = steady \ {c}
        /\ events' \in 0..MaxEvents
        /\ UNCHANGED <<now, obs, setupVars, sweep, task>>
    BY <1>2, <1>6, LimitsAssumption DEF Resume, Event
  <2>3. /\ row' \in [Checks -> Row] /\ \A d \in Checks : Sound(row'[d])
        /\ \A d \in Checks \ {c} : row'[d] = row[d]
    BY <2>1, RowStep
  <2>4. FromOK' /\ from' \in [Checks -> Time \union {None}]
    BY <1>2, <2>2, <2>3 DEF Typed, TypeOK, FromOK
  <2>5. TypeOK'
    BY <2>2, <2>3, <2>4 DEF Typed, TypeOK, setupVars, Sound
  <2>6. TaskOK' /\ SweepOK'
    BY <1>2, <2>2, SweepSame DEF TaskOK
  <2> QED BY <2>4, <2>5, <2>6 DEF Typed
<1>7. ASSUME NEW c \in Checks, Park(c) PROVE Typed'
  BY <1>7, LimitsAssumption
  DEF Park, Event, Typed, TypeOK, SweepOK, TaskOK, FromOK
<1>8. ASSUME NEW c \in Checks, Move(c) PROVE Typed'
  BY <1>8, LimitsAssumption
  DEF Move, Event, Typed, TypeOK, SweepOK, TaskOK, FromOK
<1> QED BY <1>3, <1>4, <1>5, <1>6, <1>7, <1>8

LEMMA TypeStep == ASSUME Typed, [Next]_vars PROVE Typed'
<1>1. CASE UNCHANGED vars
  BY <1>1 DEF vars, setupVars, Typed, TypeOK, SweepOK, TaskOK, FromOK
<1>2. CASE Next
  BY <1>2, DispatchType, SweepType, OthersType DEF Next, Sweeping, Dispatch
<1> QED BY <1>1, <1>2

\* The clock, the rows, the observations, the sweep and the dispatches have their types,
\* a slot in flight is not in the future, and a check that is enabled has its next slot.
THEOREM TypeInvariant == Spec => []TypeOK
<1>1. Typed /\ [Next]_vars => Typed'
  BY TypeStep
<1>2. Typed => TypeOK
  BY DEF Typed
<1> QED BY TypeInit, <1>1, <1>2, PTL DEF Spec
-----------------------------------------------------------------------------
(* One turn and one probe at a time.                                       *)

\* A step that writes no observation and leaves what a row says of its history.
Quiet ==
  /\ UNCHANGED <<obs, from, steady>>
  /\ \A c \in Checks : /\ row'[c].enabled <=> row[c].enabled
                       /\ row'[c].streak = row[c].streak
                       /\ row'[c].auto <=> row[c].auto

LEMMA LoadStep ==
  ASSUME Typed, NEW d \in Dispatches, Load(d)
  PROVE  /\ Quiet /\ UNCHANGED <<now, sweep>>
         /\ \A k \in Checks \ {d[1]} : row'[k] = row[k]
         /\ \A e \in Dispatches \ {d} : task'[e] = task[e]
         /\ task[d].pc = "load"
         /\ \/ row'[d[1]] = row[d[1]]
            \/ /\ Observed(d[1], task[d].slot)
               /\ row'[d[1]].next = Larger(row[d[1]].next, task[d].slot + 1)
         /\ \/ task'[d].pc = "none"
            \/ /\ task'[d].pc \in {"probing", "missed", "queued"}
               /\ task'[d].slot = task[d].slot /\ (task'[d].alone => task[d].alone)
               /\ row[d[1]].enabled /\ ~Observed(d[1], task[d].slot)
<1> DEFINE c == d[1]
           t == task[d].slot
           re == row[c].enabled /\ Observed(c, t)
           r == NextSlot(row[c], t)
           k == IF ~row[c].enabled \/ re \/ (vantage[c] = "AGENT" /\ online /\ Claimed(c))
                THEN NoTask
                ELSE [pc |-> CASE vantage[c] = "HUB" -> "probing"
                            [] vantage[c] = "AGENT" /\ (~online \/ Saturated) -> "missed"
                            [] OTHER -> "queued",
                      slot |-> t, via |-> vantage[c], alone |-> task[d].alone]
<1>1. /\ task[d].pc = "load" /\ row' = IF re THEN [row EXCEPT ![c] = r] ELSE row
      /\ task' = [task EXCEPT ![d] = k]
      /\ UNCHANGED <<now, obs, setupVars, sweep, from, steady, events>>
  BY DEF Load
<1>2. /\ c \in Checks /\ t \in Time /\ Sound(row[c])
      /\ row \in [Checks -> Row] /\ task \in [Dispatches -> Task]
  BY <1>1, RowsSound, DispatchFacts DEF Typed, TaskOK, TypeOK
<1>3. /\ r.enabled <=> row[c].enabled
      /\ r.auto <=> row[c].auto
      /\ r.streak = row[c].streak /\ r.next = Larger(row[c].next, t + 1)
  BY <1>2, NextSlotSound
<1>4. \/ k.pc = "none"
      \/ /\ k.pc \in {"probing", "missed", "queued"} /\ k.slot = t /\ (k.alone => task[d].alone)
         /\ row[c].enabled /\ ~Observed(c, t)
  BY DEF NoTask
<1> HIDE DEF r, k
<1>5. task'[d] = k /\ \A e \in Dispatches \ {d} : task'[e] = task[e]
  BY <1>1, <1>2
<1>6. CASE re
  <2>1. row'[c] = r /\ \A e \in Checks \ {c} : row'[e] = row[e]
    BY <1>1, <1>2, <1>6
  <2>2. Quiet
    BY <1>1, <1>3, <2>1 DEF Quiet
  <2> QED BY <1>1, <1>3, <1>4, <1>5, <1>6, <2>1, <2>2
<1>7. CASE ~re
  <2>1. row' = row
    BY <1>1, <1>7
  <2>2. Quiet
    BY <1>1, <2>1 DEF Quiet
  <2> QED BY <1>1, <1>4, <1>5, <2>1, <2>2
<1> QED BY <1>6, <1>7

\* The steps that are not quiet: an observation is written, a check is disabled or enabled.
LEMMA QuietSteps ==
  ASSUME Typed, [Next]_vars,
         ~\E c \in Checks : Backlog(c) \/ Pause(c) \/ Resume(c),
         ~\E d \in Dispatches : Record(d)
  PROVE  Quiet
<1>1. CASE Advance
  <2> DEFINE r == NextSlot(row[sweep.cur], sweep.upto)
  <2>1. /\ sweep.cur \in Checks /\ sweep.upto \in Time /\ row' = [row EXCEPT ![sweep.cur] = r]
        /\ UNCHANGED <<obs, from, steady>>
    BY <1>1 DEF Advance, Typed, SweepOK
  <2>2. /\ r.enabled <=> row[sweep.cur].enabled
        /\ r.auto <=> row[sweep.cur].auto
        /\ r.streak = row[sweep.cur].streak
    BY <2>1, RowsSound, NextSlotSound
  <2> HIDE DEF r
  <2>3. row'[sweep.cur] = r /\ \A d \in Checks \ {sweep.cur} : row'[d] = row[d]
    BY <2>1 DEF Typed, TypeOK
  <2> QED BY <2>1, <2>2, <2>3 DEF Quiet
<1>2. CASE \E d \in Dispatches : Load(d)
  BY <1>2, LoadStep
<1>3. CASE UNCHANGED <<row, obs, from, steady>>
  BY <1>3 DEF Quiet
<1>4. SweepStart \/ SweepEnd \/ SweepFails \/ Restart \/ Session \/ Tick \/ UNCHANGED vars
        => UNCHANGED <<row, obs, from, steady>>
  BY DEF SweepStart, SweepEnd, SweepFails, Restart, Session, Tick, vars
<1>5. \A c \in Checks : Skip(c) \/ Park(c) \/ Move(c) => UNCHANGED <<row, obs, from, steady>>
  BY DEF Skip, Park, Move
<1>6. \A d \in Dispatches : Run(d) \/ RecordFails(d) => UNCHANGED <<row, obs, from, steady>>
  BY DEF Run, RecordFails
<1> QED BY <1>1, <1>2, <1>3, <1>4, <1>5, <1>6 DEF Next, Sweeping, Dispatch

LEMMA TurnsStep == ASSUME Typed, Turns, [Next]_vars PROVE Turns'
<1> SUFFICES ASSUME NEW c \in Checks, ~sweep'.on \/ c \in sweep'.rows PROVE Free(c)'
  BY DEF Turns
<1>0. /\ task \in [Dispatches -> Task] /\ (~sweep.on \/ c \in sweep.rows => Free(c))
      /\ Current(c) \in Dispatches
  BY DispatchFacts DEF Typed, TypeOK, Turns
<1>1. CASE task'[Current(c)] = task[Current(c)] /\ (~sweep.on \/ c \in sweep.rows)
  BY <1>0, <1>1 DEF Free, Holds
<1>2. CASE SweepStart
  BY <1>0, <1>2 DEF SweepStart, Free, Holds
<1>3. CASE SweepEnd
  BY <1>3 DEF SweepEnd, Free, Holds
<1>4. CASE Restart
  BY <1>0, <1>4 DEF Restart, NoTask, Free
<1>5. ASSUME NEW k \in Checks, Skip(k) PROVE Free(c)'
  <2>1. sweep'.on = sweep.on /\ sweep'.rows = sweep.rows \ {k} /\ task' = task
    BY <1>5 DEF Skip, Typed, SweepOK
  <2> QED BY <1>1, <2>1
<1>6. ASSUME NEW k \in Checks, Backlog(k) PROVE Free(c)'
  <2>1. /\ sweep'.rows = sweep.rows \ {k} /\ sweep'.on = sweep.on
        /\ \A d \in Dispatches \ {Current(k)} : task'[d] = task[d]
    BY <1>6, BacklogStep
  <2>2. sweep.on
    BY <1>6 DEF Backlog
  <2>3. Current(c) # Current(k)
    BY <2>1, <2>2, DispatchFacts
  <2> QED BY <1>0, <1>1, <2>1, <2>2, <2>3
<1>7. CASE Advance
  <2>1. sweep'.on = sweep.on /\ sweep'.rows = sweep.rows /\ task' = task
    BY <1>7 DEF Advance, Typed, SweepOK
  <2> QED BY <1>1, <2>1
<1>8. ASSUME NEW d \in Dispatches, Load(d) PROVE Free(c)'
  <2>1. /\ sweep' = sweep /\ \A e \in Dispatches \ {d} : task'[e] = task[e]
        /\ task[d].pc = "load"
    BY <1>8, LoadStep
  <2>2. d # Current(c)
    BY <1>0, <2>1 DEF Free, Holds
  <2> QED BY <1>0, <1>1, <2>1, <2>2
<1>9. ASSUME NEW d \in Dispatches, Run(d) PROVE Free(c)'
  <2>1. sweep' = sweep /\ task' = [task EXCEPT ![d].pc = "probing"] /\ task[d].via = "AGENT"
    BY <1>9 DEF Run, Pool
  <2>2. CASE d = Current(c)
    BY <1>0, <2>1, <2>2 DEF Free, Holds, Task
  <2>3. CASE d # Current(c)
    BY <1>0, <1>1, <2>1, <2>3
  <2> QED BY <2>2, <2>3
<1>10. ASSUME NEW d \in Dispatches, Record(d) \/ RecordFails(d) PROVE Free(c)'
  <2>1. sweep' = sweep /\ task' = [task EXCEPT ![d] = NoTask]
    BY <1>10 DEF Record, RecordFails, Released
  <2>2. CASE d = Current(c)
    BY <1>0, <2>1, <2>2 DEF NoTask, Free
  <2>3. CASE d # Current(c)
    BY <1>0, <1>1, <2>1, <2>3
  <2> QED BY <2>2, <2>3
<1>11. Session \/ Tick \/ UNCHANGED vars => UNCHANGED <<sweep, task>>
  BY DEF Session, Tick, vars
<1>12. \A k \in Checks : Pause(k) \/ Resume(k) \/ Park(k) \/ Move(k) => UNCHANGED <<sweep, task>>
  BY DEF Pause, Resume, Park, Move
<1>13. CASE SweepFails
  <2>1. task'[Current(c)] = NoTask \/ (task'[Current(c)] = task[Current(c)] /\ Free(c))
    BY <1>13, FailsStep
  <2> QED BY <2>1 DEF NoTask, Free, Holds
<1> QED BY <1>1, <1>2, <1>3, <1>4, <1>5, <1>6, <1>7, <1>8, <1>9, <1>10, <1>11, <1>12, <1>13
        DEF Next, Sweeping, Dispatch

\* The end of a dispatch: at most one observation, of its own slot, which was free.
LEMMA RecordStep ==
  ASSUME Typed, NEW d \in Dispatches, Record(d)
  PROVE  /\ UNCHANGED <<now, sweep, from, steady>>
         /\ task[d].pc \in {"probing", "missed"} /\ task'[d].pc = "none"
         /\ \A k \in Checks \ {d[1]} : row'[k] = row[k] /\ obs'[k] = obs[k]
         /\ \A e \in Dispatches \ {d} : task'[e] = task[e]
         /\ \/ /\ row'[d[1]] = row[d[1]] /\ obs'[d[1]] = obs[d[1]]
               /\ obs[d[1]][task[d].slot] # "none"
            \/ /\ obs[d[1]][task[d].slot] = "none"
               /\ \E o \in Outcomes :
                    /\ obs'[d[1]] = [obs[d[1]] EXCEPT ![task[d].slot] = o]
                    /\ row'[d[1]] = Recorded(row[d[1]], task[d].slot, o)
<1> DEFINE c == d[1]
           t == task[d].slot
<1>1. /\ task[d].pc \in {"probing", "missed"} /\ task' = [task EXCEPT ![d] = NoTask]
      /\ UNCHANGED <<now, sweep, from, steady>>
  BY DEF Record
<1>2. /\ c \in Checks /\ row \in [Checks -> Row] /\ task \in [Dispatches -> Task]
      /\ obs \in [Checks -> [Time -> Outcomes \union {"none"}]]
  BY DispatchFacts DEF Typed, TypeOK
<1>3. task'[d].pc = "none" /\ \A e \in Dispatches \ {d} : task'[e] = task[e]
  BY <1>1, <1>2 DEF NoTask
<1>4. CASE obs[c][t] # "none"
  <2>1. UNCHANGED <<row, obs>>
    BY <1>4 DEF Record
  <2> QED BY <1>1, <1>3, <1>4, <2>1
<1>5. CASE obs[c][t] = "none"
  <2>1. PICK o \in Outcomes : /\ obs' = [obs EXCEPT ![c][t] = o]
                              /\ row' = [row EXCEPT ![c] = Recorded(row[c], t, o)]
    BY <1>5 DEF Record, Results, Outcomes
  <2>2. /\ obs'[c] = [obs[c] EXCEPT ![t] = o]
        /\ \A k \in Checks \ {c} : obs'[k] = obs[k]
    BY <1>2, <2>1
  <2> DEFINE r == Recorded(row[c], t, o)
  <2>3. row'[c] = r /\ \A k \in Checks \ {c} : row'[k] = row[k]
    <3>1. row' = [row EXCEPT ![c] = r]
      BY <2>1
    <3> HIDE DEF r
    <3> QED BY <1>2, <3>1
  <2> QED BY <1>1, <1>3, <1>5, <2>2, <2>3
<1> QED BY <1>4, <1>5

LEMMA ApartStep == ASSUME Typed, Apart, [Next]_vars PROVE Apart'
<1> DEFINE Kept == \A d \in Dispatches : task'[d].pc # "none" =>
             task[d].pc # "none" /\ (task'[d].alone => task[d].alone)
<1>0. task \in [Dispatches -> Task]
  BY DEF Typed, TypeOK
<1>1. CASE Kept
  <2> SUFFICES ASSUME NEW c \in Checks
               PROVE  /\ task'[Left(c)].pc # "none" => ~task'[Left(c)].alone
                      /\ task'[Current(c)].pc # "none" /\ task'[Current(c)].alone
                           => task'[Left(c)].pc = "none"
    BY DEF Apart
  <2>1. Current(c) \in Dispatches /\ Left(c) \in Dispatches
    BY DispatchFacts
  <2> QED BY <1>1, <2>1 DEF Apart
<1>2. ASSUME NEW k \in Checks, Backlog(k) PROVE Apart'
  <2>1. /\ \A d \in Dispatches \ {Current(k)} : task'[d] = task[d]
        /\ task' = task \/ Started(k)
    BY <1>2, BacklogStep
  <2>2. CASE task' = task
    BY <1>1, <2>2
  <2>3. CASE Started(k)
    <3> SUFFICES ASSUME NEW c \in Checks
                 PROVE  /\ task'[Left(c)].pc # "none" => ~task'[Left(c)].alone
                        /\ task'[Current(c)].pc # "none" /\ task'[Current(c)].alone
                             => task'[Left(c)].pc = "none"
      BY DEF Apart
    <3>1. task'[Left(c)] = task[Left(c)]
      BY <2>1, DispatchFacts
    <3>2. CASE c = k
      BY <2>3, <3>1, <3>2 DEF Started, Apart
    <3>3. CASE c # k
      <4>1. task'[Current(c)] = task[Current(c)]
        BY <2>1, <3>3, DispatchFacts
      <4> QED BY <3>1, <4>1 DEF Apart
    <3> QED BY <3>2, <3>3
  <2> QED BY <2>1, <2>2, <2>3
<1>3. CASE SweepFails
  <2> SUFFICES ASSUME NEW c \in Checks
               PROVE  /\ task'[Left(c)].pc # "none" => ~task'[Left(c)].alone
                      /\ task'[Current(c)].pc # "none" /\ task'[Current(c)].alone
                           => task'[Left(c)].pc = "none"
    BY DEF Apart
  <2>1. CASE task'[Current(c)] = task[Current(c)] /\ task'[Left(c)] = task[Left(c)]
    BY <2>1 DEF Apart
  <2>2. CASE /\ task'[Current(c)] = NoTask
             /\ task'[Left(c)] = [task[Current(c)] EXCEPT !.alone = FALSE]
    <3>1. task[Current(c)] \in Task
      BY <1>0, DispatchFacts
    <3> QED BY <2>2, <3>1 DEF NoTask, Task
  <2> QED BY <1>3, <2>1, <2>2, FailsStep
<1>4. ASSUME NEW d \in Dispatches, Load(d) PROVE Kept
  BY <1>4, LoadStep
<1>5. ASSUME NEW d \in Dispatches, Run(d) PROVE Kept
  <2>1. task' = [task EXCEPT ![d].pc = "probing"] /\ task[d].pc = "queued"
    BY <1>5 DEF Run, Pool
  <2> QED BY <1>0, <2>1 DEF Task
<1>6. ASSUME NEW d \in Dispatches, Record(d) \/ RecordFails(d) PROVE Kept
  <2>1. task' = [task EXCEPT ![d] = NoTask]
    BY <1>6 DEF Record, RecordFails, Released
  <2> QED BY <1>0, <2>1 DEF NoTask
<1>7. CASE Restart
  BY <1>1, <1>7 DEF Restart, NoTask
<1>8. SweepStart \/ Advance \/ SweepEnd \/ Session \/ Tick \/ UNCHANGED vars => Kept
  BY DEF SweepStart, Advance, SweepEnd, Session, Tick, vars
<1>9. \A k \in Checks : Skip(k) \/ Pause(k) \/ Resume(k) \/ Park(k) \/ Move(k) => Kept
  BY DEF Skip, Pause, Resume, Park, Move
<1> HIDE DEF Kept
<1> QED BY <1>1, <1>2, <1>3, <1>4, <1>5, <1>6, <1>7, <1>8, <1>9 DEF Next, Sweeping, Dispatch

LEMMA NoSecondStep ==
  ASSUME Typed, Turns, Apart, NoSecondProbe, [Next]_vars PROVE NoSecondProbe'
<1> SUFFICES ASSUME NEW d \in Dispatches, task'[d].pc \in {"queued", "probing"}, task'[d].alone
             PROVE  obs'[d[1]][task'[d].slot] = "none"
  BY DEF NoSecondProbe
<1>0. /\ task \in [Dispatches -> Task] /\ d[1] \in Checks
      /\ d = Current(d[1]) \/ d = Left(d[1])
  BY DispatchFacts DEF Typed, TypeOK
<1>1. CASE task'[d] = task[d] /\ obs'[d[1]] = obs[d[1]]
  BY <1>1 DEF NoSecondProbe
<1>2. CASE Restart
  BY <1>2 DEF Restart, NoTask
<1>3. ASSUME NEW k \in Checks, Backlog(k) PROVE obs'[d[1]][task'[d].slot] = "none"
  <2>0. /\ \A e \in Dispatches \ {Current(k)} : task'[e] = task[e]
        /\ \A c \in Checks \ {k} : obs'[c] = obs[c]
        /\ task' = task \/ Started(k)
    BY <1>3, BacklogStep
  <2>1. CASE d[1] # k
    <3>1. d # Current(k)
      BY <2>1, DispatchFacts
    <3> QED BY <1>0, <1>1, <2>0, <2>1, <3>1
  <2>2. CASE d = Left(k)
    <3>1. task'[d] = task[d]
      BY <2>0, <2>2, DispatchFacts
    <3> QED BY <2>2, <3>1 DEF Apart
  <2>3. CASE d = Current(k)
    <3>1. task[d].pc = "none"
      BY <1>3, <2>3 DEF Turns, Backlog, Claimed, Free
    <3> QED BY <2>0, <2>3, <3>1 DEF Started
  <2> QED BY <1>0, <2>1, <2>2, <2>3
<1>4. ASSUME NEW e \in Dispatches, Load(e) PROVE obs'[d[1]][task'[d].slot] = "none"
  <2>1. obs' = obs
    BY <1>4, LoadStep DEF Quiet
  <2>2. CASE d # e
    BY <1>1, <1>4, <2>1, <2>2, LoadStep
  <2>3. CASE d = e
    BY <1>4, <2>1, <2>3, LoadStep DEF Observed
  <2> QED BY <2>2, <2>3
<1>5. ASSUME NEW e \in Dispatches, Run(e) PROVE obs'[d[1]][task'[d].slot] = "none"
  <2>1. obs' = obs /\ task' = [task EXCEPT ![e].pc = "probing"] /\ task[e].pc = "queued"
    BY <1>5 DEF Run, Pool
  <2>2. /\ task'[d].slot = task[d].slot /\ task[d].pc \in {"queued", "probing"}
        /\ task[d].alone
    BY <1>0, <2>1 DEF Task
  <2> QED BY <2>1, <2>2 DEF NoSecondProbe
<1>6. ASSUME NEW e \in Dispatches, Record(e) PROVE obs'[d[1]][task'[d].slot] = "none"
  <2>1. /\ d # e /\ task'[d] = task[d] /\ task[e].pc # "none"
        /\ \A k \in Checks \ {e[1]} : obs'[k] = obs[k]
    BY <1>6, RecordStep
  <2>2. e[1] \in Checks /\ (e = Current(e[1]) \/ e = Left(e[1]))
    BY DispatchFacts
  <2>3. d[1] # e[1]
    BY <1>0, <2>1, <2>2 DEF Apart
  <2> QED BY <1>0, <1>1, <2>1, <2>3
<1>7. ASSUME NEW e \in Dispatches, RecordFails(e) PROVE obs'[d[1]][task'[d].slot] = "none"
  <2>1. obs' = obs /\ task' = [task EXCEPT ![e] = NoTask]
    BY <1>7 DEF RecordFails, Released
  <2>2. d # e
    BY <1>0, <2>1 DEF NoTask
  <2> QED BY <1>0, <1>1, <2>1, <2>2
<1>8. SweepStart \/ Advance \/ SweepEnd \/ Session \/ Tick \/ UNCHANGED vars
        => UNCHANGED <<obs, task>>
  BY DEF SweepStart, Advance, SweepEnd, Session, Tick, vars
<1>9. \A k \in Checks : Skip(k) \/ Pause(k) \/ Resume(k) \/ Park(k) \/ Move(k)
        => UNCHANGED <<obs, task>>
  BY DEF Skip, Pause, Resume, Park, Move
<1>10. CASE SweepFails
  <2> DEFINE c == d[1]
  <2>1. obs' = obs
    BY <1>10 DEF SweepFails
  <2>2. CASE task'[d] = task[d]
    BY <1>1, <2>1, <2>2
  <2>3. CASE task'[d] = NoTask
    BY <2>3 DEF NoTask
  <2>4. CASE task'[d] = [task[Current(c)] EXCEPT !.alone = FALSE]
    <3>1. task[Current(c)] \in Task
      BY <1>0, DispatchFacts
    <3> QED BY <2>4, <3>1 DEF Task
  <2> QED BY <1>0, <1>10, <2>2, <2>3, <2>4, FailsStep
<1> QED BY <1>1, <1>2, <1>3, <1>4, <1>5, <1>6, <1>7, <1>8, <1>9, <1>10 DEF Next, Sweeping, Dispatch
-----------------------------------------------------------------------------
(* No slot is lost.                                                        *)

\* Coverage of a check, in one place.
CoverageOf(c) ==
  row[c].enabled =>
    /\ Covered(c, row[c].next)
    /\ c \in sweep.rows => Covered(c, sweep.next[c])
    /\ sweep.cur = c => Covered(c, sweep.upto + 1)
    /\ \A t \in InFlight(c) : Covered(c, t)

\* No dispatch of c starts and none changes its slot.
LEMMA InFlightKept ==
  ASSUME NEW c \in Checks,
         \A d \in Dispatches : d[1] = c /\ task'[d].pc # "none" =>
           task[d].pc # "none" /\ task'[d].slot = task[d].slot
  PROVE  InFlight(c)' \subseteq InFlight(c)
BY DEF InFlight

LEMMA InFlightTimes ==
  ASSUME Typed, NEW c \in Checks
  PROVE  InFlight(c) \subseteq Time /\ \A t \in InFlight(c) : t <= now
BY DEF InFlight, Typed, TaskOK

\* A failing sweep hands the slot of the current dispatch over with it.
LEMMA InFlightFails ==
  ASSUME Typed, SweepFails, NEW c \in Checks PROVE InFlight(c)' \subseteq InFlight(c)
<1> SUFFICES ASSUME NEW d \in Dispatches, d[1] = c, task'[d].pc # "none"
             PROVE  \E e \in Dispatches : /\ e[1] = c /\ task[e].pc # "none"
                                          /\ task[e].slot = task'[d].slot
  BY DEF InFlight
<1>1. /\ d = Current(c) \/ d = Left(c)
      /\ Current(c) \in Dispatches /\ Current(c)[1] = c /\ task[Current(c)] \in Task
  BY DispatchFacts DEF Typed, TypeOK
<1>2. CASE task'[d] = task[d]
  BY <1>2
<1>3. CASE task'[d] = NoTask
  BY <1>3 DEF NoTask
<1>4. CASE task'[d] = [task[Current(c)] EXCEPT !.alone = FALSE] /\ task[Current(c)].pc # "none"
  <2>1. task[Current(c)].slot = task'[d].slot
    BY <1>1, <1>4 DEF Task
  <2> QED BY <1>1, <1>4, <2>1
<1> QED BY <1>1, <1>2, <1>3, <1>4, FailsStep

\* Observations only come, so what is covered stays so.
LEMMA CoveredKept ==
  ASSUME NEW c \in Checks, NEW b, from'[c] = from[c],
         \A t \in Time : obs[c][t] # "none" => obs'[c][t] # "none", Covered(c, b)
  PROVE  \A t \in Time : from'[c] <= t /\ t < b => obs'[c][t] # "none"
BY DEF Covered

\* Nothing is covered by a step that only forgets.
LEMMA CoverageKept ==
  ASSUME NEW c \in Checks, CoverageOf(c), from'[c] = from[c],
         \A t \in Time : obs[c][t] # "none" => obs'[c][t] # "none",
         row'[c].enabled => row[c].enabled /\ row'[c].next = row[c].next,
         c \in sweep'.rows => c \in sweep.rows /\ sweep'.next[c] = sweep.next[c],
         sweep'.cur = c => sweep.cur = c /\ sweep'.upto = sweep.upto,
         InFlight(c)' \subseteq InFlight(c)
  PROVE  CoverageOf(c)'
BY DEF CoverageOf, Covered

\* The row may also go past a slot up to which, itself included, everything is covered.
LEMMA CoverageAdvanced ==
  ASSUME NEW c \in Checks, Typed, CoverageOf(c), from'[c] = from[c], NEW t \in Time,
         \A u \in Time : obs[c][u] # "none" => obs'[c][u] # "none",
         row'[c].enabled => row[c].enabled /\ row'[c].next = Larger(row[c].next, t + 1),
         row[c].enabled =>
           \A u \in Time : from[c] <= u /\ (u < t \/ u = t) => obs'[c][u] # "none",
         c \in sweep'.rows => c \in sweep.rows /\ sweep'.next[c] = sweep.next[c],
         sweep'.cur = c => sweep.cur = c /\ sweep'.upto = sweep.upto,
         InFlight(c)' \subseteq InFlight(c)
  PROVE  CoverageOf(c)'
<1> SUFFICES ASSUME row'[c].enabled PROVE Covered(c, row[c].next)'
  <2>1. row'[c].enabled => /\ c \in sweep'.rows => Covered(c, sweep.next[c])'
                           /\ sweep'.cur = c => Covered(c, sweep.upto + 1)'
                           /\ \A u \in InFlight(c)' : Covered(c, u)'
    BY DEF CoverageOf, Covered
  <2> QED BY <2>1 DEF CoverageOf
<1>1. row[c].enabled /\ row'[c].next = Larger(row[c].next, t + 1)
  OBVIOUS
<1>2. row[c] \in Row /\ MaxTime \in Nat
  BY SegmentsOfTime DEF Typed, TypeOK
<1>3. SUFFICES ASSUME NEW u \in Time, from[c] <= u, u < row'[c].next PROVE obs'[c][u] # "none"
  BY DEF Covered
<1>4. u < row[c].next \/ u < t \/ u = t
  BY <1>1, <1>2, <1>3 DEF Larger, Time, Row
<1> QED BY <1>1, <1>3, <1>4 DEF CoverageOf, Covered

LEMMA CoverageBacklog ==
  ASSUME Typed, NEW c \in Checks, CoverageOf(c), Backlog(c) PROVE CoverageOf(c)'
<1> SUFFICES ASSUME row'[c].enabled PROVE CoverageOf(c)'
  BY DEF CoverageOf
<1>1. /\ c \in sweep.rows /\ UNCHANGED <<now, from>> /\ Sound(row[c])
      /\ sweep.at \in Nat /\ sweep.next[c] \in Nat
  BY RowsSound, SegmentsOfTime DEF Backlog, Typed, SweepOK, Time
<1>2. /\ row[c].enabled /\ (WritesNothing(c) \/ WritesMissed(c))
      /\ sweep'.rows = sweep.rows \ {c}
      /\ sweep'.cur = None \/ (sweep'.cur = c /\ sweep'.upto \in Missed(c)
                                  /\ \A u \in Missed(c) : u <= sweep'.upto)
      /\ \A d \in Dispatches \ {Current(c)} : task'[d] = task[d]
      /\ task' = task \/ Started(c)
  BY BacklogStep
<1>3. row'[c].next = row[c].next
  <2>1. CASE WritesNothing(c)
    BY <2>1 DEF WritesNothing
  <2>2. CASE WritesMissed(c)
    <3> DEFINE r == [row[c] EXCEPT !.streak = @ + Cardinality(Missed(c))]
    <3>1. Cardinality(Missed(c)) \in Nat
      BY <1>1, MissedFacts
    <3>2. Sound(r) /\ r.next = row[c].next
      BY <1>1, <3>1 DEF Sound, Row
    <3>3. row'[c] = Judged(r)
      BY <2>2 DEF WritesMissed
    <3> HIDE DEF r
    <3> QED BY <3>2, <3>3, JudgedSound
  <2> QED BY <1>2, <2>1, <2>2
<1>4. /\ \A t \in Time : obs[c][t] # "none" => obs'[c][t] # "none"
      /\ \A t \in Missed(c) : obs'[c][t] # "none"
  <2>1. Missed(c) \subseteq Time
    BY <1>1, MissedFacts
  <2>2. CASE WritesNothing(c)
    BY <1>2, <2>2 DEF WritesNothing
  <2>3. CASE WritesMissed(c)
    BY <2>1, <2>3 DEF WritesMissed
  <2> QED BY <1>2, <2>2, <2>3
<1>5. Covered(c, row[c].next) /\ Covered(c, sweep.next[c])
      /\ \A t \in InFlight(c) : Covered(c, t)
  BY <1>1, <1>2 DEF CoverageOf
<1>6. Covered(c, row[c].next)'
  BY <1>1, <1>3, <1>4, <1>5, CoveredKept DEF Covered
<1>7. ASSUME NEW t \in Time, from[c] <= t, t < sweep.at, t \in Pending(c) => t \in Missed(c)
      PROVE  obs'[c][t] # "none"
  <2>1. t < sweep.next[c] \/ t \in sweep.next[c]..sweep.at - 1
    BY <1>1, <1>7, SegmentsOfTime DEF Time
  <2> QED BY <1>4, <1>5, <1>7, <2>1 DEF Covered, Pending
<1>8. sweep'.cur = c => Covered(c, sweep.upto + 1)'
  <2> SUFFICES ASSUME sweep'.cur = c, NEW t \in Time, from[c] <= t, t < sweep'.upto + 1
               PROVE  obs'[c][t] # "none"
    BY <1>1 DEF Covered
  <2>1. /\ sweep'.upto \in Missed(c) /\ sweep'.upto \in Time /\ sweep'.upto < sweep.at
    BY <1>1, <1>2, MissedFacts, NoneAssumption
  <2>2. t <= sweep'.upto /\ t < sweep.at
    BY <1>1, <2>1, SegmentsOfTime DEF Time
  <2>3. t \in Pending(c) => t \in Missed(c)
    BY <1>1, <2>1, <2>2, MissedFacts
  <2> QED BY <1>7, <2>2, <2>3
<1>9. \A t \in InFlight(c)' : Covered(c, t)'
  <2> SUFFICES ASSUME NEW t \in InFlight(c)' PROVE Covered(c, t)'
    OBVIOUS
  <2>1. CASE t \in InFlight(c)
    BY <1>1, <1>4, <1>5, <2>1, CoveredKept DEF Covered
  <2>2. CASE t = sweep.at /\ Missed(c) = Pending(c)
    BY <1>1, <1>7, <2>2 DEF Covered
  <2>3. t \in InFlight(c) \/ (t = sweep.at /\ Missed(c) = Pending(c))
    <3>1. PICK d \in Dispatches : d[1] = c /\ task'[d].pc # "none" /\ t = task'[d].slot
      BY DEF InFlight
    <3>2. CASE task'[d] = task[d]
      BY <3>1, <3>2 DEF InFlight
    <3>3. CASE d = Current(c) /\ Started(c)
      BY <3>1, <3>3 DEF Started
    <3> QED BY <1>2, <3>1, <3>2, <3>3
  <2> QED BY <2>1, <2>2, <2>3
<1> QED BY <1>2, <1>6, <1>8, <1>9 DEF CoverageOf

LEMMA CoverageStep == ASSUME Typed, Coverage, [Next]_vars PROVE Coverage'
<1> SUFFICES ASSUME NEW c \in Checks PROVE CoverageOf(c)'
  BY DEF Coverage, CoverageOf
<1>0. /\ CoverageOf(c) /\ Sound(row[c]) /\ now \in Nat
      /\ UNCHANGED task => InFlight(c)' \subseteq InFlight(c)
      /\ row \in [Checks -> Row] /\ task \in [Dispatches -> Task]
      /\ from \in [Checks -> Time \union {None}]
      /\ obs \in [Checks -> [Time -> Outcomes \union {"none"}]]
  BY RowsSound, SegmentsOfTime, InFlightKept DEF Coverage, CoverageOf, Typed, TypeOK, Time
<1>1. CASE SweepStart
  <2>1. /\ UNCHANGED <<row, obs, task, from>> /\ sweep'.cur = None
        /\ \A k \in sweep'.rows : sweep'.next[k] = row[k].next
    BY <1>1 DEF SweepStart, NoSweep
  <2>2. c # None
    BY NoneAssumption
  <2> QED BY <1>0, <2>1, <2>2 DEF CoverageOf, Covered
<1>2. CASE SweepEnd \/ SweepFails \/ Restart
  <2>1. UNCHANGED <<row, obs, from>> /\ sweep'.rows = {} /\ sweep'.cur = None /\ c # None
    BY <1>2, NoneAssumption DEF SweepEnd, SweepFails, Restart, NoSweep
  <2>2. InFlight(c)' \subseteq InFlight(c)
    <3>1. CASE SweepEnd
      BY <1>0, <3>1 DEF SweepEnd
    <3>2. CASE Restart
      BY <3>2, InFlightKept DEF Restart, NoTask
    <3> QED BY <1>2, <3>1, <3>2, InFlightFails
  <2> QED BY <1>0, <2>1, <2>2, CoverageKept
<1>3. ASSUME NEW k \in Checks, Skip(k) PROVE CoverageOf(c)'
  <2>1. /\ UNCHANGED <<row, obs, task, from>>
        /\ sweep'.rows = sweep.rows \ {k} /\ sweep'.cur = sweep.cur /\ sweep'.upto = sweep.upto
        /\ sweep'.next = [sweep.next EXCEPT ![k] = None]
    BY <1>3 DEF Skip, Typed, SweepOK
  <2>2. c \in sweep'.rows => sweep'.next[c] = sweep.next[c]
    BY <2>1 DEF Typed, SweepOK
  <2> QED BY <1>0, <2>1, <2>2, CoverageKept
<1>4. ASSUME NEW k \in Checks, Backlog(k) PROVE CoverageOf(c)'
  <2>1. CASE c = k
    BY <1>0, <1>4, <2>1, CoverageBacklog
  <2>2. CASE c # k
    <3>1. from' = from
      BY <1>4 DEF Backlog
    <3>2. /\ row'[c] = row[c] /\ obs'[c] = obs[c]
          /\ c \in sweep'.rows => c \in sweep.rows /\ sweep'.next[c] = sweep.next[c]
          /\ sweep'.cur # c
      BY <1>4, <2>2, BacklogStep, NoneAssumption
    <3>3. \A d \in Dispatches : d[1] = c => task'[d] = task[d]
      <4>1. Current(k)[1] = k
        BY DispatchFacts
      <4> QED BY <1>4, <2>2, <4>1, BacklogStep
    <3>4. InFlight(c)' \subseteq InFlight(c)
      BY <3>3, InFlightKept
    <3> QED BY <1>0, <3>1, <3>2, <3>4, CoverageKept
  <2> QED BY <2>1, <2>2
<1>5. CASE Advance
  <2> DEFINE r == NextSlot(row[sweep.cur], sweep.upto)
  <2>1. /\ sweep.cur \in Checks /\ sweep.upto \in Time /\ row' = [row EXCEPT ![sweep.cur] = r]
        /\ UNCHANGED <<obs, from, task>> /\ sweep'.rows = sweep.rows /\ sweep'.next = sweep.next
        /\ sweep'.cur = None
    BY <1>5 DEF Advance, Typed, SweepOK
  <2>2. /\ r.enabled <=> row[sweep.cur].enabled
        /\ r.next = Larger(row[sweep.cur].next, sweep.upto + 1)
    BY <2>1, RowsSound, NextSlotSound
  <2> HIDE DEF r
  <2>3. row'[sweep.cur] = r /\ (c # sweep.cur => row'[c] = row[c]) /\ sweep'.cur # c
    BY <1>0, <2>1, NoneAssumption
  <2>4. CASE c # sweep.cur
    BY <1>0, <2>1, <2>3, <2>4, CoverageKept
  <2>5. CASE c = sweep.cur
    <3>1. row[c].enabled =>
            \A u \in Time : from[c] <= u /\ (u < sweep.upto \/ u = sweep.upto) => obs'[c][u] # "none"
      <4>1. \A u \in Time : u < sweep.upto \/ u = sweep.upto => u < sweep.upto + 1
        BY <2>1, SegmentsOfTime DEF Time
      <4> QED BY <1>0, <2>1, <2>5, <4>1 DEF CoverageOf, Covered
    <3> QED BY <1>0, <2>1, <2>2, <2>3, <2>5, <3>1, CoverageAdvanced
  <2> QED BY <2>4, <2>5
<1>6. ASSUME NEW d \in Dispatches, Load(d) PROVE CoverageOf(c)'
  <2>1. UNCHANGED <<obs, from, sweep>>
    BY <1>6, LoadStep DEF Quiet
  <2>0. InFlight(c)' \subseteq InFlight(c)
    <3>1. \A e \in Dispatches : task'[e].pc # "none" =>
            task[e].pc # "none" /\ task'[e].slot = task[e].slot
      BY <1>6, LoadStep
    <3> QED BY <3>1, InFlightKept
  <2>2. CASE c # d[1]
    BY <1>0, <1>6, <2>0, <2>1, <2>2, LoadStep, CoverageKept
  <2>3. CASE c = d[1]
    <3>1. /\ row'[c].enabled <=> row[c].enabled
          /\ task[d].pc = "load"
          /\ \/ row'[c] = row[c]
             \/ /\ Observed(c, task[d].slot)
                /\ row'[c].next = Larger(row[c].next, task[d].slot + 1)
      BY <1>6, <2>3, LoadStep DEF Quiet
    <3>2. CASE row'[c] = row[c]
      BY <1>0, <2>0, <2>1, <3>1, <3>2, CoverageKept
    <3>3. CASE Observed(c, task[d].slot) /\ row'[c].next = Larger(row[c].next, task[d].slot + 1)
      <4>1. task[d].slot \in Time /\ task[d].slot \in InFlight(c)
        BY <2>3, <3>1 DEF Typed, TaskOK, InFlight
      <4>2. row[c].enabled => Covered(c, task[d].slot)
        BY <1>0, <4>1 DEF CoverageOf
      <4>3. row[c].enabled => \A u \in Time :
              from[c] <= u /\ (u < task[d].slot \/ u = task[d].slot) => obs'[c][u] # "none"
        BY <2>1, <3>3, <4>2 DEF Covered, Observed
      <4> QED BY <1>0, <2>0, <2>1, <3>1, <3>3, <4>1, <4>3, CoverageAdvanced
    <3> QED BY <3>1, <3>2, <3>3
  <2> QED BY <2>2, <2>3
<1>7. ASSUME NEW d \in Dispatches, Run(d) PROVE CoverageOf(c)'
  <2>1. /\ UNCHANGED <<row, obs, sweep, from>>
        /\ task' = [task EXCEPT ![d].pc = "probing"] /\ task[d].pc = "queued"
    BY <1>7 DEF Run, Pool
  <2>2. \A e \in Dispatches : task'[e].slot = task[e].slot /\ (task'[e].pc # "none" => task[e].pc # "none")
    BY <1>0, <2>1 DEF Task
  <2>3. InFlight(c)' \subseteq InFlight(c)
    BY <2>2, InFlightKept
  <2> QED BY <1>0, <2>1, <2>3, CoverageKept
<1>8. ASSUME NEW d \in Dispatches, Record(d) PROVE CoverageOf(c)'
  <2>1. UNCHANGED <<sweep, from>>
    BY <1>8, RecordStep
  <2>0. InFlight(c)' \subseteq InFlight(c)
    <3>1. \A e \in Dispatches : task'[e].pc # "none" => task'[e] = task[e]
      BY <1>8, RecordStep
    <3> QED BY <3>1, InFlightKept
  <2>2. CASE c # d[1]
    BY <1>0, <1>8, <2>0, <2>1, <2>2, RecordStep, CoverageKept
  <2>3. CASE c = d[1]
    <3> DEFINE t == task[d].slot
    <3>1. t \in Time /\ t \in InFlight(c)
      BY <1>8, <2>3, RecordStep DEF Typed, TaskOK, InFlight
    <3>2. CASE row'[c] = row[c] /\ obs'[c] = obs[c]
      BY <1>0, <2>0, <2>1, <3>2, CoverageKept
    <3>3. ASSUME NEW o \in Outcomes, obs'[c] = [obs[c] EXCEPT ![t] = o],
                 row'[c] = Recorded(row[c], t, o)
          PROVE  CoverageOf(c)'
      <4>1. row'[c].enabled => row[c].enabled /\ row'[c].next = Larger(row[c].next, t + 1)
        BY <1>0, <3>1, <3>3, RecordedSound
      <4>2. /\ obs'[c][t] # "none"
            /\ \A u \in Time : obs[c][u] # "none" => obs'[c][u] # "none"
        BY <1>0, <3>1, <3>3 DEF Outcomes
      <4>3. row[c].enabled => \A u \in Time :
              from[c] <= u /\ (u < t \/ u = t) => obs'[c][u] # "none"
        BY <1>0, <3>1, <4>2 DEF CoverageOf, Covered
      <4> QED BY <1>0, <2>0, <2>1, <3>1, <4>1, <4>2, <4>3, CoverageAdvanced
    <3> QED BY <1>8, <2>3, <3>2, <3>3, RecordStep
  <2> QED BY <2>2, <2>3
<1>9. ASSUME NEW d \in Dispatches, RecordFails(d) PROVE CoverageOf(c)'
  <2>1. UNCHANGED <<row, obs, sweep, from>> /\ task' = [task EXCEPT ![d] = NoTask]
    BY <1>9 DEF RecordFails, Released
  <2>2. \A e \in Dispatches : task'[e].pc # "none" => task'[e] = task[e]
    BY <1>0, <2>1 DEF NoTask
  <2>3. InFlight(c)' \subseteq InFlight(c)
    BY <2>2, InFlightKept
  <2> QED BY <1>0, <2>1, <2>3, CoverageKept
<1>10. ASSUME NEW k \in Checks, Pause(k) PROVE CoverageOf(c)'
  <2>1. /\ row' = [row EXCEPT ![k].enabled = FALSE, ![k].next = None]
        /\ from' = [from EXCEPT ![k] = None] /\ UNCHANGED <<obs, sweep, task>>
    BY <1>10 DEF Pause
  <2>2. CASE c = k
    <3>1. ~row'[c].enabled
      BY <1>0, <2>1, <2>2 DEF Row
    <3> QED BY <3>1 DEF CoverageOf
  <2>3. CASE c # k
    <3>1. row'[c] = row[c] /\ from'[c] = from[c]
      BY <1>0, <2>1, <2>3
    <3> QED BY <1>0, <2>1, <3>1, CoverageKept
  <2> QED BY <2>2, <2>3
<1>11. ASSUME NEW k \in Checks, Resume(k) PROVE CoverageOf(c)'
  <2>1. from' = [from EXCEPT ![k] = now] /\ UNCHANGED <<now, obs, sweep, task>>
    BY <1>11 DEF Resume
  <2>2. CASE c = k
    <3>1. row'[c].next = now /\ from'[c] = now
      <4>1. \/ row' = [row EXCEPT ![k] = [enabled |-> TRUE, next |-> now, streak |-> 0, auto |-> FALSE]]
            \/ row' = [row EXCEPT ![k].enabled = TRUE, ![k].next = now]
        BY <1>11 DEF Resume
      <4> QED BY <1>0, <2>1, <2>2, <4>1 DEF Row
    <3>2. /\ c \in sweep.rows => sweep.next[c] \in Nat /\ sweep.next[c] <= now
          /\ sweep.cur = c => sweep.upto + 1 \in Nat /\ sweep.upto + 1 <= now
          /\ \A t \in InFlight(c) : t \in Nat /\ t <= now
      BY <1>0, SegmentsOfTime, NoneAssumption, InFlightTimes DEF Typed, SweepOK, Time
    <3>3. ASSUME NEW b \in Nat, b <= now, NEW t \in Time, from'[c] <= t PROVE ~(t < b)
      BY <1>0, <3>1, <3>3, SegmentsOfTime DEF Time
    <3> QED BY <1>0, <2>1, <3>1, <3>2, <3>3 DEF CoverageOf, Covered
  <2>3. CASE c # k
    <3>1. row'[c] = row[c] /\ from'[c] = from[c]
      BY <1>0, <1>11, <2>1, <2>3 DEF Resume
    <3> QED BY <1>0, <2>1, <3>1, CoverageKept
  <2> QED BY <2>2, <2>3
<1>12. CASE UNCHANGED <<row, obs, sweep, task, from>>
  BY <1>0, <1>12, CoverageKept
<1>13. Session \/ Tick \/ UNCHANGED vars => UNCHANGED <<row, obs, sweep, task, from>>
  BY DEF Session, Tick, vars
<1>14. \A k \in Checks : Park(k) \/ Move(k) => UNCHANGED <<row, obs, sweep, task, from>>
  BY DEF Park, Move
<1> QED BY <1>1, <1>2, <1>3, <1>4, <1>5, <1>6, <1>7, <1>8, <1>9, <1>10, <1>11, <1>12, <1>13, <1>14
        DEF Next, Sweeping, Dispatch
-----------------------------------------------------------------------------
(* The streak.                                                             *)

\* The slots of Trailing.
TailOf(f) == {t \in Time : f[t] \in {"FAILURE", "MISSED"}
                            /\ \A u \in Time : u > t => f[u] # "SUCCESS"}

\* What Steady and StreakIsTrailing say of a check that nobody paused.
Gapless(f) == \A t, u \in Time : t < u /\ f[u] # "none" => f[t] # "none"

Disarmed(c) == \A d \in Dispatches : d[1] = c => Harmless(d)

SteadyOf(c) == from[c] = 0 /\ (~row[c].enabled => Disarmed(c)) /\ Gapless(obs[c])

StreakOf(c) == row[c].streak = Cardinality(TailOf(obs[c])) /\ (row[c].auto <=> Cardinality(TailOf(obs[c])) >= Threshold)

LEMMA TailFinite ==
  ASSUME NEW f PROVE IsFiniteSet(TailOf(f)) /\ Cardinality(TailOf(f)) \in Nat
<1>1. IsFiniteSet(Time) /\ TailOf(f) \in SUBSET Time
  BY SegmentsOfTime, FS_Interval DEF TailOf, Time
<1> QED BY <1>1, FS_Subset, FS_CardinalityType

LEMMA SteadyParts == Steady <=> \A c \in steady : SteadyOf(c)
BY DEF Steady, SteadyOf, Gapless, Disarmed

\* A dispatch that ends or stays as it is, or that is about to be looked at, does not
\* become harmful.
LEMMA DisarmedKept ==
  ASSUME NEW c \in Checks, Disarmed(c),
         \A t \in Time : obs[c][t] # "none" => obs'[c][t] # "none", TaskOK,
         \A d \in Dispatches : d[1] = c =>
           \/ task'[d].pc \in {"none", "load"}
           \/ task[d].pc \notin {"none", "load"} /\ task'[d].slot = task[d].slot
  PROVE  Disarmed(c)'
BY DEF Disarmed, Harmless, TaskOK

LEMMA StreakParts == StreakIsTrailing <=> \A c \in steady : StreakOf(c)
BY DEF StreakIsTrailing, StreakOf, Trailing, TailOf

\* Judging a row that has counted its failures right decides right.
LEMMA JudgedStreak ==
  ASSUME NEW r, Sound(r), r.enabled, NEW n \in Nat, r.streak = n
  PROVE  Judged(r).streak = n /\ (Judged(r).auto <=> n >= Threshold)
BY PolicyAssumption DEF Judged, Sound, Row

\* A slot that follows every observed one: a success ends the streak, anything else
\* makes it longer.
LEMMA StreakRecord ==
  ASSUME NEW f \in [Time -> Outcomes \union {"none"}], NEW t \in Time, f[t] = "none",
         \A u \in Time : u > t => f[u] = "none", NEW o \in Outcomes
  PROVE  /\ Gapless(f) /\ (\A u \in Time : u < t => f[u] # "none") => Gapless([f EXCEPT ![t] = o])
         /\ Cardinality(TailOf([f EXCEPT ![t] = o])) = Streak(Cardinality(TailOf(f)), o)
<1> DEFINE g == [f EXCEPT ![t] = o]
<1>1. /\ g[t] = o /\ \A u \in Time : u # t => g[u] = f[u]
      /\ \A u, v \in Time : u < v \/ u = v \/ u > v
      /\ \A u, v, w \in Time : u < v /\ v < w => u < w
      /\ \A u, v \in Time : u < v => ~(v < u) /\ u # v /\ v > u
      /\ \A u, v \in Time : u > v => v < u
  BY SegmentsOfTime DEF Time
<1> HIDE DEF g
<1>2. Gapless(f) /\ (\A u \in Time : u < t => f[u] # "none") => Gapless(g)
  <2> SUFFICES ASSUME \A u \in Time : u < t => f[u] # "none",
                      NEW x \in Time, NEW u \in Time, x < u, g[u] # "none"
               PROVE  g[x] # "none"
    BY DEF Gapless
  <2>1. u = t \/ u < t
    BY <1>1
  <2>2. x < t
    BY <1>1, <2>1
  <2> QED BY <1>1, <2>2
<1>3. ASSUME o = "SUCCESS" PROVE Cardinality(TailOf(g)) = Streak(Cardinality(TailOf(f)), o)
  <2>1. TailOf(g) = {}
    <3> SUFFICES ASSUME NEW s \in TailOf(g) PROVE FALSE
      OBVIOUS
    <3>1. s \in Time /\ g[s] \in {"FAILURE", "MISSED"} /\ \A u \in Time : u > s => g[u] # "SUCCESS"
      BY DEF TailOf
    <3>2. s # t /\ ~(s < t)
      BY <1>1, <1>3, <3>1
    <3>3. s > t
      BY <1>1, <3>1, <3>2
    <3> QED BY <1>1, <3>1, <3>2, <3>3
  <2> QED BY <1>3, <2>1, FS_EmptySet DEF Streak
<1>4. ASSUME o # "SUCCESS" PROVE Cardinality(TailOf(g)) = Streak(Cardinality(TailOf(f)), o)
  <2>1. o \in {"FAILURE", "MISSED"}
    BY <1>4 DEF Outcomes
  <2>2. TailOf(g) = TailOf(f) \union {t}
    <3>1. ASSUME NEW s \in TailOf(g), s # t PROVE s \in TailOf(f)
      <4>1. s \in Time /\ f[s] \in {"FAILURE", "MISSED"}
        BY <1>1, <3>1 DEF TailOf
      <4>2. ASSUME NEW u \in Time, u > s PROVE f[u] # "SUCCESS"
        BY <1>1, <4>2 DEF TailOf
      <4> QED BY <4>1, <4>2 DEF TailOf
    <3>2. ASSUME NEW s \in TailOf(f) PROVE s \in TailOf(g)
      <4>1. s \in Time /\ g[s] \in {"FAILURE", "MISSED"}
        BY <1>1, <2>1 DEF TailOf
      <4>2. ASSUME NEW u \in Time, u > s PROVE g[u] # "SUCCESS"
        BY <1>1, <1>4, <4>2 DEF TailOf
      <4> QED BY <4>1, <4>2 DEF TailOf
    <3>3. t \in TailOf(g)
      <4>1. ASSUME NEW u \in Time, u > t PROVE g[u] # "SUCCESS"
        BY <1>1, <4>1
      <4> QED BY <1>1, <2>1, <4>1 DEF TailOf
    <3> QED BY <3>1, <3>2, <3>3
  <2>3. t \notin TailOf(f)
    BY DEF TailOf
  <2>4. Cardinality(TailOf(g)) = Cardinality(TailOf(f)) + 1
    BY <2>2, <2>3, TailFinite, FS_AddElement
  <2> QED BY <1>4, <2>4 DEF Streak
<1> QED BY <1>2, <1>3, <1>4 DEF g

\* Unobserved slots that follow every observed one are all added to the streak.
LEMMA StreakMissed ==
  ASSUME NEW f \in [Time -> Outcomes \union {"none"}], NEW M \in SUBSET Time, IsFiniteSet(M),
         \A t \in M : f[t] = "none", Gapless(f),
         \A t \in M, u \in Time : u < t => u \in M \/ f[u] # "none"
  PROVE  LET g == [t \in Time |-> IF t \in M THEN "MISSED" ELSE f[t]]
         IN  Gapless(g) /\ Cardinality(TailOf(g)) = Cardinality(TailOf(f)) + Cardinality(M)
<1> DEFINE g == [t \in Time |-> IF t \in M THEN "MISSED" ELSE f[t]]
<1>1. /\ \A u \in M : g[u] = "MISSED"
      /\ \A u \in Time \ M : g[u] = f[u]
      /\ \A u, v \in Time : u > v <=> v < u
  BY SegmentsOfTime DEF Time
<1> HIDE DEF g
<1>2. Gapless(g)
  <2> SUFFICES ASSUME NEW x \in Time, NEW u \in Time, x < u, g[u] # "none" PROVE g[x] # "none"
    BY DEF Gapless
  <2> QED BY <1>1 DEF Gapless
<1>3. TailOf(g) = TailOf(f) \union M
  <2>1. ASSUME NEW s \in TailOf(g), s \notin M PROVE s \in TailOf(f)
    <3>1. s \in Time /\ f[s] \in {"FAILURE", "MISSED"}
      BY <1>1, <2>1 DEF TailOf
    <3>2. ASSUME NEW u \in Time, u > s PROVE f[u] # "SUCCESS"
      BY <1>1, <3>2 DEF TailOf
    <3> QED BY <3>1, <3>2 DEF TailOf
  <2>2. ASSUME NEW s \in TailOf(f) PROVE s \in TailOf(g)
    <3>1. s \in Time \ M /\ g[s] \in {"FAILURE", "MISSED"}
      BY <1>1 DEF TailOf
    <3>2. ASSUME NEW u \in Time, u > s PROVE g[u] # "SUCCESS"
      BY <1>1, <3>2 DEF TailOf
    <3> QED BY <3>1, <3>2 DEF TailOf
  <2>3. ASSUME NEW s \in M PROVE s \in TailOf(g)
    <3>1. ASSUME NEW u \in Time, u > s PROVE g[u] # "SUCCESS"
      <4>1. u \in M \/ f[u] = "none"
        BY <1>1, <3>1 DEF Gapless
      <4> QED BY <1>1, <4>1
    <3> QED BY <1>1, <3>1 DEF TailOf
  <2> QED BY <2>1, <2>2, <2>3
<1>4. TailOf(f) \cap M = {}
  BY DEF TailOf
<1>5. Cardinality(TailOf(g)) = Cardinality(TailOf(f)) + Cardinality(M)
  <2>1. IsFiniteSet(TailOf(f)) /\ Cardinality(TailOf(f)) \in Nat /\ Cardinality(M) \in Nat
    BY TailFinite, FS_CardinalityType
  <2>2. Cardinality(TailOf(f) \union M)
          = Cardinality(TailOf(f)) + Cardinality(M) - Cardinality(TailOf(f) \cap M)
    BY <2>1, FS_Union
  <2> QED BY <1>3, <1>4, <2>1, <2>2, FS_EmptySet
<1> QED BY <1>2, <1>5 DEF g

\* The turn of a check that nobody paused.
LEMMA SteadyBacklog ==
  ASSUME Typed, Turns, Coverage, NEW c \in Checks, SteadyOf(c), StreakOf(c), Backlog(c)
  PROVE  SteadyOf(c)' /\ StreakOf(c)'
<1>1. /\ c \in sweep.rows /\ from' = from /\ Sound(row[c]) /\ task[Current(c)].pc = "none"
      /\ obs[c] \in [Time -> Outcomes \union {"none"}]
      /\ TaskOK /\ sweep.at \in Nat /\ sweep.next[c] \in Nat
  BY RowsSound, SegmentsOfTime
  DEF Backlog, Turns, Free, Claimed, Typed, TypeOK, SweepOK, Time
<1>2. /\ WritesNothing(c) \/ WritesMissed(c)
      /\ \A d \in Dispatches \ {Current(c)} : task'[d] = task[d]
      /\ task' = task \/ Started(c)
      /\ row[c].enabled /\ ~row'[c].enabled => task' = task
      /\ row'[c].enabled => row[c].enabled
  BY BacklogStep
<1>6. /\ \A t \in Time : obs[c][t] # "none" => obs'[c][t] # "none"
      /\ \A t \in Missed(c) : row[c].enabled => obs'[c][t] # "none"
  <2>1. Missed(c) \subseteq Time
    BY <1>1, MissedFacts
  <2> QED BY <1>2, <2>1 DEF WritesNothing, WritesMissed
<1>3. ~row'[c].enabled => Disarmed(c)'
  <2>1. CASE ~row[c].enabled
    <3>1. Disarmed(c)
      BY <2>1 DEF SteadyOf
    <3>2. \A d \in Dispatches : task'[d] = task[d] \/ task'[d].pc = "load"
      BY <1>2 DEF Started
    <3>3. \A d \in Dispatches : d[1] = c =>
            \/ task'[d].pc \in {"none", "load"}
            \/ task[d].pc \notin {"none", "load"} /\ task'[d].slot = task[d].slot
      BY <3>2
    <3> QED BY <1>1, <1>6, <3>1, <3>3, DisarmedKept
  <2>2. ASSUME row[c].enabled, ~row'[c].enabled, NEW d \in Dispatches, d[1] = c
        PROVE  Harmless(d)'
    <3>1. task' = task /\ WritesMissed(c)
      BY <1>2, <2>2 DEF WritesNothing
    <3>2. SUFFICES ASSUME task[d].pc # "none" PROVE obs'[c][task[d].slot] # "none"
      BY <2>2, <3>1 DEF Harmless
    <3> DEFINE t == task[d].slot
    <3>3. /\ t \in Time /\ t \in Nat /\ Covered(c, t) /\ Covered(c, sweep.next[c]) /\ from[c] = 0
      BY <1>1, <2>2, <3>2, SegmentsOfTime DEF TaskOK, Coverage, InFlight, SteadyOf, Time
    <3>4. CASE obs[c][t] # "none"
      BY <1>6, <3>3, <3>4
    <3>5. CASE obs[c][t] = "none"
      <4>1. PICK m \in Missed(c) : m \in Pending(c)
        BY <1>1, <3>1, MissedFacts DEF WritesMissed
      <4>2. /\ m \in Time /\ obs[c][m] = "none" /\ m \in sweep.next[c]..sweep.at - 1
        BY <1>1, <4>1, MissedFacts DEF Pending
      <4>3. t <= m /\ sweep.next[c] <= t
        BY <1>1, <3>3, <3>5, <4>2, SegmentsOfTime DEF Covered, Time
      <4>4. t \in Pending(c)
        BY <1>1, <3>3, <3>5, <4>2, <4>3 DEF Pending
      <4>5. t \in Missed(c)
        BY <1>1, <4>1, <4>3, <4>4, MissedFacts
      <4> QED BY <1>6, <2>2, <4>5
    <3> QED BY <3>4, <3>5
  <2> QED BY <2>1, <2>2 DEF Disarmed
<1>4. CASE WritesNothing(c)
  BY <1>1, <1>3, <1>4 DEF WritesNothing, SteadyOf, StreakOf, Gapless, TailOf
<1>5. CASE WritesMissed(c)
  <2> DEFINE M == Missed(c)
             r == [row[c] EXCEPT !.streak = @ + Cardinality(M)]
  <2>1. /\ M \in SUBSET Time /\ IsFiniteSet(M) /\ Cardinality(M) \in Nat
        /\ \A t \in M : obs[c][t] = "none" /\ t < sweep.at
        /\ \A t \in Pending(c), u \in M : t <= u => t \in M
    BY <1>1, MissedFacts DEF Pending
  <2>2. ASSUME NEW t \in M, NEW u \in Time, u < t PROVE u \in M \/ obs[c][u] # "none"
    <3>1. Covered(c, sweep.next[c]) /\ from[c] = 0
      BY <1>1, <1>5 DEF WritesMissed, Coverage, SteadyOf
    <3>2. /\ sweep.at \in Nat /\ sweep.next[c] \in Nat /\ t \in Nat /\ u \in Nat
          /\ t < sweep.at
      BY <1>1, <2>1, SegmentsOfTime DEF Typed, SweepOK, Time
    <3>3. CASE u < sweep.next[c]
      BY <3>1, <3>2, <3>3 DEF Covered
    <3>4. CASE ~(u < sweep.next[c])
      <4>1. u \in sweep.next[c]..sweep.at - 1 /\ u <= t
        BY <2>2, <3>2, <3>4
      <4> QED BY <2>1, <4>1 DEF Pending
    <3> QED BY <3>3, <3>4
  <2>3. obs'[c] = [t \in Time |-> IF t \in M THEN "MISSED" ELSE obs[c][t]]
    BY <1>5 DEF WritesMissed
  <2>4. Gapless(obs[c])
    BY DEF SteadyOf
  <2>5. /\ Gapless(obs'[c])
        /\ Cardinality(TailOf(obs'[c])) = Cardinality(TailOf(obs[c])) + Cardinality(M)
    <3> HIDE DEF M
    <3> QED BY <1>1, <2>1, <2>2, <2>3, <2>4, StreakMissed
  <2>6. Cardinality(TailOf(obs'[c])) \in Nat
    BY TailFinite
  <2>7. row'[c] = Judged(r) /\ row[c].enabled
    BY <1>5 DEF WritesMissed
  <2>8. Sound(r) /\ r.enabled /\ r.streak = Cardinality(TailOf(obs'[c]))
    BY <1>1, <2>1, <2>5, <2>7 DEF Sound, Row, StreakOf
  <2> HIDE DEF M, r
  <2>9. /\ row'[c].streak = Cardinality(TailOf(obs'[c]))
        /\ row'[c].auto <=> Cardinality(TailOf(obs'[c])) >= Threshold
    BY <2>6, <2>7, <2>8, JudgedStreak
  <2> QED BY <1>1, <1>3, <2>5, <2>9 DEF SteadyOf, StreakOf, Gapless, TailOf
<1> QED BY <1>2, <1>4, <1>5

\* The end of one of its probes.
LEMMA SteadyRecord ==
  ASSUME Typed, Coverage, NEW d \in Dispatches, SteadyOf(d[1]), StreakOf(d[1]), Record(d)
  PROVE  SteadyOf(d[1])' /\ StreakOf(d[1])'
<1> DEFINE c == d[1]
           t == task[d].slot
<1>1. /\ c \in Checks /\ from' = from /\ Sound(row[c]) /\ task'[d].pc = "none" /\ t \in Time
      /\ task[d].pc \in {"probing", "missed"} /\ TaskOK
      /\ obs[c] \in [Time -> Outcomes \union {"none"}]
      /\ \A e \in Dispatches \ {d} : task'[e] = task[e]
  BY RowsSound, RecordStep, DispatchFacts DEF Typed, TypeOK, TaskOK
<1>2. CASE row'[c] = row[c] /\ obs'[c] = obs[c]
  <2>1. ~row'[c].enabled => Disarmed(c)'
    <3>1. ~row'[c].enabled => Disarmed(c)
      BY <1>2 DEF SteadyOf
    <3>2. \A e \in Dispatches : e[1] = c =>
            \/ task'[e].pc \in {"none", "load"}
            \/ task[e].pc \notin {"none", "load"} /\ task'[e].slot = task[e].slot
      BY <1>1
    <3> QED BY <1>1, <1>2, <3>1, <3>2, DisarmedKept
  <2> QED BY <1>1, <1>2, <2>1 DEF SteadyOf, StreakOf, Gapless, TailOf
<1>3. ASSUME obs[c][t] = "none", NEW o \in Outcomes, obs'[c] = [obs[c] EXCEPT ![t] = o],
             row'[c] = Recorded(row[c], t, o)
      PROVE  SteadyOf(c)' /\ StreakOf(c)'
  <2>1. row[c].enabled
    <3>1. ~Harmless(d)
      BY <1>1, <1>3 DEF Harmless
    <3> QED BY <1>1, <3>1 DEF SteadyOf, Disarmed
  <2>2. \A u \in Time : u < t => obs[c][u] # "none"
    <3>1. t \in InFlight(c)
      BY <1>1 DEF InFlight
    <3>2. Covered(c, t) /\ from[c] = 0
      BY <1>1, <2>1, <3>1 DEF Coverage, SteadyOf
    <3> QED BY <3>2, SegmentsOfTime DEF Covered, Time
  <2>3. \A u \in Time : u > t => obs[c][u] = "none"
    <3>1. \A u \in Time : u > t => t < u
      BY <1>1, SegmentsOfTime DEF Time
    <3> QED BY <1>1, <1>3, <3>1 DEF SteadyOf, Gapless
  <2>4. Gapless(obs[c])
    BY DEF SteadyOf
  <2>5. /\ Gapless(obs'[c])
        /\ Cardinality(TailOf(obs'[c])) = Streak(Cardinality(TailOf(obs[c])), o)
    <3> HIDE DEF t
    <3> QED BY <1>1, <1>3, <2>2, <2>3, <2>4, StreakRecord
  <2>6. Cardinality(TailOf(obs'[c])) \in Nat
    BY TailFinite
  <2> DEFINE q == NextSlot(row[c], t)
             r == [q EXCEPT !.streak = Streak(@, o)]
  <2>7. row'[c] = Judged(r)
    BY <1>3, <2>1 DEF Recorded
  <2>8. Sound(q) /\ (q.enabled <=> row[c].enabled) /\ q.streak = row[c].streak
    BY <1>1, NextSlotSound
  <2>9. r.streak = Cardinality(TailOf(obs'[c]))
    <3> HIDE DEF q
    <3>1. r.streak = Streak(row[c].streak, o)
      BY <2>8 DEF Sound, Row
    <3> HIDE DEF r
    <3> QED BY <2>5, <3>1 DEF StreakOf
  <2>10. Sound(r) /\ r.enabled
    <3> HIDE DEF q
    <3>1. r = [q EXCEPT !.streak = Cardinality(TailOf(obs'[c]))]
      BY <2>8, <2>9 DEF Sound, Row
    <3> QED BY <2>1, <2>6, <2>8, <3>1 DEF Sound, Row
  <2> HIDE DEF r, q
  <2>11. /\ row'[c].streak = Cardinality(TailOf(obs'[c]))
         /\ row'[c].auto <=> Cardinality(TailOf(obs'[c])) >= Threshold
    BY <2>6, <2>7, <2>9, <2>10, JudgedStreak
  <2>12. Disarmed(c)'
    <3> SUFFICES ASSUME NEW e \in Dispatches, e[1] = c, task'[e].pc # "none"
                 PROVE  obs'[c][task'[e].slot] # "none"
      BY DEF Disarmed, Harmless
    <3> DEFINE u == task[e].slot
    <3>1. /\ e # d /\ task'[e] = task[e] /\ u \in Time /\ u \in InFlight(c)
      BY <1>1 DEF TaskOK, InFlight
    <3>2. Covered(c, u) /\ from[c] = 0
      BY <1>1, <2>1, <3>1 DEF Coverage, SteadyOf
    <3>3. ~(t < u)
      BY <1>1, <1>3, <3>2, SegmentsOfTime DEF Covered, Time
    <3>4. u < t \/ u = t
      BY <1>1, <3>1, <3>3, SegmentsOfTime DEF Time
    <3>5. obs'[c][t] # "none" /\ (u # t => obs'[c][u] = obs[c][u])
      BY <1>1, <1>3, <3>1 DEF Outcomes
    <3> QED BY <2>2, <3>1, <3>4, <3>5
  <2> QED BY <1>1, <2>5, <2>11, <2>12 DEF SteadyOf, StreakOf, Gapless, TailOf
<1> QED BY <1>2, <1>3, RecordStep

\* A check whose row's `enabled', observations and dispatches stay as they are.
LEMMA Stays ==
  ASSUME NEW c \in Checks, SteadyOf(c), row'[c].enabled <=> row[c].enabled, obs'[c] = obs[c],
         \A e \in Dispatches : e[1] = c => task'[e] = task[e]
  PROVE  ~row[c].enabled => Disarmed(c)'
BY DEF SteadyOf, Disarmed, Harmless

LEMMA SteadyStep ==
  ASSUME Typed, Turns, Coverage, Steady, StreakIsTrailing, [Next]_vars
  PROVE  Steady' /\ StreakIsTrailing'
<1>0. /\ row \in [Checks -> Row] /\ task \in [Dispatches -> Task] /\ steady \subseteq Checks
      /\ \A c \in Checks : c \in steady => SteadyOf(c) /\ StreakOf(c)
  BY SteadyParts, StreakParts DEF Typed, TypeOK
<1> SUFFICES ASSUME NEW c \in Checks, c \in steady' PROVE SteadyOf(c)' /\ StreakOf(c)'
  <2>1. steady' \subseteq Checks
    BY TypeStep DEF Typed, TypeOK
  <2>2. Steady' <=> \A c \in steady' : SteadyOf(c)'
    BY DEF Steady, SteadyOf, Gapless, Disarmed
  <2>3. StreakIsTrailing' <=> \A c \in steady' : StreakOf(c)'
    BY DEF StreakIsTrailing, StreakOf, Trailing, TailOf
  <2> QED BY <2>1, <2>2, <2>3
<1>1. ASSUME c \in steady, row'[c].enabled <=> row[c].enabled, row'[c].streak = row[c].streak,
             row'[c].auto <=> row[c].auto, from'[c] = from[c], obs'[c] = obs[c],
             ~row[c].enabled => Disarmed(c)'
      PROVE  SteadyOf(c)' /\ StreakOf(c)'
  <2>1. SteadyOf(c)'
    BY <1>0, <1>1 DEF SteadyOf, Gapless
  <2>2. TailOf(obs[c])' = TailOf(obs[c])
    BY <1>1 DEF TailOf
  <2>3. StreakOf(c)'
    BY <1>0, <1>1, <2>2, Zenon DEF StreakOf
  <2> QED BY <2>1, <2>3
<1>2. ASSUME NEW k \in Checks, Backlog(k) PROVE SteadyOf(c)' /\ StreakOf(c)'
  <2>1. steady' = steady /\ from' = from
    BY <1>2 DEF Backlog
  <2>2. CASE c = k
    BY <1>0, <1>2, <2>1, <2>2, SteadyBacklog
  <2>3. CASE c # k
    <3>1. /\ row'[c] = row[c] /\ obs'[c] = obs[c]
          /\ \A e \in Dispatches : e[1] = c => task'[e] = task[e]
      BY <1>2, <2>3, BacklogStep, DispatchFacts
    <3> QED BY <1>0, <1>1, <2>1, <3>1, Stays DEF SteadyOf
  <2> QED BY <2>2, <2>3
<1>3. ASSUME NEW d \in Dispatches, Record(d) PROVE SteadyOf(c)' /\ StreakOf(c)'
  <2>1. steady' = steady /\ from' = from
    BY <1>3, RecordStep
  <2>2. CASE c = d[1]
    BY <1>0, <1>3, <2>1, <2>2, SteadyRecord
  <2>3. CASE c # d[1]
    <3>1. /\ row'[c] = row[c] /\ obs'[c] = obs[c]
          /\ \A e \in Dispatches : e[1] = c => task'[e] = task[e]
      BY <1>3, <2>3, RecordStep
    <3> QED BY <1>0, <1>1, <2>1, <3>1, Stays DEF SteadyOf
  <2> QED BY <2>2, <2>3
<1>4. ASSUME NEW k \in Checks, Pause(k) \/ Resume(k) PROVE SteadyOf(c)' /\ StreakOf(c)'
  <2>1. /\ steady' = steady \ {k} /\ UNCHANGED <<obs, task>>
        /\ \E x : row' = [row EXCEPT ![k] = x]
        /\ \E x : from' = [from EXCEPT ![k] = x]
    <3>1. CASE Pause(k)
      <4>1. row' = [row EXCEPT ![k] = [@ EXCEPT !.enabled = FALSE, !.next = None]]
        BY <1>0, <3>1 DEF Pause
      <4> QED BY <3>1, <4>1 DEF Pause
    <3>2. CASE Resume(k)
      <4>1. \/ row' = [row EXCEPT ![k] = [@ EXCEPT !.enabled = TRUE, !.next = now]]
            \/ row' = [row EXCEPT ![k] = [enabled |-> TRUE, next |-> now, streak |-> 0, auto |-> FALSE]]
        BY <1>0, <3>2 DEF Resume
      <4> QED BY <3>2, <4>1 DEF Resume
    <3> QED BY <1>4, <3>1, <3>2
  <2>2. c # k /\ c \in steady
    BY <2>1
  <2>3. row'[c] = row[c] /\ from'[c] = from[c] /\ obs' = obs /\ task' = task
    BY <1>0, <2>1, <2>2 DEF Typed, TypeOK
  <2> QED BY <1>0, <1>1, <2>2, <2>3, Stays DEF SteadyOf
<1>5. CASE /\ ~\E k \in Checks : Backlog(k) \/ Pause(k) \/ Resume(k)
           /\ ~\E d \in Dispatches : Record(d)
  <2>1. Quiet
    BY <1>5, QuietSteps
  <2>2. c \in steady /\ (~row[c].enabled => Disarmed(c))
    BY <1>0, <2>1 DEF Quiet, SteadyOf
  <2>3. ~row[c].enabled => Disarmed(c)'
    <3> SUFFICES ASSUME ~row[c].enabled PROVE Disarmed(c)'
      OBVIOUS
    <3>0. Disarmed(c) /\ obs' = obs /\ TaskOK
      BY <2>1, <2>2 DEF Quiet, Typed
    <3> DEFINE Kept == \A d \in Dispatches : d[1] = c =>
                 \/ task'[d].pc \in {"none", "load"}
                 \/ task[d].pc \notin {"none", "load"} /\ task'[d].slot = task[d].slot
    <3>1. CASE Kept
      BY <3>0, <3>1, DisarmedKept
    <3>2. CASE Restart
      BY <3>2 DEF Restart, NoTask, Disarmed, Harmless
    <3>3. ASSUME NEW d \in Dispatches, Load(d) PROVE Kept
      <4>1. /\ \A e \in Dispatches \ {d} : task'[e] = task[e]
            /\ task'[d].pc = "none" \/ row[d[1]].enabled
        BY <3>3, LoadStep
      <4> QED BY <4>1
    <3>4. ASSUME NEW d \in Dispatches, Run(d) PROVE Kept
      <4>1. task[d].pc = "queued" /\ task' = [task EXCEPT ![d].pc = "probing"]
        BY <3>4 DEF Run, Pool
      <4> QED BY <1>0, <4>1 DEF Task
    <3>5. ASSUME NEW d \in Dispatches, RecordFails(d) PROVE Kept
      <4>1. task' = [task EXCEPT ![d] = NoTask]
        BY <3>5 DEF RecordFails, Released
      <4> QED BY <1>0, <4>1 DEF NoTask
    <3>6. SweepStart \/ Advance \/ SweepEnd \/ Session \/ Tick \/ UNCHANGED vars => task' = task
      BY DEF SweepStart, Advance, SweepEnd, Session, Tick, vars
    <3>7. \A k \in Checks : Skip(k) \/ Park(k) \/ Move(k) => task' = task
      BY DEF Skip, Park, Move
    <3>8. CASE task' = task
      BY <3>1, <3>8
    <3>9. CASE SweepFails
      <4> SUFFICES ASSUME NEW d \in Dispatches, d[1] = c PROVE Harmless(d)'
        BY DEF Disarmed
      <4>1. /\ d = Current(c) \/ d = Left(c)
            /\ Current(c) \in Dispatches /\ Current(c)[1] = c /\ task[Current(c)] \in Task
        BY <1>0, DispatchFacts
      <4>2. Harmless(d) /\ Harmless(Current(c))
        BY <3>0, <4>1 DEF Disarmed
      <4>3. CASE task'[d] = task[d]
        BY <3>0, <4>2, <4>3 DEF Harmless
      <4>4. CASE task'[d] = NoTask
        BY <4>4 DEF Harmless, NoTask
      <4>5. CASE task'[d] = [task[Current(c)] EXCEPT !.alone = FALSE]
        <5>1. task'[d].pc = task[Current(c)].pc /\ task'[d].slot = task[Current(c)].slot
          BY <4>1, <4>5 DEF Task
        <5> QED BY <3>0, <4>1, <4>2, <5>1 DEF Harmless
      <4> QED BY <3>9, <4>1, <4>3, <4>4, <4>5, FailsStep
    <3> HIDE DEF Kept
    <3> QED BY <1>5, <3>1, <3>2, <3>3, <3>4, <3>5, <3>6, <3>7, <3>8, <3>9
            DEF Next, Sweeping, Dispatch, Disarmed, Harmless
  <2> QED BY <1>1, <2>1, <2>2, <2>3 DEF Quiet
<1> QED BY <1>2, <1>3, <1>4, <1>5
-----------------------------------------------------------------------------
(* The theorems.                                                           *)

LEMMA ProbeInvInit == Init => ProbeInv
<1> SUFFICES ASSUME Init PROVE ProbeInv
  OBVIOUS
<1>1. Typed
  BY TypeInit
<1>2. /\ \A c \in Checks : /\ row[c] = [enabled |-> TRUE, next |-> 0, streak |-> 0, auto |-> FALSE]
                           /\ obs[c] = [t \in Time |-> "none"] /\ from[c] = 0
      /\ \A d \in Dispatches : task[d].pc = "none"
      /\ sweep.rows = {} /\ sweep.cur = None /\ steady = Checks
      /\ \A t \in Time : ~(t < 0)
  BY SegmentsOfTime DEF Init, NoSweep, NoTask, Time
<1>3. Turns /\ NoSecondProbe /\ Apart
  BY <1>2, DispatchFacts DEF Turns, Free, NoSecondProbe, Apart
<1>4. Coverage
  BY <1>2, NoneAssumption DEF Coverage, Covered, InFlight
<1>5. Steady
  BY <1>2 DEF Steady, Harmless
<1>6. StreakIsTrailing
  <2> SUFFICES ASSUME NEW c \in steady PROVE StreakOf(c)
    BY StreakParts
  <2>1. TailOf(obs[c]) = {}
    BY <1>2 DEF TailOf
  <2> QED BY <1>2, <2>1, FS_EmptySet, PolicyAssumption DEF StreakOf
<1> QED BY <1>1, <1>3, <1>4, <1>5, <1>6 DEF ProbeInv

LEMMA ProbeInvStep == ProbeInv /\ [Next]_vars => ProbeInv'
BY TypeStep, TurnsStep, ApartStep, NoSecondStep, CoverageStep, SteadyStep DEF ProbeInv

\* No probe runs for a slot that has its observation, after restarts, failed writes and
\* changes of vantage as well, unless a failed sweep left it in flight or it was started
\* beside such a probe.
THEOREM NoSecondProbeHolds == Spec => []NoSecondProbe
<1>1. ProbeInv => NoSecondProbe
  BY DEF ProbeInv
<1> QED BY ProbeInvInit, ProbeInvStep, <1>1, PTL DEF Spec

\* No slot is lost silently: every slot the schedule has passed since the check was enabled
\* has an observation, whatever the length of the backlog and the size of the pool.
THEOREM NoSlotLostHolds == Spec => []NoSlotLost
<1>1. ProbeInv => NoSlotLost
  BY DEF ProbeInv, Coverage, Covered, NoSlotLost
<1> QED BY ProbeInvInit, ProbeInvStep, <1>1, PTL DEF Spec

\* The streak of a check that nobody paused is the number of slots since its last success,
\* and it has been disabled exactly when that number has reached the threshold.
THEOREM StreakIsTrailingHolds == Spec => []StreakIsTrailing
<1>1. ProbeInv => StreakIsTrailing
  BY DEF ProbeInv
<1> QED BY ProbeInvInit, ProbeInvStep, <1>1, PTL DEF Spec
=============================================================================
