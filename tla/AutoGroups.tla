----------------------------- MODULE AutoGroups -----------------------------
(***************************************************************************)
(* The automatic component groups of importer sources                      *)
(* (source-group-service.ts) on top of SourceMemberships: the pass that    *)
(* follows a completed run, a retirement or a reactivation, gives every    *)
(* enabled source the components it alone reports, and leaves the groups   *)
(* of humans alone, who go on assigning components while it runs.          *)
(*                                                                         *)
(* The group of a source is named by the source.  A pass reads in one step *)
(* and writes in another; it holds every source row in between.            *)
(***************************************************************************)
EXTENDS SourceMemberships

CONSTANTS Capable, MaxToggles    \* the sources whose importer declares auto groups;
                                 \* bound: opt-outs and opt-ins

ASSUME CapableAssumption == Capable \subseteq Sources /\ MaxToggles \in Nat
ASSUME GroupsAssumption == {"none", "human"} \intersect Sources = {}

VARIABLES
  group,     \* the group of every component: "none", "human" or a source
  linked,    \* the sources with a group, and whether that group is ACTIVE
  optout,    \* the configurations with autoGroup: false
  toggles,
  due,       \* a trigger waits for its pass
  plan       \* the open pass; "had": who had a membership when it read (history)

groupVars == <<group, linked, optout, toggles, due, plan>>
everyVar == <<vars, groupVars>>

NoPass ==
  [on |-> FALSE, evict |-> {}, assign |-> {}, full |-> {}, kept |-> {}, had |-> NoOne]

GroupInit ==
  /\ Init
  /\ group = [k \in Components |-> "none"]
  /\ linked = [s \in Sources |-> "none"]
  /\ optout = {} /\ toggles = 0 /\ due = FALSE
  /\ plan = NoPass

GroupTypeOK ==
  /\ TypeOK
  /\ group \in [Components -> {"none", "human"} \union Sources]
  /\ linked \in [Sources -> {"none", "ACTIVE", "RETIRED"}]
  /\ optout \subseteq Configs /\ toggles \in 0..MaxToggles /\ due \in BOOLEAN
  /\ \A k \in Components : group[k] \in Sources => linked[group[k]] # "none"
-----------------------------------------------------------------------------
\* Seeded bug: a reporter that cannot hold a group does not count.
SoleMutant(s, k) ==
  {t \in Capable : Counts(t) /\ member[t][k].active} = {s}

\* reduceSoleReporters: a reporter that cannot hold a group counts as well.
Sole(s, k) == {t \in Sources : Counts(t) /\ member[t][k].active} = {s}

Enabled(s) ==
  s \in Capable /\ source[s].bound # None /\ source[s].bound \notin optout
Full == {s \in Capable : Enabled(s) /\ Counts(s)}
Cleanup == {s \in Capable : Enabled(s) /\ source[s].status = "RETIRED" /\ linked[s] # "none"}

\* loadSourcePlans and phases 1 and 2: what to evict and what to assign.
PassRead ==
  /\ due /\ ~plan.on /\ Room
  /\ ~\E s \in Sources : RowLocked(s)
  /\ Open("retire") \union Open("delete") = {}
  /\ LET kept == Full \union Cleanup
         eligible == {p \in Components \X Full : Sole(p[2], p[1])}
         evict == {p \in (Components \X kept) \ eligible : group[p[1]] = p[2]}
     IN plan' = [on |-> TRUE, full |-> Full, kept |-> kept, evict |-> evict,
                 had |-> [k \in Components |-> {s \in Sources : member[s][k].active}],
                 assign |-> {p \in eligible :
                   group[p[1]] = "none" \/ <<p[1], group[p[1]]>> \in evict}]
  /\ due' = FALSE
  /\ UNCHANGED <<vars, group, linked, optout, toggles>>

\* Seeded bug: the assignment does not look whether the component is still free.
AssignedMutant(g, k) ==
  IF \E s \in Sources : <<k, s>> \in plan.assign
  THEN CHOOSE s \in Sources : <<k, s>> \in plan.assign ELSE g
Assigned(g, k) ==
  IF g = "none" /\ \E s \in Sources : <<k, s>> \in plan.assign
  THEN CHOOSE s \in Sources : <<k, s>> \in plan.assign ELSE g
Evicted(k) == IF <<k, group[k]>> \in plan.evict THEN "none" ELSE group[k]

Derived(after, s) ==
  IF \E k \in Components : after[k] = s /\ life[k] = "ACTIVE" THEN "ACTIVE" ELSE "RETIRED"

\* Phases 3 and 4: guarded evictions and assignments, the derived lifecycles.
PassCommit ==
  /\ plan.on
  /\ group' = [k \in Components |-> Assigned(Evicted(k), k)]
  /\ linked' = [s \in Sources |-> IF s \in plan.kept THEN Derived(group', s) ELSE linked[s]]
  /\ plan' = NoPass
  /\ UNCHANGED <<vars, optout, toggles, due>>

\* A failed pass is logged; the operation it belongs to does not fail.
PassFails ==
  /\ plan.on /\ plan' = NoPass
  /\ UNCHANGED <<vars, group, linked, optout, toggles, due>>

\* updateComponent: any group that exists, or none.
AssignGroup(k) ==
  /\ \E g \in {"none", "human"} \union {s \in Sources : linked[s] # "none"} :
       group[k] # g /\ group' = [group EXCEPT ![k] = g]
  /\ UNCHANGED <<vars, linked, optout, toggles, due, plan>>

\* The scope of a configuration is edited.
ToggleOptOut(c) ==
  /\ c \in configs /\ toggles < MaxToggles /\ toggles' = toggles + 1
  /\ optout' = IF c \in optout THEN optout \ {c} ELSE optout \union {c}
  /\ UNCHANGED <<vars, group, linked, due, plan>>
-----------------------------------------------------------------------------
Trigger(A) == A /\ due' = TRUE /\ UNCHANGED <<group, linked, optout, toggles, plan>>
Quiet(A) == A /\ UNCHANGED groupVars

\* An open pass has the source rows: whoever needs one of them waits.
PassFree == ~plan.on

\* What it does not lock goes on beside it, within the bound.
Beside == PassFree \/ MaxOpen > 1

Reporting(r) ==
  \/ Quiet(Start(r) \/ Fail(r) \/ RegisterCommit(r))
  \/ PassFree /\ Quiet(RegisterRead(r))
  \/ Beside /\ Quiet(ReconcileRead(r))
  \/ Trigger(ReconcileCommit(r))
  \/ \E k \in Components :
       /\ run[r].pc = "reporting" /\ Beside
       /\ member[run[r].src][k].seen = None => PassFree
       /\ Quiet(Asset(r, k))

Operating(s) ==
  \/ PassFree /\ Quiet(RetireRead(s))
  \/ Trigger(RetireCommit(s)) \/ (PassFree /\ Trigger(Reactivate(s)))

GroupNext ==
  \/ \E r \in Runs : Reporting(r)
  \/ \E s \in Sources : Operating(s)
  \/ \E c \in Configs : (PassFree /\ Quiet(ConfigStep(c))) \/ ToggleOptOut(c)
  \/ PassRead \/ PassCommit \/ PassFails
  \/ \E k \in Components : AssignGroup(k)

GroupSpec == GroupInit /\ [][GroupNext]_everyVar
-----------------------------------------------------------------------------
(* Properties.                                                             *)

\* A pass never takes a component out of the group a human put it in, also when
\* the human did so between the reads and the writes of the pass.
HumanGroupsKept ==
  [][plan.on /\ ~plan'.on => \A k \in Components : group[k] = "human" => group'[k] = "human"]_everyVar

\* A pass puts into the group of a source only what that source alone reports: it
\* counts as a reporter still, and any other that does at the commit has got its
\* membership since the pass read.
GroupsFollowReporters ==
  [][plan.on /\ ~plan'.on =>
       \A k \in Components : group'[k] # group[k] /\ group'[k] \in Sources =>
         /\ Counts(group'[k]) /\ group'[k] \in plan.had[k]
         /\ \A s \in Sources : Counts(s) /\ member[s][k].active =>
              s = group'[k] \/ s \notin plan.had[k]]_everyVar
=============================================================================
