-------------------------- MODULE SourceMemberships --------------------------
(***************************************************************************)
(* Importer sources and what they report: registration and rebinding of a  *)
(* source by the identity a run reports, the memberships a run refreshes   *)
(* asset by asset, the reconciliation of a completed run, and the          *)
(* retirement, reactivation and unmonitoring of a source                   *)
(* (importer-source-service.ts, import-run-service.ts).                    *)
(*                                                                         *)
(* The database runs at READ COMMITTED: a transaction that decides on what *)
(* it read and then writes is two steps, its reads and its commit, with    *)
(* the row locks it holds in between; one that writes what it was given is *)
(* one step.  A component has one instance.                                *)
(***************************************************************************)
EXTENDS Naturals, FiniteSets

CONSTANTS
  Sources,      \* the provider identities a run can report
  Configs, Components, Runs,
  None,
  MaxRunning,   \* the runs at the same time
  MaxOpen       \* bound: transactions open at the same time

ASSUME NoneAssumption == None \notin Sources \union Configs \union Runs
ASSUME BoundsAssumption == MaxRunning \in Nat /\ MaxOpen \in Nat

VARIABLES
  configs,   \* the configurations that exist
  source,    \* importer_sources
  life,      \* the lifecycle of the components
  inst,      \* the status of their instances
  member,    \* source_component_memberships
  imember,   \* source_instance_memberships
  run,       \* the runs
  tx         \* the open transactions: what they read and mean to write; "saw",
             \* "isaw": who reported what when they read it (history)

catalogVars == <<life, inst, member, imember>>
vars == <<configs, source, catalogVars, run, tx>>

NoMember == [active |-> FALSE, seen |-> None]
Member == [active : BOOLEAN, seen : Runs \union {None}]

SourceRow == [status : {"none", "ACTIVE", "UNMONITORED", "RETIRED"},
              bound : Configs \union {None}]

\* "solo": no other run of the same source overlapped with this one (history).
Run == [pc : {"idle", "started", "reporting", "over"}, cfg : Configs \union {None},
        src : Sources \union {None}, yielded : SUBSET Components, solo : BOOLEAN]

\* Nothing looks at a run that is over.
NoRun(pc) == [pc |-> pc, cfg |-> None, src |-> None, yielded |-> {}, solo |-> FALSE]

Actors == Runs \union Sources \union Configs
Kinds == {"none", "register", "reconcile", "retire", "delete"}
NoOne == [k \in Components |-> {}]
NoPlan ==
  [kind |-> "none", src |-> None, bound |-> None, rebind |-> FALSE,
   flip |-> {}, unbind |-> {}, stale |-> {}, istale |-> {}, comps |-> {}, insts |-> {},
   saw |-> NoOne, isaw |-> NoOne]
Plan ==
  [kind : Kinds, src : Sources \union {None}, bound : Configs \union {None}, rebind : BOOLEAN,
   flip : SUBSET Sources, unbind : SUBSET Sources, stale : SUBSET Components,
   istale : SUBSET Components, comps : SUBSET Components, insts : SUBSET Components,
   saw : [Components -> SUBSET Sources], isaw : [Components -> SUBSET Sources]]

Init ==
  /\ configs = Configs
  /\ source = [s \in Sources |-> [status |-> "none", bound |-> None]]
  /\ life = [k \in Components |-> "none"]
  /\ inst = [k \in Components |-> "none"]
  /\ member = [s \in Sources |-> [k \in Components |-> NoMember]]
  /\ imember = member
  /\ run = [r \in Runs |-> NoRun("idle")]
  /\ tx = [a \in Actors |-> NoPlan]

Opens == {a \in Actors : tx[a].kind # "none"}
Room == Cardinality(Opens) < MaxOpen
Open(kind) == {a \in Actors : tx[a].kind = kind}

\* The source rows an open registration, retirement or deletion has updated, and
\* the open reconciliation that has deactivated a membership: row locks.
RowLocked(s) ==
  \/ \E a \in Open("register") \union Open("retire") : tx[a].src = s
  \/ \E a \in Open("delete") : s \in tx[a].flip
MemberLocked(s, k) ==
  \E a \in Open("reconcile") : tx[a].src = s /\ k \in tx[a].stale \union tx[a].istale

Begin(a, plan) == Room /\ tx[a].kind = "none" /\ tx' = [tx EXCEPT ![a] = plan]
Commit(a) == tx' = [tx EXCEPT ![a] = NoPlan]
-----------------------------------------------------------------------------
(* The effective-active union.                                             *)

Counts(s) == source[s].status \in {"ACTIVE", "UNMONITORED"}

\* hasEffectiveActive...Membership, with the transaction's own source aside when
\* its memberships are the ones just deactivated.
ReportedBy(S, k) == \E s \in S : Counts(s) /\ member[s][k].active
IReportedBy(S, k) == \E s \in S : Counts(s) /\ imember[s][k].active

\* Seeded bug: the memberships that the transaction deactivates still count.
UnreportedMutant(s, K) == {k \in K : ~ReportedBy(Sources, k)}
\* Of the components a source stops reporting, those nobody else reports.
Unreported(s, K) == {k \in K : ~ReportedBy(Sources \ {s}, k)}
\* Seeded bug: orphaning looks at the source at hand only.
IUnreportedMutant(s, K) == K
IUnreported(s, K) == {k \in K : ~IReportedBy(Sources \ {s}, k)}

Active(m, s) == {k \in Components : m[s][k].active}
Reporters(m) == [k \in Components |-> {s \in Sources : Counts(s) /\ m[s][k].active}]

\* Seeded bug: memberships the run refreshed go stale as well, if another run of
\* the source had seen the component first.
StaleMutant(m, s, r) == {k \in Active(m, s) : m[s][k].seen # r \/ k \in run[r].yielded}
Stale(m, s, r) == {k \in Active(m, s) : m[s][k].seen # r}

\* The components of a plan retire and take their instance with them.
Retired(K) == {k \in K : life[k] = "ACTIVE"}
LifeAfter(K) == [k \in Components |-> IF k \in Retired(K) THEN "RETIRED" ELSE life[k]]
InstAfter(K, I) ==
  [k \in Components |->
    IF (k \in Retired(K) \/ k \in I) /\ inst[k] # "none" THEN "GONE" ELSE inst[k]]
-----------------------------------------------------------------------------
(* The runs.                                                               *)

Start(r) ==
  /\ run[r].pc = "idle"
  /\ Cardinality({q \in Runs : run[q].pc \in {"started", "reporting"}}) < MaxRunning
  /\ \E c \in configs : run' = [run EXCEPT ![r].pc = "started", ![r].cfg = c]
  /\ UNCHANGED <<configs, source, catalogVars, tx>>

\* registerOrMatchSource: the configuration it was started for may be gone.
RegisterRead(r) ==
  /\ run[r].pc = "started"
  /\ \E s \in Sources :
       LET c == IF run[r].cfg \in configs THEN run[r].cfg ELSE None
           others == {t \in Sources \ {s} : c # None /\ source[t].bound = c}
       IN /\ ~RowLocked(s)
          /\ Begin(r, [NoPlan EXCEPT
               !.kind = "register", !.src = s, !.bound = c, !.rebind = source[s].bound # c,
               !.flip = {t \in others : source[t].status # "RETIRED"},
               !.unbind = others])
  /\ UNCHANGED <<configs, source, catalogVars, run>>

Unbound(plan, src) ==
  [t \in Sources |->
    IF t \notin plan.unbind THEN src[t]
    ELSE [bound |-> None, status |-> IF t \in plan.flip THEN "UNMONITORED" ELSE src[t].status]]

\* The runs of source s that r overlaps with.
Companions(r, s) == {q \in Runs \ {r} : run[q].pc = "reporting" /\ run[q].src = s}

RegisterCommit(r) ==
  /\ tx[r].kind = "register"
  /\ LET plan == tx[r]
         s == plan.src
         bound == IF plan.rebind THEN plan.bound ELSE source[s].bound
         status == IF plan.bound = None THEN "UNMONITORED" ELSE "ACTIVE"
         with == Companions(r, s)
     IN /\ source' = Unbound(plan, [source EXCEPT ![s] = [status |-> status, bound |-> bound]])
        /\ run' = [q \in Runs |->
             IF q = r THEN [run[r] EXCEPT !.pc = "reporting", !.src = s, !.solo = with = {}]
             ELSE IF q \in with THEN [run[q] EXCEPT !.solo = FALSE] ELSE run[q]]
  /\ Commit(r)
  /\ UNCHANGED <<configs, catalogVars>>

Seen(r) == [active |-> TRUE, seen |-> r]

\* processAsset of a component, with its instance or without: the component is
\* ACTIVE again, the memberships are refreshed, an instance whose observed check
\* owns its status keeps it, GONE too, and one that this source reported in an
\* earlier run and does not any more may be GONE.
Asset(r, k) ==
  /\ run[r].pc = "reporting" /\ tx[r].kind = "none" /\ Room
  /\ LET s == run[r].src IN
     /\ ~MemberLocked(s, k)
     /\ life' = [life EXCEPT ![k] = "ACTIVE"]
     /\ member' = [member EXCEPT ![s][k] = Seen(r)]
     /\ \/ /\ inst' = [inst EXCEPT ![k] = "up"] \/ (inst[k] # "none" /\ inst' = inst)
           /\ imember' = [imember EXCEPT ![s][k] = Seen(r)]
        \/ LET dropped == {k} \intersect Stale(imember, s, r) IN
           /\ imember' = [imember EXCEPT ![s][k].active = @ /\ k \notin dropped]
           /\ inst' = InstAfter({}, IUnreported(s, dropped))
  /\ run' = [run EXCEPT ![r].yielded = @ \union {k}]
  /\ UNCHANGED <<configs, source, tx>>

\* reconcileRetiredComponents of a run that came to its end.
ReconcileRead(r) ==
  /\ run[r].pc = "reporting"
  /\ LET s == run[r].src
         stale == Stale(member, s, r)
         istale == Stale(imember, s, r)
     IN /\ \A k \in stale \union istale : ~MemberLocked(s, k)
        /\ Begin(r, [NoPlan EXCEPT
             !.kind = "reconcile", !.src = s, !.stale = stale, !.istale = istale,
             !.comps = Unreported(s, stale), !.insts = IUnreported(s, istale),
             !.saw = Reporters(member), !.isaw = Reporters(imember)])
  /\ UNCHANGED <<configs, source, catalogVars, run>>

Deactivate(m, s, K) ==
  [m EXCEPT ![s] = [k \in Components |-> [m[s][k] EXCEPT !.active = @ /\ k \notin K]]]

ReconcileCommit(r) ==
  /\ tx[r].kind = "reconcile"
  /\ LET plan == tx[r] IN
     /\ member' = Deactivate(member, plan.src, plan.stale)
     /\ imember' = Deactivate(imember, plan.src, plan.istale)
     /\ life' = LifeAfter(plan.comps)
     /\ inst' = InstAfter(plan.comps, plan.insts)
  /\ run' = [run EXCEPT ![r] = NoRun("over")]
  /\ Commit(r)
  /\ UNCHANGED <<configs, source>>

\* The run fails, is cancelled or loses its agent: nothing is reconciled.
Fail(r) ==
  /\ run[r].pc \in {"started", "reporting"} /\ tx[r].kind = "none"
  /\ run' = [run EXCEPT ![r] = NoRun("over")]
  /\ UNCHANGED <<configs, source, catalogVars, tx>>
-----------------------------------------------------------------------------
(* The operator.                                                           *)

RetireRead(s) ==
  /\ source[s].status \in {"ACTIVE", "UNMONITORED"} /\ ~RowLocked(s)
  /\ Begin(s, [NoPlan EXCEPT
       !.kind = "retire", !.src = s,
       !.comps = Unreported(s, Active(member, s)),
       !.insts = IUnreported(s, Active(imember, s)),
       !.saw = Reporters(member), !.isaw = Reporters(imember)])
  /\ UNCHANGED <<configs, source, catalogVars, run>>

RetireCommit(s) ==
  /\ tx[s].kind = "retire"
  /\ source' = [source EXCEPT ![s].status = "RETIRED"]
  /\ life' = LifeAfter(tx[s].comps)
  /\ inst' = InstAfter(tx[s].comps, tx[s].insts)
  /\ Commit(s)
  /\ UNCHANGED <<configs, member, imember, run>>

\* The memberships count again; the components wait for the next report.
Reactivate(s) ==
  /\ source[s].status = "RETIRED" /\ Room /\ ~RowLocked(s)
  /\ source' = [source EXCEPT ![s].status =
       IF source[s].bound = None THEN "UNMONITORED" ELSE "ACTIVE"]
  /\ UNCHANGED <<configs, catalogVars, run, tx>>

\* deleteImporterConfig: the sources it unmonitors, then the row and, by the
\* foreign key, every binding to it.
DeleteRead(c) ==
  /\ c \in configs
  /\ \A s \in Sources : source[s].bound = c => ~RowLocked(s)
  /\ Begin(c, [NoPlan EXCEPT
       !.kind = "delete", !.bound = c,
       !.flip = {s \in Sources : source[s].bound = c /\ source[s].status # "RETIRED"}])
  /\ UNCHANGED <<configs, source, catalogVars, run>>

DeleteCommit(c) ==
  /\ tx[c].kind = "delete"
  /\ ~\E a \in Open("register") : tx[a].rebind /\ tx[a].bound = c
  /\ configs' = configs \ {c}
  /\ source' = [s \in Sources |->
       [status |-> IF s \in tx[c].flip THEN "UNMONITORED" ELSE source[s].status,
        bound |-> IF source[s].bound = c THEN None ELSE source[s].bound]]
  /\ Commit(c)
  /\ UNCHANGED <<catalogVars, run>>
-----------------------------------------------------------------------------
RunStep(r) ==
  \/ Start(r) \/ RegisterRead(r) \/ RegisterCommit(r) \/ Fail(r)
  \/ ReconcileRead(r) \/ ReconcileCommit(r)
  \/ \E k \in Components : Asset(r, k)
SourceStep(s) == RetireRead(s) \/ RetireCommit(s) \/ Reactivate(s)
ConfigStep(c) == DeleteRead(c) \/ DeleteCommit(c)

Next ==
  \/ \E r \in Runs : RunStep(r)
  \/ \E s \in Sources : SourceStep(s)
  \/ \E c \in Configs : ConfigStep(c)

Spec == Init /\ [][Next]_vars
-----------------------------------------------------------------------------
(* Properties.                                                             *)

TypeOK ==
  /\ configs \subseteq Configs
  /\ source \in [Sources -> SourceRow]
  /\ life \in [Components -> {"none", "ACTIVE", "RETIRED"}]
  /\ inst \in [Components -> {"none", "up", "GONE"}]
  /\ member \in [Sources -> [Components -> Member]]
  /\ imember \in [Sources -> [Components -> Member]]
  /\ run \in [Runs -> Run]
  /\ tx \in [Actors -> Plan]
  /\ \A s \in Sources, k \in Components :
       /\ member[s][k].seen # None => source[s].status # "none"
       /\ imember[s][k].active => member[s][k].active

\* ADR-119: the status of a source that is not retired follows its binding, the
\* binding is to a configuration that exists, and a configuration reports exactly
\* one source.
StatusFollowsBinding ==
  \A s \in Sources :
    /\ source[s].bound \in configs \union {None}
    /\ source[s].status = "ACTIVE" => source[s].bound # None
    /\ source[s].status = "UNMONITORED" => source[s].bound = None

OneSourcePerConfig ==
  \A s, t \in Sources : source[s].bound = source[t].bound /\ source[s].bound # None => s = t

\* The step in which a transaction commits.
Closes(a) == tx[a].kind # "none" /\ tx'[a].kind = "none"

\* FR-007 of spec 044, as far as READ COMMITTED carries it: a component, or an
\* instance, is not retired over a source that reports it afterwards, unless that
\* source did not report it yet when the retiring transaction read the others.
NoReporterOverruled ==
  [][\A k \in Components, s \in Sources :
       /\ life[k] = "ACTIVE" /\ life'[k] = "RETIRED" /\ ReportedBy({s}, k)' =>
            \E a \in Actors : Closes(a) /\ s \notin tx[a].saw[k]
       /\ inst[k] = "up" /\ inst'[k] = "GONE" /\ IReportedBy({s}, k)' =>
            \E a \in Actors : Closes(a) /\ s \notin tx[a].isaw[k]]_vars

\* What a source stops reporting is retired or reported by another afterwards,
\* also when only the instance was dropped; it is left an orphan only by a
\* transaction that had seen another source report it.
OnlySharedIsOrphaned ==
  [][\A s \in Sources, k \in Components :
       /\ member[s][k].active /\ ~member'[s][k].active =>
            \/ life'[k] = "RETIRED" \/ ReportedBy(Sources, k)'
            \/ \E a \in Actors : Closes(a) /\ tx[a].saw[k] \ {s} # {}
       /\ imember[s][k].active /\ ~imember'[s][k].active =>
            \/ inst'[k] = "GONE" \/ IReportedBy(Sources, k)'
            \/ \E a \in Actors : Closes(a) /\ tx[a].isaw[k] \ {s} # {}]_vars

\* FR-007 of spec 044 to the letter: a shared component, or instance, stays while
\* any source reports it.
SharedStaysActive ==
  [][\A k \in Components :
       /\ life[k] = "ACTIVE" /\ life'[k] = "RETIRED" => ~ReportedBy(Sources, k)'
       /\ inst[k] = "up" /\ inst'[k] = "GONE" => ~IReportedBy(Sources, k)']_vars

\* ... and what nobody reports any more is retired.
NothingOrphaned ==
  [][\A s \in Sources, k \in Components :
       member[s][k].active /\ ~member'[s][k].active =>
         life'[k] = "RETIRED" \/ ReportedBy(Sources, k)']_vars

\* A run that no other run of its source overlapped leaves exactly what it
\* yielded as its source's components.
SoloRunIsExact ==
  [][\A r \in Runs :
       run[r].solo /\ tx[r].kind = "reconcile" /\ run'[r].pc = "over" =>
         Active(member', run[r].src) = run[r].yielded]_vars
=============================================================================
