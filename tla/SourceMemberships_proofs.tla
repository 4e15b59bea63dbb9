---------------------- MODULE SourceMemberships_proofs ----------------------
(***************************************************************************)
(* Proofs about SourceMemberships and the two components on top of it, for *)
(* any sources, configurations, components, runs and definitions, however  *)
(* the transactions overlap:                                               *)
(*   - type correctness;                                                   *)
(*   - a run nobody overlapped leaves exactly what it yielded;             *)
(*   - a reporter is overruled only by a transaction that could not see    *)
(*     it, and only what was seen shared is left an orphan;                *)
(*   - shared checks: their definition, automatic disabling and owners     *)
(*     (ManagedChecks);                                                    *)
(*   - the groups of humans and of sole reporters (AutoGroups).            *)
(***************************************************************************)
EXTENDS ManagedChecks, AutoGroups, FiniteSetTheorems, TLAPS

\* Whom an open transaction is for, and that an instance is never reported without
\* its component, nor by another run.
Known ==
  /\ \A r \in Runs : run[r].pc = "reporting" =>
       run[r].src \in Sources /\ source[run[r].src].status # "none"
  /\ \A a \in Actors :
       /\ tx[a].kind = "register" =>
            a \in Runs /\ run[a].pc = "started" /\ tx[a].src \in Sources
       /\ tx[a].kind = "reconcile" =>
            /\ a \in Runs /\ run[a].pc = "reporting" /\ tx[a].src = run[a].src
            /\ \A k \in tx[a].stale : imember[tx[a].src][k].active => k \in tx[a].istale
  /\ \A s \in Sources, k \in Components :
       imember[s][k].active => imember[s][k].seen = member[s][k].seen

\* What is reported has been seen.
Alive ==
  \A s \in Sources, k \in Components :
    /\ member[s][k].active => life[k] # "none"
    /\ imember[s][k].active => inst[k] # "none"

CatalogInv == TypeOK /\ Known /\ Alive

\* A run that has no companion is the only one to write its source's memberships, and
\* what carries its mark is what it yielded.
Alone ==
  \A r \in Runs :
    /\ run[r].pc \in {"idle", "started"} =>
         run[r].yielded = {} /\ \A s \in Sources, k \in Components : member[s][k].seen # r
    /\ run[r].pc = "reporting" /\ run[r].solo =>
         /\ Companions(r, run[r].src) = {}
         /\ \A k \in Components : member[run[r].src][k].active /\ member[run[r].src][k].seen = r
                                    <=> k \in run[r].yielded
    /\ tx[r].kind = "reconcile" /\ run[r].solo => tx[r].stale = Stale(member, run[r].src, r)

\* The groups and the open pass.
PassParts ==
  /\ group \in [Components -> {"none", "human"} \union Sources]
  /\ linked \in [Sources -> {"none", "ACTIVE", "RETIRED"}]
  /\ \A k \in Components : group[k] \in Sources => linked[group[k]] # "none"
  /\ plan.kept \subseteq Sources
  /\ plan.evict \subseteq Components \X Sources /\ plan.assign \subseteq Components \X plan.kept

\* What an open pass has read: nothing that it locks is held by another, and who is to get a
\* component still counts and was the only one to report it of those who count.
Undisturbed == \A a \in Actors : tx[a].kind \in {"none", "reconcile"}

SoleReader(k, s) ==
  /\ Counts(s) /\ s \in plan.had[k]
  /\ \A t \in Sources : Counts(t) /\ t \in plan.had[k] => t = s

PassFresh ==
  plan.on => /\ Undisturbed
             /\ \A k \in Components, s \in Sources : <<k, s>> \in plan.assign => SoleReader(k, s)
-----------------------------------------------------------------------------
(* Type correctness.                                                       *)

\* TypeOK without its last conjunct, the types proper.
Types ==
  /\ configs \subseteq Configs
  /\ source \in [Sources -> SourceRow]
  /\ life \in [Components -> {"none", "ACTIVE", "RETIRED"}]
  /\ inst \in [Components -> {"none", "up", "GONE"}]
  /\ member \in [Sources -> [Components -> Member]]
  /\ imember \in [Sources -> [Components -> Member]]
  /\ run \in [Runs -> Run]
  /\ tx \in [Actors -> Plan]

\* What the memberships say of their source and of each other.
Members ==
  \A s \in Sources, k \in Components :
    /\ member[s][k].seen # None => source[s].status # "none"
    /\ imember[s][k].active => member[s][k].active

LEMMA TypeParts == TypeOK <=> Types /\ Members
BY DEF TypeOK, Types, Members

LEMMA NoPlanType == NoPlan \in Plan
BY DEF NoPlan, NoOne, Plan, Kinds

LEMMA NoRunType ==
  \A pc \in {"idle", "over"} :
    NoRun(pc) \in Run /\ NoRun(pc).pc = pc /\ NoRun(pc).yielded = {} /\ ~NoRun(pc).solo
BY DEF NoRun, Run

LEMMA ReportersType ==
  \A m : /\ Reporters(m) \in [Components -> SUBSET Sources]
         /\ \A k \in Components, s \in Sources :
              s \in Reporters(m)[k] <=> Counts(s) /\ m[s][k].active
BY DEF Reporters

LEMMA SubsetsType ==
  ASSUME NEW s, NEW r, NEW K \in SUBSET Components
  PROVE  /\ Stale(member, s, r) \in SUBSET Components /\ Stale(imember, s, r) \in SUBSET Components
         /\ Active(member, s) \in SUBSET Components /\ Active(imember, s) \in SUBSET Components
         /\ Unreported(s, K) \in SUBSET K /\ IUnreported(s, K) \in SUBSET K
BY DEF Stale, Active, Unreported, IUnreported

LEMMA LifeAfterType ==
  ASSUME Types, NEW K, NEW I
  PROVE  /\ LifeAfter(K) \in [Components -> {"none", "ACTIVE", "RETIRED"}]
         /\ InstAfter(K, I) \in [Components -> {"none", "up", "GONE"}]
         /\ \A k \in Components :
              /\ LifeAfter(K)[k] = "none" <=> life[k] = "none"
              /\ InstAfter(K, I)[k] = "none" <=> inst[k] = "none"
BY DEF Types, LifeAfter, InstAfter, Retired

LEMMA DeactivateType ==
  ASSUME NEW m \in [Sources -> [Components -> Member]], NEW s \in Sources, NEW K
  PROVE  /\ Deactivate(m, s, K) \in [Sources -> [Components -> Member]]
         /\ \A t \in Sources \ {s} : Deactivate(m, s, K)[t] = m[t]
         /\ \A k \in Components : /\ Deactivate(m, s, K)[s][k].active <=> m[s][k].active /\ k \notin K
                                  /\ Deactivate(m, s, K)[s][k].seen = m[s][k].seen
<1> DEFINE row == [k \in Components |-> [m[s][k] EXCEPT !.active = @ /\ k \notin K]]
<1>1. \A k \in Components : m[s][k] \in Member
  OBVIOUS
<1>2. \A k \in Components : /\ row[k] \in Member
                            /\ row[k].active <=> m[s][k].active /\ k \notin K
                            /\ row[k].seen = m[s][k].seen
  BY <1>1 DEF Member
<1>3. row \in [Components -> Member]
  BY <1>2
<1>4. Deactivate(m, s, K) = [m EXCEPT ![s] = row]
  BY DEF Deactivate
<1> HIDE DEF row
<1> QED BY <1>2, <1>3, <1>4

\* What Begin and Commit do to the open transactions.
LEMMA BeginStep ==
  ASSUME Types, NEW a \in Actors, NEW q \in Plan, Begin(a, q)
  PROVE  /\ tx' \in [Actors -> Plan] /\ tx'[a] = q /\ tx[a].kind = "none"
         /\ \A b \in Actors \ {a} : tx'[b] = tx[b]
BY DEF Types, Begin

LEMMA CommitStep ==
  ASSUME Types, NEW a \in Actors, Commit(a)
  PROVE  /\ tx' \in [Actors -> Plan] /\ tx'[a] = NoPlan
         /\ \A b \in Actors \ {a} : tx'[b] = tx[b]
BY NoPlanType DEF Types, Commit

\* The rows that a registration leaves.
LEMMA UnboundType ==
  ASSUME NEW q \in Plan, NEW src \in [Sources -> SourceRow]
  PROVE  /\ Unbound(q, src) \in [Sources -> SourceRow]
         /\ \A t \in Sources : src[t].status # "none" => Unbound(q, src)[t].status # "none"
<1>1. \A t \in Sources : src[t] \in SourceRow /\ src[t].status \in {"none", "ACTIVE", "UNMONITORED", "RETIRED"}
  BY DEF SourceRow
<1>2. \A t \in Sources : Unbound(q, src)[t] \in SourceRow
  BY <1>1 DEF Unbound, SourceRow
<1> QED BY <1>1, <1>2 DEF Unbound
-----------------------------------------------------------------------------
(* What every step does, in the terms of the invariants.                   *)

\* A source never forgets that it was registered.
Remembered == \A s \in Sources : source[s].status # "none" => source'[s].status # "none"

LEMMA RegisterReadStep ==
  ASSUME TypeOK, NEW r \in Runs, RegisterRead(r)
  PROVE  /\ Types' /\ UNCHANGED <<configs, source, catalogVars, run>>
         /\ run[r].pc = "started" /\ tx'[r].kind = "register" /\ tx'[r].src \in Sources
         /\ tx[r].kind = "none" /\ \A b \in Actors \ {r} : tx'[b] = tx[b]
<1> DEFINE c == IF run[r].cfg \in configs THEN run[r].cfg ELSE None
<1>1. PICK s \in Sources :
        LET others == {t \in Sources \ {s} : c # None /\ source[t].bound = c}
        IN Begin(r, [NoPlan EXCEPT
               !.kind = "register", !.src = s, !.bound = c, !.rebind = source[s].bound # c,
               !.flip = {t \in others : source[t].status # "RETIRED"},
               !.unbind = others])
  BY DEF RegisterRead
<1> DEFINE others == {t \in Sources \ {s} : c # None /\ source[t].bound = c}
           q == [NoPlan EXCEPT
               !.kind = "register", !.src = s, !.bound = c, !.rebind = source[s].bound # c,
               !.flip = {t \in others : source[t].status # "RETIRED"},
               !.unbind = others]
<1>2. Types /\ r \in Actors /\ c \in Configs \union {None}
  BY TypeParts DEF Types, Actors
<1>3. q \in Plan /\ q.kind = "register" /\ q.src = s
  BY <1>2, NoPlanType DEF NoPlan, Plan, Kinds
<1>4. Begin(r, q)
  BY <1>1
<1>5. UNCHANGED <<configs, source, catalogVars, run>> /\ run[r].pc = "started"
  BY DEF RegisterRead
<1> HIDE DEF q
<1> QED BY <1>2, <1>3, <1>4, <1>5, BeginStep DEF Types, catalogVars

LEMMA ReconcileReadStep ==
  ASSUME TypeOK, Known, NEW r \in Runs, ReconcileRead(r)
  PROVE  /\ Types' /\ UNCHANGED <<configs, source, catalogVars, run>>
         /\ run[r].pc = "reporting" /\ run[r].src \in Sources /\ tx[r].kind = "none"
         /\ tx'[r].kind = "reconcile" /\ tx'[r].src = run[r].src
         /\ tx'[r].stale = Stale(member, run[r].src, r)
         /\ tx'[r].istale = Stale(imember, run[r].src, r)
         /\ tx'[r].comps = Unreported(run[r].src, tx'[r].stale)
         /\ tx'[r].insts = IUnreported(run[r].src, tx'[r].istale)
         /\ tx'[r].saw = Reporters(member) /\ tx'[r].isaw = Reporters(imember)
         /\ \A b \in Actors \ {r} : tx'[b] = tx[b]
<1> DEFINE s == run[r].src
           stale == Stale(member, s, r)
           istale == Stale(imember, s, r)
           q == [NoPlan EXCEPT
             !.kind = "reconcile", !.src = s, !.stale = stale, !.istale = istale,
             !.comps = Unreported(s, stale), !.insts = IUnreported(s, istale),
             !.saw = Reporters(member), !.isaw = Reporters(imember)]
<1>1. Begin(r, q) /\ UNCHANGED <<configs, source, catalogVars, run>> /\ run[r].pc = "reporting"
  BY DEF ReconcileRead
<1>2. Types /\ r \in Actors /\ s \in Sources
  BY <1>1, TypeParts DEF Actors, Known
<1>3. /\ stale \in SUBSET Components /\ istale \in SUBSET Components
      /\ Unreported(s, stale) \in SUBSET Components /\ IUnreported(s, istale) \in SUBSET Components
  BY DEF Stale, Active, Unreported, IUnreported
<1> HIDE DEF stale, istale
<1>4. /\ q.kind = "reconcile" /\ q.src = s /\ q.stale = stale /\ q.istale = istale
      /\ q.comps = Unreported(s, stale) /\ q.insts = IUnreported(s, istale)
      /\ q.saw = Reporters(member) /\ q.isaw = Reporters(imember)
  BY DEF NoPlan
<1>5. q \in Plan
  BY <1>2, <1>3, NoPlanType, ReportersType DEF NoPlan, Plan, Kinds
<1> HIDE DEF q
<1>6. /\ tx' \in [Actors -> Plan] /\ tx'[r] = q /\ tx[r].kind = "none"
      /\ \A b \in Actors \ {r} : tx'[b] = tx[b]
  BY <1>1, <1>2, <1>5, BeginStep
<1>7. Types'
  BY <1>1, <1>2, <1>6 DEF Types, catalogVars
<1> QED BY <1>1, <1>2, <1>4, <1>6, <1>7 DEF stale, istale

LEMMA RetireReadStep ==
  ASSUME TypeOK, NEW s \in Sources, RetireRead(s)
  PROVE  /\ Types' /\ UNCHANGED <<configs, source, catalogVars, run>>
         /\ tx[s].kind = "none" /\ tx'[s].kind = "retire" /\ tx'[s].src = s
         /\ tx'[s].comps = Unreported(s, Active(member, s))
         /\ tx'[s].insts = IUnreported(s, Active(imember, s))
         /\ tx'[s].saw = Reporters(member) /\ tx'[s].isaw = Reporters(imember)
         /\ \A b \in Actors \ {s} : tx'[b] = tx[b]
<1> DEFINE comps == Unreported(s, Active(member, s))
           insts == IUnreported(s, Active(imember, s))
           q == [NoPlan EXCEPT !.kind = "retire", !.src = s, !.comps = comps, !.insts = insts,
                  !.saw = Reporters(member), !.isaw = Reporters(imember)]
<1>1. Begin(s, q) /\ UNCHANGED <<configs, source, catalogVars, run>>
  BY DEF RetireRead
<1>2. Types /\ s \in Actors
  BY TypeParts DEF Actors
<1>3. comps \in SUBSET Components /\ insts \in SUBSET Components
  BY SubsetsType
<1> HIDE DEF comps, insts
<1>4. /\ q.kind = "retire" /\ q.src = s /\ q.comps = comps /\ q.insts = insts
      /\ q.saw = Reporters(member) /\ q.isaw = Reporters(imember)
  BY DEF NoPlan
<1>5. q \in Plan
  BY <1>2, <1>3, NoPlanType, ReportersType DEF NoPlan, Plan, Kinds
<1> HIDE DEF q
<1>6. /\ tx' \in [Actors -> Plan] /\ tx'[s] = q /\ tx[s].kind = "none"
      /\ \A b \in Actors \ {s} : tx'[b] = tx[b]
  BY <1>1, <1>2, <1>5, BeginStep
<1>7. Types'
  BY <1>1, <1>2, <1>6 DEF Types, catalogVars
<1> QED BY <1>1, <1>4, <1>6, <1>7 DEF comps, insts

LEMMA DeleteReadStep ==
  ASSUME TypeOK, NEW c \in Configs, DeleteRead(c)
  PROVE  /\ Types' /\ UNCHANGED <<configs, source, catalogVars, run>>
         /\ tx[c].kind = "none" /\ tx'[c].kind = "delete"
         /\ \A b \in Actors \ {c} : tx'[b] = tx[b]
<1> DEFINE flip == {s \in Sources : source[s].bound = c /\ source[s].status # "RETIRED"}
           q == [NoPlan EXCEPT !.kind = "delete", !.bound = c, !.flip = flip]
<1>1. Begin(c, q) /\ UNCHANGED <<configs, source, catalogVars, run>>
  BY DEF DeleteRead
<1>2. Types /\ c \in Actors
  BY TypeParts DEF Actors
<1>3. q.kind = "delete" /\ q \in Plan
  BY <1>2, NoPlanType DEF NoPlan, Plan, Kinds
<1> HIDE DEF q
<1>4. /\ tx' \in [Actors -> Plan] /\ tx'[c] = q /\ tx[c].kind = "none"
      /\ \A b \in Actors \ {c} : tx'[b] = tx[b]
  BY <1>1, <1>2, <1>3, BeginStep
<1> QED BY <1>1, <1>2, <1>3, <1>4 DEF Types, catalogVars

LEMMA RegisterCommitStep ==
  ASSUME TypeOK, Known, NEW r \in Runs, RegisterCommit(r)
  PROVE  /\ Types' /\ Remembered /\ UNCHANGED <<configs, catalogVars>>
         /\ tx[r].kind = "register" /\ run[r].pc = "started"
         /\ run'[r].pc = "reporting" /\ run'[r].src = tx[r].src /\ run'[r].src \in Sources
         /\ run'[r].yielded = run[r].yielded
         /\ run'[r].solo <=> Companions(r, run'[r].src) = {}
         /\ source'[run'[r].src].status # "none"
         /\ \A q \in Runs \ {r} :
              /\ run'[q].pc = run[q].pc /\ run'[q].src = run[q].src
              /\ run'[q].yielded = run[q].yielded
              /\ run'[q].solo <=> run[q].solo /\ q \notin Companions(r, run'[r].src)
         /\ tx'[r] = NoPlan /\ \A b \in Actors \ {r} : tx'[b] = tx[b]
<1> DEFINE q == tx[r]
           s == q.src
           bound == IF q.rebind THEN q.bound ELSE source[s].bound
           status == IF q.bound = None THEN "UNMONITORED" ELSE "ACTIVE"
           with == Companions(r, s)
           src == [source EXCEPT ![s] = [status |-> status, bound |-> bound]]
           reporting == [run[r] EXCEPT !.pc = "reporting", !.src = s, !.solo = with = {}]
<1>1. /\ tx[r].kind = "register" /\ Commit(r) /\ UNCHANGED <<configs, catalogVars>>
      /\ source' = Unbound(q, src)
      /\ run' = [p \in Runs |->
             IF p = r THEN reporting
             ELSE IF p \in with THEN [run[p] EXCEPT !.solo = FALSE] ELSE run[p]]
  BY DEF RegisterCommit
<1>2. Types /\ r \in Actors /\ q \in Plan /\ s \in Sources /\ run[r].pc = "started"
  BY <1>1, TypeParts DEF Types, Actors, Known
<1>3. src \in [Sources -> SourceRow] /\ src[s].status # "none"
      /\ \A t \in Sources : source[t].status # "none" => src[t].status # "none"
  BY <1>2 DEF Types, SourceRow, Plan
<1> HIDE DEF src
<1>4. /\ source' \in [Sources -> SourceRow] /\ Remembered /\ source'[s].status # "none"
  BY <1>1, <1>2, <1>3, UnboundType DEF Remembered
<1>5. \A p \in Runs : run[p] \in Run
  BY <1>2 DEF Types
<1>6. /\ reporting \in Run /\ reporting.pc = "reporting" /\ reporting.src = s
      /\ reporting.yielded = run[r].yielded /\ (reporting.solo <=> with = {})
  BY <1>2, <1>5 DEF Run
<1>7. \A p \in Runs : LET x == [run[p] EXCEPT !.solo = FALSE] IN
        x \in Run /\ x.pc = run[p].pc /\ x.src = run[p].src /\ x.yielded = run[p].yielded /\ ~x.solo
  BY <1>5 DEF Run
<1> HIDE DEF reporting, with
<1>8. run'[r] = reporting
  BY <1>1
<1>9. \A p \in Runs \ {r} :
        /\ run'[p].pc = run[p].pc /\ run'[p].src = run[p].src
        /\ run'[p].yielded = run[p].yielded /\ (run'[p].solo <=> run[p].solo /\ p \notin with)
  BY <1>1, <1>7
<1>10. run' \in [Runs -> Run]
  BY <1>1, <1>5, <1>6, <1>7
<1>11. tx' \in [Actors -> Plan] /\ tx'[r] = NoPlan /\ \A b \in Actors \ {r} : tx'[b] = tx[b]
  BY <1>1, <1>2, CommitStep
<1>12. Types'
  BY <1>1, <1>2, <1>4, <1>10, <1>11 DEF Types, catalogVars
<1> QED BY <1>1, <1>2, <1>4, <1>6, <1>8, <1>9, <1>11, <1>12 DEF with

\* A refreshed component, with its instance or without.
WithInstance(s, r, k) ==
  /\ imember'[s][k].active /\ imember'[s][k].seen = r
  /\ inst'[k] # "none" /\ (inst'[k] = "up" \/ inst'[k] = inst[k])
  /\ \A j \in Components \ {k} : inst'[j] = inst[j]

WithoutInstance(s, r, k) ==
  /\ imember'[s][k].seen = imember[s][k].seen
  /\ imember'[s][k].active <=> imember[s][k].active /\ imember[s][k].seen = r
  /\ inst' = InstAfter({}, IUnreported(s, {k} \intersect Stale(imember, s, r)))

LEMMA AssetStep ==
  ASSUME TypeOK, Known, NEW r \in Runs, NEW k \in Components, Asset(r, k)
  PROVE  /\ Types' /\ UNCHANGED <<configs, source, tx>>
         /\ run[r].pc = "reporting" /\ run[r].src \in Sources /\ tx[r].kind = "none"
         /\ Room /\ ~MemberLocked(run[r].src, k)
         /\ life'[k] = "ACTIVE" /\ \A j \in Components \ {k} : life'[j] = life[j]
         /\ \A t \in Sources, j \in Components :
              t # run[r].src \/ j # k => member'[t][j] = member[t][j] /\ imember'[t][j] = imember[t][j]
         /\ member'[run[r].src][k].active /\ member'[run[r].src][k].seen = r
         /\ \A j \in Components : inst'[j] = "none" => inst[j] = "none"
         /\ WithInstance(run[r].src, r, k) \/ WithoutInstance(run[r].src, r, k)
         /\ run'[r].pc = run[r].pc /\ run'[r].src = run[r].src
         /\ run'[r].yielded = run[r].yielded \union {k} /\ (run'[r].solo <=> run[r].solo)
         /\ \A q \in Runs \ {r} : run'[q] = run[q]
<1> DEFINE s == run[r].src
           dropped == {k} \intersect Stale(imember, s, r)
           x == [run[r] EXCEPT !.yielded = @ \union {k}]
           y == [imember[s][k] EXCEPT !.active = @ /\ k \notin dropped]
<1>1. /\ run[r].pc = "reporting" /\ tx[r].kind = "none" /\ Room /\ ~MemberLocked(s, k)
      /\ life' = [life EXCEPT ![k] = "ACTIVE"]
      /\ member' = [member EXCEPT ![s][k] = Seen(r)]
      /\ \/ /\ inst' = [inst EXCEPT ![k] = "up"] \/ (inst[k] # "none" /\ inst' = inst)
            /\ imember' = [imember EXCEPT ![s][k] = Seen(r)]
         \/ /\ imember' = [imember EXCEPT ![s][k].active = @ /\ k \notin dropped]
            /\ inst' = InstAfter({}, IUnreported(s, dropped))
      /\ run' = [run EXCEPT ![r].yielded = @ \union {k}]
      /\ UNCHANGED <<configs, source, tx>>
  BY DEF Asset
<1>2. Types /\ s \in Sources
  BY <1>1, TypeParts DEF Known
<1>3. Seen(r) \in Member /\ Seen(r).active /\ Seen(r).seen = r
  BY DEF Seen, Member
<1>4. imember[s][k] \in Member /\ run[r] \in Run
  BY <1>2 DEF Types
<1>5. /\ y \in Member /\ y.seen = imember[s][k].seen
      /\ y.active <=> imember[s][k].active /\ imember[s][k].seen = r
  BY <1>4 DEF Member, Stale, Active
<1>6. /\ x \in Run /\ x.pc = run[r].pc /\ x.src = s
      /\ x.yielded = run[r].yielded \union {k} /\ (x.solo <=> run[r].solo)
  BY <1>4 DEF Run
<1>7. run' = [run EXCEPT ![r] = x]
  BY <1>1, <1>2 DEF Types
<1>8. /\ member' \in [Sources -> [Components -> Member]] /\ member'[s][k] = Seen(r)
      /\ \A t \in Sources, j \in Components : t # s \/ j # k => member'[t][j] = member[t][j]
  <2> HIDE DEF s
  <2> QED BY <1>1, <1>2, <1>3 DEF Types
<1>9. life' \in [Components -> {"none", "ACTIVE", "RETIRED"}]
      /\ life'[k] = "ACTIVE" /\ \A j \in Components \ {k} : life'[j] = life[j]
  BY <1>1, <1>2 DEF Types
<1>10. ASSUME NEW z \in Member, imember' = [imember EXCEPT ![s][k] = z]
       PROVE  /\ imember' \in [Sources -> [Components -> Member]] /\ imember'[s][k] = z
              /\ \A t \in Sources, j \in Components :
                   t # s \/ j # k => imember'[t][j] = imember[t][j]
  <2> HIDE DEF s
  <2> QED BY <1>2, <1>10 DEF Types
<1> HIDE DEF x, y
<1>11. run' \in [Runs -> Run] /\ run'[r] = x /\ \A q \in Runs \ {r} : run'[q] = run[q]
  BY <1>2, <1>6, <1>7 DEF Types
<1>12. ASSUME inst' = [inst EXCEPT ![k] = "up"] \/ (inst[k] # "none" /\ inst' = inst),
              imember' = [imember EXCEPT ![s][k] = Seen(r)]
       PROVE  /\ inst' \in [Components -> {"none", "up", "GONE"}]
              /\ \A j \in Components : inst'[j] = "none" => inst[j] = "none"
              /\ imember' \in [Sources -> [Components -> Member]]
              /\ \A t \in Sources, j \in Components :
                   t # s \/ j # k => imember'[t][j] = imember[t][j]
              /\ WithInstance(s, r, k)
  <2>1. /\ inst' \in [Components -> {"none", "up", "GONE"}]
        /\ \A j \in Components : inst'[j] = "none" => inst[j] = "none"
        /\ inst'[k] # "none" /\ (inst'[k] = "up" \/ inst'[k] = inst[k])
        /\ \A j \in Components \ {k} : inst'[j] = inst[j]
    BY <1>2, <1>12 DEF Types
  <2>2. /\ imember' \in [Sources -> [Components -> Member]] /\ imember'[s][k] = Seen(r)
        /\ \A t \in Sources, j \in Components : t # s \/ j # k => imember'[t][j] = imember[t][j]
    BY <1>3, <1>10, <1>12
  <2> HIDE DEF s
  <2> QED BY <1>3, <1>12, <2>1, <2>2 DEF WithInstance
<1>13. ASSUME imember' = [imember EXCEPT ![s][k].active = @ /\ k \notin dropped],
              inst' = InstAfter({}, IUnreported(s, dropped))
       PROVE  /\ inst' \in [Components -> {"none", "up", "GONE"}]
              /\ \A j \in Components : inst'[j] = "none" => inst[j] = "none"
              /\ imember' \in [Sources -> [Components -> Member]]
              /\ \A t \in Sources, j \in Components :
                   t # s \/ j # k => imember'[t][j] = imember[t][j]
              /\ WithoutInstance(s, r, k)
  <2>1. inst' \in [Components -> {"none", "up", "GONE"}]
        /\ \A j \in Components : inst'[j] = "none" => inst[j] = "none"
    BY <1>2, <1>13, LifeAfterType
  <2>2. imember' = [imember EXCEPT ![s][k] = y]
    BY <1>2, <1>13 DEF Types, y
  <2>3. /\ imember' \in [Sources -> [Components -> Member]] /\ imember'[s][k] = y
        /\ \A t \in Sources, j \in Components : t # s \/ j # k => imember'[t][j] = imember[t][j]
    BY <1>5, <1>10, <2>2
  <2>4. WithoutInstance(s, r, k)
    BY <1>5, <1>13, <2>3 DEF WithoutInstance
  <2> QED BY <2>1, <2>3, <2>4
<1>14. /\ inst' \in [Components -> {"none", "up", "GONE"}]
       /\ \A j \in Components : inst'[j] = "none" => inst[j] = "none"
       /\ imember' \in [Sources -> [Components -> Member]]
       /\ \A t \in Sources, j \in Components : t # s \/ j # k => imember'[t][j] = imember[t][j]
       /\ WithInstance(s, r, k) \/ WithoutInstance(s, r, k)
  BY <1>1, <1>12, <1>13
<1>15. Types'
  BY <1>1, <1>2, <1>8, <1>9, <1>11, <1>14 DEF Types
<1> QED BY <1>1, <1>2, <1>3, <1>6, <1>8, <1>9, <1>11, <1>14, <1>15

\* The effects of a plan on the memberships of its source.
Dropped(m, s, K) ==
  /\ \A t \in Sources \ {s} : m'[t] = m[t]
  /\ \A k \in Components : /\ m'[s][k].active <=> m[s][k].active /\ k \notin K
                           /\ m'[s][k].seen = m[s][k].seen

LEMMA ReconcileCommitStep ==
  ASSUME TypeOK, Known, NEW r \in Runs, ReconcileCommit(r)
  PROVE  /\ Types' /\ UNCHANGED <<configs, source>>
         /\ tx[r].kind = "reconcile" /\ run[r].pc = "reporting"
         /\ tx[r].src = run[r].src /\ tx[r].src \in Sources
         /\ Dropped(member, tx[r].src, tx[r].stale) /\ Dropped(imember, tx[r].src, tx[r].istale)
         /\ life' = LifeAfter(tx[r].comps) /\ inst' = InstAfter(tx[r].comps, tx[r].insts)
         /\ run'[r] = NoRun("over") /\ run'[r].pc = "over" /\ ~run'[r].solo
         /\ \A q \in Runs \ {r} : run'[q] = run[q]
         /\ tx'[r] = NoPlan /\ \A b \in Actors \ {r} : tx'[b] = tx[b]
<1> DEFINE x == NoRun("over")
<1>1. /\ tx[r].kind = "reconcile" /\ Commit(r) /\ UNCHANGED <<configs, source>>
      /\ member' = Deactivate(member, tx[r].src, tx[r].stale)
      /\ imember' = Deactivate(imember, tx[r].src, tx[r].istale)
      /\ life' = LifeAfter(tx[r].comps) /\ inst' = InstAfter(tx[r].comps, tx[r].insts)
      /\ run' = [run EXCEPT ![r] = x]
  BY DEF ReconcileCommit
<1>2. /\ Types /\ r \in Actors /\ run[r].pc = "reporting" /\ run[r] \in Run
      /\ tx[r].src = run[r].src /\ tx[r].src \in Sources
  BY <1>1, TypeParts DEF Types, Actors, Known
<1>3. x \in Run /\ x.pc = "over" /\ ~x.solo
  BY NoRunType
<1> HIDE DEF x
<1>5. run' \in [Runs -> Run] /\ run'[r] = x /\ \A q \in Runs \ {r} : run'[q] = run[q]
  BY <1>1, <1>2, <1>3 DEF Types
<1>6. tx' \in [Actors -> Plan] /\ tx'[r] = NoPlan /\ \A b \in Actors \ {r} : tx'[b] = tx[b]
  BY <1>1, <1>2, CommitStep
<1>7. /\ life' \in [Components -> {"none", "ACTIVE", "RETIRED"}]
      /\ inst' \in [Components -> {"none", "up", "GONE"}]
  BY <1>1, <1>2, LifeAfterType
<1>8. /\ member' \in [Sources -> [Components -> Member]]
      /\ Dropped(member, tx[r].src, tx[r].stale)
  BY <1>1, <1>2, DeactivateType DEF Types, Dropped
<1>9. /\ imember' \in [Sources -> [Components -> Member]]
      /\ Dropped(imember, tx[r].src, tx[r].istale)
  BY <1>1, <1>2, DeactivateType DEF Types, Dropped
<1>10. Types'
  BY <1>1, <1>2, <1>5, <1>6, <1>7, <1>8, <1>9 DEF Types
<1> QED BY <1>1, <1>2, <1>3, <1>5, <1>6, <1>8, <1>9, <1>10 DEF x

LEMMA RetireCommitStep ==
  ASSUME TypeOK, NEW s \in Sources, RetireCommit(s)
  PROVE  /\ Types' /\ Remembered /\ UNCHANGED <<configs, member, imember, run>>
         /\ tx[s].kind = "retire" /\ source'[s].status = "RETIRED"
         /\ \A t \in Sources \ {s} : source'[t] = source[t]
         /\ life' = LifeAfter(tx[s].comps) /\ inst' = InstAfter(tx[s].comps, tx[s].insts)
         /\ tx'[s] = NoPlan /\ \A b \in Actors \ {s} : tx'[b] = tx[b]
<1>1. /\ tx[s].kind = "retire" /\ Commit(s) /\ UNCHANGED <<configs, member, imember, run>>
      /\ source' = [source EXCEPT ![s].status = "RETIRED"]
      /\ life' = LifeAfter(tx[s].comps) /\ inst' = InstAfter(tx[s].comps, tx[s].insts)
  BY DEF RetireCommit
<1>2. Types /\ s \in Actors
  BY TypeParts DEF Actors
<1>3. /\ source' \in [Sources -> SourceRow] /\ source'[s].status = "RETIRED"
      /\ \A t \in Sources \ {s} : source'[t] = source[t]
  BY <1>1, <1>2 DEF Types, SourceRow
<1>4. tx' \in [Actors -> Plan] /\ tx'[s] = NoPlan /\ \A b \in Actors \ {s} : tx'[b] = tx[b]
  BY <1>1, <1>2, CommitStep
<1>5. /\ life' \in [Components -> {"none", "ACTIVE", "RETIRED"}]
      /\ inst' \in [Components -> {"none", "up", "GONE"}]
  BY <1>1, <1>2, LifeAfterType
<1>6. Types'
  BY <1>1, <1>2, <1>3, <1>4, <1>5 DEF Types
<1>7. Remembered
  BY <1>3 DEF Remembered
<1> QED BY <1>1, <1>3, <1>4, <1>6, <1>7

LEMMA ReactivateStep ==
  ASSUME TypeOK, NEW s \in Sources, Reactivate(s)
  PROVE  Types' /\ Remembered /\ Room /\ UNCHANGED <<configs, catalogVars, run, tx>>
<1>1. /\ source' = [source EXCEPT ![s].status =
             IF source[s].bound = None THEN "UNMONITORED" ELSE "ACTIVE"]
      /\ Room /\ UNCHANGED <<configs, catalogVars, run, tx>>
  BY DEF Reactivate
<1>2. source' \in [Sources -> SourceRow] /\ Remembered
  BY <1>1, TypeParts DEF Types, SourceRow, Remembered
<1> QED BY <1>1, <1>2, TypeParts DEF Types, catalogVars

LEMMA DeleteCommitStep ==
  ASSUME TypeOK, NEW c \in Configs, DeleteCommit(c)
  PROVE  /\ Types' /\ Remembered /\ UNCHANGED <<catalogVars, run>> /\ configs' = configs \ {c}
         /\ tx[c].kind = "delete"
         /\ \A s \in Sources : /\ source'[s].bound = IF source[s].bound = c THEN None ELSE source[s].bound
                               /\ source'[s].status =
                                    IF s \in tx[c].flip THEN "UNMONITORED" ELSE source[s].status
         /\ tx'[c] = NoPlan /\ \A b \in Actors \ {c} : tx'[b] = tx[b]
<1>1. /\ tx[c].kind = "delete" /\ Commit(c) /\ UNCHANGED <<catalogVars, run>>
      /\ configs' = configs \ {c}
      /\ source' = [s \in Sources |->
           [status |-> IF s \in tx[c].flip THEN "UNMONITORED" ELSE source[s].status,
            bound |-> IF source[s].bound = c THEN None ELSE source[s].bound]]
  BY DEF DeleteCommit
<1>2. Types /\ c \in Actors
  BY TypeParts DEF Actors
<1>3. /\ source' \in [Sources -> SourceRow] /\ Remembered
      /\ \A s \in Sources : /\ source'[s].bound = IF source[s].bound = c THEN None ELSE source[s].bound
                            /\ source'[s].status =
                                    IF s \in tx[c].flip THEN "UNMONITORED" ELSE source[s].status
  BY <1>1, <1>2 DEF Types, SourceRow, Remembered
<1>4. tx' \in [Actors -> Plan] /\ tx'[c] = NoPlan /\ \A b \in Actors \ {c} : tx'[b] = tx[b]
  BY <1>1, <1>2, CommitStep
<1>5. Types'
  BY <1>1, <1>2, <1>3, <1>4 DEF Types, catalogVars
<1> QED BY <1>1, <1>3, <1>4, <1>5

LEMMA StartFailStep ==
  ASSUME TypeOK, NEW r \in Runs, Start(r) \/ Fail(r)
  PROVE  /\ Types' /\ UNCHANGED <<configs, source, catalogVars, tx>>
         /\ \/ /\ run[r].pc = "idle" /\ run'[r].pc = "started"
               /\ run'[r].src = run[r].src /\ run'[r].yielded = run[r].yielded
               /\ run'[r].solo <=> run[r].solo
            \/ /\ run[r].pc \in {"started", "reporting"} /\ tx[r].kind = "none"
               /\ run'[r].pc = "over" /\ ~run'[r].solo
         /\ \A q \in Runs \ {r} : run'[q] = run[q]
<1>1. Types /\ run[r] \in Run
  BY TypeParts DEF Types
<1>2. CASE Start(r)
  <2>1. PICK c \in configs : run' = [run EXCEPT ![r].pc = "started", ![r].cfg = c]
    BY <1>2 DEF Start
  <2> DEFINE x == [run[r] EXCEPT !.pc = "started", !.cfg = c]
  <2>2. run' = [run EXCEPT ![r] = x]
    BY <1>1, <2>1 DEF Types
  <2>3. /\ x \in Run /\ x.pc = "started" /\ x.src = run[r].src
        /\ x.yielded = run[r].yielded /\ (x.solo <=> run[r].solo)
    BY <1>1 DEF Run, Types
  <2> HIDE DEF x
  <2>4. run' \in [Runs -> Run] /\ run'[r] = x /\ \A q \in Runs \ {r} : run'[q] = run[q]
    BY <1>1, <2>2, <2>3 DEF Types
  <2>5. run[r].pc = "idle" /\ UNCHANGED <<configs, source, catalogVars, tx>>
    BY <1>2 DEF Start
  <2> QED BY <1>1, <2>3, <2>4, <2>5 DEF Types, catalogVars
<1>3. CASE Fail(r)
  <2> DEFINE x == NoRun("over")
  <2>1. /\ run' = [run EXCEPT ![r] = x] /\ UNCHANGED <<configs, source, catalogVars, tx>>
        /\ run[r].pc \in {"started", "reporting"} /\ tx[r].kind = "none"
    BY <1>3 DEF Fail
  <2>2. x \in Run /\ x.pc = "over" /\ ~x.solo
    BY NoRunType
  <2> HIDE DEF x
  <2>3. run' \in [Runs -> Run] /\ run'[r] = x /\ \A q \in Runs \ {r} : run'[q] = run[q]
    BY <1>1, <2>1, <2>2 DEF Types
  <2> QED BY <1>1, <2>1, <2>2, <2>3 DEF Types, catalogVars
<1> QED BY <1>2, <1>3
-----------------------------------------------------------------------------
(* The invariant of the catalog.                                           *)

\* The steps that leave the catalog and the runs alone.
Looks ==
  \/ \E r \in Runs : RegisterRead(r) \/ ReconcileRead(r)
  \/ \E s \in Sources : RetireRead(s) \/ Reactivate(s)
  \/ \E c \in Configs : ConfigStep(c)

LEMMA LooksStep ==
  ASSUME TypeOK, Known, Looks \/ UNCHANGED vars
  PROVE  Types' /\ Remembered /\ UNCHANGED <<catalogVars, run>>
<1>1. source' = source => Remembered
  BY DEF Remembered
<1>2. CASE UNCHANGED vars
  BY <1>1, <1>2, TypeParts DEF vars, catalogVars, Types
<1>3. ASSUME NEW r \in Runs, RegisterRead(r) \/ ReconcileRead(r)
      PROVE  Types' /\ Remembered /\ UNCHANGED <<catalogVars, run>>
  BY <1>1, <1>3, RegisterReadStep, ReconcileReadStep
<1>4. ASSUME NEW s \in Sources, RetireRead(s) \/ Reactivate(s)
      PROVE  Types' /\ Remembered /\ UNCHANGED <<catalogVars, run>>
  BY <1>1, <1>4, RetireReadStep, ReactivateStep
<1>5. ASSUME NEW c \in Configs, DeleteRead(c) \/ DeleteCommit(c)
      PROVE  Types' /\ Remembered /\ UNCHANGED <<catalogVars, run>>
  BY <1>1, <1>5, DeleteReadStep, DeleteCommitStep
<1> QED BY <1>2, <1>3, <1>4, <1>5 DEF Looks, ConfigStep

LEMMA NextCases ==
  [Next]_vars <=>
    \/ Looks \/ UNCHANGED vars
    \/ \E r \in Runs : \/ Start(r) \/ Fail(r) \/ RegisterCommit(r) \/ ReconcileCommit(r)
                       \/ \E k \in Components : Asset(r, k)
    \/ \E s \in Sources : RetireCommit(s)
BY Zenon DEF Next, RunStep, SourceStep, Looks

LEMMA MembersStep == ASSUME TypeOK, Known, [Next]_vars PROVE Types' /\ Members'
<1>0. Types /\ Members
  BY TypeParts
<1>1. CASE Looks \/ UNCHANGED vars
  BY <1>0, <1>1, LooksStep DEF Members, Remembered, catalogVars
<1>2. ASSUME NEW r \in Runs, Start(r) \/ Fail(r) PROVE Types' /\ Members'
  BY <1>0, <1>2, StartFailStep DEF Members, catalogVars
<1>3. ASSUME NEW r \in Runs, RegisterCommit(r) PROVE Types' /\ Members'
  BY <1>0, <1>3, RegisterCommitStep DEF Members, Remembered, catalogVars
<1>4. ASSUME NEW r \in Runs, ReconcileCommit(r) PROVE Types' /\ Members'
  <2>1. /\ Types' /\ UNCHANGED <<configs, source>> /\ tx[r].src \in Sources
        /\ tx[r].kind = "reconcile" /\ r \in Actors
        /\ Dropped(member, tx[r].src, tx[r].stale) /\ Dropped(imember, tx[r].src, tx[r].istale)
    BY <1>4, ReconcileCommitStep DEF Actors
  <2> SUFFICES ASSUME NEW s \in Sources, NEW k \in Components
               PROVE  /\ member'[s][k].seen # None => source'[s].status # "none"
                      /\ imember'[s][k].active => member'[s][k].active
    BY <2>1 DEF Members
  <2>2. CASE s # tx[r].src
    BY <1>0, <2>1, <2>2 DEF Members, Dropped
  <2>3. CASE s = tx[r].src
    BY <1>0, <2>1, <2>3 DEF Members, Dropped, Known
  <2> QED BY <2>2, <2>3
<1>5. ASSUME NEW r \in Runs, NEW k \in Components, Asset(r, k) PROVE Types' /\ Members'
  <2>1. /\ Types' /\ source' = source
        /\ run[r].pc = "reporting" /\ run[r].src \in Sources
        /\ \A t \in Sources, j \in Components :
             t # run[r].src \/ j # k => member'[t][j] = member[t][j] /\ imember'[t][j] = imember[t][j]
        /\ member'[run[r].src][k].active
    BY <1>5, AssetStep
  <2>2. source[run[r].src].status # "none"
    BY <2>1 DEF Known
  <2> QED BY <1>0, <2>1, <2>2 DEF Members
<1>6. ASSUME NEW s \in Sources, RetireCommit(s) PROVE Types' /\ Members'
  BY <1>0, <1>6, RetireCommitStep DEF Members, Remembered
<1> QED BY <1>1, <1>2, <1>3, <1>4, <1>5, <1>6, NextCases

\* Known in parts.
RunsKnown ==
  \A r \in Runs : run[r].pc = "reporting" =>
    run[r].src \in Sources /\ source[run[r].src].status # "none"

PlanKnown(a) ==
  /\ tx[a].kind = "register" => a \in Runs /\ run[a].pc = "started" /\ tx[a].src \in Sources
  /\ tx[a].kind = "reconcile" =>
       /\ a \in Runs /\ run[a].pc = "reporting" /\ tx[a].src = run[a].src
       /\ \A k \in tx[a].stale : imember[tx[a].src][k].active => k \in tx[a].istale

InstancesKnown ==
  \A s \in Sources, k \in Components :
    imember[s][k].active => imember[s][k].seen = member[s][k].seen

LEMMA KnownParts == Known <=> RunsKnown /\ (\A a \in Actors : PlanKnown(a)) /\ InstancesKnown
BY DEF Known, RunsKnown, PlanKnown, InstancesKnown

LEMMA RunsKnownStep == ASSUME TypeOK, Known, [Next]_vars PROVE RunsKnown'
<1>0. RunsKnown
  BY KnownParts
<1>1. CASE Looks \/ UNCHANGED vars
  BY <1>0, <1>1, LooksStep DEF RunsKnown, Remembered
<1>2. ASSUME NEW r \in Runs, Start(r) \/ Fail(r) PROVE RunsKnown'
  BY <1>0, <1>2, StartFailStep DEF RunsKnown
<1>3. ASSUME NEW r \in Runs, RegisterCommit(r) PROVE RunsKnown'
  BY <1>0, <1>3, RegisterCommitStep DEF RunsKnown, Remembered
<1>4. ASSUME NEW r \in Runs, ReconcileCommit(r) PROVE RunsKnown'
  BY <1>0, <1>4, ReconcileCommitStep DEF RunsKnown
<1>5. ASSUME NEW r \in Runs, NEW k \in Components, Asset(r, k) PROVE RunsKnown'
  <2>1. /\ source' = source /\ run'[r].pc = run[r].pc /\ run'[r].src = run[r].src
        /\ \A q \in Runs \ {r} : run'[q] = run[q]
    BY <1>5, AssetStep
  <2> QED BY <1>0, <2>1 DEF RunsKnown
<1>6. ASSUME NEW s \in Sources, RetireCommit(s) PROVE RunsKnown'
  BY <1>0, <1>6, RetireCommitStep DEF RunsKnown, Remembered
<1> QED BY <1>1, <1>2, <1>3, <1>4, <1>5, <1>6, NextCases

LEMMA InstancesKnownStep == ASSUME TypeOK, Known, [Next]_vars PROVE InstancesKnown'
<1>0. InstancesKnown
  BY KnownParts
<1>1. CASE Looks \/ UNCHANGED vars
  BY <1>0, <1>1, LooksStep DEF InstancesKnown, catalogVars
<1>2. ASSUME NEW r \in Runs, Start(r) \/ Fail(r) PROVE InstancesKnown'
  BY <1>0, <1>2, StartFailStep DEF InstancesKnown, catalogVars
<1>3. ASSUME NEW r \in Runs, RegisterCommit(r) PROVE InstancesKnown'
  BY <1>0, <1>3, RegisterCommitStep DEF InstancesKnown, catalogVars
<1>4. ASSUME NEW r \in Runs, ReconcileCommit(r) PROVE InstancesKnown'
  <2>1. /\ tx[r].src \in Sources
        /\ Dropped(member, tx[r].src, tx[r].stale) /\ Dropped(imember, tx[r].src, tx[r].istale)
    BY <1>4, ReconcileCommitStep
  <2> QED BY <1>0, <2>1 DEF InstancesKnown, Dropped
<1>5. ASSUME NEW r \in Runs, NEW k \in Components, Asset(r, k) PROVE InstancesKnown'
  <2>1. /\ run[r].src \in Sources
        /\ \A t \in Sources, j \in Components :
             t # run[r].src \/ j # k => member'[t][j] = member[t][j] /\ imember'[t][j] = imember[t][j]
        /\ member'[run[r].src][k].seen = r
        /\ WithInstance(run[r].src, r, k) \/ WithoutInstance(run[r].src, r, k)
    BY <1>5, AssetStep
  <2> QED BY <1>0, <2>1 DEF InstancesKnown, WithInstance, WithoutInstance
<1>6. ASSUME NEW s \in Sources, RetireCommit(s) PROVE InstancesKnown'
  BY <1>0, <1>6, RetireCommitStep DEF InstancesKnown
<1> QED BY <1>1, <1>2, <1>3, <1>4, <1>5, <1>6, NextCases

\* An open plan that the step leaves open.
LEMMA PlanKnownKept ==
  ASSUME NEW a \in Actors, PlanKnown(a), tx'[a] = tx[a],
         a \in Runs /\ tx[a].kind \in {"register", "reconcile"} =>
           run'[a].pc = run[a].pc /\ run'[a].src = run[a].src,
         a \in Runs /\ tx[a].kind = "reconcile" =>
           \A k \in tx[a].stale :
             imember'[tx[a].src][k].active /\ k \notin tx[a].istale => imember[tx[a].src][k].active
  PROVE  PlanKnown(a)'
BY DEF PlanKnown

LEMMA PlansKnownStep ==
  ASSUME TypeOK, Known, [Next]_vars, NEW a \in Actors PROVE PlanKnown(a)'
<1>0. PlanKnown(a) /\ Types /\ NoPlan.kind = "none" /\ InstancesKnown /\ Members
  BY KnownParts, TypeParts DEF NoPlan
<1>1. ASSUME tx'[a].kind \notin {"register", "reconcile"} PROVE PlanKnown(a)'
  BY <1>1 DEF PlanKnown
<1>2. CASE tx'[a] = tx[a] /\ UNCHANGED <<run, imember>>
  BY <1>0, <1>2, PlanKnownKept
<1>3. ASSUME NEW r \in Runs, RegisterRead(r) PROVE PlanKnown(a)'
  <2>1. /\ run' = run /\ imember' = imember /\ run[r].pc = "started" /\ tx'[r].kind = "register"
        /\ tx'[r].src \in Sources /\ \A b \in Actors \ {r} : tx'[b] = tx[b]
    BY <1>3, RegisterReadStep DEF catalogVars
  <2>2. CASE a = r
    BY <2>1, <2>2 DEF PlanKnown
  <2> QED BY <1>2, <2>1, <2>2
<1>4. ASSUME NEW r \in Runs, ReconcileRead(r) PROVE PlanKnown(a)'
  <2>1. /\ run' = run /\ imember' = imember /\ run[r].pc = "reporting" /\ run[r].src \in Sources
        /\ tx'[r].kind = "reconcile" /\ tx'[r].src = run[r].src
        /\ tx'[r].stale = Stale(member, run[r].src, r)
        /\ tx'[r].istale = Stale(imember, run[r].src, r)
        /\ \A b \in Actors \ {r} : tx'[b] = tx[b]
    BY <1>4, ReconcileReadStep DEF catalogVars
  <2>2. CASE a = r
    <3>1. ASSUME NEW k \in tx'[a].stale, imember[run[r].src][k].active PROVE k \in tx'[a].istale
      BY <1>0, <2>1, <2>2, <3>1 DEF Stale, Active, InstancesKnown
    <3> QED BY <2>1, <2>2, <3>1 DEF PlanKnown
  <2> QED BY <1>2, <2>1, <2>2
<1>5. ASSUME NEW s \in Sources, RetireRead(s) PROVE PlanKnown(a)'
  <2>1. /\ run' = run /\ imember' = imember /\ tx'[s].kind = "retire"
        /\ \A b \in Actors \ {s} : tx'[b] = tx[b]
    BY <1>5, RetireReadStep DEF catalogVars
  <2> QED BY <1>1, <1>2, <2>1
<1>6. ASSUME NEW c \in Configs, DeleteRead(c) PROVE PlanKnown(a)'
  <2>1. /\ run' = run /\ imember' = imember /\ tx'[c].kind = "delete"
        /\ \A b \in Actors \ {c} : tx'[b] = tx[b]
    BY <1>6, DeleteReadStep DEF catalogVars
  <2> QED BY <1>1, <1>2, <2>1
<1>7. ASSUME NEW s \in Sources, Reactivate(s) PROVE PlanKnown(a)'
  BY <1>2, <1>7, ReactivateStep DEF catalogVars
<1>8. ASSUME NEW c \in Configs, DeleteCommit(c) PROVE PlanKnown(a)'
  <2>1. /\ run' = run /\ imember' = imember /\ tx'[c] = NoPlan
        /\ \A b \in Actors \ {c} : tx'[b] = tx[b]
    BY <1>8, DeleteCommitStep DEF catalogVars
  <2> QED BY <1>0, <1>1, <1>2, <2>1
<1>9. ASSUME NEW s \in Sources, RetireCommit(s) PROVE PlanKnown(a)'
  <2>1. /\ run' = run /\ imember' = imember /\ tx'[s] = NoPlan
        /\ \A b \in Actors \ {s} : tx'[b] = tx[b]
    BY <1>9, RetireCommitStep
  <2> QED BY <1>0, <1>1, <1>2, <2>1
<1>10. ASSUME NEW r \in Runs, Start(r) \/ Fail(r) PROVE PlanKnown(a)'
  <2>1. /\ tx' = tx /\ imember' = imember
        /\ \/ run[r].pc = "idle"
           \/ run[r].pc \in {"started", "reporting"} /\ tx[r].kind = "none"
        /\ \A q \in Runs \ {r} : run'[q] = run[q]
    BY <1>10, StartFailStep DEF catalogVars
  <2>2. CASE a = r
    BY <1>0, <2>1, <2>2, PlanKnownKept DEF PlanKnown
  <2>3. CASE a # r
    BY <1>0, <2>1, <2>3, PlanKnownKept
  <2> QED BY <2>2, <2>3
<1>11. ASSUME NEW r \in Runs, RegisterCommit(r) PROVE PlanKnown(a)'
  <2>1. /\ tx'[r] = NoPlan /\ \A b \in Actors \ {r} : tx'[b] = tx[b]
        /\ imember' = imember
        /\ \A q \in Runs \ {r} : run'[q].pc = run[q].pc /\ run'[q].src = run[q].src
    BY <1>11, RegisterCommitStep DEF catalogVars
  <2> QED BY <1>0, <1>1, <2>1, PlanKnownKept
<1>12. ASSUME NEW r \in Runs, ReconcileCommit(r) PROVE PlanKnown(a)'
  <2>1. /\ tx'[r] = NoPlan /\ \A b \in Actors \ {r} : tx'[b] = tx[b]
        /\ tx[r].src \in Sources /\ Dropped(imember, tx[r].src, tx[r].istale)
        /\ \A q \in Runs \ {r} : run'[q] = run[q]
    BY <1>12, ReconcileCommitStep
  <2>2. CASE a # r
    <3>1. ASSUME a \in Runs, tx[a].kind = "reconcile", NEW k \in tx[a].stale,
                 imember'[tx[a].src][k].active
          PROVE  imember[tx[a].src][k].active
      <4>1. tx[a].src \in Sources /\ k \in Components
        BY <1>0, <3>1 DEF PlanKnown, Known, Types, Plan
      <4> QED BY <2>1, <3>1, <4>1 DEF Dropped
    <3> QED BY <1>0, <2>1, <2>2, <3>1, PlanKnownKept
  <2> QED BY <1>0, <1>1, <2>1, <2>2
<1>13. ASSUME NEW r \in Runs, NEW k \in Components, Asset(r, k) PROVE PlanKnown(a)'
  <2>1. /\ tx' = tx /\ ~MemberLocked(run[r].src, k) /\ run'[r].pc = run[r].pc
        /\ run'[r].src = run[r].src /\ \A q \in Runs \ {r} : run'[q] = run[q]
        /\ \A t \in Sources, j \in Components :
             t # run[r].src \/ j # k => imember'[t][j] = imember[t][j]
    BY <1>13, AssetStep
  <2>2. ASSUME a \in Runs, tx[a].kind = "reconcile", NEW j \in tx[a].stale
        PROVE  imember'[tx[a].src][j] = imember[tx[a].src][j]
    <3>1. tx[a].src \in Sources /\ j \in Components
      BY <1>0, <2>2 DEF PlanKnown, Known, Types, Plan
    <3>2. tx[a].src # run[r].src \/ j # k
      BY <2>1, <2>2 DEF MemberLocked, Open
    <3> QED BY <2>1, <3>1, <3>2
  <2> QED BY <1>0, <2>1, <2>2, PlanKnownKept
<1>14. UNCHANGED vars => tx'[a] = tx[a] /\ UNCHANGED <<run, imember>>
  BY DEF vars, catalogVars
<1> QED BY <1>2, <1>3, <1>4, <1>5, <1>6, <1>7, <1>8, <1>9, <1>10, <1>11, <1>12, <1>13, <1>14,
           NextCases DEF Looks, ConfigStep

LEMMA AliveStep == ASSUME TypeOK, Known, Alive, [Next]_vars PROVE Alive'
<1>0. Types
  BY TypeParts
<1>1. CASE Looks \/ UNCHANGED vars
  BY <1>1, LooksStep DEF Alive, catalogVars
<1>2. ASSUME NEW r \in Runs, Start(r) \/ Fail(r) PROVE Alive'
  BY <1>2, StartFailStep DEF Alive, catalogVars
<1>3. ASSUME NEW r \in Runs, RegisterCommit(r) PROVE Alive'
  BY <1>3, RegisterCommitStep DEF Alive, catalogVars
<1>4. ASSUME NEW r \in Runs, ReconcileCommit(r) PROVE Alive'
  <2>1. /\ tx[r].src \in Sources
        /\ Dropped(member, tx[r].src, tx[r].stale) /\ Dropped(imember, tx[r].src, tx[r].istale)
        /\ life' = LifeAfter(tx[r].comps) /\ inst' = InstAfter(tx[r].comps, tx[r].insts)
    BY <1>4, ReconcileCommitStep
  <2>2. \A k \in Components : (life'[k] = "none" <=> life[k] = "none")
                              /\ (inst'[k] = "none" <=> inst[k] = "none")
    BY <1>0, <2>1, LifeAfterType
  <2> QED BY <2>1, <2>2 DEF Alive, Dropped
<1>5. ASSUME NEW r \in Runs, NEW k \in Components, Asset(r, k) PROVE Alive'
  <2>1. /\ run[r].src \in Sources /\ life'[k] = "ACTIVE"
        /\ \A j \in Components \ {k} : life'[j] = life[j]
        /\ \A t \in Sources, j \in Components :
             t # run[r].src \/ j # k => member'[t][j] = member[t][j] /\ imember'[t][j] = imember[t][j]
        /\ \A j \in Components : inst'[j] = "none" => inst[j] = "none"
        /\ WithInstance(run[r].src, r, k) \/ WithoutInstance(run[r].src, r, k)
    BY <1>5, AssetStep
  <2>2. CASE WithInstance(run[r].src, r, k)
    BY <2>1, <2>2 DEF Alive, WithInstance
  <2>3. CASE WithoutInstance(run[r].src, r, k)
    BY <2>1, <2>3 DEF Alive, WithoutInstance
  <2> QED BY <2>1, <2>2, <2>3
<1>6. ASSUME NEW s \in Sources, RetireCommit(s) PROVE Alive'
  <2>1. UNCHANGED <<member, imember>> /\ life' = LifeAfter(tx[s].comps)
        /\ inst' = InstAfter(tx[s].comps, tx[s].insts)
    BY <1>6, RetireCommitStep
  <2>2. \A k \in Components : (life'[k] = "none" <=> life[k] = "none")
                              /\ (inst'[k] = "none" <=> inst[k] = "none")
    BY <1>0, <2>1, LifeAfterType
  <2> QED BY <2>1, <2>2 DEF Alive
<1> QED BY <1>1, <1>2, <1>3, <1>4, <1>5, <1>6, NextCases

LEMMA CatalogInit == Init => CatalogInv
<1> SUFFICES ASSUME Init PROVE CatalogInv
  OBVIOUS
<1>1. Types
  BY NoPlanType, NoRunType DEF Init, Types, SourceRow, Member, NoMember
<1>2. /\ \A s \in Sources, k \in Components : member[s][k] = NoMember /\ imember[s][k] = NoMember
      /\ \A r \in Runs : run[r].pc = "idle"
      /\ \A a \in Actors : tx[a].kind = "none"
  BY NoRunType DEF Init, NoPlan
<1>3. Members /\ Alive /\ Known
  BY <1>2 DEF Members, Alive, Known, NoMember
<1> QED BY <1>1, <1>3, TypeParts DEF CatalogInv

LEMMA CatalogStep == ASSUME CatalogInv, [Next]_vars PROVE CatalogInv'
<1>1. TypeOK /\ Known /\ Alive
  BY DEF CatalogInv
<1>2. TypeOK'
  BY <1>1, MembersStep DEF TypeOK, Types, Members
<1>3. Known'
  BY <1>1, RunsKnownStep, PlansKnownStep, InstancesKnownStep
  DEF Known, RunsKnown, PlanKnown, InstancesKnown, Actors
<1> QED BY <1>1, <1>2, <1>3, AliveStep DEF CatalogInv

\* The rows and the open transactions have their types; a membership was seen by a run of a
\* registered source, and nobody reports an instance without its component.
THEOREM TypeInvariant == Spec => []TypeOK
<1>1. CatalogInv => TypeOK
  BY DEF CatalogInv
<1> QED BY CatalogInit, CatalogStep, <1>1, PTL DEF Spec
-----------------------------------------------------------------------------
(* A run without a companion.                                              *)

\* Alone in parts.
Unmarked(r) ==
  run[r].pc \in {"idle", "started"} =>
    run[r].yielded = {} /\ \A s \in Sources, k \in Components : member[s][k].seen # r

Marked(r) ==
  run[r].pc = "reporting" /\ run[r].solo =>
    /\ Companions(r, run[r].src) = {}
    /\ \A k \in Components : member[run[r].src][k].active /\ member[run[r].src][k].seen = r
                               <=> k \in run[r].yielded

StaleKept(r) ==
  tx[r].kind = "reconcile" /\ run[r].solo => tx[r].stale = Stale(member, run[r].src, r)

LEMMA AloneParts == Alone <=> \A r \in Runs : Unmarked(r) /\ Marked(r) /\ StaleKept(r)
BY DEF Alone, Unmarked, Marked, StaleKept

\* A solo run has its source to itself.
LEMMA OwnRow ==
  ASSUME NEW r \in Runs, NEW q \in Runs, q # r, Marked(r), run[r].solo,
         run[r].pc = "reporting", run[q].pc = "reporting"
  PROVE  run[q].src # run[r].src
BY DEF Marked, Companions

\* The parts of a run that the step does not touch.
LEMMA AloneKept ==
  ASSUME NEW r \in Runs, Unmarked(r), Marked(r), StaleKept(r),
         run'[r].pc = run[r].pc, run'[r].src = run[r].src, run'[r].yielded = run[r].yielded,
         run'[r].solo => run[r].solo,
         run[r].pc \in {"idle", "started"} =>
           \A s \in Sources, k \in Components : member[s][k].seen # r => member'[s][k].seen # r,
         run[r].pc = "reporting" /\ run'[r].solo =>
           /\ \A q \in Runs : q # r /\ run'[q].pc = "reporting" /\ run'[q].src = run[r].src =>
                run[q].pc = "reporting" /\ run[q].src = run[r].src
           /\ member'[run[r].src] = member[run[r].src],
         tx[r].kind = "reconcile" => run[r].pc = "reporting",
         tx'[r].kind = "reconcile" => tx'[r] = tx[r]
  PROVE  Unmarked(r)' /\ Marked(r)' /\ StaleKept(r)'
<1>1. Unmarked(r)'
  BY DEF Unmarked
<1>2. Marked(r)'
  BY DEF Marked, Companions
<1>3. StaleKept(r)'
  BY DEF StaleKept, Stale, Active
<1> QED BY <1>1, <1>2, <1>3

LEMMA AloneStep ==
  ASSUME CatalogInv, Alone, [Next]_vars, NEW r \in Runs
  PROVE  Unmarked(r)' /\ Marked(r)' /\ StaleKept(r)'
<1>0. /\ TypeOK /\ Known /\ \A q \in Runs : Unmarked(q) /\ Marked(q) /\ StaleKept(q)
      /\ r \in Actors /\ NoPlan.kind = "none"
      /\ tx[r].kind = "reconcile" => run[r].pc = "reporting"
  BY AloneParts DEF CatalogInv, Actors, Known, NoPlan
<1>1. ASSUME UNCHANGED <<run, member>>, tx'[r].kind = "reconcile" => tx'[r] = tx[r]
      PROVE  Unmarked(r)' /\ Marked(r)' /\ StaleKept(r)'
  BY <1>0, <1>1, AloneKept
<1>2. CASE UNCHANGED vars
  BY <1>1, <1>2 DEF vars, catalogVars
<1>3. ASSUME NEW q \in Runs, RegisterRead(q) PROVE Unmarked(r)' /\ Marked(r)' /\ StaleKept(r)'
  BY <1>0, <1>1, <1>3, RegisterReadStep DEF catalogVars
<1>4. ASSUME NEW q \in Runs, ReconcileRead(q) PROVE Unmarked(r)' /\ Marked(r)' /\ StaleKept(r)'
  <2>1. /\ UNCHANGED <<run, member>> /\ tx'[q].stale = Stale(member, run[q].src, q)
        /\ \A b \in Actors \ {q} : tx'[b] = tx[b]
    BY <1>0, <1>4, ReconcileReadStep DEF catalogVars
  <2>2. CASE q = r
    <3>1. Unmarked(r)' /\ Marked(r)'
      BY <1>0, <2>1 DEF Unmarked, Marked, Companions
    <3>2. StaleKept(r)'
      BY <2>1, <2>2 DEF StaleKept, Stale, Active
    <3> QED BY <3>1, <3>2
  <2> QED BY <1>0, <1>1, <2>1, <2>2
<1>5. ASSUME NEW s \in Sources, RetireRead(s) PROVE Unmarked(r)' /\ Marked(r)' /\ StaleKept(r)'
  BY <1>0, <1>1, <1>5, RetireReadStep DEF catalogVars
<1>6. ASSUME NEW s \in Sources, Reactivate(s) PROVE Unmarked(r)' /\ Marked(r)' /\ StaleKept(r)'
  BY <1>0, <1>1, <1>6, ReactivateStep DEF catalogVars
<1>7. ASSUME NEW c \in Configs, DeleteRead(c) PROVE Unmarked(r)' /\ Marked(r)' /\ StaleKept(r)'
  BY <1>0, <1>1, <1>7, DeleteReadStep DEF catalogVars
<1>8. ASSUME NEW c \in Configs, DeleteCommit(c) PROVE Unmarked(r)' /\ Marked(r)' /\ StaleKept(r)'
  BY <1>0, <1>1, <1>8, DeleteCommitStep DEF catalogVars
<1>9. ASSUME NEW s \in Sources, RetireCommit(s) PROVE Unmarked(r)' /\ Marked(r)' /\ StaleKept(r)'
  BY <1>0, <1>1, <1>9, RetireCommitStep
<1>10. ASSUME NEW q \in Runs, Start(q) \/ Fail(q)
       PROVE  Unmarked(r)' /\ Marked(r)' /\ StaleKept(r)'
  <2>1. /\ tx' = tx /\ member' = member
        /\ \/ /\ run[q].pc = "idle" /\ run'[q].pc = "started"
              /\ run'[q].src = run[q].src /\ run'[q].yielded = run[q].yielded
           \/ tx[q].kind = "none" /\ run'[q].pc = "over"
        /\ \A p \in Runs \ {q} : run'[p] = run[p]
    BY <1>0, <1>10, StartFailStep DEF catalogVars
  <2>2. CASE q = r
    <3>1. Unmarked(r)'
      BY <1>0, <2>1, <2>2 DEF Unmarked
    <3>2. Marked(r)'
      BY <2>1, <2>2 DEF Marked
    <3>3. StaleKept(r)'
      BY <1>0, <2>1, <2>2 DEF StaleKept
    <3> QED BY <3>1, <3>2, <3>3
  <2>3. CASE q # r
    BY <1>0, <2>1, <2>3, AloneKept
  <2> QED BY <2>2, <2>3
<1>11. ASSUME NEW q \in Runs, RegisterCommit(q)
       PROVE  Unmarked(r)' /\ Marked(r)' /\ StaleKept(r)'
  <2>1. /\ run[q].pc = "started" /\ run'[q].pc = "reporting" /\ run'[q].yielded = run[q].yielded
        /\ run'[q].solo <=> Companions(q, run'[q].src) = {}
        /\ run'[q].src \in Sources
        /\ \A p \in Runs \ {q} :
              /\ run'[p].pc = run[p].pc /\ run'[p].src = run[p].src
              /\ run'[p].yielded = run[p].yielded
              /\ run'[p].solo <=> run[p].solo /\ p \notin Companions(q, run'[q].src)
        /\ tx'[q] = NoPlan /\ \A b \in Actors \ {q} : tx'[b] = tx[b]
        /\ member' = member
    BY <1>0, <1>11, RegisterCommitStep DEF catalogVars
  <2>2. CASE q = r
    <3>1. Unmarked(r)'
      BY <2>1, <2>2 DEF Unmarked
    <3>2. Marked(r)'
      <4>1. {p \in Runs \ {r} : run'[p].pc = "reporting" /\ run'[p].src = run'[r].src}
              = Companions(r, run'[r].src)
        BY <2>1, <2>2 DEF Companions
      <4>2. run'[r].solo => Companions(r, run[r].src)' = {}
        BY <2>1, <2>2, <4>1 DEF Companions
      <4>3. run'[r].yielded = {} /\ \A k \in Components : member'[run'[r].src][k].seen # r
        BY <1>0, <2>1, <2>2 DEF Unmarked
      <4> QED BY <4>2, <4>3 DEF Marked
    <3>3. StaleKept(r)'
      BY <1>0, <2>1, <2>2 DEF StaleKept
    <3> QED BY <3>1, <3>2, <3>3
  <2>3. CASE q # r
    <3>1. ASSUME run[r].pc = "reporting", run'[r].solo, NEW p \in Runs, p # r,
                 run'[p].pc = "reporting", run'[p].src = run[r].src
          PROVE  run[p].pc = "reporting" /\ run[p].src = run[r].src
      BY <2>1, <2>3, <3>1 DEF Companions
    <3> QED BY <1>0, <2>1, <2>3, <3>1, AloneKept
  <2> QED BY <2>2, <2>3
<1>12. ASSUME NEW q \in Runs, ReconcileCommit(q)
       PROVE  Unmarked(r)' /\ Marked(r)' /\ StaleKept(r)'
  <2>1. /\ run[q].pc = "reporting" /\ tx[q].src = run[q].src /\ run[q].src \in Sources
        /\ Dropped(member, run[q].src, tx[q].stale)
        /\ run'[q].pc = "over" /\ tx'[q] = NoPlan
        /\ \A p \in Runs \ {q} : run'[p] = run[p]
        /\ \A b \in Actors \ {q} : tx'[b] = tx[b]
    BY <1>0, <1>12, ReconcileCommitStep
  <2>2. CASE q = r
    BY <1>0, <2>1, <2>2 DEF Unmarked, Marked, StaleKept
  <2>3. CASE q # r
    <3>1. \A s \in Sources, k \in Components : member'[s][k].seen = member[s][k].seen
      BY <2>1 DEF Dropped
    <3>2. run[r].pc = "reporting" => run[r].src \in Sources
      BY <1>0 DEF Known
    <3>3. run[r].pc = "reporting" /\ run[r].solo => member'[run[r].src] = member[run[r].src]
      BY <1>0, <2>1, <2>3, <3>2, OwnRow DEF Dropped
    <3> QED BY <1>0, <2>1, <2>3, <3>1, <3>3, AloneKept
  <2> QED BY <2>2, <2>3
<1>13. ASSUME NEW q \in Runs, NEW k \in Components, Asset(q, k)
       PROVE  Unmarked(r)' /\ Marked(r)' /\ StaleKept(r)'
  <2>1. /\ run[q].pc = "reporting" /\ run[q].src \in Sources /\ tx[q].kind = "none" /\ tx' = tx
        /\ \A t \in Sources, j \in Components :
             t # run[q].src \/ j # k => member'[t][j] = member[t][j]
        /\ member'[run[q].src][k].active /\ member'[run[q].src][k].seen = q
        /\ run'[q].pc = run[q].pc /\ run'[q].src = run[q].src
        /\ run'[q].yielded = run[q].yielded \union {k} /\ (run'[q].solo <=> run[q].solo)
        /\ \A p \in Runs \ {q} : run'[p] = run[p]
        /\ Types /\ Types'
    BY <1>0, <1>13, AssetStep, TypeParts
  <2>2. CASE q = r
    <3>1. Unmarked(r)'
      BY <2>1, <2>2 DEF Unmarked
    <3>2. Marked(r)'
      <4>1. Companions(r, run[r].src)' = Companions(r, run[r].src)
        BY <2>1, <2>2 DEF Companions
      <4>2. \A j \in Components \ {k} : member'[run[r].src][j] = member[run[r].src][j]
        BY <2>1, <2>2
      <4> QED BY <1>0, <2>1, <2>2, <4>1, <4>2 DEF Marked
    <3>3. StaleKept(r)'
      BY <2>1, <2>2 DEF StaleKept
    <3> QED BY <3>1, <3>2, <3>3
  <2>3. CASE q # r
    <3>1. \A s \in Sources, j \in Components : member[s][j].seen # r => member'[s][j].seen # r
      BY <2>1, <2>3
    <3>2. run[r].pc = "reporting" => run[r].src \in Sources
      BY <1>0 DEF Known
    <3>3. run[r].pc = "reporting" /\ run[r].solo => member'[run[r].src] = member[run[r].src]
      <4>1. ASSUME run[r].pc = "reporting", run[r].solo
            PROVE  member'[run[r].src] = member[run[r].src]
        <5>1. run[q].src # run[r].src
          BY <1>0, <2>1, <2>3, <4>1, OwnRow
        <5>2. \A j \in Components : member'[run[r].src][j] = member[run[r].src][j]
          BY <2>1, <3>2, <4>1, <5>1
        <5>3. /\ member[run[r].src] \in [Components -> Member]
              /\ member'[run[r].src] \in [Components -> Member]
          BY <2>1, <3>2, <4>1 DEF Types
        <5> QED BY <5>2, <5>3
      <4> QED BY <4>1
    <3> QED BY <1>0, <2>1, <2>3, <3>1, <3>3, AloneKept
  <2> QED BY <2>2, <2>3
<1> QED BY <1>2, <1>3, <1>4, <1>5, <1>6, <1>7, <1>8, <1>9, <1>10, <1>11, <1>12, <1>13,
           NextCases DEF Looks, ConfigStep

\* What a solo run leaves, in a step of the specification.
SoloStep ==
  \A r \in Runs :
    run[r].solo /\ tx[r].kind = "reconcile" /\ run'[r].pc = "over" =>
      Active(member', run[r].src) = run[r].yielded

LEMMA SoloStepHolds == ASSUME CatalogInv, Alone, [Next]_vars PROVE SoloStep
<1> SUFFICES ASSUME NEW r \in Runs,
                    run[r].solo, tx[r].kind = "reconcile", run'[r].pc = "over"
             PROVE  Active(member', run[r].src) = run[r].yielded
  BY DEF SoloStep
<1>0. /\ TypeOK /\ Known /\ Marked(r) /\ StaleKept(r) /\ r \in Actors
      /\ run[r].pc = "reporting" /\ run[r].src \in Sources /\ run[r].yielded \subseteq Components
  BY AloneParts DEF CatalogInv, Actors, Known, TypeOK, Run
<1>1. ReconcileCommit(r)
  <2>1. CASE Looks \/ UNCHANGED vars
    BY <1>0, <2>1, LooksStep
  <2>2. ASSUME NEW q \in Runs, Start(q) \/ Fail(q) PROVE ReconcileCommit(r)
    BY <1>0, <2>2, StartFailStep
  <2>3. ASSUME NEW q \in Runs, RegisterCommit(q) PROVE ReconcileCommit(r)
    BY <1>0, <2>3, RegisterCommitStep
  <2>4. ASSUME NEW q \in Runs, ReconcileCommit(q) PROVE ReconcileCommit(r)
    BY <1>0, <2>4, ReconcileCommitStep
  <2>5. ASSUME NEW q \in Runs, NEW k \in Components, Asset(q, k) PROVE ReconcileCommit(r)
    BY <1>0, <2>5, AssetStep
  <2>6. ASSUME NEW s \in Sources, RetireCommit(s) PROVE ReconcileCommit(r)
    BY <1>0, <2>6, RetireCommitStep
  <2> QED BY <2>1, <2>2, <2>3, <2>4, <2>5, <2>6, NextCases
<1>2. Dropped(member, run[r].src, Stale(member, run[r].src, r))
  BY <1>0, <1>1, ReconcileCommitStep DEF StaleKept
<1>3. \A k \in Components :
        member'[run[r].src][k].active <=> member[run[r].src][k].active /\ member[run[r].src][k].seen = r
  BY <1>2 DEF Dropped, Stale, Active
<1> QED BY <1>0, <1>3 DEF Active, Marked

\* A completed run that no other run of its source overlapped leaves exactly the components
\* it yielded, whatever the operator and the runs of other sources did meanwhile.
THEOREM SoloRunIsExactHolds == Spec => SoloRunIsExact
<1>1. Init => Alone
  <2>1. Init => /\ \A s \in Sources, k \in Components : member[s][k] = NoMember
                /\ \A r \in Runs : run[r].pc = "idle" /\ run[r].yielded = {} /\ tx[r].kind = "none"
    BY NoRunType DEF Init, NoPlan, Actors
  <2>2. NoMember.seen \notin Runs
    BY NoneAssumption DEF NoMember
  <2> QED BY <2>1, <2>2 DEF Alone
<1>2. CatalogInv /\ Alone /\ [Next]_vars => Alone'
  BY AloneStep, AloneParts DEF Unmarked, Marked, StaleKept, Alone
<1>3. CatalogInv /\ Alone /\ [Next]_vars => [SoloStep]_vars
  BY SoloStepHolds
<1>4. Init => CatalogInv
  BY CatalogInit
<1>5. CatalogInv /\ [Next]_vars => CatalogInv'
  BY CatalogStep
<1>6. Spec => [][SoloStep]_vars
  BY <1>1, <1>2, <1>3, <1>4, <1>5, PTL DEF Spec
<1> QED BY <1>6 DEF SoloRunIsExact, SoloStep
-----------------------------------------------------------------------------
(* The plans of reconciliations and retirements.                           *)

\* What a transaction decided against what it had seen, and keeps until it commits.
PlanSound(a) ==
  tx[a].kind \in {"reconcile", "retire"} =>
    /\ \A k \in tx[a].comps : tx[a].saw[k] \subseteq {tx[a].src}
    /\ \A k \in tx[a].insts : tx[a].isaw[k] \subseteq {tx[a].src}
    /\ \A k \in Components : tx[a].isaw[k] \subseteq tx[a].saw[k]
    /\ tx[a].kind = "retire" => tx[a].src = a
    /\ tx[a].kind = "reconcile" =>
         /\ tx[a].comps \subseteq tx[a].stale /\ tx[a].insts \subseteq tx[a].istale
         /\ \A k \in tx[a].stale \ tx[a].comps : tx[a].saw[k] \ {tx[a].src} # {}
         /\ \A k \in tx[a].istale \ tx[a].insts : tx[a].isaw[k] \ {tx[a].src} # {}

PlansSound == \A a \in Actors : PlanSound(a)

\* What Unreported picks, in terms of the reporters a transaction sees.
LEMMA UnreportedSeen ==
  ASSUME NEW s \in Sources, NEW K \in SUBSET Components, NEW k \in K
  PROVE  /\ k \in Unreported(s, K) <=> Reporters(member)[k] \subseteq {s}
         /\ k \in IUnreported(s, K) <=> Reporters(imember)[k] \subseteq {s}
BY DEF Unreported, IUnreported, ReportedBy, IReportedBy, Reporters

LEMMA SeenBoth ==
  ASSUME Members, NEW k \in Components PROVE Reporters(imember)[k] \subseteq Reporters(member)[k]
BY DEF Members, Reporters

\* A plan changes when it is made and when it is done.
LEMMA PlanMoves ==
  ASSUME TypeOK, Known, [Next]_vars, NEW a \in Actors
  PROVE  \/ tx'[a] = tx[a] \/ tx'[a] = NoPlan \/ tx'[a].kind \in {"register", "delete"}
         \/ a \in Runs /\ ReconcileRead(a)
         \/ a \in Sources /\ RetireRead(a)
<1>1. ASSUME NEW r \in Runs, Start(r) \/ Fail(r) PROVE tx' = tx
  BY <1>1, StartFailStep
<1>2. ASSUME NEW r \in Runs, RegisterRead(r)
      PROVE  tx'[r].kind = "register" /\ \A b \in Actors \ {r} : tx'[b] = tx[b]
  BY <1>2, RegisterReadStep
<1>3. ASSUME NEW r \in Runs, ReconcileRead(r) PROVE \A b \in Actors \ {r} : tx'[b] = tx[b]
  BY <1>3, ReconcileReadStep
<1>4. ASSUME NEW s \in Sources, RetireRead(s) PROVE \A b \in Actors \ {s} : tx'[b] = tx[b]
  BY <1>4, RetireReadStep
<1>5. ASSUME NEW s \in Sources, Reactivate(s) PROVE tx' = tx
  BY <1>5, ReactivateStep
<1>6. ASSUME NEW c \in Configs, DeleteRead(c)
      PROVE  tx'[c].kind = "delete" /\ \A b \in Actors \ {c} : tx'[b] = tx[b]
  BY <1>6, DeleteReadStep
<1>7. ASSUME NEW c \in Configs, DeleteCommit(c)
      PROVE  tx'[c] = NoPlan /\ \A b \in Actors \ {c} : tx'[b] = tx[b]
  BY <1>7, DeleteCommitStep
<1>8. ASSUME NEW s \in Sources, RetireCommit(s)
      PROVE  tx'[s] = NoPlan /\ \A b \in Actors \ {s} : tx'[b] = tx[b]
  BY <1>8, RetireCommitStep
<1>9. ASSUME NEW r \in Runs, RegisterCommit(r)
      PROVE  tx'[r] = NoPlan /\ \A b \in Actors \ {r} : tx'[b] = tx[b]
  BY <1>9, RegisterCommitStep
<1>10. ASSUME NEW r \in Runs, ReconcileCommit(r)
       PROVE  tx'[r] = NoPlan /\ \A b \in Actors \ {r} : tx'[b] = tx[b]
  BY <1>10, ReconcileCommitStep
<1>11. ASSUME NEW r \in Runs, NEW k \in Components, Asset(r, k) PROVE tx' = tx
  BY <1>11, AssetStep
<1>12. UNCHANGED vars => tx' = tx
  BY DEF vars
<1> QED BY <1>1, <1>2, <1>3, <1>4, <1>5, <1>6, <1>7, <1>8, <1>9, <1>10, <1>11, <1>12, NextCases
        DEF Looks, ConfigStep

LEMMA PlansSoundStep == ASSUME CatalogInv, PlansSound, [Next]_vars PROVE PlansSound'
<1> SUFFICES ASSUME NEW a \in Actors PROVE PlanSound(a)'
  BY DEF PlansSound, Actors
<1>0. TypeOK /\ Known /\ Members /\ PlanSound(a) /\ NoPlan.kind = "none"
  BY TypeParts DEF CatalogInv, PlansSound, NoPlan
<1>1. CASE tx'[a] = tx[a]
  BY <1>0, <1>1 DEF PlanSound
<1>2. CASE tx'[a] = NoPlan \/ tx'[a].kind \in {"register", "delete"}
  BY <1>0, <1>2 DEF PlanSound
<1>3. CASE a \in Runs /\ ReconcileRead(a)
  <2> DEFINE s == run[a].src
  <2>1. /\ s \in Sources /\ tx'[a].kind = "reconcile" /\ tx'[a].src = s
        /\ tx'[a].stale = Stale(member, s, a) /\ tx'[a].istale = Stale(imember, s, a)
        /\ tx'[a].comps = Unreported(s, tx'[a].stale)
        /\ tx'[a].insts = IUnreported(s, tx'[a].istale)
        /\ tx'[a].saw = Reporters(member) /\ tx'[a].isaw = Reporters(imember)
    BY <1>0, <1>3, ReconcileReadStep
  <2> HIDE DEF s
  <2>2. /\ tx'[a].stale \in SUBSET Components /\ tx'[a].istale \in SUBSET Components
        /\ tx'[a].comps \in SUBSET tx'[a].stale /\ tx'[a].insts \in SUBSET tx'[a].istale
    BY <2>1 DEF Stale, Active, Unreported, IUnreported
  <2>3. \A k \in tx'[a].stale : k \in tx'[a].comps <=> tx'[a].saw[k] \subseteq {s}
    BY <2>1, <2>2, UnreportedSeen
  <2>4. \A k \in tx'[a].istale : k \in tx'[a].insts <=> tx'[a].isaw[k] \subseteq {s}
    BY <2>1, <2>2, UnreportedSeen
  <2>5. \A k \in Components : tx'[a].isaw[k] \subseteq tx'[a].saw[k]
    BY <1>0, <2>1, SeenBoth
  <2> QED BY <2>1, <2>2, <2>3, <2>4, <2>5 DEF PlanSound
<1>4. CASE a \in Sources /\ RetireRead(a)
  <2>1. /\ tx'[a].kind = "retire" /\ tx'[a].src = a
        /\ tx'[a].comps = Unreported(a, Active(member, a))
        /\ tx'[a].insts = IUnreported(a, Active(imember, a))
        /\ tx'[a].saw = Reporters(member) /\ tx'[a].isaw = Reporters(imember)
    BY <1>0, <1>4, RetireReadStep
  <2>2. /\ Active(member, a) \in SUBSET Components /\ Active(imember, a) \in SUBSET Components
        /\ tx'[a].comps \in SUBSET Active(member, a) /\ tx'[a].insts \in SUBSET Active(imember, a)
    BY <2>1 DEF Stale, Active, Unreported, IUnreported
  <2>3. \A k \in tx'[a].comps : tx'[a].saw[k] \subseteq {a}
    BY <1>4, <2>1, <2>2, UnreportedSeen
  <2>4. \A k \in tx'[a].insts : tx'[a].isaw[k] \subseteq {a}
    BY <1>4, <2>1, <2>2, UnreportedSeen
  <2>5. \A k \in Components : tx'[a].isaw[k] \subseteq tx'[a].saw[k]
    BY <1>0, <2>1, SeenBoth
  <2> QED BY <2>1, <2>3, <2>4, <2>5 DEF PlanSound
<1> QED BY <1>0, <1>1, <1>2, <1>3, <1>4, PlanMoves

LEMMA PlansSoundInit == Init => PlansSound
BY DEF Init, PlansSound, PlanSound, NoPlan

\* The conjuncts of the two properties, for a component and a source.
Overruled(k, s) ==
  /\ life[k] = "ACTIVE" /\ life'[k] = "RETIRED" /\ ReportedBy({s}, k)' =>
       \E a \in Actors : Closes(a) /\ s \notin tx[a].saw[k]
  /\ inst[k] = "up" /\ inst'[k] = "GONE" /\ IReportedBy({s}, k)' =>
       \E a \in Actors : Closes(a) /\ s \notin tx[a].isaw[k]

Covered(s, k) ==
  member[s][k].active /\ ~member'[s][k].active =>
    \/ life'[k] = "RETIRED" \/ ReportedBy(Sources, k)'
    \/ \E a \in Actors : Closes(a) /\ tx[a].saw[k] \ {s} # {}

ICovered(s, k) ==
  imember[s][k].active /\ ~imember'[s][k].active =>
    \/ inst'[k] = "GONE" \/ IReportedBy(Sources, k)'
    \/ \E a \in Actors : Closes(a) /\ tx[a].isaw[k] \ {s} # {}

\* Retirement and disappearance, of what the plan names.
LEMMA AfterPlan ==
  ASSUME Types, NEW k \in Components, NEW K, NEW I,
         life' = LifeAfter(K), inst' = InstAfter(K, I)
  PROVE  /\ life[k] = "ACTIVE" /\ life'[k] = "RETIRED" => k \in K
         /\ inst[k] = "up" /\ inst'[k] = "GONE" => k \in I \/ k \in K
         /\ k \in K /\ life[k] # "none" => life'[k] = "RETIRED"
         /\ k \in I /\ inst[k] # "none" => inst'[k] = "GONE"
BY DEF Types, LifeAfter, InstAfter, Retired

LEMMA ByReconcile ==
  ASSUME CatalogInv, PlansSound, NEW r \in Runs, ReconcileCommit(r),
         NEW k \in Components, NEW s \in Sources
  PROVE  Overruled(k, s) /\ Covered(s, k) /\ ICovered(s, k)
<1>1. /\ Types /\ Known /\ Alive /\ r \in Actors /\ PlanSound(r)
      /\ tx[r].kind = "reconcile" /\ tx[r].src \in Sources /\ source' = source
      /\ Dropped(member, tx[r].src, tx[r].stale) /\ Dropped(imember, tx[r].src, tx[r].istale)
      /\ life' = LifeAfter(tx[r].comps) /\ inst' = InstAfter(tx[r].comps, tx[r].insts)
      /\ Closes(r)
  BY ReconcileCommitStep, TypeParts DEF CatalogInv, PlansSound, Actors, Closes, NoPlan
<1>2. ASSUME k \in tx[r].comps, ReportedBy({s}, k)' PROVE s \notin tx[r].saw[k]
  <2>1. s # tx[r].src
    BY <1>1, <1>2 DEF PlanSound, ReportedBy, Dropped
  <2> QED BY <1>1, <1>2, <2>1 DEF PlanSound
<1>3. ASSUME k \in tx[r].insts, IReportedBy({s}, k)' PROVE s \notin tx[r].isaw[k]
  <2>1. s # tx[r].src
    BY <1>1, <1>3 DEF PlanSound, IReportedBy, Dropped
  <2> QED BY <1>1, <1>3, <2>1 DEF PlanSound
<1>4. ASSUME k \in tx[r].comps, IReportedBy({s}, k)' PROVE s \notin tx[r].isaw[k]
  <2>1. k \in tx[r].stale /\ tx[r].saw[k] \subseteq {tx[r].src} /\ tx[r].isaw[k] \subseteq tx[r].saw[k]
    BY <1>1, <1>4 DEF PlanSound
  <2>2. imember[tx[r].src][k].active => k \in tx[r].istale
    BY <1>1, <2>1 DEF Known
  <2>3. s # tx[r].src
    BY <1>1, <1>4, <2>2 DEF IReportedBy, Dropped
  <2> QED BY <2>1, <2>3
<1>5. Overruled(k, s)
  BY <1>1, <1>2, <1>3, <1>4, AfterPlan DEF Overruled
<1>6. ASSUME member[s][k].active, ~member'[s][k].active
      PROVE  life'[k] = "RETIRED" \/ tx[r].saw[k] \ {s} # {}
  <2>1. s = tx[r].src /\ k \in tx[r].stale /\ life[k] # "none"
    BY <1>1, <1>6 DEF Dropped, Alive
  <2> QED BY <1>1, <2>1, AfterPlan DEF PlanSound
<1>7. ASSUME imember[s][k].active, ~imember'[s][k].active
      PROVE  inst'[k] = "GONE" \/ tx[r].isaw[k] \ {s} # {}
  <2>1. s = tx[r].src /\ k \in tx[r].istale /\ inst[k] # "none"
    BY <1>1, <1>7 DEF Dropped, Alive
  <2> QED BY <1>1, <2>1, AfterPlan DEF PlanSound
<1> QED BY <1>1, <1>5, <1>6, <1>7 DEF Covered, ICovered

LEMMA ByRetire ==
  ASSUME CatalogInv, PlansSound, NEW t \in Sources, RetireCommit(t),
         NEW k \in Components, NEW s \in Sources
  PROVE  Overruled(k, s) /\ Covered(s, k) /\ ICovered(s, k)
<1>1. /\ Types /\ t \in Actors /\ PlanSound(t)
      /\ tx[t].kind = "retire" /\ UNCHANGED <<member, imember>> /\ source'[t].status = "RETIRED"
      /\ life' = LifeAfter(tx[t].comps) /\ inst' = InstAfter(tx[t].comps, tx[t].insts)
      /\ Closes(t)
  BY RetireCommitStep, TypeParts DEF CatalogInv, PlansSound, Actors, Closes, NoPlan
<1>2. ReportedBy({s}, k)' \/ IReportedBy({s}, k)' => s # t
  BY <1>1 DEF ReportedBy, IReportedBy, Counts
<1>3. /\ k \in tx[t].comps => tx[t].saw[k] \subseteq {t} /\ tx[t].isaw[k] \subseteq {t}
      /\ k \in tx[t].insts => tx[t].isaw[k] \subseteq {t}
  BY <1>1 DEF PlanSound
<1>4. Overruled(k, s)
  BY <1>1, <1>2, <1>3, AfterPlan DEF Overruled
<1> QED BY <1>1, <1>4 DEF Covered, ICovered

LEMMA ByAsset ==
  ASSUME CatalogInv, NEW r \in Runs, NEW j \in Components, Asset(r, j),
         NEW k \in Components, NEW t \in Sources
  PROVE  Overruled(k, t) /\ Covered(t, k) /\ ICovered(t, k)
<1> DEFINE s == run[r].src
           dropped == {j} \intersect Stale(imember, s, r)
<1>1. /\ s \in Sources /\ source' = source /\ life'[j] = "ACTIVE"
      /\ \A i \in Components \ {j} : life'[i] = life[i]
      /\ \A u \in Sources, i \in Components :
           u # s \/ i # j => member'[u][i] = member[u][i] /\ imember'[u][i] = imember[u][i]
      /\ member'[s][j].active
      /\ WithInstance(s, r, j) \/ WithoutInstance(s, r, j)
      /\ Types
  BY AssetStep, TypeParts DEF CatalogInv
<1> HIDE DEF s
<1>2. Covered(t, k) /\ ~(life[k] = "ACTIVE" /\ life'[k] = "RETIRED")
  BY <1>1 DEF Covered
<1>3. CASE WithInstance(s, r, j)
  <2>1. ~(inst[k] = "up" /\ inst'[k] = "GONE")
    BY <1>1, <1>3 DEF WithInstance, Types
  <2>2. ICovered(t, k)
    BY <1>1, <1>3 DEF ICovered, WithInstance
  <2> QED BY <1>2, <2>1, <2>2 DEF Overruled
<1>4. CASE WithoutInstance(s, r, j)
  <2>1. inst' = InstAfter({}, IUnreported(s, dropped))
    BY <1>4 DEF WithoutInstance
  <2>2. \A i \in Components : inst'[i] =
          IF i \in IUnreported(s, dropped) /\ inst[i] # "none" THEN "GONE" ELSE inst[i]
    BY <2>1 DEF InstAfter, Retired
  <2>3. j \in dropped => ~imember'[s][j].active
    BY <1>1, <1>4 DEF WithoutInstance, Stale
  <2>4. k \in IUnreported(s, dropped) => ~IReportedBy({t}, k)'
    BY <1>1, <2>3 DEF IUnreported, IReportedBy, Counts
  <2>5. Overruled(k, t)
    BY <1>2, <2>2, <2>4 DEF Overruled
  <2>6. ASSUME imember[t][k].active, ~imember'[t][k].active
        PROVE  inst'[k] = "GONE" \/ IReportedBy(Sources, k)'
    <3>1. t = s /\ k = j /\ k \in dropped
      BY <1>1, <1>4, <2>6 DEF WithoutInstance, Stale, Active
    <3>2. inst[k] # "none"
      BY <2>6 DEF CatalogInv, Alive
    <3>3. CASE k \in IUnreported(s, dropped)
      BY <2>2, <3>2, <3>3
    <3>4. CASE k \notin IUnreported(s, dropped)
      <4>1. IReportedBy(Sources \ {s}, k)
        BY <3>1, <3>4 DEF IUnreported
      <4> QED BY <1>1, <4>1 DEF IReportedBy, Counts
    <3> QED BY <3>3, <3>4
  <2> QED BY <1>2, <2>5, <2>6 DEF ICovered
<1> QED BY <1>1, <1>3, <1>4

\* The two properties, of a step.
OverruleStep ==
  \A k \in Components, s \in Sources :
    /\ life[k] = "ACTIVE" /\ life'[k] = "RETIRED" /\ ReportedBy({s}, k)' =>
         \E a \in Actors : Closes(a) /\ s \notin tx[a].saw[k]
    /\ inst[k] = "up" /\ inst'[k] = "GONE" /\ IReportedBy({s}, k)' =>
         \E a \in Actors : Closes(a) /\ s \notin tx[a].isaw[k]

OrphanStep ==
  \A s \in Sources, k \in Components :
    /\ member[s][k].active /\ ~member'[s][k].active =>
         \/ life'[k] = "RETIRED" \/ ReportedBy(Sources, k)'
         \/ \E a \in Actors : Closes(a) /\ tx[a].saw[k] \ {s} # {}
    /\ imember[s][k].active /\ ~imember'[s][k].active =>
         \/ inst'[k] = "GONE" \/ IReportedBy(Sources, k)'
         \/ \E a \in Actors : Closes(a) /\ tx[a].isaw[k] \ {s} # {}

\* Every step, for a component and a source.
LEMMA UnionStep ==
  ASSUME CatalogInv, PlansSound, [Next]_vars, NEW k \in Components, NEW s \in Sources
  PROVE  Overruled(k, s) /\ Covered(s, k) /\ ICovered(s, k)
<1>0. TypeOK /\ Known
  BY DEF CatalogInv
<1>1. CASE UNCHANGED catalogVars
  BY <1>1 DEF catalogVars, Overruled, Covered, ICovered
<1>2. CASE Looks \/ UNCHANGED vars
  BY <1>0, <1>1, <1>2, LooksStep
<1>3. ASSUME NEW r \in Runs, Start(r) \/ Fail(r) PROVE UNCHANGED catalogVars
  BY <1>0, <1>3, StartFailStep
<1>4. ASSUME NEW r \in Runs, RegisterCommit(r) PROVE UNCHANGED catalogVars
  BY <1>0, <1>4, RegisterCommitStep
<1> QED BY <1>1, <1>2, <1>3, <1>4, ByReconcile, ByRetire, ByAsset, NextCases

LEMMA PlansInvariant == Spec => [](CatalogInv /\ PlansSound)
<1>1. CatalogInv /\ [Next]_vars => CatalogInv'
  BY CatalogStep
<1>2. CatalogInv /\ PlansSound /\ [Next]_vars => PlansSound'
  BY PlansSoundStep
<1>3. Init => CatalogInv /\ PlansSound
  BY CatalogInit, PlansSoundInit
<1> QED BY <1>1, <1>2, <1>3, PTL DEF Spec

\* However transactions overlap, a component or an instance is retired over a source that
\* reports it only by a transaction that read the others before that source reported it.
THEOREM NoReporterOverruledHolds == Spec => NoReporterOverruled
<1>1. CatalogInv /\ PlansSound /\ [Next]_vars => OverruleStep
  BY UnionStep DEF OverruleStep, Overruled
<1>2. Spec => [][OverruleStep]_vars
  BY <1>1, PlansInvariant, PTL DEF Spec
<1> QED BY <1>2 DEF NoReporterOverruled, OverruleStep

\* However transactions overlap, what a source stops reporting is retired, or gone, or some
\* source that counts still reports it, or the transaction had seen another source report it.
THEOREM OnlySharedIsOrphanedHolds == Spec => OnlySharedIsOrphaned
<1>1. CatalogInv /\ PlansSound /\ [Next]_vars => OrphanStep
  BY UnionStep DEF OrphanStep, Covered, ICovered
<1>2. Spec => [][OrphanStep]_vars
  BY <1>1, PlansInvariant, PTL DEF Spec
<1> QED BY <1>2 DEF OnlySharedIsOrphaned, OrphanStep
-----------------------------------------------------------------------------
(* The managed checks.                                                     *)

\* A step of the checks is one of the sources, or leaves them alone.
LEMMA CheckRefines == [CheckNext]_allVars => [Next]_vars
<1>1. \A r \in Runs, k \in Components : SyncCommit(r, k) \/ AssetDropped(r, k) => Asset(r, k)
  BY DEF SyncCommit, AssetDropped
<1>2. ASSUME NEW r \in Runs, NEW k \in Components, NEW d \in Defs, NEW w \in BOOLEAN,
             SyncRead(r, k, d, w)
      PROVE  UNCHANGED vars
  BY <1>2 DEF SyncRead
<1>3. \A r \in Runs : /\ ReconcileChecksRead(r) => ReconcileRead(r)
                      /\ ReconcileChecks(r) => ReconcileCommit(r)
  BY DEF ReconcileChecksRead, ReconcileChecks
<1>4. \A s \in Sources : RetireUnheld(s) => RetireCommit(s)
  BY DEF RetireUnheld
<1>5. \A c \in Configs : /\ DeletePausedRead(c) => DeleteRead(c)
                         /\ DeletePaused(c) => DeleteCommit(c)
                         /\ SwitchRead(c) \/ SwitchCommit(c) => UNCHANGED vars
  BY DEF DeletePausedRead, DeletePaused, SwitchRead, SwitchCommit
<1>6. /\ \A k \in Components : AutoDisable(k) => UNCHANGED vars
      /\ UNCHANGED allVars => UNCHANGED vars
  BY DEF AutoDisable, allVars
<1> QED BY Zenon, <1>1, <1>2, <1>3, <1>4, <1>5, <1>6 DEF CheckNext, Next, RunStep, SourceStep,
           ConfigStep, Aside

CheckTypes ==
  /\ on \subseteq Configs /\ check \in [Components -> Check]
  /\ owner \in [Sources -> [Components -> Owner]] /\ reads \in [Actors -> ReadsOf]

\* Of one component: the check its owners share.
Sound(k) ==
  \A s \in Sources : owner[s][k].active => check[k].exists /\ owner[s][k].def = check[k].def

\* Whom the open reads are for, and what they decided.
ReadsKnown(a) ==
  /\ reads[a].kind = "reconcile" <=> tx[a].kind = "reconcile"
  /\ reads[a].kind = "delete" <=> tx[a].kind = "delete"
  /\ reads[a].kind = "asset" =>
       a \in Runs /\ run[a].pc = "reporting" /\ reads[a].comp \in Components
  /\ reads[a].kind = "resume" => a \in configs /\ a \notin on
  /\ \A k \in Components : /\ reads[a].turn[k] = "on" => k \notin reads[a].failed
                           /\ reads[a].turn[k] = "back" => reads[a].kind = "resume"

\* A declaration that does not conflict contradicts no other owner until it commits.
Agrees(a) ==
  reads[a].kind = "asset" /\ reads[a].def # None =>
    \A t \in Sources \ {run[a].src} :
      owner[t][reads[a].comp].active => check[reads[a].comp].def = reads[a].def

\* What is paused lost, by this very transaction, every owner it had seen.
Loses(a) ==
  \A k \in Components : reads[a].turn[k] = "off" /\ k \notin reads[a].failed =>
    /\ reads[a].kind = "asset" =>
         k = reads[a].comp /\ \A p \in reads[a].saw[k] : p[1] = run[a].src /\ ~reads[a].wants
    /\ reads[a].kind = "reconcile" =>
         k \in reads[a].left /\ \A p \in reads[a].saw[k] : p[1] = tx[a].src
    /\ reads[a].kind \notin {"asset", "reconcile"} =>
         reads[a].kind \in {"pause", "delete"} /\ \A p \in reads[a].saw[k] : p[2] = a

ReadsSound(a) == ReadsKnown(a) /\ Agrees(a) /\ Loses(a)

\* The row locks keep a component to one open asset.
OneAsset ==
  \A a, b \in Actors :
    reads[a].kind = "asset" /\ reads[b].kind = "asset" /\ reads[a].comp = reads[b].comp => a = b

ChecksInv ==
  CheckTypes /\ (\A k \in Components : Sound(k)) /\ (\A a \in Actors : ReadsSound(a)) /\ OneAsset

\* The two action properties, of a component.
StaysOff(k) ==
  /\ check[k].auto /\ check'[k].exists
  /\ ~check'[k].auto \/ (~check[k].enabled /\ check'[k].enabled)
  => \/ \E c \in Configs : c \notin on /\ c \in on'
     \/ \E a \in Actors : Ends(a) /\ k \notin reads[a].failed

KeepsRunning(k) ==
  check[k].enabled /\ check'[k].exists /\ ~check'[k].enabled /\ ~check'[k].auto =>
    \E a \in Actors :
      /\ Ends(a)
      /\ k \in reads[a].failed \/ \A s \in Sources :
           Effective(source', on', owner', s, k) => <<s, source'[s].bound>> \notin reads[a].saw[k]

\* What a step does to the checks, shown of every step.
ChecksMove ==
  /\ on' \subseteq Configs /\ check' \in [Components -> Check]
  /\ owner' \in [Sources -> [Components -> Owner]]
  /\ \A k \in Components : Sound(k)' /\ StaysOff(k) /\ KeepsRunning(k)

\* Nobody comes to own a check, and its definition stays.
Framed(k) ==
  \A t \in Sources : owner'[t][k].active => owner[t][k].active /\ check'[k].def = check[k].def

\* The operators of the decisions.
LEMMA TurnFields ==
  ASSUME NEW c \in Check, NEW wanted \in BOOLEAN
  PROVE  /\ Turn(c, wanted) \in {"leave", "on", "off"}
         /\ Turn(c, wanted) = "on" => ~c.auto
         /\ Turn(c, wanted) = "off" => ~wanted \/ c.auto
BY DEF Turn, Check

LEMMA TurnedFields ==
  ASSUME NEW c \in Check, NEW turn \in Turns
  PROVE  LET d == Turned(c, turn) IN
         /\ d \in Check /\ (d.exists <=> c.exists) /\ d.def = c.def
         /\ turn # "back" => (d.auto <=> c.auto)
         /\ d.enabled /\ ~c.enabled => turn \in {"on", "back"}
         /\ c.enabled /\ ~d.enabled => turn = "off"
<1> DEFINE d == [c EXCEPT !.enabled = turn # "off", !.auto = @ /\ turn # "back"]
<1>1. /\ d \in Check /\ (d.exists <=> c.exists) /\ d.def = c.def
      /\ d.auto <=> c.auto /\ turn # "back"
      /\ d.enabled <=> turn # "off"
  BY DEF Check
<1> HIDE DEF d
<1>2. CASE ~c.exists \/ turn = "leave"
  <2>1. Turned(c, turn) = c
    BY <1>2 DEF Turned
  <2> QED BY <2>1
<1>3. CASE ~(~c.exists \/ turn = "leave")
  <2>1. Turned(c, turn) = d
    BY <1>3 DEF Turned, d
  <2> QED BY <1>1, <1>3, <2>1 DEF Turns
<1> QED BY <1>2, <1>3

LEMMA TurnsInFields ==
  ASSUME check \in [Components -> Check], NEW K, NEW src, NEW live, NEW own
  PROVE  /\ TurnsIn(K, src, live, own) \in [Components -> Turns]
         /\ \A k \in Components :
              /\ TurnsIn(K, src, live, own)[k] # "back"
              /\ TurnsIn(K, src, live, own)[k] = "on" => ~check[k].auto
              /\ TurnsIn(K, src, live, own)[k] = "off" =>
                   k \in K /\ (~Wanted(src, live, own, k) \/ check[k].auto)
<1>1. \A k \in Components : check[k] \in Check /\ Wanted(src, live, own, k) \in BOOLEAN
  BY DEF Wanted
<1>2. ASSUME NEW k \in Components
      PROVE  LET x == Turn(check[k], Wanted(src, live, own, k)) IN
             /\ x \in {"leave", "on", "off"} /\ (x = "on" => ~check[k].auto)
             /\ x = "off" => ~Wanted(src, live, own, k) \/ check[k].auto
  BY <1>1, TurnFields
<1> QED BY <1>2 DEF TurnsIn, Turns

LEMMA WitnessedFields ==
  ASSUME NEW q \in ReadsOf
  PROVE  LET w == Witnessed(q) IN
         /\ w \in ReadsOf /\ w.kind = q.kind /\ w.comp = q.comp /\ w.def = q.def
         /\ (w.wants <=> q.wants) /\ w.left = q.left /\ w.turn = q.turn
         /\ \A k \in Components : k \in w.failed <=> check[k].auto
         /\ \A k \in Components : \A p \in w.saw[k] :
              /\ p[1] \in Sources /\ p[2] \in Configs /\ source[p[1]].bound = p[2]
              /\ Effective(source, on, owner, p[1], k)
<1> DEFINE saw == [k \in Components |->
             {p \in Sources \X Configs :
               source[p[1]].bound = p[2] /\ Effective(source, on, owner, p[1], k)}]
           failed == {k \in Components : check[k].auto}
<1>1. Witnessed(q) = [q EXCEPT !.saw = saw, !.failed = failed]
  BY DEF Witnessed
<1>2. saw \in [Components -> SUBSET (Sources \X Configs)] /\ failed \in SUBSET Components
  OBVIOUS
<1>3. \A k \in Components : \A p \in saw[k] :
        /\ p[1] \in Sources /\ p[2] \in Configs /\ source[p[1]].bound = p[2]
        /\ Effective(source, on, owner, p[1], k)
  OBVIOUS
<1>4. \A k \in Components : k \in failed <=> check[k].auto
  OBVIOUS
<1> HIDE DEF saw, failed
<1> DEFINE w == [q EXCEPT !.saw = saw, !.failed = failed]
<1>5. /\ w \in ReadsOf /\ w.kind = q.kind /\ w.comp = q.comp /\ w.def = q.def
      /\ (w.wants <=> q.wants) /\ w.left = q.left /\ w.turn = q.turn
      /\ w.saw = saw /\ w.failed = failed
  BY <1>2 DEF ReadsOf
<1> HIDE DEF w
<1> QED BY <1>1, <1>3, <1>4, <1>5 DEF w

LEMMA NoReadsType ==
  /\ NoReads \in ReadsOf /\ NoReads.kind = "none" /\ NoReads.turn \in [Components -> Turns]
  /\ \A k \in Components : NoReads.turn[k] = "leave"
BY DEF NoReads, ReadsOf, Turns

LEMMA NoneChecked == /\ NoCheck \in Check /\ ~NoCheck.exists /\ ~NoCheck.auto /\ ~NoCheck.enabled
                     /\ NoOwner \in Owner /\ ~NoOwner.active
BY DEF NoCheck, Check, NoOwner, Owner
-----------------------------------------------------------------------------
(* What the steps do to the checks.                                        *)

LEMMA ChecksUntouched ==
  ASSUME ChecksInv, on' \subseteq Configs, UNCHANGED <<check, owner>>
  PROVE  ChecksMove /\ \A k \in Components : Framed(k)
BY DEF ChecksInv, CheckTypes, ChecksMove, Sound, StaysOff, KeepsRunning, Framed

\* The commit of an asset's declaration.
LEMMA SyncChecks ==
  ASSUME TypeOK, Known, ChecksInv, NEW r \in Runs, NEW j \in Components, SyncCommit(r, j)
  PROVE  ChecksMove /\ \A k \in Components \ {j} : Framed(k)
<1> DEFINE s == run[r].src
           d == reads[r].def
           w == reads[r].wants
           entry == [active |-> TRUE, wants |-> w, seen |-> r, def |-> d]
           synced == Synced(j, d)
           now == Turned(synced, reads[r].turn[j])
<1>1. /\ Asset(r, j) /\ OpenAsset(r, j) /\ on' = on /\ Forgets(r)
      /\ d = None => UNCHANGED <<check, owner>>
      /\ d # None => /\ owner' = [owner EXCEPT ![s][j] = entry]
                     /\ check' = [check EXCEPT ![j] = now]
  BY DEF SyncCommit, Refreshed
<1>2. s \in Sources /\ source' = source /\ r \in Actors
  BY <1>1, AssetStep DEF Actors
<1>3. /\ reads[r].kind = "asset" /\ reads[r].comp = j /\ reads[r] \in ReadsOf
      /\ ReadsKnown(r) /\ Agrees(r) /\ Loses(r) /\ CheckTypes /\ \A k \in Components : Sound(k)
  BY <1>1, <1>2 DEF OpenAsset, ChecksInv, CheckTypes, ReadsSound
<1>4. CASE d = None
  <2>1. on' \subseteq Configs
    BY <1>1, <1>3 DEF CheckTypes
  <2> QED BY <1>1, <1>4, <2>1, ChecksUntouched
<1>5. CASE d # None
  <2>1. check[j] \in Check /\ d \in Defs /\ w \in BOOLEAN /\ reads[r].turn[j] \in Turns
    BY <1>3, <1>5 DEF CheckTypes, ReadsOf
  <2>2. /\ synced \in Check /\ synced.exists /\ (synced.auto <=> check[j].auto) /\ synced.def = d
        /\ synced.enabled <=> check[j].enabled
    BY <2>1 DEF Check, Synced
  <2>3. entry \in Owner /\ entry.active /\ entry.def = d /\ (entry.wants <=> w)
    BY <2>1 DEF Owner
  <2>4. reads[r].turn[j] # "back"
    BY <1>3 DEF ReadsKnown
  <2> HIDE DEF synced, entry
  <2>5. /\ now \in Check /\ now.exists /\ now.def = d /\ (now.auto <=> check[j].auto)
        /\ now.enabled /\ ~check[j].enabled => reads[r].turn[j] = "on"
        /\ check[j].enabled /\ ~now.enabled => reads[r].turn[j] = "off"
    BY <2>1, <2>2, <2>4, TurnedFields
  <2> HIDE DEF now
  <2>6. /\ owner' \in [Sources -> [Components -> Owner]] /\ owner'[s][j] = entry
        /\ \A t \in Sources, k \in Components : t # s \/ k # j => owner'[t][k] = owner[t][k]
    <3>1. owner' = [owner EXCEPT ![s][j] = entry]
      BY <1>1, <1>5
    <3> HIDE DEF s
    <3> QED BY <1>2, <1>3, <2>3, <3>1 DEF CheckTypes
  <2>7. /\ check' \in [Components -> Check] /\ check'[j] = now
        /\ \A k \in Components \ {j} : check'[k] = check[k]
    BY <1>1, <1>3, <1>5, <2>5 DEF CheckTypes
  <2>8. Ends(r)
    BY <1>1, <1>2, <1>3, NoReadsType DEF Forgets, Ends, ChecksInv, CheckTypes
  <2>9. ASSUME NEW k \in Components PROVE Sound(k)' /\ StaysOff(k) /\ KeepsRunning(k)
    <3>1. CASE k # j
      BY <1>3, <2>6, <2>7, <3>1 DEF Sound, StaysOff, KeepsRunning
    <3>2. CASE k = j
      <4>1. Sound(k)'
        <5> SUFFICES ASSUME NEW t \in Sources, owner'[t][j].active
                     PROVE  check'[j].exists /\ owner'[t][j].def = check'[j].def
          BY <3>2 DEF Sound
        <5>1. CASE t = s
          BY <2>3, <2>5, <2>6, <2>7, <5>1
        <5>2. CASE t # s
          <6>1. owner[t][j].active /\ owner'[t][j].def = owner[t][j].def
            BY <2>6, <5>2
          <6>2. check[j].def = d /\ owner[t][j].def = check[j].def
            BY <1>3, <1>5, <5>2, <6>1 DEF Agrees, Sound
          <6> QED BY <2>5, <2>7, <6>1, <6>2
        <5> QED BY <5>1, <5>2
      <4>2. StaysOff(k)
        BY <1>2, <1>3, <2>5, <2>7, <2>8, <3>2 DEF StaysOff, ReadsKnown
      <4>3. KeepsRunning(k)
        <5> SUFFICES ASSUME check[j].enabled, ~check'[j].enabled, j \notin reads[r].failed,
                            NEW t \in Sources, Effective(source', on', owner', t, j),
                            <<t, source'[t].bound>> \in reads[r].saw[j]
                     PROVE  FALSE
          BY <1>2, <2>8, <3>2 DEF KeepsRunning
        <5>1. reads[r].turn[j] = "off"
          BY <2>5, <2>7
        <5>2. t = s /\ ~w
          BY <1>3, <5>1 DEF Loses
        <5> QED BY <2>3, <2>6, <5>2 DEF Effective
      <4> QED BY <4>1, <4>2, <4>3
    <3> QED BY <3>1, <3>2
  <2>10. \A k \in Components \ {j} : Framed(k)
    BY <2>6, <2>7 DEF Framed
  <2> QED BY <1>1, <1>3, <2>6, <2>7, <2>9, <2>10 DEF ChecksMove, CheckTypes
<1> QED BY <1>4, <1>5

\* The commit of what a transaction decided, with the checks of dead instances deleted.
LEMMA TurnedChecks ==
  ASSUME ChecksInv, NEW a \in Actors, reads[a].kind # "none", Forgets(a),
         NEW own \in [Sources -> [Components -> Owner]], NEW dead,
         \A s \in Sources, k \in Components :
           own[s][k].active => owner[s][k].active /\ own[s][k].def = owner[s][k].def,
         on' \subseteq Configs,
         reads[a].kind = "resume" => \E c \in Configs : c \notin on /\ c \in on',
         \A s \in Sources, k \in Components :
           /\ reads[a].turn[k] = "off" /\ k \notin reads[a].failed
           /\ Effective(source', on', own, s, k)
           => <<s, source'[s].bound>> \notin reads[a].saw[k],
         check' = [k \in Components |-> IF k \in dead THEN NoCheck ELSE AfterTurns(a)[k]],
         owner' = Without(own, dead)
  PROVE  ChecksMove /\ \A k \in Components : Framed(k)
<1>1. /\ CheckTypes /\ (\A k \in Components : Sound(k)) /\ ReadsKnown(a) /\ reads[a] \in ReadsOf
      /\ Ends(a)
  BY NoReadsType DEF ChecksInv, CheckTypes, ReadsSound, Forgets, Ends
<1>2. \A k \in Components :
        LET d == Turned(check[k], reads[a].turn[k]) IN
        /\ d \in Check /\ (d.exists <=> check[k].exists) /\ d.def = check[k].def
        /\ reads[a].turn[k] # "back" => (d.auto <=> check[k].auto)
        /\ d.enabled /\ ~check[k].enabled => reads[a].turn[k] \in {"on", "back"}
        /\ check[k].enabled /\ ~d.enabled => reads[a].turn[k] = "off"
  BY <1>1, TurnedFields DEF CheckTypes, ReadsOf
<1>3. \A k \in Components : k \notin dead => check'[k] = Turned(check[k], reads[a].turn[k])
  BY DEF AfterTurns
<1>4. \A k \in Components : k \in dead =>
        check'[k] = NoCheck /\ \A s \in Sources : owner'[s][k] = NoOwner
  BY DEF Without
<1>5. \A k \in Components : k \notin dead => \A s \in Sources : owner'[s][k] = own[s][k]
  BY DEF Without
<1>6. check' \in [Components -> Check]
  BY <1>2, NoneChecked DEF AfterTurns
<1>7. owner' \in [Sources -> [Components -> Owner]]
  BY NoneChecked DEF Without
<1>8. ASSUME NEW k \in Components PROVE Sound(k)' /\ Framed(k) /\ StaysOff(k) /\ KeepsRunning(k)
  <2>1. CASE k \in dead
    BY <1>4, <2>1, NoneChecked DEF Sound, Framed, StaysOff, KeepsRunning
  <2>2. CASE k \notin dead
    <3>1. Sound(k)' /\ Framed(k)
      BY <1>1, <1>2, <1>3, <1>5, <2>2 DEF Sound, Framed
    <3>2. StaysOff(k)
      BY <1>1, <1>2, <1>3, <2>2 DEF StaysOff, ReadsKnown
    <3>3. KeepsRunning(k)
      <4> SUFFICES ASSUME check[k].enabled, ~check'[k].enabled, k \notin reads[a].failed,
                          NEW s \in Sources, Effective(source', on', owner', s, k)
                   PROVE  <<s, source'[s].bound>> \notin reads[a].saw[k]
        BY <1>1 DEF KeepsRunning
      <4>1. reads[a].turn[k] = "off"
        BY <1>2, <1>3, <2>2
      <4>2. Effective(source', on', own, s, k)
        BY <1>5, <2>2 DEF Effective
      <4> QED BY <4>1, <4>2
    <3> QED BY <3>1, <3>2, <3>3
  <2> QED BY <2>1, <2>2
<1> QED BY <1>6, <1>7, <1>8 DEF ChecksMove

LEMMA LeftByFields ==
  ASSUME owner \in [Sources -> [Components -> Owner]], NEW s \in Sources, NEW K
  PROVE  /\ LeftBy(s, K) \in [Sources -> [Components -> Owner]]
         /\ \A t \in Sources \ {s} : LeftBy(s, K)[t] = owner[t]
         /\ \A k \in Components : /\ LeftBy(s, K)[s][k].active <=> owner[s][k].active /\ k \notin K
                                  /\ LeftBy(s, K)[s][k].def = owner[s][k].def
<1> DEFINE row == [k \in Components |-> [owner[s][k] EXCEPT !.active = @ /\ k \notin K]]
<1>1. \A k \in Components : owner[s][k] \in Owner
  OBVIOUS
<1>2. \A k \in Components : /\ row[k] \in Owner /\ row[k].def = owner[s][k].def
                            /\ row[k].active <=> owner[s][k].active /\ k \notin K
  BY <1>1 DEF Owner
<1>3. LeftBy(s, K) = [owner EXCEPT ![s] = row]
  BY DEF LeftBy
<1>4. row \in [Components -> Owner]
  BY <1>2
<1> HIDE DEF row
<1> QED BY <1>2, <1>3, <1>4

\* The commit of a reconciliation.
LEMMA ReconciledChecks ==
  ASSUME TypeOK, Known, ChecksInv, NEW r \in Runs, ReconcileChecks(r)
  PROVE  ChecksMove /\ \A k \in Components : Framed(k)
<1> DEFINE s == tx[r].src
           left == reads[r].left
           own == LeftBy(s, left)
<1>1. PICK dead :
        /\ check' = [k \in Components |-> IF k \in dead THEN NoCheck ELSE AfterTurns(r)[k]]
        /\ owner' = Without(own, dead)
  BY DEF ReconcileChecks
<1>2. ReconcileCommit(r) /\ Forgets(r) /\ on' = on /\ r \in Actors
  BY DEF ReconcileChecks, Actors
<1>3. source' = source /\ s \in Sources /\ tx[r].kind = "reconcile"
  BY <1>2, ReconcileCommitStep
<1>4. reads[r].kind = "reconcile" /\ Loses(r) /\ CheckTypes
  BY <1>2, <1>3 DEF ChecksInv, ReadsSound, ReadsKnown
<1> HIDE DEF s, left
<1>5. /\ own \in [Sources -> [Components -> Owner]]
      /\ \A t \in Sources \ {s} : own[t] = owner[t]
      /\ \A k \in Components : /\ own[s][k].active <=> owner[s][k].active /\ k \notin left
                               /\ own[s][k].def = owner[s][k].def
  BY <1>3, <1>4, LeftByFields DEF CheckTypes
<1> HIDE DEF own
<1>6. \A t \in Sources, k \in Components :
        own[t][k].active => owner[t][k].active /\ own[t][k].def = owner[t][k].def
  BY <1>5
<1>7. ASSUME NEW t \in Sources, NEW k \in Components,
             reads[r].turn[k] = "off", k \notin reads[r].failed, Effective(source', on', own, t, k)
      PROVE  <<t, source'[t].bound>> \notin reads[r].saw[k]
  <2>1. k \in left /\ \A p \in reads[r].saw[k] : p[1] = s
    BY <1>4, <1>7 DEF Loses, left, s
  <2>2. t # s
    BY <1>5, <1>7, <2>1 DEF Effective
  <2> QED BY <2>1, <2>2
<1>8. on' \subseteq Configs
  BY <1>2, <1>4 DEF CheckTypes
<1> QED BY <1>1, <1>2, <1>4, <1>5, <1>6, <1>7, <1>8, TurnedChecks

\* The commits of the configurations, with nobody's instance gone.
LEMMA ConfigChecks ==
  ASSUME ChecksInv, NEW a \in Actors, reads[a].kind \in {"pause", "resume", "delete"}, Forgets(a),
         on' \subseteq Configs, reads[a].kind # "resume" => a \notin on',
         reads[a].kind = "resume" => \E c \in Configs : c \notin on /\ c \in on',
         check' = AfterTurns(a), owner' = owner
  PROVE  ChecksMove /\ \A k \in Components : Framed(k)
<1>1. owner \in [Sources -> [Components -> Owner]] /\ Loses(a)
  BY DEF ChecksInv, CheckTypes, ReadsSound
<1>2. owner' = Without(owner, {})
  BY <1>1 DEF Without
<1>3. check' = [k \in Components |-> IF k \in {} THEN NoCheck ELSE AfterTurns(a)[k]]
  BY DEF AfterTurns
<1>4. ASSUME NEW s \in Sources, NEW k \in Components,
             reads[a].turn[k] = "off", k \notin reads[a].failed, Effective(source', on', owner, s, k)
      PROVE  <<s, source'[s].bound>> \notin reads[a].saw[k]
  <2>1. source'[s].bound \in on' /\ \A p \in reads[a].saw[k] : p[2] = a
    BY <1>1, <1>4 DEF Effective, Loses
  <2>2. reads[a].kind # "resume"
    BY <1>1, <1>4 DEF Loses
  <2> QED BY <2>1, <2>2
<1> QED BY <1>1, <1>2, <1>3, <1>4, TurnedChecks

LEMMA SwitchChecks ==
  ASSUME TypeOK, ChecksInv, NEW c \in Configs, SwitchCommit(c)
  PROVE  ChecksMove /\ \A k \in Components : Framed(k)
<1>1. /\ reads[c].kind \in {"pause", "resume"} /\ Forgets(c) /\ c \in Actors
      /\ on' = IF reads[c].kind = "pause" THEN on \ {c} ELSE on \union {c}
      /\ check' = AfterTurns(c) /\ owner' = owner
  BY DEF SwitchCommit, Actors
<1>2. ReadsKnown(c) /\ on \subseteq Configs
  BY <1>1 DEF ChecksInv, ReadsSound, CheckTypes
<1>3. /\ on' \subseteq Configs /\ (reads[c].kind # "resume" => c \notin on')
      /\ reads[c].kind = "resume" => c \notin on /\ c \in on'
  BY <1>1, <1>2 DEF ReadsKnown
<1> QED BY <1>1, <1>3, ConfigChecks

LEMMA DeleteChecks ==
  ASSUME TypeOK, ChecksInv, NEW c \in Configs, DeletePaused(c)
  PROVE  ChecksMove /\ \A k \in Components : Framed(k)
<1>1. /\ DeleteCommit(c) /\ Forgets(c) /\ c \in Actors /\ on' = on \ {c}
      /\ check' = AfterTurns(c) /\ owner' = owner
  BY DEF DeletePaused, Actors
<1>2. tx[c].kind = "delete"
  BY <1>1, DeleteCommitStep
<1>3. reads[c].kind = "delete" /\ on \subseteq Configs
  BY <1>1, <1>2 DEF ChecksInv, ReadsSound, ReadsKnown, CheckTypes
<1>4. on' \subseteq Configs /\ c \notin on'
  BY <1>1, <1>3
<1> QED BY <1>1, <1>3, <1>4, ConfigChecks

\* An asset without its instance.
LEMMA DroppedChecks ==
  ASSUME ChecksInv, NEW r \in Runs, NEW j \in Components, AssetDropped(r, j)
  PROVE  ChecksMove /\ \A k \in Components : Framed(k)
<1>1. PICK dead : /\ check' = [k \in Components |-> IF k \in dead THEN NoCheck ELSE check[k]]
                  /\ owner' = Without(owner, dead)
  BY DEF AssetDropped
<1>2. on' = on /\ CheckTypes /\ \A k \in Components : Sound(k)
  BY DEF AssetDropped, ChecksInv
<1>3. /\ check' \in [Components -> Check] /\ owner' \in [Sources -> [Components -> Owner]]
  BY <1>1, <1>2, NoneChecked DEF CheckTypes, Without
<1>4. ASSUME NEW k \in Components PROVE Sound(k)' /\ Framed(k) /\ StaysOff(k) /\ KeepsRunning(k)
  <2>1. CASE k \in dead
    <3>1. check'[k] = NoCheck /\ \A s \in Sources : owner'[s][k] = NoOwner
      BY <1>1, <2>1 DEF Without
    <3> QED BY <3>1, NoneChecked DEF Sound, Framed, StaysOff, KeepsRunning
  <2>2. CASE k \notin dead
    <3>1. check'[k] = check[k] /\ \A s \in Sources : owner'[s][k] = owner[s][k]
      BY <1>1, <2>2 DEF Without
    <3> QED BY <1>2, <3>1 DEF Sound, Framed, StaysOff, KeepsRunning
  <2> QED BY <2>1, <2>2
<1> QED BY <1>2, <1>3, <1>4 DEF ChecksMove, CheckTypes

LEMMA AutoDisableChecks ==
  ASSUME ChecksInv, NEW j \in Components, AutoDisable(j)
  PROVE  ChecksMove /\ \A k \in Components : Framed(k)
<1> DEFINE off == [check[j] EXCEPT !.enabled = FALSE, !.auto = TRUE]
<1>0. CheckTypes /\ \A k \in Components : Sound(k)
  BY DEF ChecksInv
<1>1. check' = [check EXCEPT ![j] = off] /\ on' = on /\ owner' = owner
  BY <1>0 DEF AutoDisable, CheckTypes
<1>2. /\ off \in Check /\ off.def = check[j].def /\ (off.exists <=> check[j].exists)
      /\ off.auto /\ ~off.enabled
  BY <1>0 DEF CheckTypes, Check
<1> HIDE DEF off
<1>3. check' \in [Components -> Check] /\ check'[j] = off
      /\ \A k \in Components \ {j} : check'[k] = check[k]
  BY <1>0, <1>1, <1>2 DEF CheckTypes
<1>4. ASSUME NEW k \in Components PROVE Sound(k)' /\ Framed(k) /\ StaysOff(k) /\ KeepsRunning(k)
  <2>1. CASE k = j
    BY <1>0, <1>1, <1>2, <1>3, <2>1 DEF Sound, Framed, StaysOff, KeepsRunning
  <2>2. CASE k # j
    BY <1>0, <1>1, <1>3, <2>2 DEF Sound, Framed, StaysOff, KeepsRunning
  <2> QED BY <2>1, <2>2
<1> QED BY <1>0, <1>1, <1>3, <1>4 DEF ChecksMove, CheckTypes
-----------------------------------------------------------------------------
(* What the steps do to the open reads.                                    *)

ReadsMove ==
  /\ reads' \in [Actors -> ReadsOf] /\ OneAsset' /\ \A a \in Actors : ReadsSound(a)'

\* The transactions that the step leaves as they are.
LEMMA ReadsKept ==
  ASSUME ChecksInv, NEW a \in Actors, reads'[a] = reads[a],
         tx'[a].kind = "reconcile" <=> tx[a].kind = "reconcile",
         tx'[a].kind = "delete" <=> tx[a].kind = "delete",
         tx[a].kind = "reconcile" => tx'[a].src = tx[a].src,
         reads[a].kind = "asset" =>
           /\ run'[a].pc = run[a].pc /\ run'[a].src = run[a].src
           /\ Framed(reads[a].comp),
         reads[a].kind = "resume" => a \in configs' /\ a \notin on'
  PROVE  ReadsSound(a)'
<1>1. ReadsKnown(a) /\ Agrees(a) /\ Loses(a)
  BY DEF ChecksInv, ReadsSound
<1>2. ReadsKnown(a)'
  BY <1>1 DEF ReadsKnown
<1>3. Agrees(a)'
  BY <1>1 DEF Agrees, Framed
<1>4. Loses(a)'
  BY <1>1 DEF Loses, ReadsKnown
<1> QED BY <1>2, <1>3, <1>4 DEF ReadsSound

\* ... and those that are over.
LEMMA ReadsClosed ==
  ASSUME NEW a \in Actors, reads'[a] = NoReads, tx'[a].kind \notin {"reconcile", "delete"}
  PROVE  ReadsSound(a)'
BY NoReadsType DEF ReadsSound, ReadsKnown, Agrees, Loses

LEMMA OneAssetKept ==
  ASSUME ChecksInv, NEW a \in Actors, reads' \in [Actors -> ReadsOf],
         \A b \in Actors \ {a} : reads'[b] = reads[b],
         reads'[a].kind # "asset" \/ \A b \in Actors : reads[b].kind = "asset" =>
                                                          reads[b].comp # reads'[a].comp
  PROVE  OneAsset'
BY DEF ChecksInv, OneAsset

\* A step that reads nothing and commits no reads.
LEMMA NothingRead ==
  ASSUME ChecksInv, reads' = reads, configs' = configs, on' = on,
         \A k \in Components : Framed(k),
         \A a \in Actors : /\ tx'[a].kind = "reconcile" <=> tx[a].kind = "reconcile"
                           /\ tx'[a].kind = "delete" <=> tx[a].kind = "delete"
                           /\ tx[a].kind = "reconcile" => tx'[a].src = tx[a].src,
         \A r \in Runs : reads[r].kind = "asset" => run'[r].pc = run[r].pc /\ run'[r].src = run[r].src
  PROVE  ReadsMove
<1>1. ASSUME NEW a \in Actors PROVE ReadsSound(a)'
  <2>1. ReadsKnown(a)
    BY DEF ChecksInv, ReadsSound
  <2> QED BY <2>1, ReadsKept DEF ReadsKnown
<1>2. reads' \in [Actors -> ReadsOf] /\ OneAsset'
  BY DEF ChecksInv, CheckTypes, OneAsset
<1> QED BY <1>1, <1>2 DEF ReadsMove

\* A transaction that reads: whatever else it does, it leaves the checks and its run alone.
LEMMA OneReads ==
  ASSUME ChecksInv, NEW a \in Actors, NEW q \in ReadsOf, Reads(a, q),
         UNCHANGED <<configs, on, check, owner, run>>,
         \A b \in Actors \ {a} : tx'[b] = tx[b],
         q.kind # "asset" \/ ~Held({q.comp}),
         ReadsSound(a)'
  PROVE  ReadsMove
<1> DEFINE w == Witnessed(q)
<1>1. w \in ReadsOf /\ w.kind = q.kind /\ w.comp = q.comp
  BY WitnessedFields
<1> HIDE DEF w
<1>2. reads' = [reads EXCEPT ![a] = w]
  BY DEF Reads, w
<1>3. /\ reads' \in [Actors -> ReadsOf] /\ reads'[a] = w
      /\ \A b \in Actors \ {a} : reads'[b] = reads[b]
  BY <1>1, <1>2 DEF ChecksInv, CheckTypes
<1>4. \A k : Framed(k)
  BY DEF Framed
<1>5. ASSUME NEW b \in Actors \ {a} PROVE ReadsSound(b)'
  <2>1. ReadsKnown(b)
    BY DEF ChecksInv, ReadsSound
  <2> QED BY <1>3, <1>4, <2>1, ReadsKept DEF ReadsKnown
<1>6. ASSUME q.kind = "asset", NEW b \in Actors, reads[b].kind = "asset" PROVE reads[b].comp # q.comp
  <2>1. b \in Runs
    BY <1>6 DEF ChecksInv, ReadsSound, ReadsKnown
  <2> QED BY <1>6, <2>1 DEF Held, OpenAsset
<1>7. OneAsset'
  BY <1>1, <1>3, <1>6, OneAssetKept
<1> QED BY <1>3, <1>5, <1>7 DEF ReadsMove

\* A transaction that commits what it read.
LEMMA OneForgets ==
  ASSUME ChecksInv, NEW a \in Actors, Forgets(a),
         tx'[a].kind \notin {"reconcile", "delete"},
         \A b \in Actors \ {a} : tx'[b] = tx[b],
         \A r \in Runs \ {a} : reads[r].kind = "asset" =>
           run'[r].pc = run[r].pc /\ run'[r].src = run[r].src /\ Framed(reads[r].comp),
         \A b \in Actors \ {a} : reads[b].kind = "resume" => b \in configs' /\ b \notin on'
  PROVE  ReadsMove
<1>1. /\ reads' \in [Actors -> ReadsOf] /\ reads'[a] = NoReads
      /\ \A b \in Actors \ {a} : reads'[b] = reads[b]
  BY NoReadsType DEF ChecksInv, CheckTypes, Forgets
<1>2. ASSUME NEW b \in Actors \ {a} PROVE ReadsSound(b)'
  <2>1. ReadsKnown(b)
    BY DEF ChecksInv, ReadsSound
  <2> QED BY <1>1, <2>1, ReadsKept DEF ReadsKnown
<1>3. ReadsSound(a)'
  BY <1>1, ReadsClosed
<1>4. OneAsset'
  BY <1>1, NoReadsType, OneAssetKept
<1> QED BY <1>1, <1>2, <1>3, <1>4 DEF ReadsMove

\* An asset reads.
LEMMA SyncReads ==
  ASSUME TypeOK, Known, ChecksInv, NEW r \in Runs, NEW j \in Components, NEW d \in Defs,
         NEW w \in BOOLEAN, SyncRead(r, j, d, w)
  PROVE  ReadsMove
<1> DEFINE s == run[r].src
           refreshed == Refreshed(r, j, d, w)
           wanted == Wanted(source, on, refreshed, j)
           x == Turn(Synced(j, d), wanted)
           turn == [NoReads.turn EXCEPT ![j] = x]
           declared == [NoReads EXCEPT !.kind = "asset", !.comp = j, !.def = d, !.wants = w,
                          !.turn[j] = x]
           conflict == [NoReads EXCEPT !.kind = "asset", !.comp = j]
           q == IF Conflicts(s, j, d) THEN conflict ELSE declared
<1>1. /\ run[r].pc = "reporting" /\ tx[r].kind = "none" /\ ~Held({j})
      /\ Reads(r, q) /\ UNCHANGED <<vars, on, check, owner>>
  BY DEF SyncRead
<1>2. /\ r \in Actors /\ s \in Sources /\ CheckTypes /\ (\A k \in Components : Sound(k))
      /\ UNCHANGED <<configs, source, run, tx>>
  BY <1>1 DEF Actors, Known, ChecksInv, vars
<1>3. /\ Synced(j, d) \in Check /\ (Synced(j, d).auto <=> check[j].auto) /\ wanted \in BOOLEAN
  BY <1>2 DEF Synced, Check, CheckTypes, Wanted
<1>4. x \in {"leave", "on", "off"} /\ (x = "on" => ~check[j].auto)
      /\ (x = "off" => ~wanted \/ check[j].auto)
  BY <1>3, TurnFields
<1>5. /\ s \in Sources /\ refreshed = [owner EXCEPT ![s][j] = [active |-> TRUE, wants |-> w,
                                                               seen |-> r, def |-> d]]
  BY <1>2 DEF Refreshed
<1>6. /\ refreshed[s][j].active /\ (refreshed[s][j].wants <=> w)
      /\ \A t \in Sources \ {s} : refreshed[t][j] = owner[t][j]
  <2> HIDE DEF s, refreshed
  <2> QED BY <1>2, <1>5 DEF CheckTypes
<1> HIDE DEF x
<1>7. /\ turn \in [Components -> Turns] /\ turn[j] = x /\ \A k \in Components \ {j} : turn[k] = "leave"
  BY <1>4, NoReadsType DEF Turns
<1>8. declared = [NoReads EXCEPT !.kind = "asset", !.comp = j, !.def = d, !.wants = w, !.turn = turn]
  OBVIOUS
<1> HIDE DEF turn
<1>9. /\ declared.kind = "asset" /\ declared.comp = j /\ declared.def = d
      /\ (declared.wants <=> w) /\ declared.turn = turn /\ declared \in ReadsOf
  BY <1>7, <1>8, NoReadsType DEF NoReads, ReadsOf
<1>10. /\ conflict.kind = "asset" /\ conflict.comp = j /\ conflict.def = None
       /\ conflict.turn = NoReads.turn /\ conflict \in ReadsOf
  BY NoReadsType DEF NoReads, ReadsOf
<1> HIDE DEF declared, conflict, refreshed, wanted
<1>11. /\ q \in ReadsOf /\ q.kind = "asset" /\ q.comp = j /\ q.turn \in [Components -> Turns]
       /\ q.turn[j] \in {"leave", x} /\ \A k \in Components \ {j} : q.turn[k] = "leave"
       /\ q.turn[j] # "leave" => (q.wants <=> w)
       /\ q.def # None => q.def = d /\ ~Conflicts(s, j, d)
  BY <1>7, <1>9, <1>10, NoReadsType
<1> HIDE DEF q
<1> DEFINE v == Witnessed(q)
<1>12. /\ v \in ReadsOf /\ v.kind = "asset" /\ v.comp = j /\ v.def = q.def
       /\ (v.wants <=> q.wants) /\ v.turn = q.turn
       /\ \A k \in Components : k \in v.failed <=> check[k].auto
       /\ \A k \in Components : \A p \in v.saw[k] :
              /\ p[1] \in Sources /\ p[2] \in Configs /\ source[p[1]].bound = p[2]
              /\ Effective(source, on, owner, p[1], k)
  BY <1>11, WitnessedFields
<1> HIDE DEF v
<1>13. reads'[r] = v
  BY <1>1, <1>2 DEF Reads, v, CheckTypes
<1>14. ReadsKnown(r)'
  BY <1>1, <1>2, <1>4, <1>11, <1>12, <1>13 DEF ReadsKnown
<1>15. Agrees(r)'
  <2> SUFFICES ASSUME q.def # None, NEW t \in Sources \ {s}, owner[t][j].active
               PROVE  check[j].def = q.def
    BY <1>1, <1>2, <1>12, <1>13 DEF Agrees
  <2>1. ~Conflicts(s, j, d) /\ q.def = d
    BY <1>11
  <2>2. check[j].exists
    BY <1>2 DEF Sound
  <2> QED BY <2>1, <2>2 DEF Conflicts
<1>16. ASSUME NEW k \in Components, v.turn[k] = "off", k \notin v.failed
       PROVE  k = j /\ \A p \in v.saw[k] : p[1] = s /\ ~v.wants
  <2>1. k = j /\ x = "off" /\ ~check[j].auto /\ (v.wants <=> w)
    BY <1>11, <1>12, <1>16
  <2>2. ~wanted
    BY <1>4, <2>1
  <2>3. \A t \in Sources : ~Effective(source, on, refreshed, t, j)
    BY <2>2 DEF Wanted, wanted
  <2>4. ASSUME NEW p \in v.saw[k] PROVE p[1] = s /\ ~w
    <3>1. p[1] \in Sources /\ Effective(source, on, owner, p[1], j)
      BY <1>12, <2>1
    <3>2. CASE p[1] # s
      BY <1>6, <2>3, <3>1, <3>2 DEF Effective
    <3>3. CASE p[1] = s /\ w
      BY <1>6, <2>3, <3>1, <3>3 DEF Effective
    <3> QED BY <3>2, <3>3
  <2> QED BY <2>1, <2>4
<1>17. Loses(r)'
  BY <1>2, <1>12, <1>13, <1>16 DEF Loses
<1>18. ~Held({q.comp})
  BY <1>1, <1>11
<1>19. ReadsSound(r)'
  BY <1>14, <1>15, <1>17 DEF ReadsSound
<1> QED BY <1>1, <1>2, <1>11, <1>18, <1>19, OneReads

\* Reads whose decisions are those of recomputeManagedCheckEnabled.
LEMMA TurnsInRead ==
  ASSUME CheckTypes, NEW K, NEW src, NEW live, NEW own, NEW q \in ReadsOf,
         q.turn = TurnsIn(K, src, live, own), NEW k \in Components, NEW v, v = Witnessed(q)
  PROVE  /\ v.turn[k] = "on" => k \notin v.failed
         /\ v.turn[k] # "back"
         /\ v.turn[k] = "off" /\ k \notin v.failed =>
              /\ k \in K
              /\ \A p \in v.saw[k] : /\ p[1] \in Sources /\ source[p[1]].bound = p[2]
                                     /\ Effective(source, on, owner, p[1], k)
                                     /\ ~Effective(src, live, own, p[1], k)
<1>1. /\ v.turn = TurnsIn(K, src, live, own)
      /\ \A j \in Components : j \in v.failed <=> check[j].auto
      /\ \A j \in Components : \A p \in v.saw[j] :
           /\ p[1] \in Sources /\ source[p[1]].bound = p[2]
           /\ Effective(source, on, owner, p[1], j)
  BY WitnessedFields
<1>2. /\ v.turn[k] # "back" /\ (v.turn[k] = "on" => ~check[k].auto)
      /\ v.turn[k] = "off" => k \in K /\ (~Wanted(src, live, own, k) \/ check[k].auto)
  BY <1>1, TurnsInFields DEF CheckTypes
<1>3. ~Wanted(src, live, own, k) => \A t \in Sources : ~Effective(src, live, own, t, k)
  BY DEF Wanted
<1> QED BY <1>1, <1>2, <1>3

\* What one who reads as something else than an asset has to show.
LEMMA OtherSound ==
  ASSUME ChecksInv, NEW a \in Actors, NEW q \in ReadsOf, Reads(a, q),
         q.kind \in {"reconcile", "pause", "resume", "delete"},
         q.kind = "reconcile" <=> tx'[a].kind = "reconcile",
         q.kind = "delete" <=> tx'[a].kind = "delete",
         q.kind = "resume" => a \in configs' /\ a \notin on',
         NEW v, v = Witnessed(q),
         \A k \in Components : /\ v.turn[k] = "on" => k \notin v.failed
                               /\ v.turn[k] = "back" => q.kind = "resume",
         \A k \in Components : v.turn[k] = "off" /\ k \notin v.failed =>
           /\ q.kind = "reconcile" => k \in q.left /\ \A p \in v.saw[k] : p[1] = tx'[a].src
           /\ q.kind # "reconcile" => /\ q.kind \in {"pause", "delete"}
                                      /\ \A p \in v.saw[k] : p[2] = a
  PROVE  ReadsSound(a)'
<1>1. v.kind = q.kind /\ v.left = q.left
  BY WitnessedFields
<1>2. reads'[a] = v
  BY DEF Reads, ChecksInv, CheckTypes
<1>3. ReadsKnown(a)'
  BY <1>1, <1>2 DEF ReadsKnown
<1>4. Agrees(a)'
  BY <1>1, <1>2 DEF Agrees
<1>5. Loses(a)'
  BY <1>1, <1>2 DEF Loses
<1> QED BY <1>3, <1>4, <1>5 DEF ReadsSound

\* A reconciliation reads.
LEMMA ReconcileReads ==
  ASSUME TypeOK, Known, ChecksInv, NEW r \in Runs, ReconcileChecksRead(r)
  PROVE  ReadsMove
<1> DEFINE s == run[r].src
           left == Unrefreshed(s, r)
           own == LeftBy(s, left)
           turn == TurnsIn(left, source, on, own)
           q == [NoReads EXCEPT !.kind = "reconcile", !.left = left, !.turn = turn]
           v == Witnessed(q)
<1>1. ReconcileRead(r) /\ Reads(r, q) /\ UNCHANGED <<on, check, owner>> /\ r \in Actors
  BY DEF ReconcileChecksRead, Actors
<1>2. /\ UNCHANGED <<configs, run>> /\ s \in Sources /\ CheckTypes
      /\ tx'[r].kind = "reconcile" /\ tx'[r].src = s /\ \A b \in Actors \ {r} : tx'[b] = tx[b]
  BY <1>1, ReconcileReadStep DEF ChecksInv
<1>3. left \in SUBSET Components
  BY DEF Unrefreshed
<1>4. /\ turn \in [Components -> Turns]
      /\ \A t \in Sources \ {s} : own[t] = owner[t]
  BY <1>2, TurnsInFields, LeftByFields DEF CheckTypes
<1> HIDE DEF left, turn, own, s
<1>5. q \in ReadsOf /\ q.kind = "reconcile" /\ q.left = left /\ q.turn = turn
  BY <1>3, <1>4, NoReadsType DEF NoReads, ReadsOf
<1> HIDE DEF q
<1>6. \A k \in Components :
        /\ v.turn[k] = "on" => k \notin v.failed
        /\ v.turn[k] # "back"
        /\ v.turn[k] = "off" /\ k \notin v.failed =>
             /\ k \in left
             /\ \A p \in v.saw[k] : /\ p[1] \in Sources
                                    /\ Effective(source, on, owner, p[1], k)
                                    /\ ~Effective(source, on, own, p[1], k)
  BY <1>2, <1>5, TurnsInRead DEF turn
<1> HIDE DEF v
<1>7. ASSUME NEW k \in Components, v.turn[k] = "off", k \notin v.failed, NEW p \in v.saw[k]
      PROVE  p[1] = s
  BY <1>4, <1>6, <1>7 DEF Effective
<1>8. ReadsSound(r)'
  BY <1>1, <1>2, <1>5, <1>6, <1>7, OtherSound DEF v
<1> QED BY <1>1, <1>2, <1>5, <1>8, OneReads

\* The switching of a configuration reads.
LEMMA SwitchReads ==
  ASSUME TypeOK, ChecksInv, NEW c \in Configs, SwitchRead(c)
  PROVE  ReadsMove
<1>1. /\ c \in configs /\ tx[c].kind = "none" /\ UNCHANGED <<vars, on, check, owner>>
      /\ c \in Actors /\ CheckTypes
  BY DEF SwitchRead, Actors, ChecksInv
<1>2. UNCHANGED <<configs, run, tx>>
  BY <1>1 DEF vars
<1>3. CASE c \in on /\ Reads(c, [NoReads EXCEPT !.kind = "pause", !.turn = Paused(c)])
  <2> DEFINE turn == Paused(c)
             q == [NoReads EXCEPT !.kind = "pause", !.turn = turn]
             v == Witnessed(q)
  <2>1. turn \in [Components -> Turns]
    BY <1>1, TurnsInFields DEF CheckTypes, Paused
  <2> HIDE DEF turn
  <2>2. q \in ReadsOf /\ q.kind = "pause" /\ q.turn = turn
    BY <2>1, NoReadsType DEF NoReads, ReadsOf
  <2>3. Reads(c, q)
    BY <1>3 DEF turn
  <2> HIDE DEF q
  <2>4. \A k \in Components :
          /\ v.turn[k] = "on" => k \notin v.failed
          /\ v.turn[k] # "back"
          /\ v.turn[k] = "off" /\ k \notin v.failed =>
               \A p \in v.saw[k] : /\ p[1] \in Sources /\ source[p[1]].bound = p[2]
                                   /\ Effective(source, on, owner, p[1], k)
                                   /\ ~Effective(source, on \ {c}, owner, p[1], k)
    BY <1>1, <2>2, TurnsInRead DEF turn, Paused
  <2> HIDE DEF v
  <2>5. ASSUME NEW k \in Components, v.turn[k] = "off", k \notin v.failed, NEW p \in v.saw[k]
        PROVE  p[2] = c
    BY <2>4, <2>5 DEF Effective
  <2>6. ReadsSound(c)'
    BY <1>1, <1>2, <2>2, <2>3, <2>4, <2>5, OtherSound DEF v
  <2> QED BY <1>1, <1>2, <2>2, <2>3, <2>6, OneReads
<1>4. CASE c \notin on /\ Reads(c, [NoReads EXCEPT !.kind = "resume", !.turn = Resumed(c)])
  <2> DEFINE turn == Resumed(c)
             q == [NoReads EXCEPT !.kind = "resume", !.turn = turn]
             v == Witnessed(q)
  <2>1. turn \in [Components -> Turns] /\ \A k \in Components : turn[k] \in {"back", "leave"}
    BY DEF Resumed, Turns
  <2> HIDE DEF turn
  <2>2. q \in ReadsOf /\ q.kind = "resume" /\ q.turn = turn
    BY <2>1, NoReadsType DEF NoReads, ReadsOf
  <2>3. Reads(c, q)
    BY <1>4 DEF turn
  <2> HIDE DEF q
  <2>4. v.turn = turn
    BY <2>2, WitnessedFields
  <2> HIDE DEF v
  <2>5. ReadsSound(c)'
    BY <1>1, <1>2, <1>4, <2>1, <2>2, <2>3, <2>4, OtherSound DEF v
  <2> QED BY <1>1, <1>2, <2>2, <2>3, <2>5, OneReads
<1> QED BY <1>3, <1>4 DEF SwitchRead

\* The deletion of a configuration reads.
LEMMA DeleteReads ==
  ASSUME TypeOK, ChecksInv, NEW c \in Configs, DeletePausedRead(c)
  PROVE  ReadsMove
<1> DEFINE flip == {s \in Sources : source[s].bound = c /\ source[s].status # "RETIRED"}
           src == [s \in Sources |->
             IF s \in tx'[c].flip THEN [source[s] EXCEPT !.status = "UNMONITORED"] ELSE source[s]]
           turn == TurnsIn(OwnedFor(c), src, on, owner)
           q == [NoReads EXCEPT !.kind = "delete", !.turn = turn]
           v == Witnessed(q)
<1>1. /\ DeleteRead(c) /\ Reads(c, q) /\ UNCHANGED <<on, check, owner>> /\ c \in Actors /\ CheckTypes
  BY DEF DeletePausedRead, Actors, ChecksInv
<1>2. /\ UNCHANGED <<configs, run>> /\ tx'[c].kind = "delete" /\ \A b \in Actors \ {c} : tx'[b] = tx[b]
  BY <1>1, DeleteReadStep
<1>3. tx'[c] = [NoPlan EXCEPT !.kind = "delete", !.bound = c, !.flip = flip]
  BY <1>1 DEF DeleteRead, Begin, TypeOK
<1>4. tx'[c].flip = flip
  BY <1>3 DEF NoPlan
<1>5. \A s \in Sources : s \notin flip => src[s] = source[s]
  BY <1>4
<1>6. turn \in [Components -> Turns]
  BY <1>1, TurnsInFields DEF CheckTypes
<1> HIDE DEF turn, src
<1>7. q \in ReadsOf /\ q.kind = "delete" /\ q.turn = turn
  BY <1>6, NoReadsType DEF NoReads, ReadsOf
<1> HIDE DEF q
<1>8. \A k \in Components :
        /\ v.turn[k] = "on" => k \notin v.failed
        /\ v.turn[k] # "back"
        /\ v.turn[k] = "off" /\ k \notin v.failed =>
             \A p \in v.saw[k] : /\ p[1] \in Sources /\ source[p[1]].bound = p[2]
                                 /\ Effective(source, on, owner, p[1], k)
                                 /\ ~Effective(src, on, owner, p[1], k)
  BY <1>1, <1>7, TurnsInRead DEF turn
<1> HIDE DEF v
<1>9. ASSUME NEW k \in Components, v.turn[k] = "off", k \notin v.failed, NEW p \in v.saw[k]
      PROVE  p[2] = c
  <2>1. p[1] \in flip
    BY <1>5, <1>8, <1>9 DEF Effective
  <2> QED BY <1>8, <1>9, <2>1
<1>10. ReadsSound(c)'
  BY <1>1, <1>2, <1>7, <1>8, <1>9, OtherSound DEF v
<1> QED BY <1>1, <1>2, <1>7, <1>10, OneReads

\* The commits.
LEMMA SyncForgets ==
  ASSUME TypeOK, Known, ChecksInv, NEW r \in Runs, NEW j \in Components, SyncCommit(r, j)
  PROVE  ReadsMove
<1>1. /\ Asset(r, j) /\ OpenAsset(r, j) /\ Forgets(r) /\ on' = on /\ r \in Actors
      /\ \A k \in Components \ {j} : Framed(k)
  BY SyncChecks DEF SyncCommit, Actors
<1>2. /\ configs' = configs /\ tx' = tx /\ tx[r].kind = "none"
      /\ \A q \in Runs \ {r} : run'[q] = run[q]
  BY <1>1, AssetStep
<1>3. \A b \in Actors \ {r} : reads[b].kind = "asset" =>
        reads[b].comp \in Components \ {j}
  BY <1>1 DEF ChecksInv, OneAsset, OpenAsset, ReadsSound, ReadsKnown
<1>4. \A b \in Actors : reads[b].kind = "resume" => b \in configs' /\ b \notin on'
  BY <1>1, <1>2 DEF ChecksInv, ReadsSound, ReadsKnown
<1> QED BY <1>1, <1>2, <1>3, <1>4, OneForgets DEF Actors

LEMMA ReconcileForgets ==
  ASSUME TypeOK, Known, ChecksInv, NEW r \in Runs, ReconcileChecks(r)
  PROVE  ReadsMove
<1>1. /\ ReconcileCommit(r) /\ Forgets(r) /\ on' = on /\ r \in Actors
      /\ \A k \in Components : Framed(k)
  BY ReconciledChecks DEF ReconcileChecks, Actors
<1>2. /\ configs' = configs /\ tx'[r] = NoPlan /\ \A b \in Actors \ {r} : tx'[b] = tx[b]
      /\ \A q \in Runs \ {r} : run'[q] = run[q]
  BY <1>1, ReconcileCommitStep
<1>3. \A b \in Actors : /\ reads[b].kind = "resume" => b \in configs' /\ b \notin on'
                        /\ reads[b].kind = "asset" => reads[b].comp \in Components
  BY <1>1, <1>2 DEF ChecksInv, ReadsSound, ReadsKnown
<1>4. tx'[r].kind = "none"
  BY <1>2 DEF NoPlan
<1> QED BY <1>1, <1>2, <1>3, <1>4, OneForgets DEF Actors

LEMMA SwitchForgets ==
  ASSUME TypeOK, ChecksInv, NEW c \in Configs, SwitchCommit(c)
  PROVE  ReadsMove
<1>1. /\ reads[c].kind \in {"pause", "resume"} /\ Forgets(c) /\ c \in Actors
      /\ on' = IF reads[c].kind = "pause" THEN on \ {c} ELSE on \union {c}
      /\ UNCHANGED vars /\ \A k \in Components : Framed(k)
  BY SwitchChecks DEF SwitchCommit, Actors
<1>2. UNCHANGED <<configs, run, tx>>
  BY <1>1 DEF vars
<1>3. \A b \in Actors :
        /\ reads[b].kind = "resume" => b \in configs /\ b \notin on
        /\ reads[b].kind = "asset" => reads[b].comp \in Components
  BY DEF ChecksInv, ReadsSound, ReadsKnown
<1>4. tx[c].kind \notin {"reconcile", "delete"}
  BY <1>1 DEF ChecksInv, ReadsSound, ReadsKnown
<1> QED BY <1>1, <1>2, <1>3, <1>4, OneForgets DEF Actors

LEMMA DeleteForgets ==
  ASSUME TypeOK, ChecksInv, NEW c \in Configs, DeletePaused(c)
  PROVE  ReadsMove
<1>1. /\ DeleteCommit(c) /\ Forgets(c) /\ c \in Actors /\ on' = on \ {c}
      /\ \A k \in Components : Framed(k)
  BY DeleteChecks DEF DeletePaused, Actors
<1>2. /\ configs' = configs \ {c} /\ tx'[c] = NoPlan /\ \A b \in Actors \ {c} : tx'[b] = tx[b]
      /\ run' = run
  BY <1>1, DeleteCommitStep
<1>3. \A b \in Actors :
        /\ reads[b].kind = "resume" => b \in configs /\ b \notin on
        /\ reads[b].kind = "asset" => reads[b].comp \in Components
  BY DEF ChecksInv, ReadsSound, ReadsKnown
<1>4. tx'[c].kind = "none"
  BY <1>2 DEF NoPlan
<1> QED BY <1>1, <1>2, <1>3, <1>4, OneForgets DEF Actors
-----------------------------------------------------------------------------
(* Every step of the checks.                                               *)

\* A step beside the checks that neither begins nor ends a transaction that reads them.
LEMMA AsideStep ==
  ASSUME ChecksInv, UNCHANGED <<on, check, owner, reads, configs>>,
         \A a \in Actors : \/ tx'[a] = tx[a]
                           \/ /\ tx[a].kind \notin {"reconcile", "delete"}
                              /\ tx'[a].kind \notin {"reconcile", "delete"},
         \A r \in Runs : reads[r].kind = "asset" => run'[r].pc = run[r].pc /\ run'[r].src = run[r].src
  PROVE  ChecksMove /\ ReadsMove
<1>1. on' \subseteq Configs
  BY DEF ChecksInv, CheckTypes
<1>2. ChecksMove /\ \A k \in Components : Framed(k)
  BY <1>1, ChecksUntouched
<1>3. \A a \in Actors : /\ tx'[a].kind = "reconcile" <=> tx[a].kind = "reconcile"
                        /\ tx'[a].kind = "delete" <=> tx[a].kind = "delete"
                        /\ tx[a].kind = "reconcile" => tx'[a].src = tx[a].src
  OBVIOUS
<1> QED BY <1>2, <1>3, NothingRead

\* The steps of a run beside the checks.
LEMMA RunsAside ==
  ASSUME TypeOK, Known, ChecksInv, NEW r \in Runs, UNCHANGED <<on, check, owner, reads>>,
         \/ Start(r) \/ RegisterCommit(r) \/ RegisterRead(r)
         \/ (reads[r].kind = "none" /\ Fail(r))
  PROVE  ChecksMove /\ ReadsMove
<1>0. /\ r \in Actors
      /\ \A q \in Runs : reads[q].kind = "asset" => run[q].pc = "reporting"
  BY DEF Actors, ChecksInv, ReadsSound, ReadsKnown
<1>1. CASE Start(r)
  BY <1>0, <1>1, StartFailStep, AsideStep DEF Start
<1>2. CASE reads[r].kind = "none" /\ Fail(r)
  BY <1>0, <1>2, StartFailStep, AsideStep
<1>3. CASE RegisterRead(r)
  BY <1>0, <1>3, RegisterReadStep, AsideStep
<1>4. CASE RegisterCommit(r)
  BY <1>0, <1>4, RegisterCommitStep, AsideStep DEF NoPlan
<1> QED BY <1>1, <1>2, <1>3, <1>4

\* The steps of a source beside the checks.
LEMMA SourcesAside ==
  ASSUME TypeOK, ChecksInv, NEW s \in Sources, UNCHANGED <<on, check, owner, reads>>,
         RetireRead(s) \/ Reactivate(s) \/ RetireCommit(s)
  PROVE  ChecksMove /\ ReadsMove
<1>0. s \in Actors
  BY DEF Actors
<1>1. CASE RetireRead(s)
  BY <1>0, <1>1, RetireReadStep, AsideStep
<1>2. CASE Reactivate(s)
  BY <1>0, <1>2, ReactivateStep, AsideStep
<1>3. CASE RetireCommit(s)
  BY <1>0, <1>3, RetireCommitStep, AsideStep DEF NoPlan
<1> QED BY <1>1, <1>2, <1>3

\* The steps of a run on the checks.
LEMMA RunsChecks ==
  ASSUME TypeOK, Known, ChecksInv, NEW r \in Runs,
         \/ ReconcileChecksRead(r) \/ ReconcileChecks(r)
         \/ \E k \in Components : \/ \E d \in Defs, w \in BOOLEAN : SyncRead(r, k, d, w)
                                  \/ SyncCommit(r, k) \/ AssetDropped(r, k)
  PROVE  ChecksMove /\ ReadsMove
<1>0. on \subseteq Configs
  BY DEF ChecksInv, CheckTypes
<1>1. CASE ReconcileChecksRead(r)
  BY <1>0, <1>1, ReconcileReads, ChecksUntouched DEF ReconcileChecksRead
<1>2. CASE ReconcileChecks(r)
  BY <1>2, ReconciledChecks, ReconcileForgets
<1>3. ASSUME NEW k \in Components, NEW d \in Defs, NEW w \in BOOLEAN, SyncRead(r, k, d, w)
      PROVE  ChecksMove /\ ReadsMove
  <2>1. UNCHANGED <<on, check, owner>>
    BY <1>3 DEF SyncRead
  <2>2. ReadsMove
    BY <1>3, SyncReads
  <2> QED BY <1>0, <2>1, <2>2, ChecksUntouched
<1>4. ASSUME NEW k \in Components, SyncCommit(r, k) PROVE ChecksMove /\ ReadsMove
  BY <1>4, SyncChecks, SyncForgets
<1>5. ASSUME NEW k \in Components, AssetDropped(r, k) PROVE ChecksMove /\ ReadsMove
  <2>1. ChecksMove /\ \A j \in Components : Framed(j)
    BY <1>5, DroppedChecks
  <2>2. reads[r].kind = "none" /\ Asset(r, k) /\ UNCHANGED <<on, reads>>
    BY <1>5 DEF AssetDropped
  <2>3. /\ UNCHANGED <<configs, tx>> /\ run'[r].pc = run[r].pc /\ run'[r].src = run[r].src
        /\ \A q \in Runs \ {r} : run'[q] = run[q]
    BY <2>2, AssetStep
  <2>4. ReadsMove
    BY <2>1, <2>2, <2>3, NothingRead
  <2> QED BY <2>1, <2>4
<1> QED BY <1>1, <1>2, <1>3, <1>4, <1>5

\* The steps of a configuration on the checks.
LEMMA ConfigsChecks ==
  ASSUME TypeOK, ChecksInv, NEW c \in Configs,
         DeletePausedRead(c) \/ DeletePaused(c) \/ SwitchRead(c) \/ SwitchCommit(c)
  PROVE  ChecksMove /\ ReadsMove
<1>0. on \subseteq Configs
  BY DEF ChecksInv, CheckTypes
<1>1. CASE DeletePausedRead(c)
  BY <1>0, <1>1, DeleteReads, ChecksUntouched DEF DeletePausedRead
<1>2. CASE DeletePaused(c)
  BY <1>2, DeleteChecks, DeleteForgets
<1>3. CASE SwitchRead(c)
  BY <1>0, <1>3, SwitchReads, ChecksUntouched DEF SwitchRead
<1>4. CASE SwitchCommit(c)
  BY <1>4, SwitchChecks, SwitchForgets
<1> QED BY <1>1, <1>2, <1>3, <1>4

LEMMA CheckStep ==
  ASSUME CatalogInv, ChecksInv, [CheckNext]_allVars PROVE ChecksMove /\ ReadsMove
<1>0. TypeOK /\ Known
  BY DEF CatalogInv
<1>1. CASE UNCHANGED allVars
  <2>1. UNCHANGED <<on, check, owner, reads, configs, tx, run>>
    BY <1>1 DEF allVars, vars, checkVars
  <2> QED BY <2>1, AsideStep
<1>2. ASSUME NEW r \in Runs,
             \/ Aside(Start(r) \/ RegisterCommit(r)) \/ Aside(RegisterRead(r))
             \/ (reads[r].kind = "none" /\ Aside(Fail(r)))
      PROVE  ChecksMove /\ ReadsMove
  BY <1>0, <1>2, RunsAside DEF Aside, checkVars
<1>3. ASSUME NEW s \in Sources,
             \/ (RetireRead(s) /\ UNCHANGED <<on, check, owner, reads>>)
             \/ Aside(Reactivate(s)) \/ Aside(RetireUnheld(s))
      PROVE  ChecksMove /\ ReadsMove
  BY <1>0, <1>3, SourcesAside DEF Aside, checkVars, RetireUnheld
<1>4. ASSUME NEW k \in Components, AutoDisable(k) PROVE ChecksMove /\ ReadsMove
  <2>1. ChecksMove /\ \A j \in Components : Framed(j)
    BY <1>4, AutoDisableChecks
  <2>2. UNCHANGED <<on, reads, configs, tx, run>>
    BY <1>4 DEF AutoDisable, vars
  <2> QED BY <2>1, <2>2, NothingRead
<1> QED
  <2> HIDE DEF ChecksMove, ReadsMove
  <2> QED BY <1>0, <1>1, <1>2, <1>3, <1>4, RunsChecks, ConfigsChecks DEF CheckNext

\* The invariant of the checks, with what it needs of the catalog.
CheckInv == CatalogInv /\ ChecksInv

LEMMA CheckInvInit == CheckInit => CheckInv
<1> SUFFICES ASSUME CheckInit PROVE CheckInv
  OBVIOUS
<1>1. CheckTypes /\ \A k \in Components : Sound(k)
  BY NoneChecked, NoReadsType DEF CheckInit, CheckTypes, Sound
<1>2. \A a \in Actors : reads[a] = NoReads /\ tx[a].kind = "none"
  BY DEF CheckInit, Init, NoPlan
<1>3. \A a \in Actors : ReadsSound(a)
  BY <1>2, NoReadsType DEF ReadsSound, ReadsKnown, Agrees, Loses
<1>4. OneAsset
  BY <1>2, NoReadsType DEF OneAsset
<1> QED BY <1>1, <1>3, <1>4, CatalogInit DEF CheckInit, CheckInv, ChecksInv

LEMMA CheckInvStep == CheckInv /\ [CheckNext]_allVars => CheckInv'
<1> SUFFICES ASSUME CheckInv, [CheckNext]_allVars PROVE CheckInv'
  OBVIOUS
<1>1. ChecksMove /\ ReadsMove
  BY CheckStep DEF CheckInv
<1>2. ChecksInv'
  BY <1>1 DEF ChecksMove, ReadsMove, ChecksInv, CheckTypes
<1> QED BY <1>2, CheckRefines, CatalogStep DEF CheckInv

\* The sources that declare a shared check agree on its definition, in whatever order their
\* runs came in and however their transactions overlap.
THEOREM DefinitionsAgreeHolds == CheckSpec => []DefinitionsAgree
<1>1. CheckInv => DefinitionsAgree
  BY DEF CheckInv, ChecksInv, Sound, DefinitionsAgree
<1> QED BY <1>1, CheckInvInit, CheckInvStep, PTL DEF CheckSpec

\* The two properties, of a step.
OffStep ==
  \A k \in Components :
    /\ check[k].auto /\ check'[k].exists
    /\ ~check'[k].auto \/ (~check[k].enabled /\ check'[k].enabled)
    => \/ \E c \in Configs : c \notin on /\ c \in on'
       \/ \E a \in Actors : Ends(a) /\ k \notin reads[a].failed

RunningStep ==
  \A k \in Components :
    check[k].enabled /\ check'[k].exists /\ ~check'[k].enabled /\ ~check'[k].auto =>
      \E a \in Actors :
        /\ Ends(a)
        /\ k \in reads[a].failed \/ \A s \in Sources :
             Effective(source', on', owner', s, k) =>
               <<s, source'[s].bound>> \notin reads[a].saw[k]

\* A check that disabled itself comes back when some configuration is switched on and with
\* nothing else, but for a transaction that read it before it disabled itself.
THEOREM AutoDisabledStaysOffHolds == CheckSpec => AutoDisabledStaysOff
<1>1. CheckInv /\ [CheckNext]_allVars => OffStep
  BY CheckStep DEF CheckInv, ChecksMove, StaysOff, OffStep
<1>2. CheckSpec => [][OffStep]_allVars
  BY <1>1, CheckInvInit, CheckInvStep, PTL DEF CheckSpec
<1> QED BY <1>2 DEF AutoDisabledStaysOff, OffStep

\* A check goes off, other than by itself, only by a transaction that saw, when it read the
\* owners, none that counts afterwards, or that had seen the check disable itself: however the
\* reads and writes of recomputeManagedCheckEnabled overlap, an owner is overlooked only while
\* it is not committed.
THEOREM VisibleOwnerKeepsRunningHolds == CheckSpec => VisibleOwnerKeepsRunning
<1>1. CheckInv /\ [CheckNext]_allVars => RunningStep
  BY CheckStep DEF CheckInv, ChecksMove, KeepsRunning, RunningStep
<1>2. CheckSpec => [][RunningStep]_allVars
  BY <1>1, CheckInvInit, CheckInvStep, PTL DEF CheckSpec
<1> QED BY <1>2 DEF VisibleOwnerKeepsRunning, RunningStep

\* Under its checks the catalog behaves as SourceMemberships says.
THEOREM ChecksImplementCatalog == CheckSpec => Spec
<1>1. CheckInit => Init
  BY DEF CheckInit
<1> QED BY <1>1, CheckRefines, PTL DEF CheckSpec, Spec

\* Under the checks as well, no reporter that the retiring transaction could see is overruled,
\* and what is left an orphan had been seen shared.
THEOREM CatalogUnderChecks == CheckSpec => NoReporterOverruled /\ OnlySharedIsOrphaned
BY ChecksImplementCatalog, NoReporterOverruledHolds, OnlySharedIsOrphanedHolds, PTL

\* The checks, their owners, the switches and the open reads have their types: an owned check
\* exists, and only configurations that exist are enabled.
THEOREM CheckTypeInvariant == CheckSpec => []CheckTypeOK
<1> DEFINE Rest == on \subseteq configs /\ operations \in 0..MaxOperations
<1>1. CheckInit => CheckInv /\ Rest
  BY CheckInvInit, DefsAssumption DEF CheckInit, Init
<1>2. CheckInv /\ Rest /\ [CheckNext]_allVars => Rest'
  <2> SUFFICES ASSUME CheckInv, Rest, [CheckNext]_allVars PROVE Rest'
    OBVIOUS
  <2>0. /\ TypeOK /\ Known /\ (Operation => operations' \in 0..MaxOperations)
        /\ \A a \in Actors : reads[a].kind = "resume" => a \in configs
    BY DefsAssumption DEF CheckInv, CatalogInv, Operation, ChecksInv, ReadsSound, ReadsKnown
  <2>1. CASE UNCHANGED <<configs, on, operations>>
    BY <2>1
  <2>2. UNCHANGED allVars => UNCHANGED <<configs, on, operations>>
    BY DEF allVars, vars, checkVars
  <2>3. ASSUME NEW r \in Runs,
               \/ Aside(Start(r) \/ RegisterCommit(r)) \/ Aside(RegisterRead(r)) \/ Aside(Fail(r))
        PROVE  UNCHANGED <<configs, on, operations>>
    BY <2>3 DEF Aside, checkVars, Start, Fail, RegisterRead, RegisterCommit
  <2>4. ASSUME NEW r \in Runs, ReconcileChecksRead(r) \/ ReconcileChecks(r)
        PROVE  UNCHANGED <<configs, on, operations>>
    BY <2>4 DEF ReconcileChecksRead, ReconcileChecks, ReconcileRead, ReconcileCommit
  <2>5. ASSUME NEW r \in Runs, NEW k \in Components, SyncCommit(r, k) \/ AssetDropped(r, k)
        PROVE  UNCHANGED <<configs, on, operations>>
    BY <2>5 DEF SyncCommit, AssetDropped, Asset
  <2>6. ASSUME NEW r \in Runs, NEW k \in Components, NEW d \in Defs, NEW w \in BOOLEAN,
               SyncRead(r, k, d, w)
        PROVE  UNCHANGED <<configs, on, operations>>
    BY <2>6 DEF SyncRead, vars
  <2>7. ASSUME NEW s \in Sources, Aside(Reactivate(s)) \/ Aside(RetireUnheld(s))
        PROVE  UNCHANGED <<configs, on, operations>>
    BY <2>7 DEF Aside, checkVars, RetireUnheld, RetireCommit, Reactivate
  <2>8. ASSUME NEW s \in Sources, Operation, RetireRead(s), UNCHANGED <<on, check, owner, reads>>
        PROVE  Rest'
    BY <2>0, <2>8 DEF RetireRead
  <2>9. ASSUME NEW c \in Configs, DeletePausedRead(c) PROVE Rest'
    BY <2>0, <2>9 DEF DeletePausedRead, DeleteRead
  <2>10. ASSUME NEW c \in Configs, DeletePaused(c) PROVE Rest'
    BY <2>10 DEF DeletePaused, DeleteCommit
  <2>11. ASSUME NEW c \in Configs, SwitchRead(c) PROVE Rest'
    BY <2>0, <2>11 DEF SwitchRead, vars
  <2>12. ASSUME NEW c \in Configs, SwitchCommit(c) PROVE Rest'
    <3>1. /\ c \in Actors /\ configs' = configs /\ operations' = operations
          /\ reads[c].kind \in {"pause", "resume"}
          /\ on' = IF reads[c].kind = "pause" THEN on \ {c} ELSE on \union {c}
      BY <2>12 DEF SwitchCommit, vars, Actors
    <3> QED BY <2>0, <3>1
  <2>13. ASSUME NEW k \in Components, AutoDisable(k) PROVE UNCHANGED <<configs, on, operations>>
    BY <2>13 DEF AutoDisable, vars
  <2> HIDE DEF Rest
  <2> QED BY Zenon, <2>1, <2>2, <2>3, <2>4, <2>5, <2>6, <2>7, <2>8, <2>9, <2>10, <2>11, <2>12,
             <2>13 DEF CheckNext
<1>3. CheckInv /\ Rest => CheckTypeOK
  BY DEF CheckInv, CatalogInv, ChecksInv, CheckTypes, Sound, CheckTypeOK
<1>4. CheckInv /\ [CheckNext]_allVars => CheckInv'
  BY CheckInvStep
<1> QED
  <2> HIDE DEF Rest
  <2> QED BY <1>1, <1>2, <1>3, <1>4, PTL DEF CheckSpec
-----------------------------------------------------------------------------
(* The groups.                                                             *)

LEMMA GroupRefines == [GroupNext]_everyVar => [Next]_vars
BY Zenon DEF GroupNext, everyVar, Next, RunStep, SourceStep, Reporting, Operating, Trigger, Quiet,
             ToggleOptOut, PassRead, PassCommit, PassFails, AssignGroup

\* A step is one of the pass, one of the humans, or leaves the groups alone.
LEMMA GroupCases ==
  ASSUME [GroupNext]_everyVar
  PROVE  \/ UNCHANGED <<group, linked, plan>>
         \/ PassRead \/ PassCommit \/ PassFails \/ \E k \in Components : AssignGroup(k)
BY Zenon DEF GroupNext, everyVar, Reporting, Operating, Trigger, Quiet, ToggleOptOut, groupVars

LEMMA PassReadPlan ==
  ASSUME PassRead
  PROVE  /\ plan'.on /\ plan'.kept \subseteq Sources
         /\ plan'.evict \subseteq Components \X Sources
         /\ plan'.assign \subseteq Components \X plan'.kept
         /\ \A k \in Components, s \in Sources : <<k, s>> \in plan'.assign => Sole(s, k)
         /\ \A k \in Components, s \in Sources : s \in plan'.had[k] <=> member[s][k].active
<1> DEFINE kept == Full \union Cleanup
           eligible == {p \in Components \X Full : Sole(p[2], p[1])}
           evict == {p \in (Components \X kept) \ eligible : group[p[1]] = p[2]}
           assign == {p \in eligible : group[p[1]] = "none" \/ <<p[1], group[p[1]]>> \in evict}
           had == [k \in Components |-> {s \in Sources : member[s][k].active}]
<1>1. plan' = [on |-> TRUE, full |-> Full, kept |-> kept, evict |-> evict, had |-> had,
               assign |-> assign]
  BY DEF PassRead
<1>2. kept \subseteq Sources
  BY CapableAssumption DEF Full, Cleanup
<1>3. evict \subseteq Components \X kept /\ eligible \subseteq Components \X Full
  OBVIOUS
<1>4. \A k, s : <<k, s>> \in eligible => Sole(s, k)
  OBVIOUS
<1>5. assign \subseteq eligible /\ Full \subseteq kept
  OBVIOUS
<1>6. \A k \in Components, s \in Sources : s \in had[k] <=> member[s][k].active
  OBVIOUS
<1> HIDE DEF kept, eligible, evict, assign, had
<1>7. /\ plan'.on /\ plan'.kept = kept /\ plan'.evict = evict /\ plan'.assign = assign
      /\ plan'.had = had
  BY <1>1
<1>8. plan'.evict \subseteq Components \X Sources /\ plan'.assign \subseteq Components \X plan'.kept
  BY <1>2, <1>3, <1>5, <1>7
<1> QED BY <1>2, <1>4, <1>5, <1>6, <1>7, <1>8

\* What a pass makes of the group of a component.
LEMMA PassCommitGroup ==
  ASSUME PassParts, PassCommit, NEW k \in Components
  PROVE  /\ group[k] = "human" => group'[k] = "human"
         /\ group'[k] \in {"none", group[k]} \/ <<k, group'[k]>> \in plan.assign
<1>1. group'[k] = Assigned(Evicted(k), k)
  BY DEF PassCommit
<1>2. group[k] = "human" => Evicted(k) = "human"
  BY GroupsAssumption DEF PassParts, Evicted
<1>3. Evicted(k) \in {"none", group[k]}
  BY DEF Evicted
<1>4. CASE Evicted(k) = "none" /\ \E s \in Sources : <<k, s>> \in plan.assign
  <2>1. group'[k] = CHOOSE s \in Sources : <<k, s>> \in plan.assign
    BY <1>1, <1>4 DEF Assigned
  <2> QED BY <1>2, <1>4, <2>1
<1>5. CASE ~(Evicted(k) = "none" /\ \E s \in Sources : <<k, s>> \in plan.assign)
  <2>1. group'[k] = Evicted(k)
    BY <1>1, <1>5 DEF Assigned
  <2> QED BY <1>2, <1>3, <2>1
<1> QED BY <1>4, <1>5

LEMMA PassPartsStep == ASSUME PassParts, [GroupNext]_everyVar PROVE PassParts'
<1>0. NoPass.kept = {} /\ NoPass.evict = {} /\ NoPass.assign = {}
  BY DEF NoPass
<1>1. CASE UNCHANGED <<group, linked, plan>>
  BY <1>1 DEF PassParts
<1>2. CASE PassRead
  BY <1>2, PassReadPlan DEF PassParts, PassRead
<1>3. CASE PassFails
  BY <1>0, <1>3 DEF PassParts, PassFails
<1>4. ASSUME NEW k \in Components, AssignGroup(k) PROVE PassParts'
  <2>1. PICK g \in {"none", "human"} \union {s \in Sources : linked[s] # "none"} :
          group' = [group EXCEPT ![k] = g]
    BY <1>4 DEF AssignGroup
  <2>2. linked' = linked /\ plan' = plan
    BY <1>4 DEF AssignGroup
  <2> QED BY <2>1, <2>2, GroupsAssumption DEF PassParts
<1>5. CASE PassCommit
  <2>1. /\ group' = [k \in Components |-> Assigned(Evicted(k), k)]
        /\ linked' = [s \in Sources |-> IF s \in plan.kept THEN Derived(group', s) ELSE linked[s]]
        /\ plan' = NoPass
    BY <1>5 DEF PassCommit
  <2>2. \A k \in Components : group'[k] \in {"none", group[k]} \/ <<k, group'[k]>> \in plan.assign
    BY <1>5, PassCommitGroup
  <2>3. \A k \in Components :
          group'[k] \in {"none", "human"} \union Sources
    BY <2>2 DEF PassParts
  <2>4. \A s : Derived(group', s) \in {"ACTIVE", "RETIRED"}
    BY DEF Derived
  <2>5. linked' \in [Sources -> {"none", "ACTIVE", "RETIRED"}]
        /\ \A s \in Sources : linked[s] # "none" \/ s \in plan.kept => linked'[s] # "none"
    BY <2>1, <2>4 DEF PassParts
  <2>6. ASSUME NEW k \in Components, group'[k] \in Sources PROVE linked'[group'[k]] # "none"
    <3>1. CASE group'[k] = "none"
      BY <2>6, <3>1, GroupsAssumption
    <3>2. CASE group'[k] = group[k]
      BY <2>5, <2>6, <3>2 DEF PassParts
    <3>3. CASE <<k, group'[k]>> \in plan.assign
      BY <2>5, <2>6, <3>3 DEF PassParts
    <3> QED BY <2>2, <3>1, <3>2, <3>3
  <2>7. group' \in [Components -> {"none", "human"} \union Sources]
    BY <2>1, <2>3
  <2> QED BY <1>0, <2>1, <2>5, <2>6, <2>7 DEF PassParts
<1> QED BY <1>1, <1>2, <1>3, <1>4, <1>5, GroupCases

LEMMA PassPartsInit == GroupInit => PassParts /\ ~plan.on
BY GroupsAssumption DEF GroupInit, PassParts, NoPass

\* Who ends a pass: its writes, or its failure.
LEMMA PassEnds ==
  ASSUME [GroupNext]_everyVar, plan.on, ~plan'.on PROVE PassCommit \/ (PassFails /\ group' = group)
BY GroupCases, PassReadPlan DEF AssignGroup, PassFails

\* The property, of a step.
HumanStep ==
  plan.on /\ ~plan'.on => \A k \in Components : group[k] = "human" => group'[k] = "human"

\* A pass never takes a component out of the group a human put it in, also when the human did
\* so between the reads and the writes of the pass; transactions may overlap as they like.
THEOREM HumanGroupsKeptHolds == GroupSpec => HumanGroupsKept
<1>1. PassParts /\ [GroupNext]_everyVar => HumanStep
  BY PassEnds, PassCommitGroup DEF HumanStep
<1>2. PassParts /\ [GroupNext]_everyVar => PassParts'
  BY PassPartsStep
<1>3. GroupSpec => [][HumanStep]_everyVar
  BY <1>1, <1>2, PassPartsInit, PTL DEF GroupSpec
<1> QED BY <1>3 DEF HumanGroupsKept, HumanStep

\* An open pass has the source rows: no source changes under it, and whatever else opens
\* beside it is a reconciliation.
LEMMA PassHolds ==
  ASSUME CatalogInv, plan.on, Undisturbed, [GroupNext]_everyVar
  PROVE  source' = source /\ Undisturbed'
<1>0. TypeOK /\ Known /\ ~PassFree
  BY DEF CatalogInv, PassFree
<1>1. ASSUME NEW r \in Runs, Start(r) \/ Fail(r) PROVE source' = source /\ Undisturbed'
  BY <1>0, <1>1, StartFailStep DEF Undisturbed
<1>2. ASSUME NEW r \in Runs PROVE ~RegisterCommit(r)
  BY DEF RegisterCommit, Undisturbed, Actors
<1>3. ASSUME NEW s \in Sources PROVE ~RetireCommit(s)
  BY DEF RetireCommit, Undisturbed, Actors
<1>4. ASSUME NEW r \in Runs, ReconcileRead(r) PROVE source' = source /\ Undisturbed'
  BY <1>0, <1>4, ReconcileReadStep DEF Undisturbed
<1>5. ASSUME NEW r \in Runs, ReconcileCommit(r) PROVE source' = source /\ Undisturbed'
  BY <1>0, <1>5, ReconcileCommitStep DEF Undisturbed, NoPlan
<1>6. ASSUME NEW r \in Runs, NEW k \in Components, Asset(r, k) PROVE source' = source /\ Undisturbed'
  BY <1>0, <1>6, AssetStep DEF Undisturbed
<1>7. ASSUME NEW r \in Runs, Reporting(r) PROVE source' = source /\ Undisturbed'
  BY <1>0, <1>1, <1>2, <1>4, <1>5, <1>6, <1>7 DEF Reporting, Quiet, Trigger
<1>8. ASSUME NEW s \in Sources PROVE ~Operating(s)
  BY <1>0, <1>3 DEF Operating, Trigger
<1>9. CASE UNCHANGED vars
  BY <1>9 DEF vars, Undisturbed
<1>10. PassRead \/ PassCommit \/ PassFails \/ UNCHANGED everyVar => UNCHANGED vars
  BY DEF PassRead, PassCommit, PassFails, everyVar
<1>11. ASSUME NEW k \in Components, AssignGroup(k) PROVE UNCHANGED vars
  BY <1>11 DEF AssignGroup
<1>12. ASSUME NEW c \in Configs, ToggleOptOut(c) PROVE UNCHANGED vars
  BY <1>12 DEF ToggleOptOut
<1> QED BY <1>0, <1>7, <1>8, <1>9, <1>10, <1>11, <1>12 DEF GroupNext

LEMMA PassFreshStep ==
  ASSUME CatalogInv, PassFresh, [GroupNext]_everyVar PROVE PassFresh'
<1>1. CASE PassRead
  <2>1. /\ UNCHANGED vars /\ \A s \in Sources : ~RowLocked(s)
        /\ Open("retire") \union Open("delete") = {}
    BY <1>1 DEF PassRead
  <2>2. \A a \in Actors : tx[a].kind \in Kinds /\ (tx[a].kind = "register" => tx[a].src \in Sources)
    BY DEF CatalogInv, TypeOK, Plan, Known
  <2>3. Undisturbed'
    BY <2>1, <2>2 DEF Undisturbed, Open, RowLocked, Kinds, vars
  <2>4. ASSUME NEW k \in Components, NEW s \in Sources, <<k, s>> \in plan'.assign
        PROVE  (SoleReader(k, s))'
    <3>1. Sole(s, k) /\ \A t \in Sources : t \in plan'.had[k] <=> member[t][k].active
      BY <1>1, <2>4, PassReadPlan
    <3>2. source' = source
      BY <2>1 DEF vars
    <3>3. \A t \in Sources : Counts(t) /\ member[t][k].active <=> t = s
      BY <3>1 DEF Sole
    <3> QED BY <3>1, <3>2, <3>3 DEF SoleReader, Counts
  <2> QED BY <2>3, <2>4 DEF PassFresh
<1>2. CASE ~PassRead
  <2> SUFFICES ASSUME plan'.on PROVE PassFresh'
    BY DEF PassFresh
  <2>1. plan' = plan
    BY <1>2, GroupCases DEF PassCommit, PassFails, NoPass, AssignGroup
  <2>2. plan.on /\ Undisturbed
    BY <2>1 DEF PassFresh
  <2>3. source' = source /\ Undisturbed'
    BY <2>2, PassHolds
  <2> QED BY <2>1, <2>2, <2>3 DEF PassFresh, SoleReader, Counts
<1> QED BY <1>1, <1>2

\* The property, of a step.
FollowStep ==
  plan.on /\ ~plan'.on =>
    \A k \in Components : group'[k] # group[k] /\ group'[k] \in Sources =>
      /\ Counts(group'[k]) /\ group'[k] \in plan.had[k]
      /\ \A s \in Sources : Counts(s) /\ member[s][k].active =>
           s = group'[k] \/ s \notin plan.had[k]

LEMMA FollowStepHolds == ASSUME PassParts, PassFresh, [GroupNext]_everyVar PROVE FollowStep
<1> SUFFICES ASSUME plan.on, ~plan'.on, NEW k \in Components,
                    group'[k] # group[k], group'[k] \in Sources
             PROVE  /\ Counts(group'[k]) /\ group'[k] \in plan.had[k]
                    /\ \A s \in Sources : Counts(s) /\ member[s][k].active =>
                         s = group'[k] \/ s \notin plan.had[k]
  BY DEF FollowStep
<1>1. PassCommit
  BY PassEnds
<1>2. <<k, group'[k]>> \in plan.assign
  BY <1>1, PassCommitGroup, GroupsAssumption
<1>3. SoleReader(k, group'[k])
  BY <1>2 DEF PassFresh
<1> QED BY <1>3 DEF SoleReader

\* Under the passes and the humans the catalog behaves as SourceMemberships says.
THEOREM GroupsImplementCatalog == GroupSpec => Spec
<1>1. GroupInit => Init
  BY DEF GroupInit
<1> QED BY <1>1, GroupRefines, PTL DEF GroupSpec, Spec

\* However transactions overlap, a pass puts into the group of a source only what that source
\* alone reports when the pass writes, but for those who have come to report it since the pass
\* read.
THEOREM GroupsFollowReportersHolds == GroupSpec => GroupsFollowReporters
<1>1. CatalogInv /\ [GroupNext]_everyVar => CatalogInv'
  BY CatalogStep, GroupRefines
<1>2. CatalogInv /\ PassFresh /\ [GroupNext]_everyVar => PassFresh'
  BY PassFreshStep
<1>3. PassParts /\ [GroupNext]_everyVar => PassParts'
  BY PassPartsStep
<1>4. PassParts /\ PassFresh /\ [GroupNext]_everyVar => FollowStep
  BY FollowStepHolds
<1>5. GroupInit => CatalogInv /\ PassFresh /\ PassParts
  BY CatalogInit, PassPartsInit DEF GroupInit, PassFresh
<1>6. GroupSpec => [][FollowStep]_everyVar
  BY <1>1, <1>2, <1>3, <1>4, <1>5, PTL DEF GroupSpec
<1> QED BY <1>6 DEF GroupsFollowReporters, FollowStep

\* The groups, links and opt-outs have their types; a component is in the group of a source
\* only when that source has one.
THEOREM GroupTypeInvariant == GroupSpec => []GroupTypeOK
<1> DEFINE Rest == optout \subseteq Configs /\ toggles \in 0..MaxToggles /\ due \in BOOLEAN
<1>1. GroupInit => CatalogInv /\ PassParts /\ Rest
  <2>1. GroupInit => Init /\ optout = {} /\ toggles = 0 /\ due \in BOOLEAN
    BY Zenon DEF GroupInit
  <2>2. GroupInit => Rest
    BY <2>1, CapableAssumption
  <2> QED BY <2>1, <2>2, CatalogInit, PassPartsInit
<1>2. CatalogInv /\ PassParts /\ [GroupNext]_everyVar => CatalogInv' /\ PassParts'
  BY CatalogStep, GroupRefines, PassPartsStep
<1>3. Rest /\ [GroupNext]_everyVar => Rest'
  <2> SUFFICES ASSUME Rest, [GroupNext]_everyVar PROVE Rest'
    OBVIOUS
  <2>1. CASE UNCHANGED <<optout, toggles>> /\ due' \in BOOLEAN
    BY <2>1
  <2>2. ASSUME NEW c \in Configs, ToggleOptOut(c) PROVE Rest'
    BY <2>2, CapableAssumption DEF ToggleOptOut
  <2>3. PassRead \/ PassCommit \/ PassFails \/ (\E k \in Components : AssignGroup(k))
          \/ UNCHANGED everyVar => UNCHANGED <<optout, toggles>> /\ due' \in BOOLEAN
    BY DEF PassRead, PassCommit, PassFails, AssignGroup, everyVar, groupVars
  <2>4. ASSUME NEW r \in Runs, Reporting(r) PROVE UNCHANGED <<optout, toggles>> /\ due' \in BOOLEAN
    BY <2>4 DEF Reporting, Quiet, Trigger, groupVars
  <2>5. ASSUME NEW s \in Sources, Operating(s) PROVE UNCHANGED <<optout, toggles>> /\ due' \in BOOLEAN
    BY <2>5 DEF Operating, Quiet, Trigger, groupVars
  <2>6. ASSUME NEW c \in Configs, Quiet(ConfigStep(c))
        PROVE  UNCHANGED <<optout, toggles>> /\ due' \in BOOLEAN
    BY <2>6 DEF Quiet, groupVars
  <2> HIDE DEF Rest
  <2> QED BY Zenon, <2>1, <2>2, <2>3, <2>4, <2>5, <2>6 DEF GroupNext
<1>4. CatalogInv /\ PassParts /\ Rest => GroupTypeOK
  BY DEF CatalogInv, PassParts, GroupTypeOK
<1> QED
  <2> HIDE DEF Rest
  <2> QED BY <1>1, <1>2, <1>3, <1>4, PTL DEF GroupSpec

\* A run that no other run of its source overlapped leaves exactly what it yielded, beside the
\* passes as well.
THEOREM SoloRunIsExactBesidePasses == GroupSpec => SoloRunIsExact
BY GroupsImplementCatalog, SoloRunIsExactHolds, PTL
=============================================================================
