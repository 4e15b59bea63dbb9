---------------------------- MODULE ManagedChecks ----------------------------
(***************************************************************************)
(* The importer-managed URL checks (url-check-service.ts) on top of        *)
(* SourceMemberships: an asset declares the check of its instance, every   *)
(* reporting source owns a membership of it, and the check is scheduled    *)
(* while an effective, enabled owner wants it.  Runs, their                *)
(* reconciliation, the switching on and off and the deletion of a          *)
(* configuration and the automatic disabling all go through the check row. *)
(*                                                                         *)
(* recomputeManagedCheckEnabled reads the check and its owners without a   *)
(* lock and writes in a later statement: `reads` is what the open          *)
(* transactions have read, their commit writes what they decided then.     *)
(*                                                                         *)
(* The one instance of a component has one check, named by the component.  *)
(* A configuration is switched or deleted by one transaction at a time.    *)
(***************************************************************************)
EXTENDS SourceMemberships

CONSTANTS Defs, MaxOperations      \* the definitions a scope can give a check;
                                 \* bound: pauses, deletions and retirements

ASSUME DefsAssumption == Defs # {} /\ None \notin Defs /\ MaxOperations \in Nat

VARIABLES
  on,         \* the configurations that are enabled
  check,      \* url_checks
  owner,      \* source_url_check_memberships
  operations,
  reads       \* of the open transactions

checkVars == <<on, check, owner, operations, reads>>
allVars == <<vars, checkVars>>

NoCheck == [exists |-> FALSE, enabled |-> FALSE, auto |-> FALSE, def |-> None]
Check == [exists : BOOLEAN, enabled : BOOLEAN, auto : BOOLEAN, def : Defs \union {None}]

\* "def": what the source declared when it last refreshed its membership (history).
NoOwner == [active |-> FALSE, wants |-> FALSE, seen |-> None, def |-> None]
Owner == [active : BOOLEAN, wants : BOOLEAN, seen : Runs \union {None}, def : Defs \union {None}]

\* "turn": what becomes of every check at the commit; "left": the memberships the
\* source stops refreshing; "comp", "def", "wants": the declaration of an asset,
\* None when it conflicts.  "saw", "failed": the effective owners, with the
\* configuration they count through, and the checks that had disabled themselves,
\* as they were committed at the reads (history).
Turns == {"leave", "on", "off", "back"}
NoReads ==
  [kind |-> "none", comp |-> None, def |-> None, wants |-> FALSE, left |-> {},
   turn |-> [k \in Components |-> "leave"], saw |-> [k \in Components |-> {}], failed |-> {}]
ReadsOf ==
  [kind : {"none", "asset", "reconcile", "pause", "resume", "delete"},
   comp : Components \union {None}, def : Defs \union {None}, wants : BOOLEAN,
   left : SUBSET Components, turn : [Components -> Turns],
   saw : [Components -> SUBSET (Sources \X Configs)], failed : SUBSET Components]

CheckInit ==
  /\ Init
  /\ on = Configs
  /\ check = [k \in Components |-> NoCheck]
  /\ owner = [s \in Sources |-> [k \in Components |-> NoOwner]]
  /\ operations = 0
  /\ reads = [a \in Actors |-> NoReads]
-----------------------------------------------------------------------------
\* hasEffectiveEnabledOwner, over the rows as the transaction has left them.
Effective(src, live, own, s, k) ==
  /\ own[s][k].active /\ own[s][k].wants
  /\ src[s].status = "ACTIVE" /\ src[s].bound \in live
Wanted(src, live, own, k) == \E s \in Sources : Effective(src, live, own, s, k)

\* Seeded bug: an owner brings an automatically disabled check back.
TurnMutant(c, wanted) ==
  IF ~c.exists \/ wanted = c.enabled THEN "leave" ELSE IF wanted THEN "on" ELSE "off"

\* recomputeManagedCheckEnabled: what it decides on what it reads ...
Turn(c, wanted) ==
  LET enabled == wanted /\ ~c.auto
  IN IF ~c.exists \/ enabled = c.enabled THEN "leave" ELSE IF enabled THEN "on" ELSE "off"

TurnsIn(K, src, live, own) ==
  [k \in Components |->
    IF k \in K THEN Turn(check[k], Wanted(src, live, own, k)) ELSE "leave"]

\* ... and its later UPDATE by id; "back" is that of resumeManagedChecksForConfig.
Turned(c, turn) ==
  IF ~c.exists \/ turn = "leave" THEN c
  ELSE [c EXCEPT !.enabled = turn # "off", !.auto = @ /\ turn # "back"]

\* What is committed when a transaction reads.
Witnessed(r) ==
  [r EXCEPT
    !.saw = [k \in Components |->
      {p \in Sources \X Configs :
        source[p[1]].bound = p[2] /\ Effective(source, on, owner, p[1], k)}],
    !.failed = {k \in Components : check[k].auto}]

CheckRoom == Cardinality(Opens \union {a \in Actors : reads[a].kind # "none"}) < MaxOpen
Reads(a, r) ==
  /\ reads[a].kind = "none"
  /\ reads' = [reads EXCEPT ![a] = Witnessed(r)]
Forgets(a) == reads' = [reads EXCEPT ![a] = NoReads]

\* Row locks: an open asset has the rows of its component, its instance and their
\* memberships, the owner row and, in share mode, the check it declared, and the
\* check itself if it redefined it.
OpenAsset(r, k) == reads[r].kind = "asset" /\ reads[r].comp = k
Held(K) == \E r \in Runs, k \in K : OpenAsset(r, k)
Declared(K) == \E r \in Runs, k \in K : OpenAsset(r, k) /\ reads[r].def # None
Redefined(k) ==
  \E r \in Runs : OpenAsset(r, k) /\ reads[r].def \notin {None, check[k].def}

\* An open transaction writes what it decided once the checks are free.
Writes(a) == \A k \in Components : reads[a].turn[k] # "leave" => ~Redefined(k)
AfterTurns(a) == [k \in Components |-> Turned(check[k], reads[a].turn[k])]

\* The checks that the sources bound to a configuration own.
OwnedFor(c) == {k \in Components : \E s \in Sources : source[s].bound = c /\ owner[s][k].active}

\* Seeded bug: another owner's definition is overwritten.
ConflictsMutant(s, k, d) == FALSE
Conflicts(s, k, d) ==
  /\ check[k].exists /\ check[k].def # d
  /\ \E t \in Sources \ {s} : owner[t][k].active

\* cleanupManagedChecksForGoneInstances, over the instances after the step.
Dead(K) == {k \in K : inst'[k] = "GONE"}

Without(own, K) ==
  [s \in Sources |-> [k \in Components |-> IF k \in K THEN NoOwner ELSE own[s][k]]]
-----------------------------------------------------------------------------
(* The runs.                                                               *)

\* The membership that syncManagedCheck upserts, and the check that it syncs.
Refreshed(r, k, d, w) ==
  [owner EXCEPT ![run[r].src][k] = [active |-> TRUE, wants |-> w, seen |-> r, def |-> d]]
Synced(k, d) == [check[k] EXCEPT !.exists = TRUE, !.def = d]

\* The transaction of an asset with its instance, up to the read of the owners.
SyncRead(r, k, d, w) ==
  LET s == run[r].src
      declared ==
        [NoReads EXCEPT !.kind = "asset", !.comp = k, !.def = d, !.wants = w,
          !.turn[k] = Turn(Synced(k, d), Wanted(source, on, Refreshed(r, k, d, w), k))]
  IN /\ run[r].pc = "reporting" /\ tx[r].kind = "none" /\ CheckRoom
     /\ ~MemberLocked(s, k) /\ ~Held({k})
     /\ ~\E q \in Runs : tx[q].kind = "reconcile" /\ tx[q].src = s /\ k \in reads[q].left
     /\ Reads(r, IF Conflicts(s, k, d) THEN [NoReads EXCEPT !.kind = "asset", !.comp = k]
                 ELSE declared)
     /\ UNCHANGED <<vars, on, check, owner, operations>>

\* Its commit; a definition that another owner contradicts is an error of the run
\* and changes no check.  Only an observed check keeps the status of its instance.
SyncCommit(r, k) ==
  /\ OpenAsset(r, k) /\ Asset(r, k)
  /\ imember'[run[r].src][k].active /\ imember'[run[r].src][k].seen = r
  /\ check[k].exists \/ inst'[k] = "up"
  /\ IF reads[r].def = None THEN UNCHANGED <<check, owner>>
     ELSE /\ owner' = Refreshed(r, k, reads[r].def, reads[r].wants)
          /\ check' = [check EXCEPT ![k] =
               Turned(Synced(k, reads[r].def), reads[r].turn[k])]
  /\ Forgets(r)
  /\ UNCHANGED <<on, operations>>

\* An asset without its instance: the check may die with it.
AssetDropped(r, k) ==
  /\ reads[r].kind = "none" /\ CheckRoom /\ ~Held({k})
  /\ Asset(r, k)
  /\ imember' = [imember EXCEPT ![run[r].src][k].active =
       @ /\ k \notin Stale(imember, run[r].src, r)]
  /\ LET dead == Dead({k} \intersect Stale(imember, run[r].src, r)) IN
     /\ check' = [j \in Components |-> IF j \in dead THEN NoCheck ELSE check[j]]
     /\ owner' = Without(owner, dead)
  /\ UNCHANGED <<on, operations, reads>>

Unrefreshed(s, r) == {k \in Components : owner[s][k].active /\ owner[s][k].seen # r}

\* reconcileSourceCheckMemberships, among the reads of a reconciliation.
LeftBy(s, K) ==
  [owner EXCEPT ![s] = [k \in Components |-> [owner[s][k] EXCEPT !.active = @ /\ k \notin K]]]
ReconcileChecksRead(r) ==
  /\ CheckRoom /\ ReconcileRead(r)
  /\ LET s == run[r].src
         left == Unrefreshed(s, r)
     IN /\ ~\E q \in Runs, k \in tx'[r].stale \union tx'[r].istale \union left :
             OpenAsset(q, k) /\ run[q].src = s
        /\ ~\E q \in Runs : tx[q].kind = "reconcile" /\ tx[q].src = s /\ left \intersect reads[q].left # {}
        /\ Reads(r, [NoReads EXCEPT !.kind = "reconcile", !.left = left,
             !.turn = TurnsIn(left, source, on, LeftBy(s, left))])
  /\ UNCHANGED <<on, check, owner, operations>>

\* Its writes, then the checks of the instances it has dropped that are gone and
\* of those that go with their component.
ReconcileChecks(r) ==
  /\ ReconcileCommit(r) /\ Writes(r)
  /\ LET plan == tx[r]
         dead == Dead(plan.istale)
           \union {k \in Retired(plan.comps) : inst[k] \notin {"none", "GONE"}}
     IN /\ ~Held(plan.comps \union plan.insts) /\ ~Declared(plan.istale)
        /\ check' = [k \in Components |-> IF k \in dead THEN NoCheck ELSE AfterTurns(r)[k]]
        /\ owner' = Without(LeftBy(plan.src, reads[r].left), dead)
  /\ Forgets(r)
  /\ UNCHANGED <<on, operations>>

\* A retirement waits for the assets, and asks no check.
RetireUnheld(s) == RetireCommit(s) /\ ~Held(tx[s].comps \union tx[s].insts)
-----------------------------------------------------------------------------
(* The configurations.                                                     *)

\* Seeded bug: the checks of a paused configuration go off, whoever else owns them.
PausedMutant(c) ==
  [k \in Components |-> IF k \in OwnedFor(c) /\ check[k].enabled THEN "off" ELSE "leave"]
\* pauseManagedChecksForConfig
Paused(c) == TurnsIn(OwnedFor(c), source, on \ {c}, owner)

\* resumeManagedChecksForConfig: the status of the source is not asked for.
Resumed(c) ==
  [k \in Components |->
    IF check[k].exists
         /\ \E s \in Sources : source[s].bound = c /\ owner[s][k].active /\ owner[s][k].wants
    THEN "back" ELSE "leave"]

Operation == operations < MaxOperations /\ operations' = operations + 1

\* updateImporterConfig with another `enabled`.
SwitchRead(c) ==
  /\ c \in configs /\ tx[c].kind = "none" /\ CheckRoom
  /\ \/ /\ c \in on /\ Operation
        /\ Reads(c, [NoReads EXCEPT !.kind = "pause", !.turn = Paused(c)])
     \/ /\ c \notin on /\ UNCHANGED operations
        /\ Reads(c, [NoReads EXCEPT !.kind = "resume", !.turn = Resumed(c)])
  /\ UNCHANGED <<vars, on, check, owner>>

SwitchCommit(c) ==
  /\ reads[c].kind \in {"pause", "resume"} /\ Writes(c)
  /\ on' = IF reads[c].kind = "pause" THEN on \ {c} ELSE on \union {c}
  /\ check' = AfterTurns(c)
  /\ Forgets(c)
  /\ UNCHANGED <<vars, owner, operations>>

\* deleteImporterConfig: paused with its sources already unmonitored.
DeletePausedRead(c) ==
  /\ CheckRoom /\ Operation /\ DeleteRead(c)
  /\ LET src == [s \in Sources |->
           IF s \in tx'[c].flip THEN [source[s] EXCEPT !.status = "UNMONITORED"] ELSE source[s]]
     IN Reads(c, [NoReads EXCEPT !.kind = "delete",
                   !.turn = TurnsIn(OwnedFor(c), src, on, owner)])
  /\ UNCHANGED <<on, check, owner>>
DeletePaused(c) ==
  /\ DeleteCommit(c) /\ Writes(c)
  /\ on' = on \ {c}
  /\ check' = AfterTurns(c)
  /\ Forgets(c)
  /\ UNCHANGED <<owner, operations>>

\* evaluateAutoDisable, called by the scheduler and the dispatcher.
AutoDisable(k) ==
  /\ check[k].enabled /\ ~Redefined(k)
  /\ check' = [check EXCEPT ![k].enabled = FALSE, ![k].auto = TRUE]
  /\ UNCHANGED <<vars, on, owner, operations, reads>>
-----------------------------------------------------------------------------
\* Sources are registered, rebound, retired and reactivated without a look at
\* the checks.
Aside(A) == A /\ UNCHANGED checkVars

CheckNext ==
  \/ \E r \in Runs :
       \/ Aside(Start(r) \/ RegisterCommit(r))
       \/ CheckRoom /\ Aside(RegisterRead(r))
       \/ reads[r].kind = "none" /\ Aside(Fail(r))
       \/ ReconcileChecksRead(r) \/ ReconcileChecks(r)
       \/ \E k \in Components :
            \/ \E d \in Defs, w \in BOOLEAN : SyncRead(r, k, d, w)
            \/ SyncCommit(r, k) \/ AssetDropped(r, k)
  \/ \E s \in Sources :
       \/ CheckRoom /\ Operation /\ RetireRead(s) /\ UNCHANGED <<on, check, owner, reads>>
       \/ CheckRoom /\ Aside(Reactivate(s))
       \/ Aside(RetireUnheld(s))
  \/ \E c \in Configs :
       DeletePausedRead(c) \/ DeletePaused(c) \/ SwitchRead(c) \/ SwitchCommit(c)
  \/ \E k \in Components : AutoDisable(k)

CheckSpec == CheckInit /\ [][CheckNext]_allVars
-----------------------------------------------------------------------------
(* Properties.                                                             *)

CheckTypeOK ==
  /\ TypeOK
  /\ on \subseteq configs /\ operations \in 0..MaxOperations
  /\ check \in [Components -> Check]
  /\ owner \in [Sources -> [Components -> Owner]]
  /\ reads \in [Actors -> ReadsOf]
  /\ \A s \in Sources, k \in Components : owner[s][k].active => check[k].exists

\* FR-013 of spec 058: the sources that declare a shared check agree on its
\* definition, whatever order their runs came in.
DefinitionsAgree ==
  \A s \in Sources, k \in Components : owner[s][k].active => owner[s][k].def = check[k].def

\* The step in which a transaction that has read the checks commits.
Ends(a) == reads[a].kind # "none" /\ reads'[a].kind = "none"

\* FR-017: a check that disabled itself comes back with the explicit enabling of
\* a configuration and with no run and no new owner, but for a transaction that
\* had read the check before.
AutoDisabledStaysOff ==
  [][\A k \in Components :
       /\ check[k].auto /\ check'[k].exists
       /\ ~check'[k].auto \/ (~check[k].enabled /\ check'[k].enabled)
       => \/ \E c \in Configs : c \notin on /\ c \in on'
          \/ \E a \in Actors : Ends(a) /\ k \notin reads[a].failed]_allVars

\* One paused or removed owner does not pause a check that another effective,
\* enabled owner wants, when the pausing transaction could see it: an owner that
\* counts afterwards did not count, through the same configuration, when that
\* transaction read the owners, or the check had disabled itself then.
VisibleOwnerKeepsRunning ==
  [][\A k \in Components :
       check[k].enabled /\ check'[k].exists /\ ~check'[k].enabled /\ ~check'[k].auto =>
         \E a \in Actors :
           /\ Ends(a)
           /\ k \in reads[a].failed \/ \A s \in Sources :
                Effective(source', on', owner', s, k) =>
                  <<s, source'[s].bound>> \notin reads[a].saw[k]]_allVars

\* The comment at url-check-service.ts:936: "shared checks stay up only via other
\* effective owners"; they do not always.
SharedCheckKeepsRunning ==
  [][\A k \in Components :
       check[k].enabled /\ check'[k].exists /\ ~check'[k].enabled =>
         check'[k].auto \/ ~Wanted(source', on', owner', k)]_allVars

\* FR-019: a check and its observations are deleted only after the instance is
\* GONE with no effective source membership.
HistoryOutlivesOwners ==
  [][\A k \in Components :
       check[k].exists /\ ~check'[k].exists =>
         inst'[k] = "GONE" /\ ~IReportedBy(Sources, k)']_allVars

\* The contract of spec 058: a check is scheduled when an active membership of
\* an ACTIVE source with an enabled configuration wants it.
ScheduledByOwner ==
  \A k \in Components : check[k].enabled => Wanted(source, on, owner, k)
=============================================================================
