---------------------------- MODULE RunLifecycle ----------------------------
(***************************************************************************)
(* What the rest of Componode may assume about a row of import_runs,       *)
(* whoever executes the run: the life of a row from its insertion to one   *)
(* terminal status that never changes again (migrations/003, ADR-100).     *)
(* The services that drive runs are checked, and proved, to implement it.  *)
(***************************************************************************)

CONSTANT Runs            \* identities of import runs

VARIABLES
  status,                \* import_runs.status; "ABSENT" before the insert
  cancelRequestedAt      \* whether import_runs."cancelRequestedAt" is set

lifecycleVars == <<status, cancelRequestedAt>>

Active == {"PENDING", "RUNNING"}
Terminal == {"COMPLETED", "FAILED", "CANCELLED", "INTERRUPTED"}
Statuses == {"ABSENT"} \cup Active \cup Terminal

LifecycleInit ==
  /\ status = [r \in Runs |-> "ABSENT"]
  /\ cancelRequestedAt = [r \in Runs |-> FALSE]

Move(r, s) ==
  /\ status' = [status EXCEPT ![r] = s]
  /\ UNCHANGED cancelRequestedAt

Insert(r) == status[r] = "ABSENT" /\ Move(r, "PENDING")

RequestCancel(r) ==
  /\ status[r] \in Active
  /\ cancelRequestedAt' = [cancelRequestedAt EXCEPT ![r] = TRUE]
  /\ UNCHANGED status

Begin(r) == status[r] = "PENDING" /\ Move(r, "RUNNING")

Complete(r) == status[r] = "RUNNING" /\ Move(r, "COMPLETED")

Fail(r) == status[r] \in Active /\ Move(r, "FAILED")

Cancel(r) == status[r] \in Active /\ Move(r, "CANCELLED")

\* A hub restart ends active rows (recovery-service.ts), several or, when it is
\* itself cut short, only some: a requested cancel may end as CANCELLED, and an
\* unfinished run never ends as COMPLETED.
Recover ==
  /\ \A r \in Runs :
       \/ status'[r] = status[r]
       \/ /\ status[r] \in Active
          /\ status'[r] \in {"FAILED", "CANCELLED", "INTERRUPTED"}
          /\ status'[r] = "CANCELLED" => cancelRequestedAt[r]
  /\ status' \in [Runs -> Statuses]
  /\ UNCHANGED cancelRequestedAt

LifecycleNext ==
  \/ Recover
  \/ \E r \in Runs : \/ Insert(r) \/ RequestCancel(r) \/ Begin(r)
                     \/ Complete(r) \/ Fail(r) \/ Cancel(r)

LifecycleSpec == LifecycleInit /\ [][LifecycleNext]_lifecycleVars
=============================================================================
