---------------------------- MODULE AgentContract ----------------------------
(***************************************************************************)
(* What the hub may count on from an agent for the jobs it assigns on one  *)
(* session: an assignment is refused at once, or taken; a taken one is     *)
(* either rejected or acknowledged; only an acknowledged job streams, and  *)
(* it reports its result once.  While the session lives every taken        *)
(* assignment comes to its end.                                            *)
(***************************************************************************)
EXTENDS Naturals

CONSTANT Jobs

VARIABLES
  standing,                   \* "free", "held" or "acked"
  settled,                    \* how many times the job was rejected or ended
  over                        \* there is no session to answer on

ContractInit ==
  /\ standing = [j \in Jobs |-> "free"]
  /\ settled = [j \in Jobs |-> 0]
  /\ over = TRUE

Goes(j, from, to) ==
  standing[j] = from /\ standing' = [standing EXCEPT ![j] = to]

Take(j) == Goes(j, "free", "held") /\ UNCHANGED settled
Refuse(j) == Goes(j, "free", "free") /\ settled' = [settled EXCEPT ![j] = @ + 1]
Reject(j) == Goes(j, "held", "free") /\ settled' = [settled EXCEPT ![j] = @ + 1]
Acknowledge(j) == Goes(j, "held", "acked") /\ UNCHANGED settled

\* A result; a job cancelled before its acknowledgement sends both in one turn.
Complete(j) ==
  /\ standing[j] \in {"held", "acked"}
  /\ standing' = [standing EXCEPT ![j] = "free"]
  /\ settled' = [settled EXCEPT ![j] = @ + 1]

JobStep(j) == Take(j) \/ Refuse(j) \/ Reject(j) \/ Acknowledge(j) \/ Complete(j)

\* What the agent sends on a session that is over reaches nobody, and the next
\* session knows nothing of its jobs.
Ends == ~over /\ over' = TRUE /\ UNCHANGED <<standing, settled>>

Reopens ==
  /\ over /\ over' = FALSE
  /\ standing' = [j \in Jobs |-> "free"]
  /\ settled' = [j \in Jobs |-> 0]

ContractNext ==
  \/ ~over /\ (\E j \in Jobs : JobStep(j)) /\ UNCHANGED over
  \/ Ends \/ Reopens

TakenJobEnds ==
  \A j \in Jobs : (standing[j] # "free") ~> (standing[j] = "free" \/ over)

ContractSafety == ContractInit /\ [][ContractNext]_<<standing, settled, over>>

ContractSpec == ContractSafety /\ TakenJobEnds
=============================================================================
