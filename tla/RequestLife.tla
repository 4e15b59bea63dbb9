----------------------------- MODULE RequestLife -----------------------------
(***************************************************************************)
(* What a caller of the hub's agent channel is promised for one request to *)
(* an agent (a credential test or a URL-check probe): the promise it holds *)
(* is refused at once or stays pending until it settles exactly once, and  *)
(* it does settle.  A request dies with the hub process that made it.      *)
(***************************************************************************)
CONSTANT Requests
VARIABLE outcome

Settled == {"answered", "timeout", "offline", "lost"}
Outcomes == {"idle", "pending"} \union Settled

RequestInit == outcome = [q \in Requests |-> "idle"]

\* A request is taken, or refused because no session can carry it.
Take(q) ==
  /\ outcome[q] = "idle"
  /\ \E to \in {"pending", "offline"} : outcome' = [outcome EXCEPT ![q] = to]

\* Any set of pending requests settles in one step: one answer, one timeout, or
\* all the requests of a session that closes or of a hub that dies.
Settle ==
  \E Q \in SUBSET {q \in Requests : outcome[q] = "pending"} :
    \E to \in Settled :
      outcome' = [q \in Requests |-> IF q \in Q THEN to ELSE outcome[q]]

RequestNext == Settle \/ \E q \in Requests : Take(q)

EveryRequestSettles ==
  \A q \in Requests : (outcome[q] = "pending") ~> (outcome[q] \in Settled)

RequestSafety == RequestInit /\ [][RequestNext]_outcome

RequestSpec == RequestSafety /\ EveryRequestSettles
=============================================================================
