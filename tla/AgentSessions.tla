---------------------------- MODULE AgentSessions ----------------------------
(***************************************************************************)
(* The sessions of one import agent on the hub: the WebSocket handshake    *)
(* (attach), superseding, the closing of a session, the heartbeat sweep,   *)
(* the restart of the hub, and the credential tests and URL-check probes   *)
(* that travel on a session (agent-session-service.ts).                    *)
(*                                                                         *)
(* A step is a run of the event loop between two awaits.  A transaction is *)
(* one step when nothing reads its parts, several when its statements      *)
(* interleave with another handler's.  A session is one connection attempt *)
(* of the agent's, from the upgrade on; agents do not interact.            *)
(***************************************************************************)
EXTENDS Naturals, FiniteSets

CONSTANTS
  Sessions,       \* the connections the agent opens
  Requests,       \* credential tests and URL-check probes sent to it
  None,
  MaxFaults,      \* bound: database errors
  MaxCrashes      \* bound: crashes of the hub

ASSUME SessionsAssumption == None \notin Sessions
ASSUME BoundsAssumption == MaxFaults \in Nat /\ MaxCrashes \in Nat

VARIABLES
  status,    \* the status of the agent's row
  sess,      \* the connections: their attach, their closing, their row
  live,      \* the session in the live map, or None
  req,       \* the requests: pending entry, and what the agent did with it
  boot,      \* reconcileOrphans: "rows", "status", "done"
  faults, crashes

vars == <<status, sess, live, req, boot, faults, crashes>>
bounds == <<faults, crashes>>

\* A request is pending while the agent works on it, while its answer is on the
\* wire and when nobody listened to the answer.
Pending == {"asked", "replied", "unheard"}
RequestStates == Pending \union {"idle", "answered", "timeout", "offline", "lost"}

AttachStates ==
  {"idle", "hello", "helloed", "superseding", "insert", "ready", "failed", "dead"}

Session ==
  [pc : AttachStates, sock : {"none", "open", "silent", "dead"},
   closed : BOOLEAN, closing : {"no", "row", "status", "done"},
   row : {"none", "open", "closed"}, awaits : Sessions \union {None}]

NewSession ==
  [pc |-> "idle", sock |-> "none", closed |-> FALSE, closing |-> "no",
   row |-> "none", awaits |-> None]

AgentStatuses == {"NEVER_CONNECTED", "CONNECTED", "OFFLINE"}

Request ==
  [state : RequestStates, on : Sessions \union {None}]

Init ==
  /\ status = "NEVER_CONNECTED"
  /\ sess = [s \in Sessions |-> NewSession]
  /\ live = None
  /\ req = [q \in Requests |-> [state |-> "idle", on |-> None]]
  /\ boot = "done" /\ faults = 0 /\ crashes = 0

TypeOK ==
  /\ status \in AgentStatuses
  /\ sess \in [Sessions -> Session]
  /\ live \in Sessions \union {None}
  /\ req \in [Requests -> Request]
  /\ \A q \in Requests : req[q].state \in Pending <=> req[q].on # None
  /\ boot \in {"rows", "status", "done"}
  /\ faults \in 0..MaxFaults /\ crashes \in 0..MaxCrashes
-----------------------------------------------------------------------------
(* Closing a session.                                                      *)

Open(s) == sess[s].sock \in {"open", "silent"}   \* readyState, as the hub sees it

Settled(how) == [state |-> how, on |-> None]

\* The synchronous head of closeSession: the flag, the live entry when it is
\* its own, the pending requests of the session; then onSessionLost is awaited.
Closing(ss, s) ==
  [ss EXCEPT ![s] = [@ EXCEPT !.closed = TRUE, !.closing = "row"]]
\* Seeded bug: the live entry is removed without asking whose it is.
LiveAfterCloseMutant(s) == None
LiveAfterClose(s) == IF live = s THEN None ELSE live
\* Seeded bug: closing a session leaves its pending requests to their timers.
FailPendingMutant(s) == req
FailPending(s) ==
  [q \in Requests |-> IF req[q].on = s THEN Settled("offline") ELSE req[q]]

CloseSession(s) ==
  IF sess[s].closed THEN UNCHANGED <<sess, live, req>>
  ELSE /\ sess' = Closing(sess, s)
       /\ live' = LiveAfterClose(s)
       /\ req' = FailPending(s)

\* dropAgent: the live session of the agent, if it has one.
DropAgent ==
  /\ IF live = None THEN UNCHANGED <<sess, live, req>> ELSE CloseSession(live)
  /\ UNCHANGED <<status, boot, bounds>>

\* onSessionLost has returned: the first UPDATE of the closing transaction and
\* the test of the live map.
CloseRow(s) ==
  /\ sess[s].closing = "row"
  /\ sess' = [sess EXCEPT
       ![s].row = IF @ = "open" THEN "closed" ELSE @,
       ![s].closing = IF live = None THEN "status" ELSE "done",
       ![s].sock = IF live = None THEN @ ELSE "dead"]
  /\ UNCHANGED <<status, live, req, boot, bounds>>

Downgraded == IF status = "CONNECTED" THEN "OFFLINE" ELSE status

CloseStatus(s) ==
  /\ sess[s].closing = "status"
  /\ status' = Downgraded
  /\ sess' = [sess EXCEPT ![s].closing = "done", ![s].sock = "dead"]
  /\ UNCHANGED <<live, req, boot, bounds>>

\* The closing transaction fails: logged, and the socket is closed all the same.
CloseFails(s) ==
  /\ sess[s].closing = "row" /\ faults < MaxFaults
  /\ faults' = faults + 1
  /\ sess' = [sess EXCEPT ![s].closing = "done", ![s].sock = "dead"]
  /\ UNCHANGED <<status, live, req, boot, crashes>>
-----------------------------------------------------------------------------
(* attach.                                                                 *)

\* The upgrade of a request whose credential was accepted.
Upgrade(s) ==
  /\ sess[s].pc = "idle"
  /\ sess' = [sess EXCEPT ![s].pc = "hello", ![s].sock = "open"]
  /\ UNCHANGED <<status, live, req, boot, bounds>>

Hello(s) ==
  /\ sess[s].pc = "hello" /\ sess[s].sock = "open"
  /\ sess' = [sess EXCEPT ![s].pc = "helloed"]
  /\ UNCHANGED <<status, live, req, boot, bounds>>

\* No hello in time, a malformed one, a refused version, or the socket dies.
HelloFails(s) ==
  /\ sess[s].pc \in {"hello", "helloed"}
  /\ sess' = [sess EXCEPT ![s].pc = "failed", ![s].sock = "dead"]
  /\ UNCHANGED <<status, live, req, boot, bounds>>

\* The claim of the live slot and, in the same turn, the head of the closing of
\* the incumbent; its end is awaited.
Claim(s) ==
  /\ sess[s].pc = "helloed"
  /\ live' = s
  /\ IF live = None
     THEN /\ sess' = [sess EXCEPT ![s].pc = "insert"]
          /\ UNCHANGED req
     ELSE /\ sess' = [Closing(sess, live) EXCEPT ![s].pc = "superseding", ![s].awaits = live]
          /\ req' = FailPending(live)
  /\ UNCHANGED <<status, boot, bounds>>

Superseded(s) ==
  /\ sess[s].pc = "superseding" /\ sess[sess[s].awaits].closing = "done"
  /\ sess' = [sess EXCEPT ![s].pc = "insert", ![s].awaits = None]
  /\ UNCHANGED <<status, live, req, boot, bounds>>

\* The session row and the agent's status commit; then the listeners are
\* installed, and a socket that died meanwhile is closed on the spot.
Establish(s) ==
  /\ sess[s].pc = "insert"
  /\ status' = "CONNECTED"
  /\ LET inserted == [sess EXCEPT ![s].row = "open",
                                  ![s].pc = IF Open(s) THEN "ready" ELSE "failed"]
     IN IF Open(s) \/ sess[s].closed
        THEN sess' = inserted /\ UNCHANGED <<live, req>>
        ELSE /\ sess' = Closing(inserted, s)
             /\ live' = LiveAfterClose(s)
             /\ req' = FailPending(s)
  /\ UNCHANGED <<boot, bounds>>

\* The transaction fails: the claim is released; nothing closes the session.
Unclaim(s) ==
  /\ sess[s].pc = "insert"
  /\ sess' = [sess EXCEPT ![s].pc = "failed", ![s].sock = "dead"]
  /\ live' = LiveAfterClose(s)

EstablishFails(s) ==
  /\ Unclaim(s)
  /\ faults < MaxFaults /\ faults' = faults + 1
  /\ UNCHANGED <<status, req, boot, crashes>>
-----------------------------------------------------------------------------
(* The end of a connection.                                                *)

\* The socket closes, with an event, or the agent vanishes without one.
SocketDies(s) ==
  /\ sess[s].pc \in {"helloed", "superseding", "insert", "ready"} /\ sess[s].sock = "open"
  /\ \E to \in {"dead", "silent"} : sess' = [sess EXCEPT ![s].sock = to]
  /\ UNCHANGED <<status, live, req, boot, bounds>>

\* The 'close' listener exists once the session is established.
CloseEvent(s) ==
  /\ sess[s].pc = "ready" /\ sess[s].sock = "dead" /\ ~sess[s].closed
  /\ CloseSession(s)
  /\ UNCHANGED <<status, boot, bounds>>

\* Seeded bug: the sweep looks at the state of the socket, not at the silence.
SweepMutant(s) ==
  /\ live = s /\ sess[s].sock = "dead"
  /\ CloseSession(s)
  /\ UNCHANGED <<status, boot, bounds>>

\* The sweep closes a live session that has been silent for too long.
Sweep(s) ==
  /\ live = s /\ sess[s].sock \in {"silent", "dead"}
  /\ CloseSession(s)
  /\ UNCHANGED <<status, boot, bounds>>

\* The agent's own close frame, or stop() of the hub.
Shutdown(s) ==
  /\ live = s /\ sess[s].pc = "ready" /\ sess[s].sock = "open"
  /\ CloseSession(s)
  /\ UNCHANGED <<status, boot, bounds>>
-----------------------------------------------------------------------------
(* Credential tests and probes.                                            *)

Dispatch(q) ==
  /\ req[q].state = "idle"
  /\ req' = [req EXCEPT ![q] = IF live # None /\ Open(live)
                               THEN [state |-> "asked", on |-> live]
                               ELSE Settled("offline")]
  /\ UNCHANGED <<status, sess, live, boot, bounds>>

Reply(q) ==
  /\ req[q].state = "asked" /\ sess[req[q].on].sock = "open"
  /\ req' = [req EXCEPT ![q].state = "replied"]
  /\ UNCHANGED <<status, sess, live, boot, bounds>>

\* The answer arrives and settles the request.  Before the session is established
\* nobody listens, and the frame is lost; the answer to a request that has
\* settled finds no entry and changes nothing.
Answer(q) ==
  /\ req[q].state = "replied" /\ sess[req[q].on].sock # "dead"
  /\ req' = [req EXCEPT ![q] =
       IF sess[@.on].pc = "ready" THEN Settled("answered") ELSE [@ EXCEPT !.state = "unheard"]]
  /\ UNCHANGED <<status, sess, live, boot, bounds>>

\* Seeded bug: the timer of a request dies with the session's claim.
TimeoutMutant(q) ==
  /\ req[q].state \in Pending /\ live = req[q].on
  /\ req' = [req EXCEPT ![q] = Settled("timeout")]
  /\ UNCHANGED <<status, sess, live, boot, bounds>>

Timeout(q) ==
  /\ req[q].state \in Pending
  /\ req' = [req EXCEPT ![q] = Settled("timeout")]
  /\ UNCHANGED <<status, sess, live, boot, bounds>>
-----------------------------------------------------------------------------
(* The hub dies and starts again.                                          *)

Crash ==
  /\ crashes < MaxCrashes
  /\ crashes' = crashes + 1
  /\ sess' = [s \in Sessions |->
       IF sess[s].pc = "idle" THEN sess[s]
       ELSE [sess[s] EXCEPT !.pc = "dead", !.sock = "dead", !.closing = "done",
                            !.closed = TRUE, !.awaits = None]]
  /\ live' = None
  /\ req' = [q \in Requests |->
       IF req[q].state \in Pending THEN Settled("lost") ELSE req[q]]
  /\ boot' = "rows"
  /\ UNCHANGED <<status, faults>>

\* reconcileOrphans: two statements of their own, not awaited by the start.
\* Seeded bug: the restart corrects the status of the agents only.
ReconcileRowsMutant ==
  /\ boot = "rows"
  /\ boot' = "status"
  /\ UNCHANGED <<status, sess, live, req, bounds>>

ReconcileRows ==
  /\ boot = "rows"
  /\ boot' = "status"
  /\ sess' = [s \in Sessions |->
       IF sess[s].row = "open" THEN [sess[s] EXCEPT !.row = "closed"] ELSE sess[s]]
  /\ UNCHANGED <<status, live, req, bounds>>

ReconcileStatus ==
  /\ boot = "status"
  /\ boot' = "done"
  /\ status' = Downgraded
  /\ UNCHANGED <<sess, live, req, bounds>>

\* A failed reconciliation is logged and never tried again.
ReconcileFails ==
  /\ boot \in {"rows", "status"} /\ faults < MaxFaults
  /\ faults' = faults + 1 /\ boot' = "done"
  /\ UNCHANGED <<status, sess, live, req, crashes>>
-----------------------------------------------------------------------------
Close(s) == CloseRow(s) \/ CloseStatus(s)
Attach(s) == Superseded(s) \/ Establish(s)
Reap(s) == CloseEvent(s) \/ Sweep(s)
Reconcile == ReconcileRows \/ ReconcileStatus

SessionStep(s) ==
  \/ Close(s) \/ CloseFails(s) \/ Hello(s) \/ HelloFails(s) \/ Claim(s)
  \/ Superseded(s) \/ EstablishFails(s) \/ SocketDies(s) \/ Reap(s) \/ Shutdown(s)
RequestStep(q) == Dispatch(q) \/ Reply(q) \/ Answer(q) \/ Timeout(q)
HubStep == Crash \/ Reconcile \/ ReconcileFails

Next ==
  \/ \E s \in Sessions : Upgrade(s) \/ SessionStep(s) \/ Establish(s)
  \/ \E q \in Requests : RequestStep(q)
  \/ HubStep

Spec == Init /\ [][Next]_vars

\* Awaited work returns, timers and the sweep run; the agent owes nothing.
Fairness ==
  /\ \A s \in Sessions :
       WF_vars(Close(s)) /\ WF_vars(Attach(s)) /\ WF_vars(Reap(s))
  /\ \A q \in Requests : WF_vars(Timeout(q))
  /\ WF_vars(Reconcile)

FairSpec == Spec /\ Fairness
-----------------------------------------------------------------------------
(* Properties.                                                             *)

\* A closed session holds nothing: it is not the agent's live session, and no
\* credential test or probe waits on it.  closeSession clears both before its
\* first await; a dispatch that could still reach a closed session would hang
\* until its timer.
ClosedHoldsNothing ==
  \A s \in Sessions : sess[s].closed =>
    /\ live # s
    /\ \A q \in Requests : req[q].on # s

\* FR-010, one active session per agent: a session that is established and not
\* closed is the live one, so the agent never has two and none is forgotten.
EstablishedIsLive ==
  \A s \in Sessions : sess[s].pc = "ready" /\ ~sess[s].closed => live = s

\* Every credential test and probe keeps the promise of RequestLife: settled
\* once, and settled in the end.
Promise == INSTANCE RequestLife
  WITH Requests <- Requests, outcome <- [q \in Requests |-> IF req[q].state \in Pending THEN "pending" ELSE req[q].state]
RequestSpec == Promise!RequestSpec

\* A live session whose socket is dead or silent does not stay live.
GoneSessionEnds ==
  \A s \in Sessions : (live = s /\ sess[s].sock # "open") ~> (live # s)

\* The row of a session that a crash of the hub left open is closed (or gone
\* with its agent) after the restart, unless the database failed.
OrphanRowsClose ==
  \A s \in Sessions :
    (sess[s].pc = "dead" /\ sess[s].row = "open") ~>
      (sess[s].row # "open" \/ faults > 0)
=============================================================================
