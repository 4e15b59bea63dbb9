------------------------ MODULE AgentSessions_proofs ------------------------
(***************************************************************************)
(* Proofs about AgentSessions, for any number of connections, requests,    *)
(* database faults and crashes:                                            *)
(*   - type correctness;                                                   *)
(*   - a closed session is not live and has no request waiting on it;      *)
(*   - an established session that is not closed is the live one;          *)
(*   - every request keeps the safety part of RequestLife.                 *)
(* The inductive invariant, Claims, follows a session through attach: one  *)
(* that has not claimed the live slot yet has nothing at all, and one that *)
(* has claimed it keeps it until it is closed or gives it up.              *)
(***************************************************************************)
EXTENDS AgentSessions, TLAPS

Early == {"idle", "hello", "helloed"}
Claiming == {"superseding", "insert", "ready"}

EarlyHoldsNothing ==
  \A s \in Sessions : sess[s].pc \in Early =>
    /\ ~sess[s].closed /\ live # s
    /\ \A q \in Requests : req[q].on # s

ClaimedIsLive ==
  \A s \in Sessions : sess[s].pc \in Claiming /\ ~sess[s].closed => live = s

Claims == EarlyHoldsNothing /\ ClaimedIsLive /\ ClosedHoldsNothing

LEMMA SettledType ==
  ASSUME NEW how \in RequestStates \ Pending
  PROVE  /\ Settled(how) \in Request
         /\ Settled(how).on = None /\ Settled(how).state \notin Pending
BY DEF Settled, Request

\* A step of attach: another await, another state of the socket and of the row.
LEMMA AttachUpdate ==
  ASSUME NEW ss \in [Sessions -> Session], NEW s \in Sessions, NEW pc \in AttachStates
  PROVE  /\ [ss EXCEPT ![s].row = "open", ![s].pc = pc] \in [Sessions -> Session]
         /\ [ss EXCEPT ![s].pc = pc, ![s].sock = "dead"] \in [Sessions -> Session]
<1>1. [ss[s] EXCEPT !.row = "open", !.pc = pc] \in Session
  BY DEF Session
<1>2. [ss[s] EXCEPT !.pc = pc, !.sock = "dead"] \in Session
  BY DEF Session
<1> QED BY <1>1, <1>2

\* What the head of a closing does to the sessions and to the requests.
LEMMA ClosingType ==
  ASSUME NEW ss \in [Sessions -> Session], NEW s \in Sessions
  PROVE  /\ Closing(ss, s) \in [Sessions -> Session]
         /\ \A t \in Sessions \ {s} : Closing(ss, s)[t] = ss[t]
         /\ Closing(ss, s)[s].closed /\ Closing(ss, s)[s].pc = ss[s].pc
BY DEF Closing, Session

LEMMA FailPendingType ==
  ASSUME TypeOK, NEW s \in Sessions
  PROVE  /\ FailPending(s) \in [Requests -> Request]
         /\ \A q \in Requests :
              /\ FailPending(s)[q].state \in Pending <=> FailPending(s)[q].on # None
              /\ FailPending(s)[q].on # s
              /\ FailPending(s)[q].on \in {req[q].on, None}
<1>1. Settled("offline") \in Request /\ Settled("offline").on = None
      /\ Settled("offline").state \notin Pending
  BY SettledType DEF RequestStates, Pending
<1>2. \A q \in Requests :
        FailPending(s)[q] = IF req[q].on = s THEN Settled("offline") ELSE req[q]
  BY DEF FailPending
<1>3. FailPending(s) \in [Requests -> Request]
  BY <1>1 DEF FailPending, TypeOK
<1> QED BY <1>1, <1>2, <1>3, SessionsAssumption DEF TypeOK

LEMMA CloseSessionType ==
  ASSUME TypeOK, NEW s \in Sessions, CloseSession(s)
  PROVE  /\ sess' \in [Sessions -> Session]
         /\ live' \in Sessions \cup {None}
         /\ req' \in [Requests -> Request]
         /\ \A q \in Requests : req'[q].state \in Pending <=> req'[q].on # None
<1>1. CASE sess[s].closed
  BY <1>1 DEF CloseSession, TypeOK
<1>2. CASE ~sess[s].closed
  BY <1>2, ClosingType, FailPendingType DEF CloseSession, LiveAfterClose, TypeOK
<1> QED BY <1>1, <1>2

LEMMA TypeStep == TypeOK /\ [Next]_vars => TypeOK'
<1> SUFFICES ASSUME TypeOK, [Next]_vars PROVE TypeOK'
  OBVIOUS
<1> USE BoundsAssumption DEF bounds
<1>1. ASSUME NEW s \in Sessions, Upgrade(s) \/ Hello(s) \/ HelloFails(s) PROVE TypeOK'
  BY <1>1 DEF Upgrade, Hello, HelloFails, TypeOK, Session, AttachStates
<1>2. ASSUME NEW s \in Sessions, Claim(s) PROVE TypeOK'
  <2>1. CASE live = None
    BY <1>2, <2>1 DEF Claim, TypeOK, Session, AttachStates
  <2>2. CASE live # None
    <3>1. live \in Sessions
      BY <2>2 DEF TypeOK
    <3> DEFINE after == Closing(sess, live)
    <3>2. after \in [Sessions -> Session]
      BY <3>1, ClosingType DEF TypeOK
    <3>3. sess' = [after EXCEPT ![s].pc = "superseding", ![s].awaits = live]
          /\ req' = FailPending(live) /\ live' = s
      BY <1>2, <2>2 DEF Claim
    <3> HIDE DEF after
    <3>4. sess' \in [Sessions -> Session]
      <4>1. [after[s] EXCEPT !.pc = "superseding", !.awaits = live] \in Session
        BY <3>1, <3>2 DEF Session, AttachStates
      <4> QED BY <3>2, <3>3, <4>1
    <3> QED BY <1>2, <3>1, <3>3, <3>4, FailPendingType DEF Claim, TypeOK
  <2> QED BY <2>1, <2>2
<1>3. ASSUME NEW s \in Sessions, Superseded(s) \/ SocketDies(s) PROVE TypeOK'
  BY <1>3 DEF Superseded, SocketDies, TypeOK, Session, AttachStates
<1>4. ASSUME NEW s \in Sessions, Establish(s) PROVE TypeOK'
  <2> DEFINE inserted == [sess EXCEPT ![s].row = "open",
                                      ![s].pc = IF Open(s) THEN "ready" ELSE "failed"]
  <2>1. inserted \in [Sessions -> Session]
    <3>1. (IF Open(s) THEN "ready" ELSE "failed") \in AttachStates
      BY DEF AttachStates
    <3> QED BY <3>1, AttachUpdate DEF TypeOK
  <2>2. IF Open(s) \/ sess[s].closed
        THEN sess' = inserted /\ UNCHANGED <<live, req>>
        ELSE /\ sess' = Closing(inserted, s)
             /\ live' = LiveAfterClose(s)
             /\ req' = FailPending(s)
    BY <1>4 DEF Establish
  <2> HIDE DEF inserted
  <2>3. sess' \in [Sessions -> Session]
    BY <2>1, <2>2, ClosingType
  <2>4. live' \in Sessions \cup {None}
    BY <2>2 DEF LiveAfterClose, TypeOK
  <2>5. req' \in [Requests -> Request]
        /\ \A q \in Requests : req'[q].state \in Pending <=> req'[q].on # None
    BY <2>2, FailPendingType DEF TypeOK
  <2> QED BY <1>4, <2>3, <2>4, <2>5 DEF Establish, TypeOK, AgentStatuses
<1>5. ASSUME NEW s \in Sessions, EstablishFails(s) PROVE TypeOK'
  <2>1. sess' \in [Sessions -> Session]
    <3>1. sess' = [sess EXCEPT ![s].pc = "failed", ![s].sock = "dead"]
      BY <1>5 DEF EstablishFails, Unclaim
    <3>2. "failed" \in AttachStates
      BY DEF AttachStates
    <3> QED BY <3>1, <3>2, AttachUpdate DEF TypeOK
  <2>2. faults' \in 0..MaxFaults
    BY <1>5 DEF EstablishFails, TypeOK
  <2> QED BY <1>5, <2>1, <2>2 DEF EstablishFails, Unclaim, LiveAfterClose, TypeOK
<1>6. ASSUME NEW s \in Sessions, Close(s) \/ CloseFails(s) PROVE TypeOK'
  <2>1. CASE CloseRow(s)
    <3>1. sess' \in [Sessions -> Session]
      BY <2>1 DEF CloseRow, TypeOK, Session
    <3> QED BY <2>1, <3>1 DEF CloseRow, TypeOK
  <2>2. CASE CloseStatus(s)
    BY <2>2 DEF CloseStatus, Downgraded, TypeOK, Session, AgentStatuses
  <2>3. CASE CloseFails(s)
    <3>1. sess' \in [Sessions -> Session]
      BY <2>3 DEF CloseFails, TypeOK, Session
    <3>2. faults' \in 0..MaxFaults
      BY <2>3 DEF CloseFails, TypeOK
    <3> QED BY <2>3, <3>1, <3>2 DEF CloseFails, TypeOK
  <2> QED BY <1>6, <2>1, <2>2, <2>3 DEF Close
<1>7. ASSUME NEW s \in Sessions, Reap(s) \/ Shutdown(s) PROVE TypeOK'
  <2>1. CloseSession(s) /\ UNCHANGED <<status, boot, faults, crashes>>
    BY <1>7 DEF Reap, CloseEvent, Sweep, Shutdown
  <2> QED BY <2>1, CloseSessionType DEF TypeOK
<1>8. ASSUME NEW q \in Requests, Dispatch(q) PROVE TypeOK'
  BY <1>8, SettledType, SessionsAssumption
     DEF Dispatch, TypeOK, Request, RequestStates, Pending
<1>9. ASSUME NEW q \in Requests, Reply(q) PROVE TypeOK'
  BY <1>9 DEF Reply, TypeOK, Request, RequestStates, Pending
<1>10. ASSUME NEW q \in Requests, Answer(q) PROVE TypeOK'
  BY <1>10, SettledType DEF Answer, TypeOK, Request, RequestStates, Pending
<1>11. ASSUME NEW q \in Requests, Timeout(q) PROVE TypeOK'
  BY <1>11, SettledType DEF Timeout, TypeOK, Request, RequestStates, Pending
<1>12. CASE Crash
  <2>1. sess' \in [Sessions -> Session]
    <3>1. \A s \in Sessions :
            [sess[s] EXCEPT !.pc = "dead", !.sock = "dead", !.closing = "done",
                            !.closed = TRUE, !.awaits = None] \in Session
      BY DEF TypeOK, Session, AttachStates
    <3> QED BY <1>12, <3>1 DEF Crash, TypeOK
  <2>2. Settled("lost") \in Request /\ Settled("lost").on = None
        /\ Settled("lost").state \notin Pending
    BY SettledType DEF RequestStates, Pending
  <2>3. req' = [q \in Requests |->
                 IF req[q].state \in Pending THEN Settled("lost") ELSE req[q]]
    BY <1>12 DEF Crash
  <2>4. req' \in [Requests -> Request]
        /\ \A q \in Requests : req'[q].state \in Pending <=> req'[q].on # None
    BY <2>2, <2>3 DEF TypeOK
  <2>5. crashes' \in 0..MaxCrashes
    <3>1. crashes' = crashes + 1 /\ crashes < MaxCrashes /\ crashes \in 0..MaxCrashes
      BY <1>12 DEF Crash, TypeOK
    <3> QED BY <3>1
  <2> QED BY <1>12, <2>1, <2>4, <2>5 DEF Crash, TypeOK
<1>13. CASE Reconcile \/ ReconcileFails
  BY <1>13 DEF Reconcile, ReconcileRows, ReconcileStatus, ReconcileFails, Downgraded,
               TypeOK, Session, AgentStatuses
<1>14. CASE UNCHANGED vars
  BY <1>14 DEF vars, TypeOK
<1> QED
  BY <1>1, <1>2, <1>3, <1>4, <1>5, <1>6, <1>7, <1>8, <1>9, <1>10, <1>11, <1>12, <1>13, <1>14
  DEF Next, SessionStep, RequestStep, HubStep

\* Sessions and requests that keep their claims: no session loses its flag or
\* moves on, the live entry stays, and no request comes to wait on a session.
LEMMA ClaimsKept ==
  ASSUME TypeOK, Claims, live' = live,
         \A s \in Sessions : sess'[s].closed = sess[s].closed,
         \A s \in Sessions : sess'[s].pc # sess[s].pc =>
            \/ sess[s].pc \in Early /\ sess'[s].pc \in Early \cup {"failed"}
            \/ sess[s].pc = "superseding" /\ sess'[s].pc = "insert"
            \/ sess[s].pc = "insert" /\ sess'[s].pc \in {"ready", "failed"},
         \A q \in Requests : req'[q].on \in {req[q].on, None}
  PROVE  Claims'
<1>1. \A s \in Sessions : None # s
  BY SessionsAssumption
<1>2. \A s \in Sessions : sess'[s].pc \in Early => sess[s].pc \in Early
  BY DEF Early
<1>3. \A s \in Sessions : sess'[s].pc \in Claiming => sess[s].pc \in Claiming
  BY DEF Early, Claiming
<1>4. EarlyHoldsNothing'
  BY <1>1, <1>2 DEF Claims, EarlyHoldsNothing
<1>5. ClaimedIsLive'
  BY <1>3 DEF Claims, ClaimedIsLive
<1>6. ClosedHoldsNothing'
  BY <1>1 DEF Claims, ClosedHoldsNothing
<1> QED BY <1>4, <1>5, <1>6 DEF Claims

\* Closing a session that was not closed: it holds nothing from then on.
LEMMA ClaimsClosed ==
  ASSUME TypeOK, Claims, NEW s \in Sessions,
         \A t \in Sessions : sess'[t].closed <=> (sess[t].closed \/ t = s),
         \A t \in Sessions \ {s} : sess'[t].pc = sess[t].pc,
         sess'[s].pc \notin Early,
         live' = LiveAfterClose(s), req' = FailPending(s)
  PROVE  Claims'
<1>1. \A t \in Sessions : None # t
  BY SessionsAssumption
<1>2. \A q \in Requests : req'[q].on # s /\ req'[q].on \in {req[q].on, None}
  BY FailPendingType
<1>3. live' # s /\ live' \in {live, None} /\ (live # s => live' = live)
  BY <1>1 DEF LiveAfterClose
<1>4. EarlyHoldsNothing'
  BY <1>1, <1>2, <1>3 DEF Claims, EarlyHoldsNothing
<1>5. ClaimedIsLive'
  BY <1>1, <1>3 DEF Claims, ClaimedIsLive
<1>6. ClosedHoldsNothing'
  BY <1>1, <1>2, <1>3 DEF Claims, ClosedHoldsNothing
<1> QED BY <1>4, <1>5, <1>6 DEF Claims

LEMMA CloseSessionClaims ==
  ASSUME TypeOK, Claims, NEW s \in Sessions, CloseSession(s), sess[s].pc \notin Early
  PROVE  Claims'
<1>1. CASE sess[s].closed
  BY <1>1, ClaimsKept DEF CloseSession
<1>2. CASE ~sess[s].closed
  <2>1. sess' = Closing(sess, s) /\ live' = LiveAfterClose(s) /\ req' = FailPending(s)
    BY <1>2 DEF CloseSession
  <2>2. /\ \A t \in Sessions \ {s} : sess'[t] = sess[t]
        /\ sess'[s].closed /\ sess'[s].pc = sess[s].pc
    BY <2>1, ClosingType DEF TypeOK
  <2>3. \A t \in Sessions : sess'[t].closed <=> (sess[t].closed \/ t = s)
    BY <2>2 DEF TypeOK, Session
  <2>4. sess'[s].pc \notin Early
    BY <2>2
  <2> QED BY <2>1, <2>2, <2>3, <2>4, ClaimsClosed
<1> QED BY <1>1, <1>2

LEMMA ClaimClaims ==
  ASSUME TypeOK, Claims, NEW s \in Sessions, Claim(s)
  PROVE  Claims'
<1>1. \A t \in Sessions : None # t
  BY SessionsAssumption
<1>2. sess[s].pc = "helloed" /\ live' = s
  BY DEF Claim
<1>3. ~sess[s].closed /\ live # s /\ \A q \in Requests : req[q].on # s
  BY <1>2 DEF Claims, EarlyHoldsNothing, Early
<1>4. CASE live = None
  <2>1. sess' = [sess EXCEPT ![s].pc = "insert"] /\ req' = req
    BY <1>4 DEF Claim
  <2>2. /\ \A t \in Sessions \ {s} : sess'[t] = sess[t]
        /\ sess'[s].pc = "insert" /\ sess'[s].closed = sess[s].closed
    BY <2>1 DEF TypeOK, Session
  <2>3. EarlyHoldsNothing'
    BY <1>2, <2>1, <2>2 DEF Claims, EarlyHoldsNothing, Early
  <2>4. ClaimedIsLive'
    BY <1>1, <1>2, <1>4, <2>2 DEF Claims, ClaimedIsLive
  <2>5. ClosedHoldsNothing'
    BY <1>2, <1>3, <2>1, <2>2 DEF Claims, ClosedHoldsNothing
  <2> QED BY <2>3, <2>4, <2>5 DEF Claims
<1>5. CASE live # None
  <2>1. live \in Sessions
    BY <1>5 DEF TypeOK
  <2> DEFINE after == Closing(sess, live)
  <2>2. /\ after \in [Sessions -> Session]
        /\ \A t \in Sessions \ {live} : after[t] = sess[t]
        /\ after[live].closed /\ after[live].pc = sess[live].pc
    BY <2>1, ClosingType DEF TypeOK
  <2>3. sess' = [after EXCEPT ![s].pc = "superseding", ![s].awaits = live]
        /\ req' = FailPending(live)
    BY <1>5 DEF Claim
  <2> HIDE DEF after
  <2>4. /\ \A t \in Sessions \ {s, live} : sess'[t] = sess[t]
        /\ sess'[live].closed /\ sess'[live].pc = sess[live].pc
        /\ sess'[s].pc = "superseding" /\ sess'[s].closed = sess[s].closed
    BY <1>3, <2>1, <2>2, <2>3 DEF Session
  <2>5. \A q \in Requests : req'[q].on # live /\ req'[q].on \in {req[q].on, None}
    BY <2>1, <2>3, FailPendingType
  <2>6. EarlyHoldsNothing'
    BY <1>1, <1>2, <2>1, <2>4, <2>5 DEF Claims, EarlyHoldsNothing, Early
  <2>7. ClaimedIsLive'
    BY <1>2, <2>1, <2>4 DEF Claims, ClaimedIsLive
  <2>8. ClosedHoldsNothing'
    BY <1>1, <1>2, <1>3, <2>1, <2>4, <2>5 DEF Claims, ClosedHoldsNothing
  <2> QED BY <2>6, <2>7, <2>8 DEF Claims
<1> QED BY <1>4, <1>5

LEMMA EstablishClaims ==
  ASSUME TypeOK, Claims, NEW s \in Sessions, Establish(s)
  PROVE  Claims'
<1> DEFINE inserted == [sess EXCEPT ![s].row = "open",
                                    ![s].pc = IF Open(s) THEN "ready" ELSE "failed"]
<1>1. sess[s].pc = "insert"
  BY DEF Establish
<1>2. inserted \in [Sessions -> Session]
  <2>1. (IF Open(s) THEN "ready" ELSE "failed") \in AttachStates
    BY DEF AttachStates
  <2> QED BY <2>1, AttachUpdate DEF TypeOK
<1>3. /\ \A t \in Sessions \ {s} : inserted[t] = sess[t]
      /\ inserted[s].closed = sess[s].closed
      /\ inserted[s].pc = IF Open(s) THEN "ready" ELSE "failed"
  BY DEF TypeOK, Session
<1>4. IF Open(s) \/ sess[s].closed
      THEN sess' = inserted /\ UNCHANGED <<live, req>>
      ELSE /\ sess' = Closing(inserted, s)
           /\ live' = LiveAfterClose(s)
           /\ req' = FailPending(s)
  BY DEF Establish
<1> HIDE DEF inserted
<1>5. CASE Open(s) \/ sess[s].closed
  BY <1>1, <1>3, <1>4, <1>5, ClaimsKept
<1>6. CASE ~(Open(s) \/ sess[s].closed)
  <2>1. /\ \A t \in Sessions \ {s} : sess'[t] = inserted[t]
        /\ sess'[s].closed /\ sess'[s].pc = inserted[s].pc
    BY <1>2, <1>4, <1>6, ClosingType
  <2>2. \A t \in Sessions : sess'[t].closed <=> (sess[t].closed \/ t = s)
    BY <1>3, <2>1 DEF TypeOK, Session
  <2>3. sess'[s].pc \notin Early
    BY <1>3, <1>6, <2>1 DEF Early
  <2> QED BY <1>3, <1>4, <1>6, <2>1, <2>2, <2>3, ClaimsClosed
<1> QED BY <1>5, <1>6

LEMMA ClaimsStep == TypeOK /\ Claims /\ [Next]_vars => Claims'
<1> SUFFICES ASSUME TypeOK, Claims, [Next]_vars PROVE Claims'
  OBVIOUS
<1>1. ASSUME NEW s \in Sessions, Upgrade(s) \/ Hello(s) \/ HelloFails(s) PROVE Claims'
  <2>1. /\ live' = live /\ req' = req
        /\ \A t \in Sessions : sess'[t].closed = sess[t].closed
        /\ \A t \in Sessions \ {s} : sess'[t].pc = sess[t].pc
        /\ sess[s].pc \in Early /\ sess'[s].pc \in Early \cup {"failed"}
    BY <1>1 DEF Upgrade, Hello, HelloFails, TypeOK, Session, Early
  <2> QED BY <2>1, ClaimsKept
<1>2. ASSUME NEW s \in Sessions, Superseded(s) \/ SocketDies(s) PROVE Claims'
  <2>1. /\ live' = live /\ req' = req
        /\ \A t \in Sessions : sess'[t].closed = sess[t].closed
        /\ \A t \in Sessions : sess'[t].pc # sess[t].pc =>
             sess[t].pc = "superseding" /\ sess'[t].pc = "insert"
    BY <1>2 DEF Superseded, SocketDies, TypeOK, Session
  <2> QED BY <2>1, ClaimsKept
<1>3. ASSUME NEW s \in Sessions, EstablishFails(s) PROVE Claims'
  <2>1. /\ \A t \in Sessions : sess'[t].closed = sess[t].closed
        /\ \A t \in Sessions \ {s} : sess'[t].pc = sess[t].pc
        /\ sess'[s].pc = "failed" /\ sess[s].pc = "insert"
        /\ req' = req /\ live' = LiveAfterClose(s)
    BY <1>3 DEF EstablishFails, Unclaim, TypeOK, Session
  <2>2. \A t \in Sessions : live' = t <=> live = t /\ t # s
    BY <2>1, SessionsAssumption DEF LiveAfterClose
  <2> QED BY <2>1, <2>2 DEF Claims, EarlyHoldsNothing, ClaimedIsLive, ClosedHoldsNothing,
                            Early, Claiming
<1>4. ASSUME NEW s \in Sessions, Close(s) \/ CloseFails(s) PROVE Claims'
  <2>1. /\ live' = live /\ req' = req
        /\ \A t \in Sessions : sess'[t].closed = sess[t].closed /\ sess'[t].pc = sess[t].pc
    BY <1>4 DEF Close, CloseRow, CloseStatus, CloseFails, TypeOK, Session
  <2> QED BY <2>1, ClaimsKept
<1>5. ASSUME NEW s \in Sessions, Reap(s) \/ Shutdown(s) PROVE Claims'
  <2>1. CloseSession(s) /\ (live = s \/ sess[s].pc = "ready")
    BY <1>5 DEF Reap, CloseEvent, Sweep, Shutdown
  <2>2. sess[s].pc \notin Early
    BY <2>1 DEF Claims, EarlyHoldsNothing, Early
  <2> QED BY <2>1, <2>2, CloseSessionClaims
<1>6. ASSUME NEW q \in Requests, Dispatch(q) PROVE Claims'
  <2>1. UNCHANGED <<sess, live>>
        /\ \A p \in Requests : req'[p].on \in {req[p].on, live, None}
    BY <1>6 DEF Dispatch, Settled, TypeOK, Request
  <2> QED BY <2>1, SessionsAssumption
          DEF Claims, EarlyHoldsNothing, ClaimedIsLive, ClosedHoldsNothing
<1>7. ASSUME NEW q \in Requests, Reply(q) \/ Answer(q) \/ Timeout(q) PROVE Claims'
  <2>1. UNCHANGED <<sess, live>>
    BY <1>7 DEF Reply, Answer, Timeout
  <2>2. \A p \in Requests : req'[p].on \in {req[p].on, None}
    BY <1>7 DEF Reply, Answer, Timeout, Settled, TypeOK, Request
  <2> QED BY <2>1, <2>2, ClaimsKept
<1>8. CASE Crash
  <2>1. /\ live' = None
        /\ \A s \in Sessions : sess[s].pc = "idle" => sess'[s] = sess[s]
        /\ \A s \in Sessions : sess[s].pc # "idle" => sess'[s].pc = "dead"
    BY <1>8 DEF Crash, TypeOK, Session
  <2>2. \A q \in Requests : req'[q].on = None
    BY <1>8 DEF Crash, Settled, TypeOK
  <2> QED BY <2>1, <2>2, SessionsAssumption
          DEF Claims, EarlyHoldsNothing, ClaimedIsLive, ClosedHoldsNothing, Early, Claiming
<1>9. CASE Reconcile \/ ReconcileFails
  <2>1. /\ live' = live /\ req' = req
        /\ \A t \in Sessions : sess'[t].closed = sess[t].closed /\ sess'[t].pc = sess[t].pc
    BY <1>9 DEF Reconcile, ReconcileRows, ReconcileStatus, ReconcileFails, TypeOK, Session
  <2> QED BY <2>1, ClaimsKept
<1>10. CASE UNCHANGED vars
  BY <1>10, ClaimsKept DEF vars
<1> QED
  BY <1>1, <1>2, <1>3, <1>4, <1>5, <1>6, <1>7, <1>8, <1>9, <1>10, ClaimClaims, EstablishClaims
  DEF Next, SessionStep, RequestStep, HubStep

LEMMA InitTypeOK == Init => TypeOK
BY SessionsAssumption, BoundsAssumption
   DEF Init, TypeOK, AgentStatuses, NewSession, Session, AttachStates, Request, RequestStates, Pending

LEMMA InitClaims == Init => Claims
BY SessionsAssumption
   DEF Init, Claims, EarlyHoldsNothing, ClaimedIsLive, ClosedHoldsNothing, NewSession, Early, Claiming

\* Type correctness for any number of connections and requests: a request names a
\* session exactly while it is pending.
THEOREM TypeInvariant == Spec => []TypeOK
BY InitTypeOK, TypeStep, PTL DEF Spec

LEMMA ClaimsInvariant == Spec => [](TypeOK /\ Claims)
BY InitTypeOK, TypeStep, InitClaims, ClaimsStep, PTL DEF Spec

\* closeSession leaves nothing to its awaits: a closed session is not the live
\* one and no request waits on it, whatever attach, sweep or crash interleaves.
THEOREM ClosedSessionsHoldNothing == Spec => []ClosedHoldsNothing
<1>1. Claims => ClosedHoldsNothing
  BY DEF Claims
<1> QED BY <1>1, ClaimsInvariant, PTL

\* One active session per agent: an established session that is not closed is the
\* live one, however many connections race through attach.
THEOREM EstablishedSessionIsLive == Spec => []EstablishedIsLive
<1>1. Claims => EstablishedIsLive
  BY DEF Claims, ClaimedIsLive, EstablishedIsLive, Claiming
<1> QED BY <1>1, ClaimsInvariant, PTL

\* What RequestLife sees of a request.
OutcomeOf(q) == IF req[q].state \in Pending THEN "pending" ELSE req[q].state
SettledOutcomes == {"answered", "timeout", "offline", "lost"}

\* A step in which every request keeps its outcome, or settles as "to".
LEMMA SettlesAs ==
  ASSUME NEW to \in SettledOutcomes,
         \A q \in Requests :
           OutcomeOf(q)' = OutcomeOf(q) \/ (OutcomeOf(q) = "pending" /\ OutcomeOf(q)' = to)
  PROVE  Promise!RequestNext
<1> DEFINE outcome == [q \in Requests |-> OutcomeOf(q)]
           Q == {q \in Requests : outcome[q] = "pending" /\ OutcomeOf(q)' = to}
<1>1. Q \in SUBSET {q \in Requests : outcome[q] = "pending"}
  OBVIOUS
<1>2. outcome' = [q \in Requests |-> IF q \in Q THEN to ELSE outcome[q]]
  <2>1. \A q \in Requests : OutcomeOf(q)' = IF q \in Q THEN to ELSE outcome[q]
    OBVIOUS
  <2> HIDE DEF Q
  <2> QED BY <2>1
<1>3. Promise!Settle
  BY <1>1, <1>2 DEF Promise!Settle, Promise!Settled, SettledOutcomes, OutcomeOf
<1> QED BY <1>3 DEF Promise!RequestNext

LEMMA DispatchTakes ==
  ASSUME TypeOK, NEW q \in Requests, Dispatch(q)
  PROVE  Promise!RequestNext
<1> DEFINE outcome == [p \in Requests |-> OutcomeOf(p)]
<1>1. \A p \in Requests \ {q} : req'[p] = req[p]
  BY DEF Dispatch, TypeOK
<1>2. OutcomeOf(q) = "idle" /\ OutcomeOf(q)' \in {"pending", "offline"}
  BY DEF Dispatch, OutcomeOf, Settled, Pending, TypeOK
<1>3. \A p \in Requests \ {q} : OutcomeOf(p)' = OutcomeOf(p)
  BY <1>1 DEF OutcomeOf
<1>4. outcome' = [outcome EXCEPT ![q] = OutcomeOf(q)']
  BY <1>3
<1>5. Promise!Take(q)
  BY <1>2, <1>4 DEF Promise!Take, OutcomeOf
<1> QED BY <1>5 DEF Promise!RequestNext

\* Every step keeps the outcomes, settles the requests of one session or of the
\* whole hub alike, or takes one request.
LEMMA RequestsStep ==
  ASSUME TypeOK, [Next]_vars
  PROVE  Promise!RequestNext
<1>1. ASSUME req' = req PROVE Promise!RequestNext
  BY <1>1, SettlesAs DEF OutcomeOf, SettledOutcomes
<1>2. ASSUME NEW s \in Sessions, req' = FailPending(s) PROVE Promise!RequestNext
  <2>1. \A q \in Requests :
          \/ req'[q] = req[q]
          \/ req[q].state \in Pending /\ req'[q] = Settled("offline")
    BY <1>2, SessionsAssumption DEF FailPending, TypeOK
  <2>2. \A q \in Requests :
          OutcomeOf(q)' = OutcomeOf(q)
          \/ (OutcomeOf(q) = "pending" /\ OutcomeOf(q)' = "offline")
    BY <2>1 DEF OutcomeOf, Settled, Pending
  <2> QED BY <2>2, SettlesAs DEF SettledOutcomes
<1>3. ASSUME NEW s \in Sessions, CloseSession(s) PROVE Promise!RequestNext
  BY <1>1, <1>2, <1>3 DEF CloseSession
<1>4. ASSUME NEW s \in Sessions, SessionStep(s) \/ Establish(s) \/ Upgrade(s)
      PROVE  Promise!RequestNext
  <2>1. req' = req \/ (\E t \in Sessions : req' = FailPending(t)) \/ CloseSession(s)
    BY <1>4 DEF SessionStep, Establish, Upgrade, Close, CloseRow, CloseStatus, CloseFails,
                Hello, HelloFails, Claim, Superseded, EstablishFails, SocketDies, Reap,
                CloseEvent, Sweep, Shutdown, TypeOK
  <2> QED BY <1>1, <1>2, <1>3, <2>1
<1>5. ASSUME NEW q \in Requests, NEW to \in SettledOutcomes,
             req[q].state \in Pending, req' = [req EXCEPT ![q] = Settled(to)]
      PROVE  Promise!RequestNext
  <2>1. \A p \in Requests : req'[p] = IF p = q THEN Settled(to) ELSE req[p]
    BY <1>5 DEF TypeOK
  <2>2. \A p \in Requests :
          OutcomeOf(p)' = OutcomeOf(p) \/ (OutcomeOf(p) = "pending" /\ OutcomeOf(p)' = to)
    BY <1>5, <2>1 DEF OutcomeOf, Settled, Pending, SettledOutcomes
  <2> QED BY <2>2, SettlesAs
<1>6. ASSUME NEW q \in Requests, NEW state \in Pending,
             req[q].state \in Pending, req' = [req EXCEPT ![q].state = state]
      PROVE  Promise!RequestNext
  <2>1. \A p \in Requests : OutcomeOf(p)' = OutcomeOf(p)
    BY <1>6 DEF OutcomeOf, TypeOK, Request
  <2> QED BY <2>1, SettlesAs DEF SettledOutcomes
<1>7. ASSUME NEW q \in Requests, RequestStep(q) PROVE Promise!RequestNext
  <2>1. CASE Reply(q)
    BY <2>1, <1>6 DEF Reply, Pending
  <2>2. CASE Answer(q)
    <3>1. req[q].state \in Pending
      BY <2>2 DEF Answer, Pending
    <3>2. CASE sess[req[q].on].pc = "ready"
      BY <2>2, <3>1, <3>2, <1>5 DEF Answer, SettledOutcomes, TypeOK
    <3>3. CASE sess[req[q].on].pc # "ready"
      <4>1. req' = [req EXCEPT ![q].state = "unheard"]
        BY <2>2, <3>3 DEF Answer, TypeOK
      <4> QED BY <3>1, <4>1, <1>6 DEF Pending
    <3> QED BY <3>2, <3>3
  <2>3. CASE Timeout(q)
    BY <2>3, <1>5 DEF Timeout, SettledOutcomes
  <2> QED BY <1>7, <2>1, <2>2, <2>3, DispatchTakes DEF RequestStep
<1>8. CASE Crash
  <2>1. \A q \in Requests :
          req'[q] = IF req[q].state \in Pending THEN Settled("lost") ELSE req[q]
    BY <1>8 DEF Crash
  <2>2. \A q \in Requests :
          OutcomeOf(q)' = OutcomeOf(q)
          \/ (OutcomeOf(q) = "pending" /\ OutcomeOf(q)' = "lost")
    BY <2>1 DEF OutcomeOf, Settled, Pending
  <2> QED BY <2>2, SettlesAs DEF SettledOutcomes
<1>9. CASE Reconcile \/ ReconcileFails \/ UNCHANGED vars
  BY <1>1, <1>9 DEF Reconcile, ReconcileRows, ReconcileStatus, ReconcileFails, vars
<1> QED BY <1>4, <1>7, <1>8, <1>9 DEF Next, HubStep

\* RequestLife's safety part: a credential test or probe is taken at most once
\* and settles at most once, whatever closes, times out or crashes.
THEOREM RequestsSettleOnce == Spec => Promise!RequestSafety
<1>1. Init => Promise!RequestInit
  BY DEF Init, Promise!RequestInit, Pending
<1>2. TypeOK /\ [Next]_vars => Promise!RequestNext
  BY RequestsStep
<1> QED BY <1>1, <1>2, TypeInvariant, PTL DEF Spec, Promise!RequestSafety
=============================================================================
