----------------------- MODULE AgentEnrolment_proofs -----------------------
(***************************************************************************)
(* Proofs about AgentEnrolment, for any number of tokens and connections:  *)
(*   - an enrolment token buys one credential at most;                     *)
(*   - a bound agent is not deleted;                                       *)
(*   - the invariants of AgentSessions survive the operations on the       *)
(*     identity, whose drops and deletions close sessions of their own     *)
(*     accord.                                                             *)
(* TokenSpentOnce is not inductive: Tokens adds that the token in the slot *)
(* and the tokens not issued yet have bought nothing.                      *)
(***************************************************************************)
EXTENDS AgentEnrolment, AgentSessions_proofs

Tokens ==
  /\ identity \in Identity
  /\ bought \in [1..MaxTokens -> Nat]
  /\ identity.token <= identity.issued
  /\ \A t \in 1..MaxTokens :
       /\ bought[t] <= 1
       /\ t = identity.token => bought[t] = 0
       /\ t > identity.issued => bought[t] = 0

LEMMA InitTokens == EnrolInit => Tokens
BY TokensAssumption DEF EnrolInit, Tokens, Identity

\* The record of the row after an exchange.
LEMMA Exchanged ==
  ASSUME NEW row \in Identity, NEW token \in 0..MaxTokens
  PROVE  /\ [row EXCEPT !.enrolled = TRUE, !.token = token] \in Identity
         /\ [row EXCEPT !.enrolled = TRUE, !.token = token].token = token
         /\ [row EXCEPT !.enrolled = TRUE, !.token = token].issued = row.issued
         /\ row.known => [row EXCEPT !.enrolled = TRUE, !.token = token].known
BY DEF Identity

\* What exchange and rotation do to the row.
LEMMA ExchangeRow ==
  ASSUME identity \in Identity, NEW token \in 1..MaxTokens, Exchange(token)
  PROVE  /\ identity' \in Identity
         /\ identity'.token = 0 /\ identity'.issued = identity.issued
         /\ identity.known => identity'.known
<1>1. identity' = [identity EXCEPT !.enrolled = TRUE, !.token = 0]
  BY DEF Exchange
<1>2. 0 \in 0..MaxTokens
  BY TokensAssumption
<1> QED BY <1>1, <1>2, Exchanged

LEMMA RotateRow ==
  ASSUME identity \in Identity, Rotate
  PROVE  /\ identity' \in Identity
         /\ identity'.token = identity.issued + 1
         /\ identity'.issued = identity.issued + 1
         /\ identity.known => identity'.known
<1> DEFINE next == identity.issued + 1
<1>1. identity' = [identity EXCEPT !.issued = next, !.token = next, !.revoked = FALSE]
  BY DEF Rotate
<1>2. identity.issued \in 1..MaxTokens /\ identity.issued < MaxTokens
  BY DEF Identity, Rotate
<1>3. next \in 1..MaxTokens /\ next \in 0..MaxTokens
  BY <1>2, TokensAssumption
<1> HIDE DEF next
<1>4. /\ identity' \in Identity /\ identity'.token = next /\ identity'.issued = next
      /\ identity.known => identity'.known
  <2>1. identity' \in Identity
    BY <1>1, <1>3 DEF Identity
  <2>2. identity'.token = next /\ identity'.issued = next
    BY <1>1, <1>3 DEF Identity
  <2>3. identity.known => identity'.known
    BY <1>1, <1>3 DEF Identity
  <2> QED BY <2>1, <2>2, <2>3
<1>5. next = identity.issued + 1
  BY DEF next
<1> QED BY <1>4, <1>5

LEMMA TokensStep == Tokens /\ [EnrolNext]_allVars => Tokens'
<1> SUFFICES ASSUME Tokens, [EnrolNext]_allVars PROVE Tokens'
  OBVIOUS
<1> USE TokensAssumption
<1>1. ASSUME UNCHANGED <<identity, bought>> PROVE Tokens'
  BY <1>1 DEF Tokens
<1>2. ASSUME NEW s \in Sessions,
             \/ Accept(s) \/ EnrolEstablish(s) \/ EstablishOrphan(s)
             \/ SessionStep(s) /\ UNCHANGED identityVars
      PROVE  Tokens'
  BY <1>1, <1>2 DEF Accept, EnrolEstablish, EstablishOrphan, identityVars
<1>3. ASSUME NEW token \in 1..MaxTokens, Exchange(token) PROVE Tokens'
  <2>1. identity' \in Identity /\ identity'.token = 0 /\ identity'.issued = identity.issued
    BY <1>3, ExchangeRow DEF Tokens
  <2>2. bought[token] = 0
    BY <1>3 DEF Exchange, Tokens
  <2>3. bought' = [bought EXCEPT ![token] = 1]
    BY <1>3, <2>2 DEF Exchange, Tokens
  <2>4. token <= identity.issued
    BY <1>3 DEF Exchange, Tokens
  <2>5. \A t \in 1..MaxTokens : bought'[t] = IF t = token THEN 1 ELSE bought[t]
    BY <2>3 DEF Tokens
  <2>6. bought' \in [1..MaxTokens -> Nat]
    BY <2>3 DEF Tokens
  <2>7. identity'.issued \in 1..MaxTokens
    BY <2>1 DEF Identity
  <2> QED BY <2>1, <2>4, <2>5, <2>6, <2>7 DEF Tokens
<1>4. CASE Rotate
  <2>1. /\ identity' \in Identity
        /\ identity'.token = identity.issued + 1 /\ identity'.issued = identity.issued + 1
        /\ bought' = bought
    BY <1>4, RotateRow DEF Rotate, Tokens
  <2> QED BY <2>1 DEF Tokens, Identity
<1>5. CASE Revoke
  BY <1>5 DEF Revoke, Tokens, Identity
<1>6. CASE DeleteRow
  BY <1>6 DEF DeleteRow, Tokens, Identity
<1>7. ASSUME \/ Bind \/ DeleteDrop
             \/ \E reason \in {"revoked", "replaced"} : Drop(reason)
             \/ UNCHANGED allVars
      PROVE  Tokens'
  BY <1>1, <1>7 DEF Bind, DeleteDrop, Drop, allVars, identityVars
<1> QED BY <1>2, <1>3, <1>4, <1>5, <1>6, <1>7 DEF EnrolNext

\* ADR-116, for any number of tokens: whoever presents a token, and however
\* rotation, revocation and deletion interleave, it buys one credential at most.
THEOREM TokensAreSpentOnce == EnrolSpec => []TokenSpentOnce
<1>1. Tokens => TokenSpentOnce
  BY DEF Tokens, TokenSpentOnce
<1> QED BY <1>1, InitTokens, TokensStep, PTL DEF EnrolSpec
-----------------------------------------------------------------------------
Binding == identity \in Identity /\ BoundAgentExists

LEMMA BindingStep == Binding /\ [EnrolNext]_allVars => Binding'
<1> SUFFICES ASSUME Binding, [EnrolNext]_allVars PROVE Binding'
  OBVIOUS
<1>1. ASSUME identity' \in Identity, identity.known => identity'.known, bound' => bound
      PROVE  Binding'
  BY <1>1 DEF Binding, BoundAgentExists
<1>2. ASSUME UNCHANGED <<identity, bound>> PROVE Binding'
  BY <1>2 DEF Binding, BoundAgentExists
<1>3. ASSUME NEW s \in Sessions,
             \/ Accept(s) \/ EnrolEstablish(s) \/ EstablishOrphan(s)
             \/ SessionStep(s) /\ UNCHANGED identityVars
      PROVE  Binding'
  BY <1>2, <1>3 DEF Accept, EnrolEstablish, EstablishOrphan, identityVars
<1>4. ASSUME NEW token \in 1..MaxTokens, Exchange(token) PROVE Binding'
  <2>1. bound' = bound
    BY <1>4 DEF Exchange
  <2> QED BY <1>1, <1>4, <2>1, ExchangeRow DEF Binding
<1>5. CASE Rotate
  <2>1. bound' = bound
    BY <1>5 DEF Rotate
  <2> QED BY <1>1, <1>5, <2>1, RotateRow DEF Binding
<1>6. CASE Revoke
  BY <1>1, <1>6 DEF Revoke, Binding, Identity
<1>7. CASE Bind
  BY <1>7 DEF Bind, Binding, BoundAgentExists
<1>8. CASE DeleteRow
  <2>1. CASE bound
    BY <1>2, <1>8, <2>1 DEF DeleteRow
  <2>2. CASE ~bound
    BY <1>8, <2>2 DEF DeleteRow, Binding, BoundAgentExists, Identity
  <2> QED BY <2>1, <2>2
<1>9. ASSUME \/ DeleteDrop \/ UNCHANGED allVars
             \/ \E reason \in {"revoked", "replaced"} : Drop(reason)
      PROVE  Binding'
  BY <1>2, <1>9 DEF DeleteDrop, Drop, allVars, identityVars
<1> QED BY <1>3, <1>4, <1>5, <1>6, <1>7, <1>8, <1>9 DEF EnrolNext

\* FR-005: a configuration bound between the check of deleteAgent and its DELETE
\* keeps the agent.
THEOREM BoundAgentIsKept == EnrolSpec => []BoundAgentExists
<1>1. EnrolInit => Binding
  BY TokensAssumption DEF EnrolInit, Binding, BoundAgentExists, Identity
<1>2. Binding => BoundAgentExists
  BY DEF Binding
<1> QED BY <1>1, <1>2, BindingStep, PTL DEF EnrolSpec
-----------------------------------------------------------------------------
LEMMA DropAgentType ==
  ASSUME TypeOK, DropAgent
  PROVE  TypeOK'
<1>1. CASE live = None
  BY <1>1 DEF DropAgent, bounds, TypeOK
<1>2. CASE live # None
  <2>1. live \in Sessions /\ CloseSession(live) /\ UNCHANGED <<status, boot, faults, crashes>>
    BY <1>2 DEF DropAgent, bounds, TypeOK
  <2> QED BY <2>1, CloseSessionType DEF TypeOK
<1> QED BY <1>1, <1>2

LEMMA DropAgentClaims ==
  ASSUME TypeOK, Claims, DropAgent
  PROVE  Claims'
<1>1. CASE live = None
  BY <1>1, ClaimsKept DEF DropAgent
<1>2. CASE live # None
  <2>1. live \in Sessions /\ CloseSession(live)
    BY <1>2 DEF DropAgent, TypeOK
  <2>2. sess[live].pc \notin Early
    BY <2>1 DEF Claims, EarlyHoldsNothing
  <2> QED BY <2>1, <2>2, CloseSessionClaims
<1> QED BY <1>1, <1>2

\* The claim released by a failed insert.
LEMMA UnclaimKeeps ==
  ASSUME TypeOK, Claims, NEW s \in Sessions, Unclaim(s),
         UNCHANGED <<status, req, boot, faults, crashes>>
  PROVE  TypeOK' /\ Claims'
<1>1. TypeOK'
  <2>1. sess' = [sess EXCEPT ![s].pc = "failed", ![s].sock = "dead"]
    BY DEF Unclaim
  <2>2. "failed" \in AttachStates
    BY DEF AttachStates
  <2>3. sess' \in [Sessions -> Session]
    BY <2>1, <2>2, AttachUpdate DEF TypeOK
  <2> QED BY <2>3 DEF Unclaim, LiveAfterClose, TypeOK
<1>2. /\ \A t \in Sessions : sess'[t].closed = sess[t].closed
      /\ \A t \in Sessions \ {s} : sess'[t].pc = sess[t].pc
      /\ sess'[s].pc = "failed" /\ sess[s].pc = "insert"
      /\ live' = LiveAfterClose(s)
  BY DEF Unclaim, TypeOK, Session
<1>3. \A t \in Sessions : live' = t <=> live = t /\ t # s
  BY <1>2, SessionsAssumption DEF LiveAfterClose
<1>4. Claims'
  BY <1>2, <1>3 DEF Claims, EarlyHoldsNothing, ClaimedIsLive, ClosedHoldsNothing, Early, Claiming
<1> QED BY <1>1, <1>4

LEMMA DeleteRowKeeps ==
  ASSUME TypeOK, Claims, DeleteRow
  PROVE  TypeOK' /\ Claims'
<1>1. sess' \in [Sessions -> Session]
      /\ \A s \in Sessions : sess'[s].closed = sess[s].closed /\ sess'[s].pc = sess[s].pc
  <2>1. CASE bound
    BY <2>1 DEF DeleteRow, TypeOK
  <2>2. CASE ~bound
    <3>1. \A s \in Sessions : [sess[s] EXCEPT !.row = "none"] \in Session
      BY DEF TypeOK, Session
    <3>2. sess' = [s \in Sessions |-> [sess[s] EXCEPT !.row = "none"]]
      BY <2>2 DEF DeleteRow
    <3> QED BY <3>1, <3>2 DEF TypeOK, Session
  <2> QED BY <2>1, <2>2
<1>2. TypeOK'
  BY <1>1 DEF DeleteRow, bounds, TypeOK
<1>3. Claims'
  BY <1>1, ClaimsKept DEF DeleteRow
<1> QED BY <1>2, <1>3

LEMMA ComposedStep ==
  TypeOK /\ Claims /\ [EnrolNext]_allVars => TypeOK' /\ Claims'
<1> SUFFICES ASSUME TypeOK, Claims, [EnrolNext]_allVars PROVE TypeOK' /\ Claims'
  OBVIOUS
<1>1. ASSUME [Next]_vars PROVE TypeOK' /\ Claims'
  BY <1>1, TypeStep, ClaimsStep
<1>2. ASSUME NEW s \in Sessions, Accept(s) \/ EnrolEstablish(s) \/ SessionStep(s)
      PROVE  TypeOK' /\ Claims'
  BY <1>1, <1>2 DEF Accept, EnrolEstablish, Next
<1>3. ASSUME NEW s \in Sessions, EstablishOrphan(s) PROVE TypeOK' /\ Claims'
  BY <1>3, UnclaimKeeps DEF EstablishOrphan, bounds
<1>4. ASSUME \/ Rotate \/ Revoke \/ Bind \/ UNCHANGED allVars
             \/ \E token \in 1..MaxTokens : Exchange(token)
      PROVE  TypeOK' /\ Claims'
  <2>1. UNCHANGED vars
    BY <1>4 DEF Rotate, Revoke, Bind, Exchange, allVars
  <2> QED BY <1>1, <2>1
<1>5. ASSUME DeleteDrop \/ \E reason \in {"revoked", "replaced"} : Drop(reason)
      PROVE  TypeOK' /\ Claims'
  <2>1. DropAgent
    BY <1>5 DEF DeleteDrop, Drop
  <2> QED BY <2>1, DropAgentType, DropAgentClaims
<1>6. CASE DeleteRow
  BY <1>6, DeleteRowKeeps
<1> QED BY <1>2, <1>3, <1>4, <1>5, <1>6 DEF EnrolNext

\* The drops of revocation, enrolment and deletion close sessions at any point of
\* an attach, and an insert may find its agent gone: still a closed session holds
\* nothing and an established one is live.
THEOREM SessionsSurviveEnrolment ==
  EnrolSpec => [](TypeOK /\ ClosedHoldsNothing /\ EstablishedIsLive)
<1>1. EnrolInit => TypeOK /\ Claims
  BY InitTypeOK, InitClaims DEF EnrolInit
<1>2. TypeOK /\ Claims => TypeOK /\ ClosedHoldsNothing /\ EstablishedIsLive
  BY DEF Claims, ClaimedIsLive, EstablishedIsLive, Claiming
<1> QED BY <1>1, <1>2, ComposedStep, PTL DEF EnrolSpec
=============================================================================
