--------------------------- MODULE AgentEnrolment ---------------------------
(***************************************************************************)
(* The identity of an import agent, composed with its sessions: enrolment  *)
(* tokens and the credential they are exchanged for, rotation, revocation  *)
(* and deletion (agent-service.ts), each of which drops the live session   *)
(* after its transaction, and the check of the credential on the upgrade   *)
(* (plugins/agent-auth.ts).                                                *)
(***************************************************************************)
EXTENDS AgentSessions

CONSTANT
  MaxTokens    \* bound: enrolment tokens issued

ASSUME TokensAssumption == MaxTokens \in Nat \ {0}

VARIABLES
  identity,  \* the row: known, the token in its slot, the credential, revoked
  bought,    \* how many enrol requests each token has bought a credential for
  drops,     \* operations that have committed and not yet dropped the session
  deleting,  \* deleteAgent: how far it is, and the closing it awaits
  bound      \* whether an importer configuration is bound to the agent

identityVars == <<identity, bought, drops, deleting, bound>>
allVars == <<vars, identityVars>>

\* Tokens are numbered as they are issued; 0 is none.
Identity ==
  [known : BOOLEAN, issued : 1..MaxTokens, token : 0..MaxTokens,
   enrolled : BOOLEAN, revoked : BOOLEAN]
NotDeleting == [at |-> "no", awaits |-> None]

\* createAgent has just issued the agent's first enrolment token.
EnrolInit ==
  /\ Init
  /\ identity = [known |-> TRUE, issued |-> 1, token |-> 1, enrolled |-> FALSE,
                 revoked |-> FALSE]
  /\ bought = [t \in 1..MaxTokens |-> 0]
  /\ drops = {} /\ deleting = NotDeleting /\ bound = FALSE

EnrolTypeOK ==
  /\ identity \in Identity
  /\ bought \in [1..MaxTokens -> Nat]
  /\ drops \subseteq {"revoked", "replaced"}
  /\ deleting \in [at : {"no", "drop", "row"}, awaits : Sessions \union {None}]
  /\ bound \in BOOLEAN
-----------------------------------------------------------------------------
\* verifyAgentCredential: the credential is the row's and is not revoked.
Accept(s) ==
  /\ identity.known /\ identity.enrolled /\ ~identity.revoked
  /\ Upgrade(s)
  /\ UNCHANGED identityVars

\* The insert of a session row needs the agent's row.
EnrolEstablish(s) == identity.known /\ Establish(s) /\ UNCHANGED identityVars
EstablishOrphan(s) ==
  /\ ~identity.known /\ Unclaim(s)
  /\ UNCHANGED <<status, req, boot, bounds, identityVars>>

\* Seeded bug: the slot keeps the token that was exchanged.
ExchangeMutant(token) ==
  /\ identity.known /\ identity.token = token /\ ~identity.revoked
  /\ identity' = [identity EXCEPT !.enrolled = TRUE]
  /\ bought' = [bought EXCEPT ![token] = @ + 1]
  /\ drops' = drops \union {"replaced"}
  /\ UNCHANGED <<vars, deleting, bound>>

\* exchangeEnrollmentToken: one conditional UPDATE under the row lock, for
\* whatever token the caller presents; the drop comes after the commit.
Exchange(token) ==
  /\ identity.known /\ identity.token = token /\ ~identity.revoked
  /\ identity' = [identity EXCEPT !.enrolled = TRUE, !.token = 0]
  /\ bought' = [bought EXCEPT ![token] = @ + 1]
  /\ drops' = drops \union {"replaced"}
  /\ UNCHANGED <<vars, deleting, bound>>

\* rotateAgentCredential: a new token in the one slot; the old credential stays.
Rotate ==
  /\ identity.known /\ identity.issued < MaxTokens
  /\ identity' = [identity EXCEPT !.issued = @ + 1, !.token = identity.issued + 1,
                                  !.revoked = FALSE]
  /\ UNCHANGED <<vars, bought, drops, deleting, bound>>

Revoke ==
  /\ identity.known
  /\ identity' = [identity EXCEPT !.revoked = TRUE]
  /\ drops' = drops \union {"revoked"}
  /\ UNCHANGED <<vars, bought, deleting, bound>>

\* Seeded bug: a live session that is not established yet is not dropped.
DropMutant(reason) ==
  /\ reason \in drops
  /\ drops' = drops \ {reason}
  /\ IF live # None /\ sess[live].pc # "ready" THEN UNCHANGED vars ELSE DropAgent
  /\ UNCHANGED <<identity, bought, deleting, bound>>

Drop(reason) ==
  /\ reason \in drops
  /\ drops' = drops \ {reason}
  /\ DropAgent
  /\ UNCHANGED <<identity, bought, deleting, bound>>

\* A configuration is bound to the agent, or unbound from it; the foreign key
\* (RESTRICT) wants the agent's row.
Bind ==
  /\ bound' = ~bound /\ (bound' => identity.known)
  /\ UNCHANGED <<vars, identity, bought, drops, deleting>>

\* deleteAgent: no configuration is bound; the live session is dropped and its
\* closing awaited.
DeleteDrop ==
  /\ identity.known /\ deleting.at = "no" /\ ~bound
  /\ deleting' = [at |-> "drop", awaits |-> live]
  /\ DropAgent
  /\ UNCHANGED <<identity, bought, drops, bound>>

\* Seeded bug: no foreign key; only the check before the drop guards the DELETE.
DeleteRowMutant ==
  /\ deleting.at = "drop"
  /\ deleting.awaits # None => sess[deleting.awaits].closing = "done"
  /\ deleting' = [at |-> "row", awaits |-> None]
  /\ identity' = [identity EXCEPT !.known = FALSE]
  /\ sess' = [s \in Sessions |-> [sess[s] EXCEPT !.row = "none"]]
  /\ UNCHANGED <<status, live, req, boot, bounds, bought, drops, bound>>

\* Then the row goes, with those of its sessions (CASCADE), or the foreign key
\* of a configuration bound meanwhile refuses.
DeleteRow ==
  /\ deleting.at = "drop"
  /\ deleting.awaits # None => sess[deleting.awaits].closing = "done"
  /\ IF bound
     THEN deleting' = NotDeleting /\ UNCHANGED <<identity, sess>>
     ELSE /\ deleting' = [at |-> "row", awaits |-> None]
          /\ identity' = [identity EXCEPT !.known = FALSE]
          /\ sess' = [s \in Sessions |-> [sess[s] EXCEPT !.row = "none"]]
  /\ UNCHANGED <<status, live, req, boot, bounds, bought, drops, bound>>

\* Between two restarts of the hub: a crash loses the drops and the deletion
\* under way, and the sessions they are about.  Requests look at no identity.
EnrolNext ==
  \/ \E s \in Sessions :
       \/ Accept(s) \/ EnrolEstablish(s) \/ EstablishOrphan(s)
       \/ SessionStep(s) /\ UNCHANGED identityVars
  \/ \E token \in 1..MaxTokens : Exchange(token)
  \/ Rotate \/ Revoke \/ Bind \/ DeleteDrop \/ DeleteRow
  \/ \E reason \in {"revoked", "replaced"} : Drop(reason)

EnrolSpec == EnrolInit /\ [][EnrolNext]_allVars

\* What follows a commit is run, and what is awaited returns.
FairEnrolSpec ==
  /\ EnrolSpec
  /\ \A reason \in {"revoked", "replaced"} : WF_allVars(Drop(reason))
  /\ \A s \in Sessions :
       /\ WF_allVars(Close(s) /\ UNCHANGED identityVars)
       /\ WF_allVars(Superseded(s) /\ UNCHANGED identityVars)
       /\ WF_allVars(EnrolEstablish(s) \/ EstablishOrphan(s))
-----------------------------------------------------------------------------
(* Properties.                                                             *)

\* ADR-116: a token buys one credential at most, whoever presents it and
\* however often it is rotated or revoked meanwhile.
TokenSpentOnce ==
  \A token \in 1..MaxTokens : bought[token] <= 1

\* The session that is live when a credential falls does not stay live: the drop
\* that follows the commit reaches it, or reaches a successor that superseded it,
\* and a closing or an attach under way does not shield it.
FallenCredentialDrops ==
  \A s \in Sessions : (drops # {} /\ live = s) ~> (live # s)

\* FR-005: a bound agent cannot be deleted, also when the configuration is bound
\* between the check of deleteAgent and its DELETE.
BoundAgentExists == bound => identity.known

\* SC-004: a revoked or deleted agent has no live session once the operations
\* on it are over.
RevokedHasNoSession ==
  drops = {} /\ deleting.at # "drop" /\ (identity.revoked \/ ~identity.known) => live = None
=============================================================================
