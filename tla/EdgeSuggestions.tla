--------------------------- MODULE EdgeSuggestions ---------------------------
(***************************************************************************)
(* The DEPENDS_ON edges of one product and the suggestions staged for it:  *)
(* wiring and unwiring of components and of a component group              *)
(* (product-edge-service.ts), accepting and dismissing a suggestion, and   *)
(* the generation pass (edge-suggestion-service.ts), which a group move    *)
(* triggers too (component-group-service.ts).                              *)
(*                                                                         *)
(* The hazards are those of PostgreSQL at READ COMMITTED, so a step is one *)
(* SQL statement.  What a transaction has written is visible to itself     *)
(* only, a row or key it has written is locked until it ends, and a        *)
(* statement that needs one locked by another waits (its guard).  A unique *)
(* key that another transaction has inserted and not committed is waited   *)
(* for by an INSERT and not seen by an UPDATE.  The database ends a cycle  *)
(* of waits, and any other failure, by Abort.  Products share nothing.     *)
(***************************************************************************)
EXTENDS Naturals, FiniteSets

CONSTANTS
  Components,
  Hits,         \* the components a signal pairs with the product
  Calls,        \* the calls in progress at the same time
  None,
  MaxMoves      \* bound: moves into and out of the component group

ASSUME HitsAssumption == Hits \subseteq Components
ASSUME BoundsAssumption == MaxMoves \in Nat

VARIABLES
  edges,    \* product_depends_on_component: the components wired
  gedge,    \* product_depends_on_component_group: whether the group is wired
  member,   \* the components whose componentGroupId is the group
  sugg,     \* edge_suggestions: the status of the pair's row, or None
  call,     \* the calls: statement reached, what they read and wrote
  unwired,  \* history: pairs whose edge was removed
  moves

vars == <<edges, gedge, member, sugg, call, unwired, moves>>
tables == <<edges, gedge, member, sugg>>

Terminal == {"ACCEPTED", "DISMISSED", "SUPERSEDED"}
Statuses == Terminal \union {"PENDING"}
ASSUME NoneAssumption == None \notin Statuses

Rows == UNION {[S -> Statuses] : S \in SUBSET Components}

\* rows: the suggestion rows written; add, del: the edges inserted and deleted;
\* group: what is done to the group edge; targets: the pairs to supersede, seen:
\* those of them the UPDATE has found PENDING; stage: the pairs to stage;
\* inGroup: the members a pass has read.
Call ==
  [at : {"idle", "accepted", "readGroup", "readEdges", "readGroupEdges",
         "flip", "flipping", "tombstone", "stage", "commit"},
   kind : {"none", "wire", "unwire", "accept", "pass"},
   rows : Rows,
   add : SUBSET Components, del : SUBSET Components, group : {"none", "add", "del"},
   targets : SUBSET Components, seen : SUBSET Components,
   stage : SUBSET Components, inGroup : SUBSET Components]

NoRows == [c \in {} |-> "PENDING"]
NoCall ==
  [at |-> "idle", kind |-> "none", rows |-> NoRows, add |-> {}, del |-> {},
   group |-> "none", targets |-> {}, seen |-> {}, stage |-> {}, inGroup |-> {}]

TypeOK ==
  /\ edges \subseteq Components /\ gedge \in BOOLEAN /\ member \subseteq Components
  /\ sugg \in [Components -> Statuses \union {None}]
  /\ call \in [Calls -> Call]
  /\ unwired \subseteq Components /\ moves \in 0..MaxMoves

\* Edges may predate the suggestions: they have no row.
Init ==
  /\ edges \in SUBSET Components /\ gedge \in BOOLEAN /\ member \in SUBSET Components
  /\ sugg = [c \in Components |-> None]
  /\ call = [t \in Calls |-> NoCall]
  /\ unwired = {} /\ moves = 0
-----------------------------------------------------------------------------
(* The database.                                                           *)

Others(t) == Calls \ {t}
RowLocked(t, c) == \E u \in Others(t) : c \in DOMAIN call[u].rows
EdgeLocked(t, c) == \E u \in Others(t) : c \in call[u].add \union call[u].del
GroupLocked(t) == \E u \in Others(t) : call[u].group # "none"

\* The row as call t sees it: its own writes over what is committed.
Row(t, c) == IF c \in DOMAIN call[t].rows THEN call[t].rows[c] ELSE sugg[c]
Write(t, S, v) ==
  [c \in S \union DOMAIN call[t].rows |-> IF c \in S THEN v ELSE call[t].rows[c]]

Idle(t) == call[t].at = "idle"
At(t, label) == call[t].at = label
Begin(t, fields) == call' = [call EXCEPT ![t] = fields]
-----------------------------------------------------------------------------
(* Wiring (addDependsOnEdge) and unwiring (removeDependsOnEdge).           *)

\* INSERT ... ON CONFLICT DO NOTHING RETURNING: what was inserted is superseded;
\* nothing inserted, nothing to do.
Wire(t, S) ==
  /\ Idle(t)
  /\ \A c \in S : ~EdgeLocked(t, c)
  /\ ~(S \subseteq edges)
  /\ Begin(t, [NoCall EXCEPT !.kind = "wire", !.at = "flip", !.add = S \ edges,
                             !.targets = S \ edges])
  /\ UNCHANGED <<tables, unwired, moves>>

WireGroup(t) ==
  /\ Idle(t) /\ ~GroupLocked(t) /\ ~gedge
  /\ Begin(t, [NoCall EXCEPT !.kind = "wire", !.at = "readGroup", !.group = "add"])
  /\ UNCHANGED <<tables, unwired, moves>>

\* Seeded bug: an edge is removed without superseding the pair: wiring did that.
UnwireMutant(t, c) ==
  /\ Idle(t) /\ ~EdgeLocked(t, c) /\ c \in edges
  /\ Begin(t, [NoCall EXCEPT !.kind = "unwire", !.at = "commit", !.del = {c}])
  /\ UNCHANGED <<tables, unwired, moves>>

Unwire(t, c) ==
  /\ Idle(t) /\ ~EdgeLocked(t, c) /\ c \in edges
  /\ Begin(t, [NoCall EXCEPT !.kind = "unwire", !.at = "flip", !.del = {c},
                             !.targets = {c}])
  /\ UNCHANGED <<tables, unwired, moves>>

UnwireGroup(t) ==
  /\ Idle(t) /\ ~GroupLocked(t) /\ gedge
  /\ Begin(t, [NoCall EXCEPT !.kind = "unwire", !.at = "readGroup", !.group = "del"])
  /\ UNCHANGED <<tables, unwired, moves>>

\* The members of the group, as they are now.
ReadGroup(t) ==
  /\ At(t, "readGroup")
  /\ call' = [call EXCEPT ![t].targets = member, ![t].at = "flip"]
  /\ UNCHANGED <<tables, unwired, moves>>

\* Where a call goes after the tombstones: a pass goes on to stage.
AfterTombstones(t) == IF call[t].kind = "pass" THEN "stage" ELSE "commit"

\* supersedeSuggestionPairs: UPDATE ... WHERE status = PENDING.  It finds its rows
\* in the snapshot it begins with, so it misses one that is not committed yet.
FlipBegins(t) ==
  /\ At(t, "flip")
  /\ call' = [call EXCEPT ![t].seen = {c \in call[t].targets : Row(t, c) = "PENDING"},
                          ![t].at = "flipping"]
  /\ UNCHANGED <<tables, unwired, moves>>

\* Seeded bug: the UPDATE does not look at the status.
FlipMutant(t) ==
  LET hit == {c \in call[t].targets : Row(t, c) # None} IN
  /\ At(t, "flipping")
  /\ \A c \in hit : ~RowLocked(t, c)
  /\ call' = [call EXCEPT ![t].rows = Write(t, hit, "SUPERSEDED"), ![t].seen = {},
                          ![t].at = "tombstone"]
  /\ UNCHANGED <<tables, unwired, moves>>

\* It waits for a row of them that another call has locked, and looks again.
Flip(t) ==
  LET hit == {c \in call[t].seen : Row(t, c) = "PENDING"} IN
  /\ At(t, "flipping")
  /\ \A c \in hit : ~RowLocked(t, c)
  /\ call' = [call EXCEPT ![t].rows = Write(t, hit, "SUPERSEDED"), ![t].seen = {},
                          ![t].at = "tombstone"]
  /\ UNCHANGED <<tables, unwired, moves>>

\* Then INSERT ... ON CONFLICT DO NOTHING of a tombstone for each pair.
Tombstone(t) ==
  LET absent == {c \in call[t].targets : Row(t, c) = None} IN
  /\ At(t, "tombstone")
  /\ \A c \in absent : ~RowLocked(t, c)
  /\ call' = [call EXCEPT ![t].rows = Write(t, absent, "SUPERSEDED"),
                          ![t].at = AfterTombstones(t), ![t].targets = {}]
  /\ UNCHANGED <<tables, unwired, moves>>
-----------------------------------------------------------------------------
(* Deciding a suggestion.                                                  *)

\* acceptSuggestion: SELECT ... FOR UPDATE, refused unless PENDING, and ACCEPTED.
Accept(t, c) ==
  /\ Idle(t) /\ ~RowLocked(t, c) /\ sugg[c] = "PENDING"
  /\ Begin(t, [NoCall EXCEPT !.kind = "accept", !.at = "accepted",
                             !.rows = [x \in {c} |-> "ACCEPTED"]])
  /\ UNCHANGED <<tables, unwired, moves>>

\* Seeded bug: an accept of a pair that is already wired stays ACCEPTED.
AcceptEdgeMutant(t) ==
  /\ At(t, "accepted")
  /\ \E c \in DOMAIN call[t].rows :
       /\ ~EdgeLocked(t, c)
       /\ call' = IF c \in edges
                  THEN [call EXCEPT ![t].at = "commit"]
                  ELSE [call EXCEPT ![t].add = {c}, ![t].targets = {c}, ![t].at = "flip"]
  /\ UNCHANGED <<tables, unwired, moves>>

\* addDependsOnEdge in the same transaction: the edge and, when it was created,
\* the superseding of the pair; when the pair was already wired the decision
\* becomes SUPERSEDED.
AcceptEdge(t) ==
  /\ At(t, "accepted")
  /\ \E c \in DOMAIN call[t].rows :
       /\ ~EdgeLocked(t, c)
       /\ call' = IF c \in edges
                  THEN [call EXCEPT ![t].rows[c] = "SUPERSEDED", ![t].at = "commit"]
                  ELSE [call EXCEPT ![t].add = {c}, ![t].targets = {c}, ![t].at = "flip"]
  /\ UNCHANGED <<tables, unwired, moves>>

\* dismissSuggestion locks the row and writes it; nothing happens in between.
Dismiss(t, c) ==
  /\ Idle(t) /\ ~RowLocked(t, c) /\ sugg[c] = "PENDING"
  /\ sugg' = [sugg EXCEPT ![c] = "DISMISSED"]
  /\ UNCHANGED <<edges, gedge, member, call, unwired, moves>>
-----------------------------------------------------------------------------
(* The generation pass (generateSuggestions): it reads the components, the *)
(* edges and the group edges one after the other, outside the transaction  *)
(* in which it writes.                                                     *)

Pass(scope, members) ==
  [NoCall EXCEPT !.kind = "pass", !.at = "readEdges", !.stage = scope,
                 !.inGroup = scope \intersect members]

Rescan(t) ==
  /\ Idle(t)
  /\ Begin(t, Pass(Components, member))
  /\ UNCHANGED <<tables, unwired, moves>>

\* updateComponent: the move commits, and a pass over the component follows.
Move(t, c) ==
  /\ Idle(t) /\ moves < MaxMoves
  /\ moves' = moves + 1
  /\ member' = IF c \in member THEN member \ {c} ELSE member \union {c}
  /\ Begin(t, Pass({c}, member'))
  /\ UNCHANGED <<edges, gedge, sugg, unwired>>

ReadEdges(t) ==
  /\ At(t, "readEdges")
  /\ call' = [call EXCEPT ![t].targets = call[t].stage \intersect edges,
                          ![t].stage = @ \ edges, ![t].at = "readGroupEdges"]
  /\ UNCHANGED <<tables, unwired, moves>>

\* Covered pairs are superseded; of the others, what a signal pairs is staged.
ReadGroupEdges(t) ==
  LET covered == IF gedge THEN call[t].stage \intersect call[t].inGroup ELSE {} IN
  /\ At(t, "readGroupEdges")
  /\ call' = [call EXCEPT ![t].targets = @ \union covered,
                          ![t].stage = Hits \intersect (@ \ covered),
                          ![t].inGroup = {}, ![t].at = "flip"]
  /\ UNCHANGED <<tables, unwired, moves>>

\* INSERT ... ON CONFLICT DO UPDATE WHERE status = PENDING: it locks the row it
\* conflicts with, whatever its status, and rescores it at most.
Stage(t) ==
  LET staged == call[t].stage IN
  /\ At(t, "stage")
  /\ \A c \in staged : ~RowLocked(t, c)
  /\ call' = [call EXCEPT ![t].at = "commit", ![t].stage = {},
       ![t].rows = [c \in staged \union DOMAIN call[t].rows |->
                      IF Row(t, c) = None THEN "PENDING" ELSE Row(t, c)]]
  /\ UNCHANGED <<tables, unwired, moves>>
-----------------------------------------------------------------------------
Commit(t) ==
  /\ At(t, "commit")
  /\ edges' = (edges \ call[t].del) \union call[t].add
  /\ gedge' = IF call[t].group = "none" THEN gedge ELSE call[t].group = "add"
  /\ sugg' = [c \in Components |-> Row(t, c)]
  /\ call' = [call EXCEPT ![t] = NoCall]
  /\ unwired' = unwired \union call[t].del
  /\ UNCHANGED <<member, moves>>

\* The victim of a deadlock, or a database error: the call's writes are undone,
\* and a pass is only logged.
Abort(t) ==
  /\ ~Idle(t)
  /\ call' = [call EXCEPT ![t] = NoCall]
  /\ UNCHANGED <<tables, unwired, moves>>

Next ==
  \E t \in Calls :
    \/ \E S \in SUBSET Components \ {{}} : Wire(t, S)
    \/ \E c \in Components : Unwire(t, c) \/ Accept(t, c) \/ Dismiss(t, c) \/ Move(t, c)
    \/ WireGroup(t) \/ UnwireGroup(t) \/ ReadGroup(t) \/ FlipBegins(t) \/ Flip(t)
    \/ Tombstone(t) \/ AcceptEdge(t) \/ Rescan(t) \/ ReadEdges(t) \/ ReadGroupEdges(t)
    \/ Stage(t) \/ Commit(t) \/ Abort(t)

Spec == Init /\ [][Next]_vars
-----------------------------------------------------------------------------
(* Properties.                                                             *)

\* FR-003: a decided suggestion is never decided again, by whichever calls meet
\* on its row.
DecisionsAreFinal ==
  [][\A c \in Components : sugg[c] \in Terminal => sugg'[c] = sugg[c]]_vars

\* FR-010: a suggestion becomes ACCEPTED only by the call that creates its edge,
\* also when another call wires the pair meanwhile.
AcceptMakesItsEdge ==
  [][\A c \in Components :
       sugg[c] # "ACCEPTED" /\ sugg'[c] = "ACCEPTED" => c \notin edges /\ c \in edges']_vars

\* FR-006: a pair whose edge was removed is never suggested again, whatever a
\* generation pass had read before the edge was wired or removed.
UnwiredNeverPends == \A c \in unwired : sugg[c] \in Terminal

\* FR-006: a pair with an edge is not PENDING.
WiredIsNotPending == \A c \in edges : sugg[c] # "PENDING"
=============================================================================
