----------------------- MODULE EdgeSuggestions_proofs -----------------------
(***************************************************************************)
(* Proofs about EdgeSuggestions, for any components, signals and calls:    *)
(*   - a decided suggestion is never decided again;                        *)
(*   - a suggestion is ACCEPTED only by the call that creates its edge;    *)
(*   - a pair whose edge was removed is never suggested again.             *)
(* The inductive invariant, Inv, says what a call in progress holds        *)
(* (CallOK): the rows and edges it has locked are still as it found them,  *)
(* an ACCEPTED it has written comes with the edge, and the row of an edge  *)
(* it deletes is past PENDING by the time it commits; a wired pair without *)
(* a row, its edge older than the suggestions, is never staged.  No two    *)
(* calls lock the same row or the same edge (Exclusive).                   *)
(***************************************************************************)
EXTENDS EdgeSuggestions, TLAPS

\* The row as a call with record k sees it when sg is committed.
RowIn(k, sg, c) == IF c \in DOMAIN k.rows THEN k.rows[c] ELSE sg[c]

DecisionsKept(k, sg) ==
  \A c \in DOMAIN k.rows : sg[c] \in Terminal => k.rows[c] = sg[c]
Deciding(k, sg) ==
  k.at = "accepted" =>
    /\ k.add = {} /\ k.del = {} /\ k.kind # "pass"
    /\ \E c \in Components : DOMAIN k.rows = {c} /\ sg[c] = "PENDING"
AcceptedWithEdge(k, sg) ==
  \A c \in DOMAIN k.rows : k.rows[c] = "ACCEPTED" =>
    sg[c] = "ACCEPTED" \/ k.at = "accepted" \/ c \in k.add
AddsAreNew(k, sg, ed) ==
  /\ k.add # {} => k.at \in {"flip", "flipping", "tombstone", "commit"}
  /\ \A c \in k.add :
       /\ c \notin ed
       /\ k.at \in {"flip", "flipping", "tombstone"} => c \in k.targets
       /\ k.at = "commit" => RowIn(k, sg, c) # None
DelsAreWired(k, sg, ed) ==
  /\ k.del # {} => k.at \in {"flip", "flipping", "tombstone", "commit"}
  /\ \A c \in k.del :
       /\ c \in ed
       /\ k.at \in {"flip", "flipping"} => c \in k.targets
       /\ k.at = "flipping" /\ RowIn(k, sg, c) = "PENDING" => c \in k.seen
       /\ k.at = "tombstone" =>
            RowIn(k, sg, c) \in Terminal \/ (RowIn(k, sg, c) = None /\ c \in k.targets)
       /\ k.at = "commit" => RowIn(k, sg, c) \in Terminal
LegacyKept(k, sg, ed) ==
  \A c \in ed : sg[c] = None =>
    /\ c \in DOMAIN k.rows => k.rows[c] \in Terminal
    /\ k.at # "readEdges" => c \notin k.stage
AtRest(k) ==
  /\ k.at = "idle" => k.rows = NoRows
  /\ k.kind = "pass" => k.add = {} /\ k.del = {}

CallOK(k, sg, ed) ==
  /\ DecisionsKept(k, sg) /\ Deciding(k, sg) /\ AcceptedWithEdge(k, sg)
  /\ AddsAreNew(k, sg, ed) /\ DelsAreWired(k, sg, ed) /\ LegacyKept(k, sg, ed) /\ AtRest(k)

Exclusive ==
  \A t, u \in Calls : t # u =>
    /\ DOMAIN call[t].rows \cap DOMAIN call[u].rows = {}
    /\ (call[t].add \cup call[t].del) \cap (call[u].add \cup call[u].del) = {}

Inv ==
  /\ TypeOK /\ Exclusive /\ UnwiredNeverPends
  /\ \A t \in Calls : CallOK(call[t], sugg, edges)

LEMMA RowsFact ==
  ASSUME NEW f \in Rows
  PROVE  /\ DOMAIN f \subseteq Components
         /\ \A c \in DOMAIN f : f[c] \in Statuses
BY DEF Rows

LEMMA RowsMade ==
  ASSUME NEW S \in SUBSET Components, NEW f \in [S -> Statuses]
  PROVE  f \in Rows
BY DEF Rows

LEMMA NoCallType == NoCall \in Call /\ NoRows \in Rows /\ DOMAIN NoRows = {}
<1>1. NoRows \in [{} -> Statuses] /\ DOMAIN NoRows = {}
  BY DEF NoRows
<1>2. NoRows \in Rows
  BY <1>1, RowsMade
<1> QED BY <1>1, <1>2 DEF NoCall, Call

\* The rows of a call after it has written v to the rows of S.
LEMMA WriteType ==
  ASSUME TypeOK, NEW t \in Calls, NEW S \in SUBSET Components, NEW v \in Statuses
  PROVE  Write(t, S, v) \in Rows
<1>1. call[t].rows \in Rows
  BY DEF TypeOK, Call
<1>2. /\ DOMAIN call[t].rows \subseteq Components
      /\ \A c \in DOMAIN call[t].rows : call[t].rows[c] \in Statuses
  BY <1>1, RowsFact
<1>3. Write(t, S, v) \in [S \cup DOMAIN call[t].rows -> Statuses]
  BY <1>2 DEF Write
<1> QED BY <1>2, <1>3, RowsMade

\* A step of one call that leaves the tables alone, and takes no lock another holds.
LEMMA OwnStep ==
  ASSUME Inv, NEW t \in Calls, NEW k \in Call, call' = [call EXCEPT ![t] = k],
         UNCHANGED <<edges, sugg, unwired>>, gedge' \in BOOLEAN,
         member' \in SUBSET Components, moves' \in 0..MaxMoves,
         \A c \in DOMAIN k.rows : c \in DOMAIN call[t].rows \/ ~RowLocked(t, c),
         \A c \in k.add \cup k.del : c \in call[t].add \cup call[t].del \/ ~EdgeLocked(t, c),
         CallOK(k, sugg, edges)
  PROVE  Inv'
<1> USE DEF Inv
<1>1. /\ call'[t] = k
      /\ \A u \in Calls : u # t => call'[u] = call[u]
      /\ call' \in [Calls -> Call]
  BY DEF TypeOK
<1>2. TypeOK'
  BY <1>1 DEF TypeOK
<1>3. \A u \in Calls : u # t =>
        /\ DOMAIN k.rows \cap DOMAIN call[u].rows = {}
        /\ (k.add \cup k.del) \cap (call[u].add \cup call[u].del) = {}
  BY DEF Exclusive, RowLocked, EdgeLocked, Others
<1>4. Exclusive'
  BY <1>1, <1>3 DEF Exclusive
<1>5. UnwiredNeverPends'
  BY DEF UnwiredNeverPends
<1>6. \A u \in Calls : CallOK(call'[u], sugg', edges')
  BY <1>1
<1> QED BY <1>2, <1>4, <1>5, <1>6

\* The beginning of a call that has written no suggestion yet.
LEMMA BeginOK ==
  ASSUME NEW k \in Call, k.rows = NoRows, k.del \cap k.add = {},
         k.at \in {"readGroup", "readEdges"} => k.add = {} /\ k.del = {},
         k.at \in {"readGroup", "readEdges", "flip"}, k.at = "readEdges" \/ k.stage = {},
         k.add \cap edges = {}, k.del \subseteq edges,
         k.add \subseteq k.targets, k.del \subseteq k.targets,
         k.kind = "pass" => k.add = {} /\ k.del = {}
  PROVE  CallOK(k, sugg, edges)
<1>1. DOMAIN k.rows = {}
  BY NoCallType
<1>2. DecisionsKept(k, sugg) /\ Deciding(k, sugg) /\ AcceptedWithEdge(k, sugg)
  BY <1>1 DEF DecisionsKept, Deciding, AcceptedWithEdge
<1>3. AddsAreNew(k, sugg, edges) /\ DelsAreWired(k, sugg, edges) /\ AtRest(k)
  BY DEF AddsAreNew, DelsAreWired, AtRest
<1>4. LegacyKept(k, sugg, edges)
  BY <1>1 DEF LegacyKept
<1> QED BY <1>2, <1>3, <1>4 DEF CallOK

LEMMA EdgeBegins ==
  ASSUME Inv, NEW t \in Calls,
         \/ \E S \in SUBSET Components \ {{}} : Wire(t, S)
         \/ \E c \in Components : Unwire(t, c)
         \/ WireGroup(t) \/ UnwireGroup(t)
  PROVE  Inv'
<1>1. UNCHANGED <<edges, gedge, member, sugg, unwired, moves>>
  BY DEF Wire, Unwire, WireGroup, UnwireGroup, tables
<1>2. gedge' \in BOOLEAN /\ member' \in SUBSET Components /\ moves' \in 0..MaxMoves
  BY <1>1 DEF Inv, TypeOK
<1>3. ASSUME NEW k \in Call, call' = [call EXCEPT ![t] = k], k.rows = NoRows,
             CallOK(k, sugg, edges), \A c \in k.add \cup k.del : ~EdgeLocked(t, c)
      PROVE  Inv'
  <2>1. DOMAIN k.rows = {}
    BY <1>3, NoCallType
  <2> QED BY <1>1, <1>2, <1>3, <2>1, OwnStep
<1>4. ASSUME NEW S \in SUBSET Components, Wire(t, S) PROVE Inv'
  <2> DEFINE k == [NoCall EXCEPT !.kind = "wire", !.at = "flip", !.add = S \ edges,
                                 !.targets = S \ edges]
  <2>1. /\ k \in Call /\ k.rows = NoRows /\ k.add = S \ edges /\ k.targets = S \ edges
        /\ k.del = {} /\ k.at = "flip" /\ k.kind = "wire" /\ k.stage = {}
    BY NoCallType DEF NoCall, Call
  <2>2. call' = [call EXCEPT ![t] = k] /\ \A c \in S : ~EdgeLocked(t, c)
    BY <1>4 DEF Wire, Begin
  <2> HIDE DEF k
  <2>3. CallOK(k, sugg, edges)
    BY <2>1, BeginOK
  <2> QED BY <1>3, <2>1, <2>2, <2>3
<1>5. ASSUME NEW c \in Components, Unwire(t, c) PROVE Inv'
  <2> DEFINE k == [NoCall EXCEPT !.kind = "unwire", !.at = "flip", !.del = {c},
                                 !.targets = {c}]
  <2>1. /\ k \in Call /\ k.rows = NoRows /\ k.add = {} /\ k.targets = {c}
        /\ k.del = {c} /\ k.at = "flip" /\ k.kind = "unwire" /\ k.stage = {}
    BY NoCallType DEF NoCall, Call
  <2>2. call' = [call EXCEPT ![t] = k] /\ ~EdgeLocked(t, c) /\ c \in edges
    BY <1>5 DEF Unwire, Begin
  <2> HIDE DEF k
  <2>3. CallOK(k, sugg, edges)
    BY <2>1, <2>2, BeginOK
  <2> QED BY <1>3, <2>1, <2>2, <2>3
<1>6. ASSUME NEW kind \in {"wire", "unwire"}, NEW group \in {"add", "del"},
             call' = [call EXCEPT ![t] = [NoCall EXCEPT !.kind = kind, !.at = "readGroup",
                                                        !.group = group]]
      PROVE  Inv'
  <2> DEFINE k == [NoCall EXCEPT !.kind = kind, !.at = "readGroup", !.group = group]
  <2>1. /\ k \in Call /\ k.rows = NoRows /\ k.add = {} /\ k.targets = {}
        /\ k.del = {} /\ k.at = "readGroup" /\ k.stage = {}
    BY NoCallType DEF NoCall, Call
  <2>2. call' = [call EXCEPT ![t] = k]
    BY <1>6
  <2> HIDE DEF k
  <2>3. CallOK(k, sugg, edges)
    BY <2>1, BeginOK
  <2> QED BY <1>3, <2>1, <2>2, <2>3
<1> QED BY <1>4, <1>5, <1>6 DEF WireGroup, UnwireGroup, Begin

LEMMA PassBegins ==
  ASSUME Inv, NEW t \in Calls, Rescan(t) \/ \E c \in Components : Move(t, c)
  PROVE  Inv'
<1>1. ASSUME NEW k, k \in Call, k.rows = NoRows, k.add = {}, k.del = {}, k.at = "readEdges",
             call' = [call EXCEPT ![t] = k], UNCHANGED <<edges, gedge, sugg, unwired>>,
             member' \in SUBSET Components, moves' \in 0..MaxMoves
      PROVE  Inv'
  <2>1. CallOK(k, sugg, edges) /\ DOMAIN k.rows = {}
    BY <1>1, BeginOK, NoCallType
  <2>2. gedge' \in BOOLEAN
    BY <1>1 DEF Inv, TypeOK
  <2> QED BY <1>1, <2>1, <2>2, OwnStep
<1>2. ASSUME NEW scope \in SUBSET Components, NEW members
      PROVE  LET k == Pass(scope, members) IN
             k \in Call /\ k.rows = NoRows /\ k.add = {} /\ k.del = {} /\ k.at = "readEdges"
  BY NoCallType DEF Pass, NoCall, Call
<1>3. CASE Rescan(t)
  <2>1. member' \in SUBSET Components /\ moves' \in 0..MaxMoves
    BY <1>3 DEF Rescan, tables, Inv, TypeOK
  <2>2. call' = [call EXCEPT ![t] = Pass(Components, member)]
        /\ UNCHANGED <<edges, gedge, sugg, unwired>>
    BY <1>3 DEF Rescan, Begin, tables
  <2> QED BY <1>1, <1>2, <2>1, <2>2
<1>4. ASSUME NEW c \in Components, Move(t, c) PROVE Inv'
  <2>1. member' \in SUBSET Components
    BY <1>4 DEF Move, Inv, TypeOK
  <2>2. moves' \in 0..MaxMoves
    <3>1. moves' = moves + 1 /\ moves < MaxMoves /\ moves \in 0..MaxMoves
      BY <1>4 DEF Move, Inv, TypeOK
    <3> QED BY <3>1, BoundsAssumption
  <2>3. call' = [call EXCEPT ![t] = Pass({c}, member')]
        /\ UNCHANGED <<edges, gedge, sugg, unwired>>
    BY <1>4 DEF Move, Begin
  <2>4. {c} \in SUBSET Components
    OBVIOUS
  <2> QED BY <1>1, <1>2, <2>1, <2>2, <2>3, <2>4
<1> QED BY <1>3, <1>4

\* A statement that only reads: no row and no edge is written.
LEMMA Reads ==
  ASSUME Inv, NEW t \in Calls, ReadGroup(t) \/ ReadEdges(t) \/ ReadGroupEdges(t)
  PROVE  Inv'
<1>1. call[t] \in Call /\ CallOK(call[t], sugg, edges)
      /\ gedge \in BOOLEAN /\ member \in SUBSET Components /\ moves \in 0..MaxMoves
  BY DEF Inv, TypeOK
<1>2. call[t].at \in {"readGroup", "readEdges", "readGroupEdges"}
  BY DEF ReadGroup, ReadEdges, ReadGroupEdges, At
<1>3. call[t].add = {} /\ call[t].del = {}
  BY <1>1, <1>2 DEF CallOK, AddsAreNew, DelsAreWired
<1>4. UNCHANGED <<edges, gedge, member, sugg, unwired, moves>>
  BY DEF ReadGroup, ReadEdges, ReadGroupEdges, tables
<1>5. PICK k \in Call : /\ call' = [call EXCEPT ![t] = k]
                        /\ k.rows = call[t].rows /\ k.add = {} /\ k.del = {}
                        /\ k.at \in {"flip", "readGroupEdges"}
                        /\ k.stage \subseteq call[t].stage
                        /\ call[t].at = "readEdges" => k.stage \cap edges = {}
  <2>1. CASE ReadGroup(t)
    <3> DEFINE k == [call[t] EXCEPT !.targets = member, !.at = "flip"]
    <3>1. k \in Call /\ k.rows = call[t].rows /\ k.add = {} /\ k.del = {} /\ k.at = "flip"
        /\ k.stage = call[t].stage
      BY <1>1, <1>3 DEF Call
    <3>2. call' = [call EXCEPT ![t] = k] /\ call[t].at = "readGroup"
      BY <2>1 DEF ReadGroup, At, Inv, TypeOK
    <3> QED BY <3>1, <3>2
  <2>2. CASE ReadEdges(t)
    <3> DEFINE k == [call[t] EXCEPT !.targets = call[t].stage \cap edges,
                                    !.stage = call[t].stage \ edges, !.at = "readGroupEdges"]
    <3>1. /\ k \in Call /\ k.rows = call[t].rows /\ k.add = {} /\ k.del = {}
          /\ k.at = "readGroupEdges" /\ k.stage = call[t].stage \ edges
      BY <1>1, <1>3 DEF Call
    <3>2. call' = [call EXCEPT ![t] = k]
      BY <2>2 DEF ReadEdges, Inv, TypeOK
    <3> QED BY <3>1, <3>2
  <2>3. CASE ReadGroupEdges(t)
    <3> DEFINE covered == IF gedge THEN call[t].stage \cap call[t].inGroup ELSE {}
               k == [call[t] EXCEPT !.targets = call[t].targets \cup covered,
                                    !.stage = Hits \cap (call[t].stage \ covered),
                                    !.inGroup = {}, !.at = "flip"]
    <3>1. covered \subseteq Components
      BY <1>1 DEF Call
    <3>2. call' = [call EXCEPT ![t] = k] /\ call[t].at = "readGroupEdges"
      BY <2>3 DEF ReadGroupEdges, At, Inv, TypeOK
    <3> HIDE DEF covered
    <3>3. /\ k \in Call /\ k.rows = call[t].rows /\ k.add = {} /\ k.del = {}
          /\ k.at = "flip" /\ k.stage \subseteq call[t].stage
      BY <1>1, <1>3, <3>1 DEF Call
    <3> QED BY <3>2, <3>3
  <2> QED BY <2>1, <2>2, <2>3
<1>6. CallOK(k, sugg, edges)
  <2>1. DecisionsKept(k, sugg) /\ Deciding(k, sugg)
    BY <1>1, <1>5 DEF CallOK, DecisionsKept, Deciding
  <2>2. AcceptedWithEdge(k, sugg)
    BY <1>1, <1>2, <1>3, <1>5 DEF CallOK, AcceptedWithEdge
  <2>3. AddsAreNew(k, sugg, edges) /\ DelsAreWired(k, sugg, edges) /\ AtRest(k)
    BY <1>5 DEF AddsAreNew, DelsAreWired, AtRest
  <2>4. LegacyKept(k, sugg, edges)
    BY <1>1, <1>5 DEF CallOK, LegacyKept
  <2> QED BY <2>1, <2>2, <2>3, <2>4 DEF CallOK
<1> QED BY <1>1, <1>4, <1>5, <1>6, OwnStep

\* What a call sees of a row.
LEMMA RowSeen ==
  ASSUME Inv, NEW t \in Calls, NEW c \in Components
  PROVE  /\ Row(t, c) = RowIn(call[t], sugg, c)
         /\ Row(t, c) \in Statuses \cup {None}
         /\ c \in DOMAIN call[t].rows => Row(t, c) = call[t].rows[c] /\ Row(t, c) # None
         /\ c \notin DOMAIN call[t].rows => Row(t, c) = sugg[c]
         /\ sugg[c] \in Terminal => Row(t, c) = sugg[c]
<1>1. call[t].rows \in Rows /\ sugg[c] \in Statuses \cup {None}
  BY DEF Inv, TypeOK, Call
<1>2. c \in DOMAIN call[t].rows => call[t].rows[c] \in Statuses
  BY <1>1, RowsFact
<1>3. CallOK(call[t], sugg, edges)
  BY DEF Inv
<1> QED BY <1>1, <1>2, <1>3, NoneAssumption DEF Row, RowIn, CallOK, DecisionsKept

\* Superseding pairs that are not decided: the UPDATE and the tombstones.
LEMMA Supersedes ==
  ASSUME Inv, NEW t \in Calls, NEW S \in SUBSET Components,
         \A c \in S : ~RowLocked(t, c), \A c \in S : Row(t, c) \in {"PENDING", None},
         NEW k \in Call, call' = [call EXCEPT ![t] = k],
         DOMAIN k.rows = S \cup DOMAIN call[t].rows,
         \A c \in S : k.rows[c] = "SUPERSEDED",
         \A c \in DOMAIN call[t].rows \ S : k.rows[c] = call[t].rows[c],
         k.add = call[t].add, k.del = call[t].del, k.kind = call[t].kind,
         k.stage = call[t].stage,
         UNCHANGED <<edges, gedge, member, sugg, unwired, moves>>,
         \/ /\ call[t].at = "flipping" /\ k.at = "tombstone" /\ k.targets = call[t].targets
            /\ \A c \in call[t].seen \ S : Row(t, c) # "PENDING"
         \/ /\ call[t].at = "tombstone" /\ k.at = AfterTombstones(t)
            /\ \A c \in call[t].targets \ S : Row(t, c) # None
  PROVE  Inv'
<1> DEFINE old == call[t]
<1>1. old \in Call /\ CallOK(old, sugg, edges)
      /\ gedge \in BOOLEAN /\ member \in SUBSET Components /\ moves \in 0..MaxMoves
  BY DEF Inv, TypeOK, Call
<1>2. /\ DOMAIN k.rows = S \cup DOMAIN old.rows
      /\ \A c \in S : k.rows[c] = "SUPERSEDED"
      /\ \A c \in DOMAIN old.rows \ S : k.rows[c] = old.rows[c]
      /\ DOMAIN k.rows \subseteq Components
  <2>1. k.rows \in Rows
    BY DEF Call
  <2> QED BY <2>1, RowsFact
<1>3. \A c \in S : sugg[c] \notin Terminal
  BY <1>1, RowSeen, NoneAssumption DEF Statuses, Terminal
<1>4. DecisionsKept(k, sugg)
  BY <1>1, <1>2, <1>3 DEF DecisionsKept, CallOK
<1>5. Deciding(k, sugg)
  BY DEF Deciding, AfterTombstones
<1>6. AcceptedWithEdge(k, sugg)
  BY <1>1, <1>2 DEF AcceptedWithEdge, CallOK
<1>7. \A c \in Components : RowIn(k, sugg, c) = IF c \in S THEN "SUPERSEDED" ELSE Row(t, c)
  BY <1>1, <1>2, RowSeen DEF RowIn
<1>8. k.kind = "pass" => k.add = {} /\ k.del = {}
  BY <1>1 DEF CallOK, AtRest
<1>9. AddsAreNew(k, sugg, edges)
  <2>1. k.add # {} => k.at \in {"tombstone", "commit"}
    BY <1>8 DEF AfterTombstones
  <2>2. ASSUME NEW c \in k.add PROVE c \notin edges /\ c \in old.targets /\ c \in Components
    BY <1>1, <2>2 DEF CallOK, AddsAreNew, Call
  <2>3. ASSUME NEW c \in k.add, k.at = "commit" PROVE RowIn(k, sugg, c) # None
    BY <1>7, <2>2, <2>3, NoneAssumption DEF Statuses, Terminal
  <2>4. ASSUME NEW c \in k.add, k.at \in {"flip", "flipping", "tombstone"} PROVE c \in k.targets
    BY <2>2, <2>4 DEF AfterTombstones
  <2> QED BY <2>1, <2>2, <2>3, <2>4 DEF AddsAreNew
<1>10. DelsAreWired(k, sugg, edges)
  <2>1. k.del # {} => k.at \in {"tombstone", "commit"}
    BY <1>8 DEF AfterTombstones
  <2>2. ASSUME NEW c \in k.del
        PROVE  /\ c \in edges /\ c \in Components
               /\ c \in S => RowIn(k, sugg, c) \in Terminal
               /\ c \notin S => RowIn(k, sugg, c) = Row(t, c)
    BY <1>1, <1>7, <2>2 DEF CallOK, DelsAreWired, Call, Terminal
  <2>3. CASE old.at = "flipping"
    <3>1. ASSUME NEW c \in k.del, c \notin S
          PROVE  RowIn(k, sugg, c) \in Terminal \/ (RowIn(k, sugg, c) = None /\ c \in k.targets)
      <4>1. Row(t, c) # "PENDING" /\ c \in k.targets
        BY <1>1, <2>2, <2>3, <3>1, RowSeen DEF CallOK, DelsAreWired
      <4> QED BY <2>2, <3>1, <4>1, RowSeen DEF Statuses
    <3> QED BY <2>1, <2>2, <2>3, <3>1 DEF DelsAreWired
  <2>4. CASE old.at = "tombstone"
    <3>1. ASSUME NEW c \in k.del, c \notin S PROVE RowIn(k, sugg, c) \in Terminal
      BY <1>1, <2>2, <2>4, <3>1, RowSeen DEF CallOK, DelsAreWired
    <3>2. k.del # {} => k.at = "commit"
      BY <1>8, <2>4 DEF AfterTombstones
    <3> QED BY <2>2, <3>1, <3>2 DEF DelsAreWired
  <2> QED BY <2>3, <2>4
<1>11. AtRest(k)
  BY <1>8 DEF AtRest, AfterTombstones
<1>12. LegacyKept(k, sugg, edges)
  BY <1>1, <1>2 DEF LegacyKept, CallOK, Terminal
<1>13. CallOK(k, sugg, edges)
  BY <1>4, <1>5, <1>6, <1>9, <1>10, <1>11, <1>12 DEF CallOK
<1> QED BY <1>1, <1>2, <1>13, OwnStep

\* The rows an UPDATE finds are only read: nothing it guarantees is lost.
LEMMA FlipBeginsKeeps ==
  ASSUME Inv, NEW t \in Calls, FlipBegins(t)
  PROVE  Inv'
<1> DEFINE old == call[t]
           found == {c \in old.targets : Row(t, c) = "PENDING"}
           k == [old EXCEPT !.seen = found, !.at = "flipping"]
<1>1. /\ old.at = "flip" /\ call' = [call EXCEPT ![t] = k]
      /\ UNCHANGED <<edges, gedge, member, sugg, unwired, moves>>
  BY DEF FlipBegins, At, tables, Inv, TypeOK
<1>2. old \in Call /\ CallOK(old, sugg, edges) /\ found \subseteq Components
      /\ gedge \in BOOLEAN /\ member \in SUBSET Components /\ moves \in 0..MaxMoves
  BY DEF Inv, TypeOK, Call
<1>3. \A c \in old.targets : Row(t, c) = "PENDING" => c \in found
  OBVIOUS
<1> HIDE DEF found
<1>4. /\ k \in Call /\ k.at = "flipping" /\ k.seen = found /\ k.rows = old.rows
      /\ k.add = old.add /\ k.del = old.del /\ k.kind = old.kind
      /\ k.targets = old.targets /\ k.stage = old.stage
  BY <1>2 DEF Call
<1> HIDE DEF k
<1>5. /\ DecisionsKept(k, sugg) /\ Deciding(k, sugg) /\ AddsAreNew(k, sugg, edges)
      /\ LegacyKept(k, sugg, edges) /\ AtRest(k)
  BY <1>1, <1>2, <1>4 DEF CallOK, DecisionsKept, Deciding, AddsAreNew, LegacyKept, AtRest
<1>6. AcceptedWithEdge(k, sugg)
  BY <1>1, <1>2, <1>4 DEF CallOK, AcceptedWithEdge
<1>7. DelsAreWired(k, sugg, edges)
  <2> SUFFICES ASSUME NEW c \in k.del
               PROVE  /\ c \in edges /\ c \in k.targets
                      /\ RowIn(k, sugg, c) = "PENDING" => c \in k.seen
    BY <1>4 DEF DelsAreWired
  <2>1. c \in edges /\ c \in old.targets /\ c \in Components
    BY <1>1, <1>2, <1>4 DEF CallOK, DelsAreWired, Call
  <2>2. RowIn(k, sugg, c) = Row(t, c)
    BY <1>4, <2>1, RowSeen DEF RowIn
  <2> QED BY <1>3, <1>4, <2>1, <2>2
<1>8. CallOK(k, sugg, edges)
  BY <1>5, <1>6, <1>7 DEF CallOK
<1> QED BY <1>1, <1>2, <1>4, <1>8, OwnStep

LEMMA FlipKeeps ==
  ASSUME Inv, NEW t \in Calls, Flip(t)
  PROVE  Inv'
<1> DEFINE hit == {c \in call[t].seen : Row(t, c) = "PENDING"}
           rows == Write(t, hit, "SUPERSEDED")
           k == [call[t] EXCEPT !.rows = rows, !.seen = {}, !.at = "tombstone"]
<1>1. /\ call[t].at = "flipping" /\ \A c \in hit : ~RowLocked(t, c)
      /\ call' = [call EXCEPT ![t] = k]
      /\ UNCHANGED <<edges, gedge, member, sugg, unwired, moves>>
  BY DEF Flip, At, tables, Inv, TypeOK
<1>2. hit \in SUBSET Components /\ call[t] \in Call
  BY DEF Inv, TypeOK, Call
<1>3. "SUPERSEDED" \in Statuses
  BY DEF Statuses, Terminal
<1>4. /\ rows \in Rows /\ DOMAIN rows = hit \cup DOMAIN call[t].rows
      /\ \A c \in hit : rows[c] = "SUPERSEDED"
      /\ \A c \in DOMAIN call[t].rows \ hit : rows[c] = call[t].rows[c]
  <2>1. rows \in Rows
    BY <1>2, <1>3, WriteType DEF Inv
  <2> HIDE DEF hit
  <2> QED BY <2>1 DEF Write
<1>5. \A c \in hit : Row(t, c) = "PENDING"
  OBVIOUS
<1>6. \A c \in call[t].seen \ hit : Row(t, c) # "PENDING"
  OBVIOUS
<1> HIDE DEF hit
<1> HIDE DEF rows
<1>7. /\ k \in Call /\ k.rows = rows /\ k.at = "tombstone" /\ k.targets = call[t].targets
      /\ k.add = call[t].add /\ k.del = call[t].del /\ k.kind = call[t].kind
      /\ k.stage = call[t].stage
  BY <1>2, <1>4 DEF Call
<1> HIDE DEF k
<1> QED BY <1>1, <1>2, <1>4, <1>5, <1>6, <1>7, Supersedes

LEMMA TombstoneKeeps ==
  ASSUME Inv, NEW t \in Calls, Tombstone(t)
  PROVE  Inv'
<1> DEFINE absent == {c \in call[t].targets : Row(t, c) = None}
           rows == Write(t, absent, "SUPERSEDED")
           next == AfterTombstones(t)
           k == [call[t] EXCEPT !.rows = rows, !.at = next, !.targets = {}]
<1>1. /\ call[t].at = "tombstone" /\ \A c \in absent : ~RowLocked(t, c)
      /\ call' = [call EXCEPT ![t] = k]
      /\ UNCHANGED <<edges, gedge, member, sugg, unwired, moves>>
  BY DEF Tombstone, At, tables, Inv, TypeOK
<1>2. absent \in SUBSET Components /\ call[t] \in Call
  BY DEF Inv, TypeOK, Call
<1>3. "SUPERSEDED" \in Statuses
  BY DEF Statuses, Terminal
<1>4. /\ rows \in Rows /\ DOMAIN rows = absent \cup DOMAIN call[t].rows
      /\ \A c \in absent : rows[c] = "SUPERSEDED"
      /\ \A c \in DOMAIN call[t].rows \ absent : rows[c] = call[t].rows[c]
  <2>1. rows \in Rows
    BY <1>2, <1>3, WriteType DEF Inv
  <2> HIDE DEF absent
  <2> QED BY <2>1 DEF Write
<1>5. next \in {"stage", "commit"}
  BY DEF AfterTombstones
<1>6. \A c \in absent : Row(t, c) = None
  OBVIOUS
<1>7. \A c \in call[t].targets \ absent : Row(t, c) # None
  OBVIOUS
<1> HIDE DEF absent
<1>8. next = AfterTombstones(t)
  OBVIOUS
<1> HIDE DEF rows, next
<1>9. /\ k \in Call /\ k.rows = rows /\ k.at = next
      /\ k.add = call[t].add /\ k.del = call[t].del /\ k.kind = call[t].kind
      /\ k.stage = call[t].stage
  BY <1>2, <1>4, <1>5 DEF Call
<1> HIDE DEF k
<1>10. /\ \A c \in absent : Row(t, c) \in {"PENDING", None}
       /\ k.at = AfterTombstones(t)
  BY <1>6, <1>8, <1>9
<1> QED BY <1>1, <1>2, <1>4, <1>7, <1>9, <1>10, Supersedes

LEMMA StageKeeps ==
  ASSUME Inv, NEW t \in Calls, Stage(t)
  PROVE  Inv'
<1> DEFINE old == call[t]
           rows == [c \in old.stage \cup DOMAIN old.rows |->
                      IF Row(t, c) = None THEN "PENDING" ELSE Row(t, c)]
           k == [old EXCEPT !.at = "commit", !.stage = {}, !.rows = rows]
<1>1. /\ old.at = "stage" /\ \A c \in old.stage : ~RowLocked(t, c)
      /\ call' = [call EXCEPT ![t] = k]
      /\ UNCHANGED <<edges, gedge, member, sugg, unwired, moves>>
  BY DEF Stage, At, tables, Inv, TypeOK
<1>2. old \in Call /\ CallOK(old, sugg, edges)
      /\ gedge \in BOOLEAN /\ member \in SUBSET Components /\ moves \in 0..MaxMoves
  BY DEF Inv, TypeOK
<1>3. old.add = {} /\ old.del = {}
  BY <1>1, <1>2 DEF CallOK, AddsAreNew, DelsAreWired
<1>4. DOMAIN old.rows \subseteq Components /\ old.stage \subseteq Components
  <2>1. old.rows \in Rows /\ old.stage \subseteq Components
    BY <1>2 DEF Call
  <2> QED BY <2>1, RowsFact
<1>5. \A c \in old.stage \cup DOMAIN old.rows :
        (IF Row(t, c) = None THEN "PENDING" ELSE Row(t, c)) \in Statuses
  BY <1>4, RowSeen DEF Statuses
<1>6. rows \in Rows
  BY <1>4, <1>5, RowsMade
<1>7. /\ DOMAIN rows = old.stage \cup DOMAIN old.rows
      /\ \A c \in DOMAIN rows : rows[c] = IF Row(t, c) = None THEN "PENDING" ELSE Row(t, c)
  OBVIOUS
<1> HIDE DEF rows
<1>8. /\ k \in Call /\ k.rows = rows /\ k.at = "commit" /\ k.kind = old.kind
      /\ k.add = {} /\ k.del = {} /\ k.stage = {}
  BY <1>2, <1>3, <1>6 DEF Call
<1> HIDE DEF k
<1>9. DecisionsKept(k, sugg)
  BY <1>4, <1>7, <1>8, RowSeen, NoneAssumption DEF DecisionsKept, Statuses
<1>10. AcceptedWithEdge(k, sugg)
  <2> SUFFICES ASSUME NEW c \in DOMAIN k.rows, k.rows[c] = "ACCEPTED" PROVE sugg[c] = "ACCEPTED"
    BY DEF AcceptedWithEdge
  <2>1. c \in Components /\ Row(t, c) = "ACCEPTED"
    BY <1>4, <1>7, <1>8
  <2>2. CASE c \in DOMAIN old.rows
    BY <1>1, <1>2, <1>3, <2>1, <2>2, RowSeen DEF CallOK, AcceptedWithEdge
  <2>3. CASE c \notin DOMAIN old.rows
    BY <2>1, <2>3, RowSeen
  <2> QED BY <2>2, <2>3
<1>11. /\ Deciding(k, sugg) /\ AddsAreNew(k, sugg, edges) /\ DelsAreWired(k, sugg, edges)
       /\ LegacyKept(k, sugg, edges) /\ AtRest(k)
  <2>1. LegacyKept(k, sugg, edges)
    <3> SUFFICES ASSUME NEW c \in edges, sugg[c] = None, c \in DOMAIN k.rows
                 PROVE  k.rows[c] \in Terminal
      BY <1>8 DEF LegacyKept
    <3>1. c \in DOMAIN old.rows /\ old.rows[c] \in Terminal
      BY <1>1, <1>2, <1>7, <1>8 DEF CallOK, LegacyKept
    <3> QED BY <1>4, <1>7, <1>8, <3>1, RowSeen
  <2> QED BY <1>8, <2>1 DEF Deciding, AddsAreNew, DelsAreWired, AtRest
<1>12. CallOK(k, sugg, edges)
  BY <1>9, <1>10, <1>11 DEF CallOK
<1>13. \A c \in DOMAIN k.rows : c \in DOMAIN call[t].rows \/ ~RowLocked(t, c)
  BY <1>1, <1>7, <1>8
<1>14. \A c \in k.add \cup k.del : c \in call[t].add \cup call[t].del \/ ~EdgeLocked(t, c)
  BY <1>8
<1> QED BY <1>1, <1>2, <1>8, <1>12, <1>13, <1>14, OwnStep

LEMMA AcceptKeeps ==
  ASSUME Inv, NEW t \in Calls, NEW c \in Components, Accept(t, c)
  PROVE  Inv'
<1> DEFINE rows == [x \in {c} |-> "ACCEPTED"]
           k == [NoCall EXCEPT !.kind = "accept", !.at = "accepted", !.rows = rows]
<1>1. /\ ~RowLocked(t, c) /\ sugg[c] = "PENDING"
      /\ call' = [call EXCEPT ![t] = k]
      /\ UNCHANGED <<edges, gedge, member, sugg, unwired, moves>>
  BY DEF Accept, Begin, tables
<1>2. gedge \in BOOLEAN /\ member \in SUBSET Components /\ moves \in 0..MaxMoves
  BY DEF Inv, TypeOK
<1>3. rows \in Rows
  <2>1. rows \in [{c} -> Statuses]
    BY DEF Statuses, Terminal
  <2> QED BY <2>1, RowsMade
<1>4. DOMAIN rows = {c}
  OBVIOUS
<1> HIDE DEF rows
<1>5. /\ k \in Call /\ k.rows = rows /\ k.at = "accepted" /\ k.kind = "accept"
      /\ k.add = {} /\ k.del = {} /\ k.stage = {}
  BY <1>3, NoCallType DEF NoCall, Call
<1> HIDE DEF k
<1>6. LegacyKept(k, sugg, edges)
  BY <1>1, <1>4, <1>5, NoneAssumption DEF LegacyKept, Statuses
<1>7. CallOK(k, sugg, edges)
  BY <1>1, <1>4, <1>5, <1>6
  DEF CallOK, DecisionsKept, Deciding, AcceptedWithEdge, AddsAreNew, DelsAreWired, AtRest, Terminal
<1> QED BY <1>1, <1>2, <1>4, <1>5, <1>7, OwnStep

LEMMA AcceptEdgeKeeps ==
  ASSUME Inv, NEW t \in Calls, AcceptEdge(t)
  PROVE  Inv'
<1> DEFINE old == call[t]
<1>1. old \in Call /\ CallOK(old, sugg, edges) /\ old.at = "accepted"
      /\ gedge \in BOOLEAN /\ member \in SUBSET Components /\ moves \in 0..MaxMoves
  BY DEF AcceptEdge, At, Inv, TypeOK
<1>2. PICK c \in Components : DOMAIN old.rows = {c} /\ sugg[c] = "PENDING"
  BY <1>1 DEF CallOK, Deciding
<1>3. /\ ~EdgeLocked(t, c)
      /\ call' = IF c \in edges
                 THEN [call EXCEPT ![t].rows[c] = "SUPERSEDED", ![t].at = "commit"]
                 ELSE [call EXCEPT ![t].add = {c}, ![t].targets = {c}, ![t].at = "flip"]
      /\ UNCHANGED <<edges, gedge, member, sugg, unwired, moves>>
  BY <1>2 DEF AcceptEdge, tables
<1>4. CASE c \in edges
  <2> DEFINE rows == [old.rows EXCEPT ![c] = "SUPERSEDED"]
             k == [old EXCEPT !.rows = rows, !.at = "commit"]
  <2>1. rows \in Rows /\ DOMAIN rows = {c} /\ rows[c] = "SUPERSEDED"
    <3>1. DOMAIN rows = {c} /\ rows[c] = "SUPERSEDED"
      BY <1>2
    <3>2. rows \in [{c} -> Statuses]
      BY <1>2, <3>1 DEF Statuses, Terminal
    <3> QED BY <3>1, <3>2, RowsMade
  <2>2. call' = [call EXCEPT ![t] = k]
    BY <1>3, <1>4 DEF Inv, TypeOK
  <2> HIDE DEF rows
  <2>3. /\ k \in Call /\ k.rows = rows /\ k.at = "commit" /\ k.kind = old.kind
        /\ k.add = old.add /\ k.del = old.del /\ k.stage = old.stage
    BY <1>1, <2>1 DEF Call
  <2> HIDE DEF k
  <2>4. k.add = {} /\ k.del = {}
    BY <1>1, <2>3 DEF CallOK, Deciding
  <2>5. CallOK(k, sugg, edges)
    BY <1>1, <1>2, <2>1, <2>3, <2>4
    DEF CallOK, DecisionsKept, Deciding, AcceptedWithEdge, AddsAreNew, DelsAreWired,
        LegacyKept, AtRest, Terminal
  <2> QED BY <1>1, <1>2, <1>3, <2>1, <2>2, <2>3, <2>4, <2>5, OwnStep
<1>5. CASE c \notin edges
  <2> DEFINE k == [old EXCEPT !.add = {c}, !.targets = {c}, !.at = "flip"]
  <2>1. call' = [call EXCEPT ![t] = k]
    BY <1>3, <1>5 DEF Inv, TypeOK
  <2>2. /\ k \in Call /\ k.rows = old.rows /\ k.at = "flip" /\ k.kind = old.kind
        /\ k.add = {c} /\ k.del = old.del /\ k.targets = {c} /\ k.stage = old.stage
    BY <1>1 DEF Call
  <2> HIDE DEF k
  <2>3. k.del = {}
    BY <1>1, <2>2 DEF CallOK, Deciding
  <2>4. k.kind # "pass"
    BY <1>1, <2>2 DEF CallOK, Deciding
  <2>5. CallOK(k, sugg, edges)
    BY <1>1, <1>2, <1>5, <2>2, <2>3, <2>4
    DEF CallOK, DecisionsKept, Deciding, AcceptedWithEdge, AddsAreNew, DelsAreWired,
        LegacyKept, AtRest, Terminal
  <2> QED BY <1>1, <1>2, <1>3, <2>1, <2>2, <2>3, <2>5, OwnStep
<1> QED BY <1>4, <1>5

LEMMA DismissKeeps ==
  ASSUME Inv, NEW t \in Calls, NEW c \in Components, Dismiss(t, c)
  PROVE  Inv'
<1> USE DEF Inv
<1>1. /\ ~RowLocked(t, c) /\ sugg[c] = "PENDING" /\ call[t].at = "idle"
      /\ sugg' = [sugg EXCEPT ![c] = "DISMISSED"]
      /\ UNCHANGED <<edges, gedge, member, call, unwired, moves>>
  BY DEF Dismiss, Idle, At
<1>2. sugg' \in [Components -> Statuses \cup {None}] /\ sugg'[c] = "DISMISSED"
      /\ \A d \in Components \ {c} : sugg'[d] = sugg[d]
  BY <1>1 DEF TypeOK, Statuses, Terminal
<1>3. TypeOK' /\ Exclusive'
  BY <1>1, <1>2 DEF TypeOK, Exclusive
<1>4. UnwiredNeverPends'
  BY <1>1, <1>2 DEF UnwiredNeverPends, TypeOK, Terminal
<1>5. ASSUME NEW u \in Calls PROVE CallOK(call'[u], sugg', edges')
  <2> DEFINE k == call[u]
  <2>1. k \in Call /\ CallOK(k, sugg, edges) /\ call'[u] = k /\ edges' = edges
    BY <1>1 DEF TypeOK
  <2>2. c \notin DOMAIN k.rows
    <3>1. CASE u = t
      BY <1>1, <2>1, <3>1, NoCallType DEF CallOK, AtRest
    <3>2. CASE u # t
      BY <1>1, <3>2 DEF RowLocked, Others
    <3> QED BY <3>1, <3>2
  <2>3. \A d \in DOMAIN k.rows : d \in Components
    <3>1. k.rows \in Rows
      BY <2>1 DEF Call
    <3> QED BY <3>1, RowsFact
  <2>4. k.add \subseteq Components /\ k.del \subseteq Components
    BY <2>1 DEF Call
  <2> HIDE DEF k
  <2>5. DecisionsKept(k, sugg') /\ Deciding(k, sugg') /\ AcceptedWithEdge(k, sugg')
    BY <1>2, <2>1, <2>2, <2>3 DEF CallOK, DecisionsKept, Deciding, AcceptedWithEdge
  <2>6. \A d \in Components : \/ RowIn(k, sugg', d) = RowIn(k, sugg, d)
                              \/ RowIn(k, sugg', d) = "DISMISSED"
    BY <1>2 DEF RowIn
  <2>7. AddsAreNew(k, sugg', edges')
    BY <2>1, <2>4, <2>6, NoneAssumption DEF CallOK, AddsAreNew, Statuses, Terminal
  <2>8. DelsAreWired(k, sugg', edges')
    BY <2>1, <2>4, <2>6 DEF CallOK, DelsAreWired, Terminal
  <2>9. LegacyKept(k, sugg', edges')
    <3> SUFFICES ASSUME NEW d \in edges, sugg'[d] = None PROVE sugg[d] = None
      BY <2>1 DEF CallOK, LegacyKept
    <3> QED BY <1>1, <1>2, NoneAssumption DEF TypeOK, Statuses, Terminal
  <2> QED BY <2>1, <2>5, <2>7, <2>8, <2>9 DEF CallOK
<1> QED BY <1>3, <1>4, <1>5

LEMMA RestOK == CallOK(NoCall, sugg, edges)
BY NoCallType
   DEF CallOK, DecisionsKept, Deciding, AcceptedWithEdge, AddsAreNew, DelsAreWired,
        LegacyKept, AtRest, NoCall

LEMMA AbortKeeps ==
  ASSUME Inv, NEW t \in Calls, Abort(t)
  PROVE  Inv'
<1>1. call' = [call EXCEPT ![t] = NoCall]
      /\ UNCHANGED <<edges, gedge, member, sugg, unwired, moves>>
  BY DEF Abort, tables
<1>2. gedge \in BOOLEAN /\ member \in SUBSET Components /\ moves \in 0..MaxMoves
  BY DEF Inv, TypeOK
<1>3. NoCall \in Call /\ DOMAIN NoCall.rows = {} /\ NoCall.add = {} /\ NoCall.del = {}
  BY NoCallType DEF NoCall
<1> QED BY <1>1, <1>2, <1>3, RestOK, OwnStep

\* What a commit makes of the rows: decisions stay.
LEMMA CommitRows ==
  ASSUME Inv, NEW t \in Calls, Commit(t)
  PROVE  /\ sugg' \in [Components -> Statuses \cup {None}]
         /\ \A c \in Components :
              /\ sugg'[c] = RowIn(call[t], sugg, c)
              /\ sugg[c] \in Terminal => sugg'[c] = sugg[c]
              /\ sugg[c] # None => sugg'[c] # None
              /\ c \notin DOMAIN call[t].rows => sugg'[c] = sugg[c]
<1>1. sugg' = [c \in Components |-> Row(t, c)]
  BY DEF Commit
<1>2. \A c \in Components : sugg[c] # None => Row(t, c) # None
  BY RowSeen
<1> QED BY <1>1, <1>2, RowSeen

LEMMA CommitKeeps ==
  ASSUME Inv, NEW t \in Calls, Commit(t)
  PROVE  Inv'
<1> USE DEF Inv
<1> DEFINE own == call[t]
<1>1. own \in Call /\ CallOK(own, sugg, edges) /\ own.at = "commit"
  BY DEF TypeOK, Commit, At
<1>2. own.add \subseteq Components /\ own.del \subseteq Components
  BY <1>1 DEF Call
<1>3. /\ edges' = (edges \ own.del) \cup own.add
      /\ unwired' = unwired \cup own.del
      /\ gedge' = IF own.group = "none" THEN gedge ELSE own.group = "add"
      /\ call' = [call EXCEPT ![t] = NoCall]
      /\ UNCHANGED <<member, moves>>
  BY DEF Commit
<1>4. gedge' \in BOOLEAN
  <2>1. CASE own.group = "none"
    BY <1>3, <2>1 DEF TypeOK
  <2>2. CASE own.group # "none"
    BY <1>3, <2>2
  <2> QED BY <2>1, <2>2
<1>5. call' \in [Calls -> Call] /\ call'[t] = NoCall
      /\ \A u \in Calls : u # t => call'[u] = call[u]
  BY <1>3, NoCallType DEF TypeOK
<1>6. TypeOK'
  <2>1. edges' \subseteq Components /\ unwired' \subseteq Components
    BY <1>2, <1>3 DEF TypeOK
  <2> QED BY <1>3, <1>4, <1>5, <2>1, CommitRows DEF TypeOK
<1>7. Exclusive'
  <2>1. DOMAIN NoCall.rows = {} /\ NoCall.add = {} /\ NoCall.del = {}
    BY NoCallType DEF NoCall
  <2> QED BY <1>5, <2>1 DEF Exclusive
<1>8. \A c \in edges' : sugg'[c] = None => c \in edges /\ sugg[c] = None
  <2> SUFFICES ASSUME NEW c \in edges', sugg'[c] = None PROVE c \in edges /\ sugg[c] = None
    OBVIOUS
  <2>1. c \in Components
    BY <1>6 DEF TypeOK
  <2>2. c \notin own.add
    BY <1>1, <2>1, CommitRows DEF CallOK, AddsAreNew
  <2> QED BY <1>3, <2>1, <2>2, CommitRows
<1>9. UnwiredNeverPends'
  <2> SUFFICES ASSUME NEW c \in unwired' PROVE sugg'[c] \in Terminal
    BY DEF UnwiredNeverPends
  <2>1. c \in Components
    BY <1>6 DEF TypeOK
  <2>2. CASE c \in own.del
    BY <1>1, <2>1, <2>2, CommitRows DEF CallOK, DelsAreWired
  <2>3. CASE c \notin own.del
    BY <1>3, <2>1, <2>3, CommitRows DEF UnwiredNeverPends
  <2> QED BY <2>2, <2>3
<1>10. ASSUME NEW u \in Calls, u # t PROVE CallOK(call'[u], sugg', edges')
  <2> DEFINE k == call[u]
  <2>1. k \in Call /\ CallOK(k, sugg, edges) /\ call'[u] = k
    BY <1>5, <1>10 DEF TypeOK
  <2>2. /\ DOMAIN k.rows \cap DOMAIN own.rows = {}
        /\ (k.add \cup k.del) \cap (own.add \cup own.del) = {}
    BY <1>10 DEF Exclusive
  <2>3. \A d \in DOMAIN k.rows : d \in Components
    <3>1. k.rows \in Rows
      BY <2>1 DEF Call
    <3> QED BY <3>1, RowsFact
  <2>4. k.add \subseteq Components /\ k.del \subseteq Components
    BY <2>1 DEF Call
  <2> HIDE DEF k, own
  <2>5. \A d \in DOMAIN k.rows : sugg'[d] = sugg[d]
    <3>1. \A d \in DOMAIN k.rows : d \notin DOMAIN own.rows
      BY <2>2
    <3> QED BY <2>3, <3>1, CommitRows DEF own
  <2>6. DecisionsKept(k, sugg') /\ Deciding(k, sugg') /\ AcceptedWithEdge(k, sugg')
    BY <2>1, <2>5 DEF CallOK, DecisionsKept, Deciding, AcceptedWithEdge
  <2>7. \A d \in Components :
          /\ RowIn(k, sugg, d) # None => RowIn(k, sugg', d) # None
          /\ RowIn(k, sugg, d) \in Terminal => RowIn(k, sugg', d) \in Terminal
    BY CommitRows DEF RowIn
  <2>8. \A d \in k.add \cup k.del : d \in edges' <=> d \in edges
    BY <1>3, <2>2
  <2>9. AddsAreNew(k, sugg', edges')
    BY <2>1, <2>4, <2>7, <2>8 DEF CallOK, AddsAreNew
  <2>10. ASSUME NEW d \in k.del
         PROVE  /\ RowIn(k, sugg', d) = "PENDING" => RowIn(k, sugg, d) = "PENDING"
                /\ RowIn(k, sugg, d) = None => RowIn(k, sugg', d) \in Terminal \cup {None}
    <3>1. d \in Components /\ d \in edges
      BY <2>1, <2>4, <2>10 DEF CallOK, DelsAreWired
    <3>2. sugg[d] = None => sugg'[d] \in Terminal \cup {None}
      BY <1>1, <3>1, CommitRows DEF own, CallOK, LegacyKept, RowIn
    <3>3. sugg[d] \in Statuses \cup {None}
      BY <3>1 DEF TypeOK
    <3>4. sugg'[d] = "PENDING" => sugg[d] = "PENDING"
      BY <3>1, <3>2, <3>3, CommitRows, NoneAssumption DEF Statuses, Terminal
    <3>5. k.rows \in Rows
      BY <2>1 DEF Call
    <3> QED BY <3>2, <3>4, <3>5, RowsFact, NoneAssumption DEF RowIn
  <2>11. DelsAreWired(k, sugg', edges')
    BY <2>1, <2>4, <2>7, <2>8, <2>10 DEF CallOK, DelsAreWired
  <2>12. LegacyKept(k, sugg', edges')
    BY <1>8, <2>1 DEF CallOK, LegacyKept
  <2> QED BY <2>1, <2>6, <2>9, <2>11, <2>12 DEF CallOK
<1>11. CallOK(NoCall, sugg', edges')
  BY NoCallType
  DEF CallOK, DecisionsKept, Deciding, AcceptedWithEdge, AddsAreNew, DelsAreWired,
        LegacyKept, AtRest, NoCall
<1>12. \A u \in Calls : CallOK(call'[u], sugg', edges')
  BY <1>5, <1>10, <1>11
<1> QED BY <1>6, <1>7, <1>9, <1>12

LEMMA InvStep == Inv /\ [Next]_vars => Inv'
<1> SUFFICES ASSUME Inv, [Next]_vars PROVE Inv'
  OBVIOUS
<1>1. CASE UNCHANGED vars
  BY <1>1 DEF vars, Inv, TypeOK, Exclusive, UnwiredNeverPends
<1> QED
  BY <1>1, EdgeBegins, PassBegins, Reads, FlipBeginsKeeps, FlipKeeps, TombstoneKeeps,
     StageKeeps, AcceptKeeps, AcceptEdgeKeeps, DismissKeeps, AbortKeeps, CommitKeeps
  DEF Next

LEMMA InitInv == Init => Inv
<1> SUFFICES ASSUME Init PROVE Inv
  OBVIOUS
<1>1. TypeOK
  <2>1. sugg \in [Components -> Statuses \cup {None}] /\ call \in [Calls -> Call]
    BY NoCallType DEF Init
  <2>2. 0 \in 0..MaxMoves
    BY BoundsAssumption
  <2> QED BY <2>1, <2>2 DEF Init, TypeOK
<1>2. \A t \in Calls : call[t] = NoCall
  BY DEF Init
<1>3. Exclusive
  <2>1. DOMAIN NoCall.rows = {} /\ NoCall.add = {} /\ NoCall.del = {}
    BY NoCallType DEF NoCall
  <2> QED BY <1>2, <2>1 DEF Exclusive
<1>4. UnwiredNeverPends
  BY DEF Init, UnwiredNeverPends
<1> QED BY <1>1, <1>2, <1>3, <1>4, RestOK DEF Inv

LEMMA InvHolds == Spec => []Inv
BY InitInv, InvStep, PTL DEF Spec

\* Type correctness, for any components, signals and calls.
THEOREM TypeInvariant == Spec => []TypeOK
<1>1. Inv => TypeOK
  BY DEF Inv
<1> QED BY <1>1, InvHolds, PTL

\* FR-006: a pair whose edge was removed is never PENDING again, whatever the
\* calls in progress had read before.
THEOREM UnwiredStaysDecided == Spec => []UnwiredNeverPends
<1>1. Inv => UnwiredNeverPends
  BY DEF Inv
<1> QED BY <1>1, InvHolds, PTL

\* Only a dismissal and a commit change the suggestions.
LEMMA SuggestionsChange ==
  ASSUME Inv, [Next]_vars
  PROVE  \/ sugg' = sugg
         \/ \E t \in Calls : Commit(t) \/ \E c \in Components : Dismiss(t, c)
BY DEF Next, Wire, WireGroup, Unwire, UnwireGroup, ReadGroup, FlipBegins, Flip, Tombstone, Accept,
       AcceptEdge, Move, Rescan, ReadEdges, ReadGroupEdges, Stage, Abort, tables, vars

\* FR-003: a decided suggestion is never decided again.
THEOREM DecidedOnce == Spec => DecisionsAreFinal
<1> DEFINE Final == \A c \in Components : sugg[c] \in Terminal => sugg'[c] = sugg[c]
<1>1. ASSUME Inv, [Next]_vars PROVE Final
  <2>1. ASSUME NEW t \in Calls, Commit(t) PROVE Final
    BY <1>1, <2>1, CommitRows
  <2>2. ASSUME NEW t \in Calls, NEW c \in Components, Dismiss(t, c) PROVE Final
    BY <1>1, <2>2 DEF Dismiss, Terminal, Inv, TypeOK
  <2> QED BY <1>1, <2>1, <2>2, SuggestionsChange
<1>2. Inv /\ [Next]_vars => Final
  BY <1>1
<1> HIDE DEF Final
<1>3. Spec => [][Final]_vars
  BY <1>2, InvHolds, PTL DEF Spec
<1> QED BY <1>3 DEF Final, DecisionsAreFinal

\* FR-010: what becomes ACCEPTED gets its edge in the same commit.
THEOREM AcceptedWithItsEdge == Spec => AcceptMakesItsEdge
<1> DEFINE Made == \A c \in Components :
                     sugg[c] # "ACCEPTED" /\ sugg'[c] = "ACCEPTED" =>
                       c \notin edges /\ c \in edges'
<1>1. ASSUME Inv, [Next]_vars PROVE Made
  <2>1. ASSUME NEW t \in Calls, Commit(t) PROVE Made
    <3> SUFFICES ASSUME NEW c \in Components, sugg[c] # "ACCEPTED", sugg'[c] = "ACCEPTED"
                 PROVE  c \notin edges /\ c \in edges'
      OBVIOUS
    <3>1. c \in DOMAIN call[t].rows /\ call[t].rows[c] = "ACCEPTED"
      BY <1>1, <2>1, CommitRows DEF RowIn
    <3>2. CallOK(call[t], sugg, edges) /\ call[t].at = "commit"
      BY <1>1, <2>1 DEF Inv, Commit, At
    <3>3. c \in call[t].add /\ c \notin edges
      BY <3>1, <3>2 DEF CallOK, AcceptedWithEdge, AddsAreNew
    <3> QED BY <2>1, <3>3 DEF Commit
  <2>2. ASSUME NEW t \in Calls, NEW c \in Components, Dismiss(t, c) PROVE Made
    BY <1>1, <2>2 DEF Dismiss, Inv, TypeOK
  <2> QED BY <1>1, <2>1, <2>2, SuggestionsChange
<1>2. Inv /\ [Next]_vars => Made
  BY <1>1
<1> HIDE DEF Made
<1>3. Spec => [][Made]_vars
  BY <1>2, InvHolds, PTL DEF Spec
<1> QED BY <1>3 DEF Made, AcceptMakesItsEdge
=============================================================================
