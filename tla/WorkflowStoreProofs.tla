------------------------ MODULE WorkflowStoreProofs ------------------------
(***************************************************************************)
(* Proofs about WorkflowStore, for every bound, history length and set of  *)
(* saved files: no edge dangles, on the canvas or in the history, and an   *)
(* id that is given out is nowhere in use.                                 *)
(***************************************************************************)
EXTENDS WorkflowStore, SequenceTheorems, FiniteSetTheorems,
        WellFoundedInduction, TLAPS

(* A graph whose edges join its nodes, and whose ids the counter has passed. *)
Good(ids, es, c) ==
  /\ ids \subseteq 1..c
  /\ \A e \in es : e[1] \in ids /\ e[2] \in ids
  /\ \A e \in es : e = <<e[1], e[2]>>

GoodSnap(s, c) == Good(DOMAIN s.vals, s.edges, c)

\* a history of such graphs
GoodSeq(h, c) == \E S : h \in Seq(S) /\ \A s \in S : GoodSnap(s, c)

StoreInv ==
  /\ nodeIdCounter \in Nat
  /\ selectedNodeId \in 0..nodeIdCounter
  /\ Good(DOMAIN nodes, edges, nodeIdCounter)
  /\ GoodSeq(past, nodeIdCounter)
  /\ GoodSeq(future, nodeIdCounter)

-----------------------------------------------------------------------------
(* The empty history, a longer one and a shorter one.                      *)
LEMMA GoodEmpty == ASSUME NEW c PROVE GoodSeq(<<>>, c)
<1> DEFINE S == {}
<1>1. <<>> \in Seq(S)
  OBVIOUS
<1>2. \A s \in S : GoodSnap(s, c)
  OBVIOUS
<1> HIDE DEF S
<1>3. QED
  BY <1>1, <1>2 DEF GoodSeq

LEMMA GoodAppend ==
  ASSUME NEW c, NEW h, NEW s, GoodSeq(h, c), GoodSnap(s, c)
  PROVE  GoodSeq(Append(h, s), c)
<1>1. PICK S : h \in Seq(S) /\ \A t \in S : GoodSnap(t, c)
  BY DEF GoodSeq
<1> DEFINE T == S \union {s}
<1>2. h \in Seq(T)
  BY <1>1
<1>3. Append(h, s) \in Seq(T)
  BY <1>2
<1>4. \A t \in T : GoodSnap(t, c)
  BY <1>1
<1>5. QED
  BY <1>3, <1>4 DEF GoodSeq

LEMMA GoodEnds ==
  ASSUME NEW c, NEW h, GoodSeq(h, c), h # <<>>
  PROVE  /\ GoodSeq(Tail(h), c) /\ GoodSeq(Front(h), c)
         /\ GoodSnap(Last(h), c)
<1>1. PICK S : h \in Seq(S) /\ \A t \in S : GoodSnap(t, c)
  BY DEF GoodSeq
<1>2. Len(h) \in Nat /\ Len(h) >= 1 /\ \A i \in 1..Len(h) : h[i] \in S
  BY <1>1
<1>3. Tail(h) \in Seq(S)
  BY <1>1
<1>4. Front(h) \in Seq(S)
  <2>1. 1 \in Int /\ Len(h) - 1 \in Int /\ \A i \in 1..(Len(h) - 1) : h[i] \in S
    BY <1>2
  <2>2. QED
    BY <2>1, SubSeqProperties DEF Front
<1>5. Last(h) \in S
  BY <1>2 DEF Last
<1>6. QED
  BY <1>1, <1>3, <1>4, <1>5 DEF GoodSeq

(* What is good stays so when the counter is raised. *)
LEMMA GoodRaised ==
  ASSUME NEW c \in Nat, NEW d \in Nat, c <= d
  PROVE  /\ \A ids, es : Good(ids, es, c) => Good(ids, es, d)
         /\ \A h : GoodSeq(h, c) => GoodSeq(h, d)
<1>1. \A ids, es : Good(ids, es, c) => Good(ids, es, d)
  BY DEF Good
<1>2. \A s : GoodSnap(s, c) => GoodSnap(s, d)
  BY <1>1 DEF GoodSnap
<1>3. \A h : GoodSeq(h, c) => GoodSeq(h, d)
  BY <1>2 DEF GoodSeq
<1>4. QED
  BY <1>1, <1>3

(* A snapshot is as good as the graph it is taken of. *)
LEMMA GoodPartialize ==
  ASSUME NEW c, NEW ns, NEW es, NEW t, Good(DOMAIN ns, es, c)
  PROVE  GoodSnap(Partialize(ns, es, t), c)
BY DEF GoodSnap, Partialize

(* A write saves at most the graph there was before it. *)
LEMMA GoodRecord ==
  ASSUME NEW c, NEW ns, NEW es, NEW after, NEW t,
         NEW p, NEW f, GoodSeq(p, c), GoodSeq(f, c), Good(DOMAIN ns, es, c)
  PROVE  LET h == Record(State(ns, es), after, [past |-> p, future |-> f], t) IN
         GoodSeq(h.past, c) /\ GoodSeq(h.future, c)
<1> DEFINE old == [past |-> p, future |-> f]
           kept == IF Len(p) >= Limit THEN Tail(p) ELSE p
           saved == Saved(State(ns, es), old, t)
<1>1. GoodSeq(kept, c)
  <2>1. CASE Len(p) >= Limit
    <3>1. p # <<>>
      BY <2>1, StoreAssumption
    <3>2. QED
      BY <2>1, <3>1, GoodEnds
  <2>2. QED
    BY <2>1
<1>2. /\ saved.past = Append(kept, Partialize(ns, es, t))
      /\ saved.future = <<>>
  BY DEF Saved, State
<1>3. GoodSeq(saved.past, c) /\ GoodSeq(saved.future, c)
  BY <1>1, <1>2, GoodPartialize, GoodAppend, GoodEmpty
<1>4. GoodSeq(old.past, c) /\ GoodSeq(old.future, c)
  OBVIOUS
<1> HIDE DEF saved, old
<1>5. Record(State(ns, es), after, old, t) \in {saved, old}
  BY DEF Record, saved
<1>6. QED
  BY <1>3, <1>4, <1>5 DEF old

(* So a write of a good graph, with the counter raised or left, keeps the  *)
(* invariant but for the selection.                                        *)
LEMMA GoodWrite ==
  ASSUME NEW ns, NEW es, StoreInv, Write(ns, es),
         nodeIdCounter' \in Nat, nodeIdCounter <= nodeIdCounter',
         Good(DOMAIN ns, es, nodeIdCounter')
  PROVE  /\ Good(DOMAIN nodes', edges', nodeIdCounter')
         /\ GoodSeq(past', nodeIdCounter')
         /\ GoodSeq(future', nodeIdCounter')
<1>1. nodes' = ns /\ edges' = es
  BY DEF Write, SetNodes
<1> DEFINE h == Record(State(nodes, edges), State(ns, es),
                       [past |-> past, future |-> future], Fresh)
<1>2. past' = h.past /\ future' = h.future
  BY DEF Write, SetHistory, History
<1>3. GoodSeq(h.past, nodeIdCounter) /\ GoodSeq(h.future, nodeIdCounter)
  BY GoodRecord DEF StoreInv
<1> HIDE DEF h
<1>4. QED
  BY <1>1, <1>2, <1>3, GoodRaised DEF StoreInv

LEMMA GoodWithin ==
  ASSUME NEW c, NEW ids, NEW es, NEW jds, Good(ids, es, c), jds \subseteq ids
  PROVE  Good(jds, EdgesWithin(jds, es), c)
BY DEF Good, EdgesWithin

-----------------------------------------------------------------------------
LEMMA StoreInitInv == Init => StoreInv
<1> SUFFICES ASSUME Init PROVE StoreInv
  OBVIOUS
<1>1. DOMAIN nodes = {} /\ edges = {}
  BY DEF Init, NoNodes
<1>2. Good(DOMAIN nodes, edges, nodeIdCounter)
  BY <1>1 DEF Good
<1>3. QED
  BY <1>2, GoodEmpty DEF Init, StoreInv, NoId

(* Every mutator, undo and redo keeps the graphs good. *)
LEMMA StoreStep == StoreInv /\ [Next]_vars => StoreInv'
<1> SUFFICES ASSUME StoreInv, [Next]_vars PROVE StoreInv'
  OBVIOUS
<1>0. /\ nodeIdCounter \in Nat
      /\ selectedNodeId \in 0..nodeIdCounter
      /\ Good(DOMAIN nodes, edges, nodeIdCounter)
  BY DEF StoreInv
<1>1. ASSUME NEW id \in DOMAIN nodes \union {NoId}, setSelectedNode(id)
      PROVE  StoreInv'
  <2>1. id \in 0..nodeIdCounter
    BY <1>0 DEF Good, NoId
  <2>2. QED
    BY <1>1, <2>1 DEF setSelectedNode, StoreInv, graphVars, historyVars
<1>2. ASSUME NEW n, NEW ns, Room, nodeIdCounter' = generateNodeId,
             DOMAIN ns = DOMAIN nodes,
             Write(With(ns, generateNodeId, n), edges),
             selectedNodeId' \in {selectedNodeId, generateNodeId}
      PROVE  StoreInv'
  <2>1. generateNodeId = nodeIdCounter + 1
    BY DEF generateNodeId
  <2>2. DOMAIN With(ns, generateNodeId, n) = DOMAIN nodes \union {generateNodeId}
    BY <1>2 DEF With
  <2>3. Good(DOMAIN nodes \union {generateNodeId}, edges, nodeIdCounter')
    BY <1>0, <1>2, <2>1 DEF Good
  <2>4. nodeIdCounter' \in Nat /\ nodeIdCounter <= nodeIdCounter'
    BY <1>0, <1>2, <2>1
  <2>5. selectedNodeId' \in 0..nodeIdCounter'
    BY <1>0, <1>2, <2>1
  <2>6. QED
    BY <1>2, <2>2, <2>3, <2>4, <2>5, GoodWrite DEF StoreInv
<1>3. ASSUME NEW ns, NEW es, Write(ns, es), DOMAIN ns \subseteq DOMAIN nodes,
             es \subseteq EdgesWithin(DOMAIN ns, edges),
             UNCHANGED nodeIdCounter,
             selectedNodeId' \in {selectedNodeId, NoId}
      PROVE  StoreInv'
  <2>1. Good(DOMAIN ns, es, nodeIdCounter')
    BY <1>0, <1>3 DEF Good, EdgesWithin
  <2>2. nodeIdCounter' \in Nat /\ nodeIdCounter <= nodeIdCounter'
        /\ selectedNodeId' \in 0..nodeIdCounter'
    BY <1>0, <1>3 DEF NoId
  <2>3. QED
    BY <1>3, <2>1, <2>2, GoodWrite DEF StoreInv
<1>4. edges = EdgesWithin(DOMAIN nodes, edges)
  BY <1>0 DEF Good, EdgesWithin
<1>5. CASE addNode
  BY <1>2, <1>5 DEF addNode
<1>6. ASSUME NEW id, duplicateNode(id) PROVE StoreInv'
  BY <1>2, <1>6 DEF duplicateNode
<1>7. ASSUME NEW v, NEW s, handleLegacyPaste(v, s) PROVE StoreInv'
  <2> DEFINE deselected ==
        IF selectedNodeId \in DOMAIN nodes
        THEN With(nodes, selectedNodeId,
                  Node(nodes[selectedNodeId].v, nodes[selectedNodeId].status,
                       Fresh3))
        ELSE nodes
  <2>1. DOMAIN deselected = DOMAIN nodes
    BY DEF With
  <2>2. /\ Room /\ nodeIdCounter' = generateNodeId
        /\ Write(With(deselected, generateNodeId, Node(v, s, Fresh2)), edges)
        /\ selectedNodeId' = generateNodeId
    BY <1>7 DEF handleLegacyPaste
  <2> HIDE DEF deselected
  <2>3. QED
    BY <1>2, <2>1, <2>2
<1>8. ASSUME NEW id \in DOMAIN nodes, removeNode(id) PROVE StoreInv'
  <2> DEFINE ns == [i \in DOMAIN nodes \ {id} |-> nodes[i]]
  <2>1. DOMAIN ns = DOMAIN nodes \ {id}
    OBVIOUS
  <2>2. /\ Write(ns, EdgesWithin(DOMAIN nodes \ {id}, edges))
        /\ UNCHANGED nodeIdCounter /\ selectedNodeId' \in {selectedNodeId, NoId}
    BY <1>8 DEF removeNode
  <2> HIDE DEF ns
  <2>3. QED
    BY <1>3, <2>1, <2>2
<1>9. ASSUME NEW id \in DOMAIN nodes, NEW n, Write(With(nodes, id, n), edges),
             UNCHANGED <<selectedNodeId, nodeIdCounter>>
      PROVE  StoreInv'
  <2>1. DOMAIN With(nodes, id, n) = DOMAIN nodes
    BY DEF With
  <2>2. QED
    BY <1>3, <1>4, <1>9, <2>1
<1>10. ASSUME NEW id \in DOMAIN nodes, NEW v,
              updateNodeData(id, v) \/ updateNodeStatus(id, v) \/ onNodeDrag(id, v)
       PROVE  StoreInv'
  BY <1>9, <1>10 DEF updateNodeData, updateNodeStatus, onNodeDrag
<1>11. ASSUME NEW v, selectAll \/ onLayout(v) PROVE StoreInv'
  <2>1. PICK ns : /\ DOMAIN ns = DOMAIN nodes /\ Write(ns, edges)
                  /\ UNCHANGED <<selectedNodeId, nodeIdCounter>>
    BY <1>11 DEF selectAll, onLayout
  <2>2. QED
    BY <1>3, <1>4, <2>1
<1>12. ASSUME NEW i \in DOMAIN nodes, NEW j \in DOMAIN nodes, onConnect(i, j)
       PROVE  StoreInv'
  <2>1. Good(DOMAIN nodes, edges', nodeIdCounter)
    BY <1>0, <1>12 DEF onConnect, Good
  <2> DEFINE h == Record(State(nodes, edges), State(nodes, edges'),
                         [past |-> past, future |-> future], Fresh)
  <2>2. past' = h.past /\ future' = h.future
    BY <1>12 DEF onConnect, SetHistory, History
  <2>3. GoodSeq(h.past, nodeIdCounter) /\ GoodSeq(h.future, nodeIdCounter)
    BY GoodRecord DEF StoreInv
  <2> HIDE DEF h
  <2>4. UNCHANGED <<nodes, selectedNodeId, nodeIdCounter>>
    BY <1>12 DEF onConnect
  <2>5. QED
    BY <1>0, <2>1, <2>2, <2>3, <2>4 DEF StoreInv
<1>13. ASSUME NEW ids \in SUBSET DOMAIN nodes, NEW es, onDelete(ids, es)
       PROVE  StoreInv'
  <2> DEFINE left == [i \in DOMAIN nodes \ ids |-> nodes[i]]
             kept == EdgesWithin(DOMAIN left, edges \ es)
             first == Record(State(nodes, edges), State(nodes, kept),
                             [past |-> past, future |-> future], Fresh)
             second == Record(State(nodes, kept), State(left, kept), first, Fresh2)
  <2>1. /\ nodes' = left /\ edges' = kept
        /\ past' = second.past /\ future' = second.future
        /\ UNCHANGED <<selectedNodeId, nodeIdCounter>>
    BY <1>13 DEF onDelete, SetNodes, SetHistory, History
  <2>2. DOMAIN left = DOMAIN nodes \ ids
    OBVIOUS
  <2>3. Good(DOMAIN left, kept, nodeIdCounter) /\ Good(DOMAIN nodes, kept, nodeIdCounter)
    <3> HIDE DEF left
    <3>1. QED
      BY <1>0, <2>2 DEF Good, EdgesWithin
  <2>4. GoodSeq(first.past, nodeIdCounter) /\ GoodSeq(first.future, nodeIdCounter)
    BY GoodRecord DEF StoreInv
  <2>5. first = [past |-> first.past, future |-> first.future]
    BY DEF Record, Saved
  <2> HIDE DEF left, kept, first
  <2>6. GoodSeq(second.past, nodeIdCounter) /\ GoodSeq(second.future, nodeIdCounter)
    BY <2>3, <2>4, <2>5, GoodRecord
  <2> HIDE DEF second
  <2>7. QED
    BY <1>0, <2>1, <2>3, <2>6 DEF StoreInv
<1>14. CASE onNodeDragStart \/ onNodeDragStop
  BY <1>14 DEF onNodeDragStart, onNodeDragStop, StoreInv, graphVars, historyVars
<1>15. ASSUME NEW h, NEW g, GoodSeq(h, nodeIdCounter), GoodSeq(g, nodeIdCounter),
              h # <<>>, nodes' = Restored(Last(h)), edges' = Last(h).edges
       PROVE  /\ Good(DOMAIN nodes', edges', nodeIdCounter)
              /\ GoodSeq(Front(h), nodeIdCounter)
              /\ GoodSeq(Append(g, Partialize(nodes, edges, Fresh)), nodeIdCounter)
  <2>1. GoodSnap(Last(h), nodeIdCounter) /\ GoodSeq(Front(h), nodeIdCounter)
    BY <1>15, GoodEnds
  <2>2. DOMAIN nodes' = DOMAIN Last(h).vals
    BY <1>15 DEF Restored
  <2>3. Good(DOMAIN nodes', edges', nodeIdCounter)
    BY <1>15, <2>1, <2>2 DEF GoodSnap
  <2>4. GoodSeq(Append(g, Partialize(nodes, edges, Fresh)), nodeIdCounter)
    BY <1>0, <1>15, GoodPartialize, GoodAppend
  <2>5. QED
    BY <2>1, <2>3, <2>4
<1>16. CASE Undo
  BY <1>15, <1>16 DEF Undo, SetNodes, StoreInv
<1>17. CASE Redo
  BY <1>15, <1>17 DEF Redo, SetNodes, StoreInv
<1>18. ASSUME NEW f \in Files, importWorkflow(f) PROVE StoreInv'
  <2> DEFINE ids == DOMAIN f.vals
             ns == [i \in ids |-> Node(f.vals[i], "idle", Fresh2)]
  <2>1. /\ Write(ns, f.edges) /\ selectedNodeId' = NoId
        /\ RaiseCounter(ids)
    BY <1>18 DEF importWorkflow
  <2>2. DOMAIN ns = ids
    OBVIOUS
  <2>3. ids \subseteq Nat \ {0} /\ f.edges \subseteq ids \X ids
    BY StoreAssumption
  <2> HIDE DEF ns, ids
  <2>4. /\ nodeIdCounter' \in Nat /\ nodeIdCounter <= nodeIdCounter'
        /\ \A i \in ids : i + 1 <= nodeIdCounter'
    BY <1>0, <2>1, <2>3 DEF RaiseCounter
  <2>5. Good(ids, f.edges, nodeIdCounter')
    BY <2>3, <2>4 DEF Good
  <2>6. QED
    BY <2>1, <2>2, <2>4, <2>5, GoodWrite DEF StoreInv, NoId
<1>19. CASE UNCHANGED vars
  BY <1>19 DEF vars, graphVars, historyVars, StoreInv
<1>20. QED
  BY <1>1, <1>5, <1>6, <1>7, <1>8, <1>10, <1>11, <1>12, <1>13, <1>14, <1>16,
     <1>17, <1>18, <1>19 DEF Next

(* StoreInv holds in every state. *)
THEOREM StoreInvariance == Spec => []StoreInv
BY StoreInitInv, StoreStep, PTL DEF Spec

(* What a history of good graphs is made of. *)
LEMMA GoodMembers ==
  ASSUME NEW c, NEW h, GoodSeq(h, c), NEW k \in DOMAIN h
  PROVE  GoodSnap(h[k], c)
<1>1. PICK S : h \in Seq(S) /\ \A t \in S : GoodSnap(t, c)
  BY DEF GoodSeq
<1>2. QED
  BY <1>1

(* No edge is left, or brought back by undo and redo, without both of its  *)
(* nodes.  (workflowStore.ts 129-138, 238-256)                             *)
THEOREM NothingDangles == Spec => []NoDanglingEdge
<1>1. ASSUME NEW ids, NEW es, NEW c, Good(ids, es, c)
      PROVE  es = EdgesWithin(ids, es)
  BY <1>1 DEF Good, EdgesWithin
<1>2. StoreInv => NoDanglingEdge
  <2> SUFFICES ASSUME StoreInv PROVE NoDanglingEdge
    OBVIOUS
  <2>1. \A s \in Snapshots : GoodSnap(s, nodeIdCounter)
    BY GoodMembers DEF StoreInv, Snapshots
  <2>2. QED
    BY <1>1, <2>1 DEF StoreInv, NoDanglingEdge, GoodSnap
<1>3. QED
  BY StoreInvariance, <1>2, PTL

(* An id the counter has not reached is nowhere on the canvas or in the    *)
(* history, so that the next one given out is new.                         *)
(* (workflowStore.ts 94, 217-224)                                          *)
THEOREM IdsStayFresh == Spec => []IdsAreFresh
<1>1. StoreInv => IdsAreFresh
  <2> SUFFICES ASSUME StoreInv, NEW i \in Ids, i > nodeIdCounter
               PROVE  /\ i \notin DOMAIN nodes
                      /\ i # selectedNodeId
                      /\ \A s \in Snapshots : i \notin DOMAIN s.vals
    BY DEF IdsAreFresh
  <2>1. \A s \in Snapshots : GoodSnap(s, nodeIdCounter)
    BY GoodMembers DEF StoreInv, Snapshots
  <2>2. nodeIdCounter \in Nat /\ i \notin 0..nodeIdCounter /\ i \notin 1..nodeIdCounter
    BY StoreAssumption DEF StoreInv, Ids
  <2>3. QED
    BY <2>1, <2>2 DEF StoreInv, Good, GoodSnap
<1>2. QED
  BY StoreInvariance, <1>1, PTL

-----------------------------------------------------------------------------
(* Sequences, of whatever elements.                                        *)

Sequence(h) == \E S : h \in Seq(S)

LEMMA SequenceIs ==
  ASSUME NEW h, Sequence(h)
  PROVE  /\ Len(h) \in Nat /\ DOMAIN h = 1..Len(h)
         /\ h # <<>> <=> Len(h) >= 1
         /\ h = [k \in 1..Len(h) |-> h[k]]
<1>1. PICK S : h \in Seq(S)
  BY DEF Sequence
<1>2. QED
  BY <1>1, LenProperties, EmptySeq

LEMMA AppendIs ==
  ASSUME NEW h, NEW s, Sequence(h)
  PROVE  /\ Sequence(Append(h, s)) /\ Len(Append(h, s)) = Len(h) + 1
         /\ \A k \in 1..Len(h) : Append(h, s)[k] = h[k]
         /\ Append(h, s)[Len(h) + 1] = s
<1>1. PICK S : h \in Seq(S)
  BY DEF Sequence
<1> DEFINE T == S \union {s}
<1>2. h \in Seq(T) /\ s \in T
  BY <1>1
<1> HIDE DEF T
<1>3. QED
  BY <1>2, AppendProperties DEF Sequence

LEMMA TailIs ==
  ASSUME NEW h, Sequence(h), h # <<>>
  PROVE  /\ Sequence(Tail(h)) /\ Len(Tail(h)) = Len(h) - 1
         /\ \A k \in 1..(Len(h) - 1) : Tail(h)[k] = h[k + 1]
<1>1. PICK S : h \in Seq(S)
  BY DEF Sequence
<1>2. QED
  BY <1>1, HeadTailProperties DEF Sequence

LEMMA FrontIs ==
  ASSUME NEW h, Sequence(h), h # <<>>
  PROVE  /\ Sequence(Front(h)) /\ Len(Front(h)) = Len(h) - 1
         /\ \A k \in 1..(Len(h) - 1) : Front(h)[k] = h[k]
<1>1. PICK S : h \in Seq(S)
  BY DEF Sequence
<1>2. 1 \in Int /\ Len(h) - 1 \in Int /\ \A i \in 1..(Len(h) - 1) : h[i] \in S
  BY <1>1, SequenceIs, LenProperties
<1>3. /\ Front(h) \in Seq(S)
      /\ Len(Front(h)) = IF 1 <= Len(h) - 1 THEN Len(h) - 1 - 1 + 1 ELSE 0
      /\ \A i \in 1..(Len(h) - 1 - 1 + 1) : Front(h)[i] = h[1 + i - 1]
  BY <1>2, SubSeqProperties DEF Front
<1>4. Len(h) \in Nat /\ Len(h) >= 1
  BY SequenceIs
<1>5. Len(Front(h)) = Len(h) - 1
  <2>1. CASE Len(h) >= 2
    <3>1. Len(Front(h)) = Len(h) - 1 - 1 + 1
      BY <1>3, <1>4, <2>1
    <3>2. QED
      BY <1>4, <3>1
  <2>2. CASE Len(h) = 1
    <3>1. Len(Front(h)) = 0
      BY <1>3, <2>2
    <3>2. QED
      BY <2>2, <3>1
  <2>3. \A n \in Nat : n >= 1 => n = 1 \/ n >= 2
    OBVIOUS
  <2>4. Len(h) = 1 \/ Len(h) >= 2
    BY <1>4, <2>3
  <2>5. QED
    BY <2>1, <2>2, <2>4, Zenon
<1>6. ASSUME NEW k \in 1..(Len(h) - 1) PROVE Front(h)[k] = h[k]
  <2>1. k \in 1..(Len(h) - 1 - 1 + 1) /\ 1 + k - 1 = k
    BY <1>4
  <2>2. QED
    BY <1>3, <2>1
<1>7. QED
  BY <1>3, <1>5, <1>6 DEF Sequence

LEMMA EmptyIs == Sequence(<<>>) /\ Len(<<>>) = 0
BY DEF Sequence

-----------------------------------------------------------------------------
(* The histories that are kept: within the limit, no two snapshots of one  *)
(* identity, and each a record of a function.                              *)

StampsOf(h) == {h[k].stamp : k \in DOMAIN h}

Distinct(h) == \A j, k \in DOMAIN h : h[j].stamp = h[k].stamp => j = k

Functional(s) == s.vals = [i \in DOMAIN s.vals |-> s.vals[i]]

Kept(p, f) ==
  /\ Sequence(p) /\ Sequence(f)
  /\ Len(p) + Len(f) <= Limit
  /\ Distinct(p) /\ Distinct(f)
  /\ StampsOf(p) \intersect StampsOf(f) = {}
  /\ \A k \in DOMAIN p : Functional(p[k])
  /\ \A k \in DOMAIN f : Functional(f[k])

(* Beside StoreInv: the cache is what is on the canvas, no snapshot has an *)
(* identity of the canvas, and the history tracks unless something is      *)
(* dragged.                                                                *)
ObjectInv ==
  /\ nodesById = nodes
  /\ nodes = [i \in DOMAIN nodes |-> nodes[i]]
  /\ nodeIdCounter <= MaxId
  /\ dragged.on \in BOOLEAN /\ isTracking = ~dragged.on
  /\ Kept(past, future)
  /\ \A i \in DOMAIN nodes :
       nodes[i].stamp \notin StampsOf(past) \union StampsOf(future)

(* What a write adds to the history has a new identity; what it drops      *)
(* makes room.                                                             *)
LEMMA KeptAppend ==
  ASSUME NEW h, NEW s, Sequence(h), Distinct(h), s.stamp \notin StampsOf(h)
  PROVE  /\ Distinct(Append(h, s))
         /\ StampsOf(Append(h, s)) = StampsOf(h) \union {s.stamp}
<1>1. /\ DOMAIN h = 1..Len(h) /\ Len(h) \in Nat
      /\ DOMAIN Append(h, s) = 1..(Len(h) + 1)
  BY AppendIs, SequenceIs
<1>2. \A k \in DOMAIN h : Append(h, s)[k] = h[k] /\ h[k].stamp # s.stamp
  BY <1>1, AppendIs DEF StampsOf
<1>3. Append(h, s)[Len(h) + 1] = s
  BY AppendIs
<1>4. \A k \in DOMAIN Append(h, s) : k \in DOMAIN h \/ k = Len(h) + 1
  BY <1>1
<1>5. Distinct(Append(h, s))
  BY <1>2, <1>3, <1>4 DEF Distinct
<1>6. DOMAIN h \subseteq DOMAIN Append(h, s) /\ Len(h) + 1 \in DOMAIN Append(h, s)
  BY <1>1
<1>7. StampsOf(Append(h, s)) = StampsOf(h) \union {s.stamp}
  BY <1>2, <1>3, <1>4, <1>6 DEF StampsOf
<1>8. QED
  BY <1>5, <1>7

LEMMA KeptTail ==
  ASSUME NEW h, Sequence(h), Distinct(h), h # <<>>
  PROVE  Distinct(Tail(h)) /\ StampsOf(Tail(h)) \subseteq StampsOf(h)
<1>1. /\ DOMAIN h = 1..Len(h) /\ Len(h) \in Nat
      /\ DOMAIN Tail(h) = 1..(Len(h) - 1)
  BY TailIs, SequenceIs
<1>2. \A k \in DOMAIN Tail(h) : k + 1 \in DOMAIN h /\ Tail(h)[k] = h[k + 1]
  BY <1>1, TailIs
<1>3. \A j, k \in DOMAIN Tail(h) : j + 1 = k + 1 => j = k
  BY <1>1
<1>4. Distinct(Tail(h))
  BY <1>2, <1>3 DEF Distinct
<1>5. QED
  BY <1>2, <1>4 DEF StampsOf

LEMMA KeptFront ==
  ASSUME NEW h, Sequence(h), Distinct(h), h # <<>>
  PROVE  /\ Distinct(Front(h)) /\ StampsOf(Front(h)) \subseteq StampsOf(h)
         /\ Last(h).stamp \in StampsOf(h) \ StampsOf(Front(h))
<1>1. /\ DOMAIN h = 1..Len(h) /\ Len(h) \in Nat /\ Len(h) >= 1
      /\ DOMAIN Front(h) = 1..(Len(h) - 1)
  BY FrontIs, SequenceIs
<1>2. \A k \in DOMAIN Front(h) : k \in DOMAIN h /\ k # Len(h) /\ Front(h)[k] = h[k]
  BY <1>1, FrontIs
<1>3. Len(h) \in DOMAIN h
  BY <1>1
<1>4. Distinct(Front(h))
  BY <1>2 DEF Distinct
<1>5. StampsOf(Front(h)) \subseteq StampsOf(h)
  BY <1>2 DEF StampsOf
<1>6. Last(h).stamp \in StampsOf(h) \ StampsOf(Front(h))
  BY <1>2, <1>3 DEF StampsOf, Last, Distinct
<1>7. QED
  BY <1>4, <1>5, <1>6

LEMMA PartializeIs ==
  ASSUME NEW ns, NEW es, NEW t
  PROVE  /\ Functional(Partialize(ns, es, t))
         /\ Partialize(ns, es, t).stamp = t
         /\ [vals |-> Partialize(ns, es, t).vals,
             edges |-> Partialize(ns, es, t).edges] = Authored(ns, es)
BY DEF Functional, Partialize, Authored

LEMMA KeptRecord ==
  ASSUME NEW p, NEW f, Kept(p, f), NEW ns, NEW es, NEW after, NEW t,
         t \notin StampsOf(p) \union StampsOf(f)
  PROVE  LET h == Record(State(ns, es), after, [past |-> p, future |-> f], t) IN
         /\ Kept(h.past, h.future)
         /\ StampsOf(h.past) \union StampsOf(h.future)
              \subseteq StampsOf(p) \union StampsOf(f) \union {t}
<1> DEFINE old == [past |-> p, future |-> f]
           room == IF Len(p) >= Limit THEN Tail(p) ELSE p
           snap == Partialize(ns, es, t)
           saved == Saved(State(ns, es), old, t)
<1>0. /\ Sequence(p) /\ Distinct(p) /\ Len(p) \in Nat /\ Len(f) \in Nat
      /\ Len(p) <= Limit /\ Limit \in Nat /\ Limit >= 2
  <2>1. Sequence(p) /\ Sequence(f) /\ Distinct(p) /\ Len(p) + Len(f) <= Limit
    BY DEF Kept
  <2>2. Len(p) \in Nat /\ Len(f) \in Nat
    BY <2>1, SequenceIs
  <2>3. QED
    BY <2>1, <2>2, StoreAssumption
<1>1. /\ Sequence(room) /\ Distinct(room) /\ Len(room) + 1 <= Limit
      /\ StampsOf(room) \subseteq StampsOf(p)
      /\ \A k \in DOMAIN room : Functional(room[k])
  <2>1. CASE Len(p) >= Limit
    <3>1. p # <<>> /\ room = Tail(p)
      BY <1>0, <2>1, SequenceIs
    <3>2. \A k \in DOMAIN Tail(p) : k + 1 \in DOMAIN p /\ Tail(p)[k] = p[k + 1]
      BY <1>0, <3>1, TailIs, SequenceIs
    <3>3. \A k \in DOMAIN Tail(p) : Functional(Tail(p)[k])
      BY <3>2 DEF Kept
    <3>4. Sequence(Tail(p)) /\ Len(Tail(p)) = Len(p) - 1
      BY <1>0, <3>1, TailIs
    <3>5. Distinct(Tail(p)) /\ StampsOf(Tail(p)) \subseteq StampsOf(p)
      BY <1>0, <3>1, KeptTail
    <3> HIDE DEF room
    <3>6. QED
      BY <1>0, <3>1, <3>3, <3>4, <3>5
  <2>2. CASE ~(Len(p) >= Limit)
    <3>1. room = p
      BY <2>2
    <3> HIDE DEF room
    <3>2. QED
      BY <1>0, <2>2, <3>1 DEF Kept
  <2>3. QED
    BY <2>1, <2>2
<1>2. Functional(snap) /\ snap.stamp = t
  BY PartializeIs
<1>3. saved.past = Append(room, snap) /\ saved.future = <<>>
  BY DEF Saved, State
<1>4. old.past = p /\ old.future = f
  OBVIOUS
<1>5. Record(State(ns, es), after, old, t) \in {saved, old}
  BY DEF Record
<1> HIDE DEF room, snap, saved, old
<1>6. t \notin StampsOf(room)
  BY <1>1
<1>7. /\ Distinct(saved.past) /\ StampsOf(saved.past) = StampsOf(room) \union {t}
      /\ Sequence(saved.past) /\ Len(saved.past) = Len(room) + 1
  BY <1>1, <1>2, <1>3, <1>6, KeptAppend, AppendIs
<1>8. \A k \in DOMAIN saved.past : Functional(saved.past[k])
  <2>1. DOMAIN saved.past = 1..(Len(room) + 1) /\ DOMAIN room = 1..Len(room)
    BY <1>1, <1>7, SequenceIs
  <2>2. Len(room) \in Nat
    BY <1>1, SequenceIs
  <2>3. \A k \in DOMAIN saved.past : saved.past[k] = snap
                                     \/ (k \in DOMAIN room /\ saved.past[k] = room[k])
    <3>1. /\ \A k \in 1..Len(room) : Append(room, snap)[k] = room[k]
          /\ Append(room, snap)[Len(room) + 1] = snap
      BY <1>1, AppendIs
    <3>2. \A k \in 1..(Len(room) + 1) : k \in 1..Len(room) \/ k = Len(room) + 1
      BY <2>2
    <3>3. QED
      BY <1>3, <2>1, <3>1, <3>2
  <2>4. QED
    BY <1>1, <1>2, <2>3
<1>9. Sequence(<<>>) /\ Len(<<>>) = 0 /\ DOMAIN <<>> = {}
  BY EmptyIs
<1>10. Distinct(<<>>) /\ StampsOf(<<>>) = {}
  BY <1>9 DEF Distinct, StampsOf
<1>11. Kept(saved.past, saved.future)
  <2>1. Len(saved.past) + Len(saved.future) <= Limit
    BY <1>1, <1>3, <1>7, <1>9, SequenceIs
  <2>2. QED
    BY <1>3, <1>7, <1>8, <1>9, <1>10, <2>1 DEF Kept
<1>12. StampsOf(saved.past) \union StampsOf(saved.future)
         \subseteq StampsOf(p) \union StampsOf(f) \union {t}
  BY <1>1, <1>3, <1>7, <1>10
<1>13. QED
  BY <1>4, <1>5, <1>11, <1>12 DEF old

(* Undo and redo exchange a snapshot for what is on the canvas.            *)
LEMMA KeptMoves ==
  ASSUME NEW p, NEW f, Kept(p, f), p # <<>>, NEW ns, NEW es, NEW t,
         t \notin StampsOf(p) \union StampsOf(f)
  PROVE  /\ Kept(Front(p), Append(f, Partialize(ns, es, t)))
         /\ Functional(Last(p))
         /\ Last(p).stamp \in StampsOf(p)
         /\ Last(p).stamp \notin StampsOf(Front(p))
                         \union StampsOf(Append(f, Partialize(ns, es, t)))
<1> DEFINE snap == Partialize(ns, es, t)
           q == Front(p)
           g == Append(f, snap)
<1>0. snap.stamp = t /\ Functional(snap)
  BY PartializeIs
<1> HIDE DEF snap
<1>1. Sequence(p) /\ Sequence(f) /\ Distinct(p) /\ Distinct(f)
  BY DEF Kept
<1>2. /\ Len(p) \in Nat /\ Len(p) >= 1 /\ DOMAIN p = 1..Len(p)
      /\ Len(f) \in Nat /\ DOMAIN f = 1..Len(f)
  BY <1>1, SequenceIs
<1>3. /\ Sequence(q) /\ Len(q) = Len(p) - 1 /\ DOMAIN q = 1..Len(q)
      /\ \A k \in 1..(Len(p) - 1) : q[k] = p[k]
  BY <1>1, FrontIs, SequenceIs
<1>4. /\ Sequence(g) /\ Len(g) = Len(f) + 1 /\ DOMAIN g = 1..Len(g)
      /\ \A k \in 1..Len(f) : g[k] = f[k]
      /\ g[Len(f) + 1] = snap
  BY <1>1, AppendIs, SequenceIs
<1>5. /\ Distinct(q) /\ StampsOf(q) \subseteq StampsOf(p)
      /\ Last(p).stamp \in StampsOf(p) \ StampsOf(q)
  BY <1>1, KeptFront
<1>6. Distinct(g) /\ StampsOf(g) = StampsOf(f) \union {t}
  BY <1>0, <1>1, KeptAppend
<1>7. Functional(Last(p)) /\ \A k \in DOMAIN q : Functional(q[k])
  <2>1. Len(p) \in DOMAIN p /\ \A k \in DOMAIN q : k \in 1..(Len(p) - 1) /\ k \in DOMAIN p
    BY <1>2, <1>3
  <2>2. QED
    BY <1>3, <2>1 DEF Kept, Last
<1>8. \A k \in DOMAIN g : Functional(g[k])
  <2>1. \A k \in DOMAIN g : k \in DOMAIN f \/ k = Len(f) + 1
    BY <1>2, <1>4
  <2>2. QED
    BY <1>0, <1>2, <1>4, <2>1 DEF Kept
<1>9. Len(q) + Len(g) <= Limit
  <2>1. Len(p) + Len(f) <= Limit
    BY DEF Kept
  <2>2. \A m, n \in Nat : (m - 1) + (n + 1) = m + n
    OBVIOUS
  <2>3. QED
    BY <1>2, <1>3, <1>4, <2>1, <2>2
<1>10. StampsOf(p) \intersect StampsOf(f) = {}
  BY DEF Kept
<1>11. Kept(q, g)
  <2>1. StampsOf(q) \intersect StampsOf(g) = {}
    BY <1>5, <1>6, <1>10
  <2> HIDE DEF q, g
  <2>2. QED
    BY <1>3, <1>4, <1>5, <1>6, <1>7, <1>8, <1>9, <2>1 DEF Kept
<1>12. Last(p).stamp \notin StampsOf(q) \union StampsOf(g)
  BY <1>5, <1>6, <1>10
<1>13. QED
  BY <1>5, <1>7, <1>11, <1>12 DEF snap

LEMMA KeptSwap ==
  ASSUME NEW p, NEW f, Kept(p, f)
  PROVE  Kept(f, p)
<1>1. Len(p) \in Nat /\ Len(f) \in Nat
  BY SequenceIs DEF Kept
<1>2. QED
  BY <1>1 DEF Kept

(* The test of the subscriber fails when the nodes of a snapshot are new:  *)
(* the first of them tells.  (workflowStore.ts 305-312)                    *)
LEMMA SmallestIs ==
  ASSUME NEW S, S \subseteq Nat, S # {}
  PROVE  \E i \in S : \A j \in S : i <= j
<1> DEFINE R == OpToRel(<, Nat)
<1>1. IsWellFoundedOn(R, Nat)
  BY NatLessThanWellFounded
<1>2. \A x, y \in Nat : x < y => <<x, y>> \in R
  BY DEF OpToRel
<1> HIDE DEF R
<1>3. PICK x \in S : \A y \in S : ~ (<<y, x>> \in R)
  BY <1>1, WFMin
<1>4. ASSUME NEW y \in S PROVE x <= y
  <2>1. x \in Nat /\ y \in Nat
    OBVIOUS
  <2>2. ~ (y < x)
    BY <1>2, <1>3, <2>1
  <2>3. QED
    BY <2>1, <2>2
<1>5. QED
  BY <1>4

LEMMA StaleIsSeen ==
  ASSUME NEW s, Functional(s), DOMAIN s.vals \subseteq Nat,
         NEW cache, cache = [i \in DOMAIN cache |-> cache[i]],
         IsFiniteSet(DOMAIN cache),
         \A i \in DOMAIN cache : cache[i].stamp # s.stamp,
         Consistent(cache, Restored(s))
  PROVE  cache = Restored(s)
<1> DEFINE ns == Restored(s)
<1>1. DOMAIN ns = DOMAIN s.vals /\ \A i \in DOMAIN ns : ns[i].stamp = s.stamp
  BY DEF Restored, Node
<1>2. ns = [i \in DOMAIN ns |-> ns[i]]
  BY DEF Restored
<1>3. Consistent(cache, ns)
  OBVIOUS
<1> HIDE DEF ns
<1>4. CASE DOMAIN ns = {}
  <2>1. Cardinality(DOMAIN cache) = 0
    BY <1>3, <1>4, FS_EmptySet DEF Consistent
  <2>2. DOMAIN cache = {}
    BY <2>1, FS_EmptySet
  <2>3. cache = ns
    BY <1>2, <1>4, <2>2
  <2>4. QED
    BY <2>3 DEF ns
<1>5. CASE DOMAIN ns # {}
  <2>1. ns # NoNodes
    BY <1>5 DEF NoNodes
  <2>2. First(ns) \in DOMAIN ns
    <3>1. \E i \in DOMAIN ns : \A j \in DOMAIN ns : i <= j
      BY <1>1, <1>5, SmallestIs
    <3>2. QED
      BY <3>1 DEF First
  <2>3. First(ns) \in DOMAIN cache /\ cache[First(ns)] = ns[First(ns)]
    BY <1>3, <2>1 DEF Consistent
  <2>4. QED
    BY <1>1, <2>2, <2>3
<1>6. QED
  BY <1>4, <1>5

-----------------------------------------------------------------------------
(* There are always three identities that nothing has.                     *)

LEMMA SpareStamp ==
  ASSUME StoreInv, ObjectInv, NEW a, NEW b
  PROVE  \E t \in Stamps : t \notin InUse \union {a, b}
<1>1. /\ MaxId \in Nat /\ Limit \in Nat /\ nodeIdCounter \in Nat
      /\ Len(past) \in Nat /\ DOMAIN past = 1..Len(past)
      /\ Len(future) \in Nat /\ DOMAIN future = 1..Len(future)
      /\ Len(past) + Len(future) <= Limit
  BY StoreAssumption, SequenceIs DEF StoreInv, ObjectInv, Kept
<1>2. DOMAIN nodes \subseteq 1..MaxId
  BY <1>1 DEF StoreInv, Good, ObjectInv
<1> DEFINE N == MaxId + Limit + 2
           g == [i \in 1..N |->
                  IF i <= MaxId THEN nodes[i].stamp
                  ELSE IF i <= MaxId + Len(past) THEN past[i - MaxId].stamp
                  ELSE IF i <= MaxId + Limit
                       THEN future[i - (MaxId + Len(past))].stamp
                  ELSE IF i = MaxId + Limit + 1 THEN a ELSE b]
           U == {g[i] : i \in 1..N}
<1>3. N \in Nat
  BY <1>1
<1>4. \A i \in DOMAIN nodes : nodes[i].stamp \in U
  <2> SUFFICES ASSUME NEW i \in DOMAIN nodes PROVE nodes[i].stamp \in U
    OBVIOUS
  <2>1. i \in 1..N /\ i <= MaxId
    BY <1>1, <1>2
  <2>2. g[i] = nodes[i].stamp
    BY <2>1
  <2>3. QED
    BY <2>1, <2>2
<1>5. \A k \in DOMAIN past : past[k].stamp \in U
  <2> SUFFICES ASSUME NEW k \in DOMAIN past PROVE past[k].stamp \in U
    OBVIOUS
  <2>1. /\ MaxId + k \in 1..N /\ ~(MaxId + k <= MaxId)
        /\ MaxId + k <= MaxId + Len(past) /\ (MaxId + k) - MaxId = k
    BY <1>1
  <2>2. g[MaxId + k] = past[k].stamp
    BY <2>1
  <2>3. QED
    BY <2>1, <2>2
<1>6. \A k \in DOMAIN future : future[k].stamp \in U
  <2> SUFFICES ASSUME NEW k \in DOMAIN future PROVE future[k].stamp \in U
    OBVIOUS
  <2> DEFINE j == MaxId + Len(past) + k
  <2>1. /\ j \in 1..N /\ ~(j <= MaxId) /\ ~(j <= MaxId + Len(past))
        /\ j <= MaxId + Limit /\ j - (MaxId + Len(past)) = k
    BY <1>1
  <2> HIDE DEF j
  <2>2. g[j] = future[k].stamp
    BY <2>1
  <2>3. QED
    BY <2>1, <2>2
<1>7. a \in U /\ b \in U
  <2>1. /\ N \in 1..N /\ N - 1 \in 1..N
        /\ ~(N - 1 <= MaxId) /\ ~(N - 1 <= MaxId + Len(past))
        /\ ~(N - 1 <= MaxId + Limit) /\ N - 1 = MaxId + Limit + 1
        /\ ~(N <= MaxId) /\ ~(N <= MaxId + Len(past))
        /\ ~(N <= MaxId + Limit) /\ N # MaxId + Limit + 1
    BY <1>1
  <2>2. g[N - 1] = a /\ g[N] = b
    BY <2>1
  <2>3. QED
    BY <2>1, <2>2
<1>8. InUse \union {a, b} \subseteq U
  BY <1>4, <1>5, <1>6, <1>7 DEF InUse
<1>9. IsFiniteSet(U) /\ Cardinality(U) <= N
  <2>1. g \in Surjection(1..N, U)
    BY DEF Surjection
  <2>2. IsFiniteSet(1..N) /\ Cardinality(1..N) = N
    BY <1>3, FS_Interval
  <2> HIDE DEF g, U, N
  <2>3. QED
    BY <2>1, <2>2, FS_Surjection
<1>10. ~ (Stamps \subseteq U)
  <2> SUFFICES ASSUME Stamps \subseteq U PROVE FALSE
    OBVIOUS
  <2> HIDE DEF U
  <2>1. IsFiniteSet(Stamps) /\ Cardinality(Stamps) <= Cardinality(U)
    BY <1>9, FS_Subset
  <2>2. Cardinality(Stamps) \in Nat /\ Cardinality(U) \in Nat
    BY <1>9, <2>1, FS_CardinalityType
  <2>3. Cardinality(Stamps) > N
    BY <2>1, StampAssumption
  <2> HIDE DEF N
  <2>4. QED
    BY <1>3, <1>9, <2>1, <2>2, <2>3
<1>11. QED
  BY <1>8, <1>10

LEMMA FreshAre ==
  ASSUME StoreInv, ObjectInv
  PROVE  /\ Fresh \notin InUse /\ Fresh2 \notin InUse /\ Fresh3 \notin InUse
         /\ Fresh2 # Fresh /\ Fresh3 # Fresh
<1>1. \E t \in Stamps : t \notin InUse
  BY SpareStamp
<1>2. \E t \in Stamps : t \notin InUse \union {Fresh}
  BY SpareStamp
<1>3. \E t \in Stamps : t \notin InUse \union {Fresh, Fresh2}
  BY SpareStamp
<1>4. Fresh \notin InUse
  BY <1>1 DEF Fresh
<1>5. Fresh2 \notin InUse \union {Fresh}
  BY <1>2 DEF Fresh2
<1>6. Fresh3 \notin InUse \union {Fresh, Fresh2}
  BY <1>3 DEF Fresh3
<1>7. QED
  BY <1>4, <1>5, <1>6

LEMMA InUseIs ==
  InUse = {nodes[i].stamp : i \in DOMAIN nodes}
            \union StampsOf(past) \union StampsOf(future)
BY DEF InUse, StampsOf

-----------------------------------------------------------------------------
(* What a mutator does to the nodes and to the history: new objects have   *)
(* identities that were free, and the cache is rebuilt.                    *)
Written(ns, es) ==
  /\ nodes' = ns /\ nodesById' = ns /\ edges' = es
  /\ SetHistory(Record(State(nodes, edges), State(ns, es), History, Fresh))
  /\ ns = [i \in DOMAIN ns |-> ns[i]]
  /\ \A i \in DOMAIN ns :
       ns[i].stamp \in {nodes[j].stamp : j \in DOMAIN nodes} \union {Fresh2, Fresh3}
  /\ nodeIdCounter' <= MaxId
  /\ UNCHANGED <<isTracking, dragged>>

\* what leaves the canvas and the history alone
Still ==
  /\ UNCHANGED <<graphVars, historyVars, nodeIdCounter>>
  /\ dragged'.on \in BOOLEAN /\ isTracking' = ~dragged'.on

LEMMA WriteIs ==
  ASSUME NEW ns, NEW es, Write(ns, es), ns = [i \in DOMAIN ns |-> ns[i]],
         \A i \in DOMAIN ns :
           ns[i].stamp \in {nodes[j].stamp : j \in DOMAIN nodes} \union {Fresh2, Fresh3},
         nodeIdCounter' <= MaxId, UNCHANGED <<isTracking, dragged>>
  PROVE  Written(ns, es)
<1>1. nodes' = ns /\ nodesById' = ns
  BY DEF Write, SetNodes, rebuildNodesById
<1>2. QED
  BY <1>1 DEF Write, Written

LEMMA WithIs ==
  ASSUME NEW ns, NEW i, NEW n
  PROVE  /\ With(ns, i, n) = [j \in DOMAIN With(ns, i, n) |-> With(ns, i, n)[j]]
         /\ \A j \in DOMAIN With(ns, i, n) :
              \/ j = i /\ With(ns, i, n)[j] = n
              \/ j \in DOMAIN ns /\ With(ns, i, n)[j] = ns[j]
BY DEF With

LEMMA NodeStamp == \A v, s, t : Node(v, s, t).stamp = t
BY DEF Node

(* Every step is a write, the deletion of a selection, an undo or a redo,  *)
(* or leaves the graph and the history alone.                              *)
LEMMA StepKinds ==
  ASSUME StoreInv, ObjectInv, [Next]_vars
  PROVE  \/ \E ns, es : Written(ns, es)
         \/ \E ids, es : onDelete(ids, es)
         \/ Undo \/ Redo \/ Still
<1> DEFINE Known == {nodes[j].stamp : j \in DOMAIN nodes} \union {Fresh2, Fresh3}
           Goal == \/ \E ns, es : Written(ns, es)
                   \/ \E ids, es : onDelete(ids, es)
                   \/ Undo \/ Redo \/ Still
<1>0. /\ nodesById = nodes /\ nodes = [i \in DOMAIN nodes |-> nodes[i]]
      /\ nodeIdCounter <= MaxId /\ MaxId \in Nat /\ nodeIdCounter \in Nat
      /\ dragged.on \in BOOLEAN /\ isTracking = ~dragged.on
  BY StoreAssumption DEF ObjectInv, StoreInv
<1>1. ASSUME NEW ns, NEW es, Write(ns, es), ns = [i \in DOMAIN ns |-> ns[i]],
             \A i \in DOMAIN ns : ns[i].stamp \in Known,
             nodeIdCounter' <= MaxId, UNCHANGED <<isTracking, dragged>>
      PROVE  Goal
  <2>1. Written(ns, es)
    BY <1>1, WriteIs
  <2>2. QED
    BY <2>1
<1>2. ASSUME NEW ns, NEW i, NEW n, NEW es, Write(With(ns, i, n), es),
             n.stamp \in Known, \A j \in DOMAIN ns : ns[j].stamp \in Known,
             nodeIdCounter' <= MaxId, UNCHANGED <<isTracking, dragged>>
      PROVE  Goal
  <2> DEFINE ms == With(ns, i, n)
  <2> HIDE DEF Known
  <2>1. ms = [j \in DOMAIN ms |-> ms[j]]
    BY WithIs
  <2>2. \A j \in DOMAIN ms : ms[j].stamp \in Known
    BY <1>2, WithIs
  <2> HIDE DEF ms, Goal
  <2>3. Write(ms, es)
    BY <1>2 DEF ms
  <2>4. QED
    BY <1>1, <1>2, <2>1, <2>2, <2>3
<1>3. \A j \in DOMAIN nodes : nodes[j].stamp \in Known
  OBVIOUS
<1>4. \A v, s : Node(v, s, Fresh2).stamp \in Known /\ Node(v, s, Fresh3).stamp \in Known
  BY NodeStamp
<1>5. Room /\ nodeIdCounter' = generateNodeId => nodeIdCounter' <= MaxId
  BY <1>0 DEF Room, generateNodeId
<1>6. UNCHANGED nodeIdCounter => nodeIdCounter' <= MaxId
  BY <1>0
<1> HIDE DEF Known, Goal
<1>7. ASSUME addNode PROVE Goal
  <2>1. /\ Room /\ nodeIdCounter' = generateNodeId
        /\ Write(With(nodes, generateNodeId, Node(NewVal, "idle", Fresh2)), edges)
        /\ UNCHANGED <<isTracking, dragged>>
    BY <1>7 DEF addNode
  <2>2. QED
    BY <1>2, <1>3, <1>4, <1>5, <2>1
<1>8. ASSUME NEW id, duplicateNode(id) PROVE Goal
  BY <1>2, <1>3, <1>4, <1>5, <1>8 DEF duplicateNode
<1>9. ASSUME NEW v, NEW s, handleLegacyPaste(v, s) PROVE Goal
  <2> DEFINE sel == Node(nodes[selectedNodeId].v, nodes[selectedNodeId].status, Fresh3)
             deselected == IF selectedNodeId \in DOMAIN nodes
                           THEN With(nodes, selectedNodeId, sel) ELSE nodes
  <2>1. \A j \in DOMAIN With(nodes, selectedNodeId, sel) :
          With(nodes, selectedNodeId, sel)[j].stamp \in Known
    <3>1. sel.stamp \in Known
      BY <1>4
    <3> HIDE DEF sel
    <3>2. QED
      BY <1>3, <3>1, WithIs
  <2>2. \A j \in DOMAIN deselected : deselected[j].stamp \in Known
    <3> HIDE DEF sel
    <3>1. QED
      BY <1>3, <2>1
  <2>3. /\ Room /\ nodeIdCounter' = generateNodeId
        /\ Write(With(deselected, generateNodeId, Node(v, s, Fresh2)), edges)
        /\ UNCHANGED <<isTracking, dragged>>
    BY <1>9 DEF handleLegacyPaste
  <2> HIDE DEF deselected
  <2>4. QED
    BY <1>2, <1>4, <1>5, <2>2, <2>3
<1>10. ASSUME NEW id, removeNode(id) PROVE Goal
  <2> DEFINE ns == [i \in DOMAIN nodes \ {id} |-> nodes[i]]
  <2>1. ns = [i \in DOMAIN ns |-> ns[i]] /\ \A i \in DOMAIN ns : ns[i].stamp \in Known
    BY <1>3
  <2>2. /\ Write(ns, EdgesWithin(DOMAIN nodes \ {id}, edges))
        /\ UNCHANGED <<isTracking, dragged, nodeIdCounter>>
    BY <1>10 DEF removeNode
  <2> HIDE DEF ns
  <2>3. QED
    BY <1>1, <1>6, <2>1, <2>2
<1>11. ASSUME NEW id, NEW v,
              updateNodeData(id, v) \/ updateNodeStatus(id, v) \/ onNodeDrag(id, v)
       PROVE  Goal
  BY <1>2, <1>3, <1>4, <1>6, <1>11 DEF updateNodeData, updateNodeStatus, onNodeDrag
<1>12. ASSUME selectAll PROVE Goal
  <2> DEFINE ns == [i \in DOMAIN nodes |-> Node(nodes[i].v, nodes[i].status, Fresh2)]
  <2>1. ns = [i \in DOMAIN ns |-> ns[i]] /\ \A i \in DOMAIN ns : ns[i].stamp \in Known
    BY <1>4
  <2>2. Write(ns, edges) /\ UNCHANGED <<isTracking, dragged, nodeIdCounter>>
    BY <1>12 DEF selectAll
  <2> HIDE DEF ns
  <2>3. QED
    BY <1>1, <1>6, <2>1, <2>2
<1>13. ASSUME NEW v, onLayout(v) PROVE Goal
  <2> DEFINE ns == [i \in DOMAIN nodes |-> Node(v, nodes[i].status, Fresh2)]
  <2>1. ns = [i \in DOMAIN ns |-> ns[i]] /\ \A i \in DOMAIN ns : ns[i].stamp \in Known
    BY <1>4
  <2>2. Write(ns, edges) /\ UNCHANGED <<isTracking, dragged, nodeIdCounter>>
    BY <1>13 DEF onLayout
  <2> HIDE DEF ns
  <2>3. QED
    BY <1>1, <1>6, <2>1, <2>2
<1>14. ASSUME NEW i, NEW j, onConnect(i, j) PROVE Goal
  <2>1. /\ nodes' = nodes /\ nodesById' = nodesById /\ nodeIdCounter' <= MaxId
        /\ UNCHANGED <<isTracking, dragged>>
        /\ SetHistory(Record(State(nodes, edges), State(nodes, edges'), History, Fresh))
    BY <1>6, <1>14 DEF onConnect
  <2>2. Written(nodes, edges')
    BY <1>0, <1>3, <2>1 DEF Written, Known
  <2>3. QED
    BY <2>2 DEF Goal
<1>15. ASSUME NEW f \in Files, importWorkflow(f) PROVE Goal
  <2> DEFINE ids == DOMAIN f.vals
             ns == [i \in ids |-> Node(f.vals[i], "idle", Fresh2)]
  <2>1. /\ Write(ns, f.edges) /\ RaiseCounter(ids) /\ UNCHANGED <<isTracking, dragged>>
        /\ \A i \in ids : i < MaxId
    BY <1>15 DEF importWorkflow
  <2>2. ns = [i \in DOMAIN ns |-> ns[i]] /\ \A i \in DOMAIN ns : ns[i].stamp \in Known
    BY <1>4
  <2>3. ids \subseteq 1..MaxId
    BY StoreAssumption
  <2> HIDE DEF ns, ids
  <2>4. nodeIdCounter' <= MaxId
    BY <1>0, <2>1, <2>3 DEF RaiseCounter
  <2>5. QED
    BY <1>1, <2>1, <2>2, <2>4
<1>16. ASSUME NEW id, setSelectedNode(id) PROVE Goal
  BY <1>0, <1>16 DEF setSelectedNode, Goal, Still
<1>17. ASSUME onNodeDragStart \/ onNodeDragStop PROVE Goal
  <2>1. UNCHANGED <<graphVars, historyVars, nodeIdCounter>>
    BY <1>17 DEF onNodeDragStart, onNodeDragStop
  <2>2. CASE onNodeDragStart
    <3>1. dragged'.on = TRUE /\ isTracking' = FALSE
      BY <2>2 DEF onNodeDragStart
    <3>2. QED
      BY <2>1, <3>1 DEF Goal, Still
  <2>3. CASE onNodeDragStop
    <3>1. dragged'.on = FALSE /\ isTracking' = TRUE
      BY <2>3 DEF onNodeDragStop, NoDrag
    <3>2. QED
      BY <2>1, <3>1 DEF Goal, Still
  <2>4. QED
    BY <1>17, <2>2, <2>3
<1>18. ASSUME UNCHANGED vars PROVE Goal
  BY <1>0, <1>18 DEF vars, Goal, Still
<1>19. ASSUME Undo \/ Redo PROVE Goal
  BY <1>19 DEF Goal
<1>20. ASSUME NEW ids, NEW es, onDelete(ids, es) PROVE Goal
  BY <1>20 DEF Goal
<1>21. Goal
  <2>1. CASE UNCHANGED vars
    BY <1>18, <2>1
  <2>2. CASE Next
    BY <1>7, <1>8, <1>9, <1>10, <1>11, <1>12, <1>13, <1>14, <1>15, <1>16,
       <1>17, <1>19, <1>20, <2>2, ZenonT(60) DEF Next
  <2>3. QED
    BY <2>1, <2>2
<1>22. QED
  BY <1>21 DEF Goal

LEMMA ObjectInitInv == Init => ObjectInv
<1> SUFFICES ASSUME Init PROVE ObjectInv
  OBVIOUS
<1>1. past = <<>> /\ future = <<>> /\ nodes = NoNodes /\ nodesById = NoNodes
      /\ nodeIdCounter = 0 /\ isTracking = TRUE /\ dragged.on = FALSE
  BY DEF Init, NoDrag
<1>2. Sequence(<<>>) /\ Len(<<>>) = 0 /\ DOMAIN <<>> = {}
  BY EmptyIs
<1>3. Distinct(<<>>) /\ StampsOf(<<>>) = {}
  BY <1>2 DEF Distinct, StampsOf
<1>4. Kept(past, future)
  BY <1>1, <1>2, <1>3, StoreAssumption DEF Kept
<1>5. nodes = [i \in DOMAIN nodes |-> nodes[i]] /\ DOMAIN nodes = {}
  BY <1>1 DEF NoNodes
<1>6. nodeIdCounter <= MaxId
  BY <1>1, StoreAssumption
<1>7. dragged.on \in BOOLEAN /\ isTracking = ~dragged.on
  BY <1>1
<1>8. nodesById = nodes
  BY <1>1
<1>9. QED
  BY <1>4, <1>5, <1>6, <1>7, <1>8 DEF ObjectInv

LEMMA ObjectStep == StoreInv /\ StoreInv' /\ ObjectInv /\ [Next]_vars => ObjectInv'
<1> SUFFICES ASSUME StoreInv, StoreInv', ObjectInv, [Next]_vars PROVE ObjectInv'
  OBVIOUS
<1>0. /\ nodesById = nodes /\ nodes = [i \in DOMAIN nodes |-> nodes[i]]
      /\ nodeIdCounter <= MaxId
      /\ dragged.on \in BOOLEAN /\ isTracking = ~dragged.on
      /\ Kept(past, future)
      /\ \A i \in DOMAIN nodes :
           nodes[i].stamp \notin StampsOf(past) \union StampsOf(future)
  BY DEF ObjectInv
<1>1. /\ \A t \in {Fresh, Fresh2, Fresh3} :
           /\ t \notin StampsOf(past) \union StampsOf(future)
           /\ \A i \in DOMAIN nodes : nodes[i].stamp # t
      /\ Fresh2 # Fresh /\ Fresh3 # Fresh
  BY FreshAre, InUseIs
<1>2. ASSUME NEW ns, NEW es, Written(ns, es) PROVE ObjectInv'
  <2> DEFINE h == Record(State(nodes, edges), State(ns, es),
                         [past |-> past, future |-> future], Fresh)
  <2>1. /\ Kept(h.past, h.future)
        /\ StampsOf(h.past) \union StampsOf(h.future)
             \subseteq StampsOf(past) \union StampsOf(future) \union {Fresh}
    BY <1>0, <1>1, KeptRecord
  <2>2. past' = h.past /\ future' = h.future
    BY <1>2 DEF Written, SetHistory, History
  <2> HIDE DEF h
  <2>3. /\ nodes' = ns /\ nodesById' = ns /\ ns = [i \in DOMAIN ns |-> ns[i]]
        /\ nodeIdCounter' <= MaxId /\ UNCHANGED <<isTracking, dragged>>
    BY <1>2 DEF Written
  <2>4. \A i \in DOMAIN ns : ns[i].stamp \notin
          StampsOf(past) \union StampsOf(future) \union {Fresh}
    BY <1>0, <1>1, <1>2 DEF Written
  <2>5. \A i \in DOMAIN nodes' :
          nodes'[i].stamp \notin StampsOf(past') \union StampsOf(future')
    BY <2>1, <2>2, <2>3, <2>4
  <2>6. Kept(past', future')
    BY <2>1, <2>2
  <2>7. QED
    BY <1>0, <2>3, <2>5, <2>6 DEF ObjectInv
<1>3. ASSUME NEW ids, NEW es, onDelete(ids, es) PROVE ObjectInv'
  <2> DEFINE left == [i \in DOMAIN nodes \ ids |-> nodes[i]]
             kept == EdgesWithin(DOMAIN left, edges \ es)
             first == Record(State(nodes, edges), State(nodes, kept),
                             [past |-> past, future |-> future], Fresh)
             second == Record(State(nodes, kept), State(left, kept), first, Fresh2)
  <2>1. /\ nodes' = left /\ nodesById' = left
        /\ past' = second.past /\ future' = second.future
        /\ UNCHANGED <<isTracking, dragged, nodeIdCounter>>
    BY <1>3 DEF onDelete, SetNodes, SetHistory, History, rebuildNodesById
  <2>2. left = [i \in DOMAIN left |-> left[i]]
        /\ \A i \in DOMAIN left : i \in DOMAIN nodes /\ left[i] = nodes[i]
    OBVIOUS
  <2>3. /\ Kept(first.past, first.future)
        /\ StampsOf(first.past) \union StampsOf(first.future)
             \subseteq StampsOf(past) \union StampsOf(future) \union {Fresh}
    BY <1>0, <1>1, KeptRecord
  <2>4. first = [past |-> first.past, future |-> first.future]
    BY DEF Record, Saved
  <2> HIDE DEF left, kept, first
  <2>5. Fresh2 \notin StampsOf(first.past) \union StampsOf(first.future)
    BY <1>1, <2>3
  <2>6. /\ Kept(second.past, second.future)
        /\ StampsOf(second.past) \union StampsOf(second.future)
             \subseteq StampsOf(first.past) \union StampsOf(first.future) \union {Fresh2}
    BY <2>3, <2>4, <2>5, KeptRecord
  <2> HIDE DEF second
  <2>7. \A i \in DOMAIN nodes' :
          nodes'[i].stamp \notin StampsOf(past') \union StampsOf(future')
    BY <1>0, <1>1, <2>1, <2>2, <2>3, <2>6
  <2>8. Kept(past', future')
    BY <2>1, <2>6
  <2>9. QED
    BY <1>0, <2>1, <2>2, <2>7, <2>8 DEF ObjectInv
<1>4. ASSUME NEW p, NEW f, Kept(p, f), p # <<>>, GoodSeq(p, nodeIdCounter),
             \A i \in DOMAIN nodes : nodes[i].stamp \notin StampsOf(p) \union StampsOf(f),
             Fresh \notin StampsOf(p) \union StampsOf(f),
             SetNodes(Restored(Last(p)), nodesById)
      PROVE  /\ nodesById' = nodes' /\ nodes' = [i \in DOMAIN nodes' |-> nodes'[i]]
             /\ Kept(Front(p), Append(f, Partialize(nodes, edges, Fresh)))
             /\ \A i \in DOMAIN nodes' : nodes'[i].stamp \notin
                  StampsOf(Front(p))
                    \union StampsOf(Append(f, Partialize(nodes, edges, Fresh)))
  <2> DEFINE s == Last(p)
             g == Append(f, Partialize(nodes, edges, Fresh))
  <2>1. /\ Kept(Front(p), g) /\ Functional(s) /\ s.stamp \in StampsOf(p)
        /\ s.stamp \notin StampsOf(Front(p)) \union StampsOf(g)
    BY <1>4, KeptMoves
  <2>2. DOMAIN s.vals \subseteq Nat
    <3>1. GoodSnap(s, nodeIdCounter)
      BY <1>4, GoodEnds
    <3>2. QED
      BY <3>1 DEF GoodSnap, Good
  <2>3. IsFiniteSet(DOMAIN nodes)
    <3>1. DOMAIN nodes \subseteq 1..nodeIdCounter /\ nodeIdCounter \in Nat
      BY DEF StoreInv, Good
    <3>2. IsFiniteSet(1..nodeIdCounter)
      BY <3>1, FS_Interval
    <3>3. QED
      BY <3>1, <3>2, FS_Subset
  <2> HIDE DEF s, g
  <2>4. \A i \in DOMAIN nodes : nodes[i].stamp # s.stamp
    BY <1>4, <2>1
  <2>5. Consistent(nodes, Restored(s)) => nodes = Restored(s)
    BY <1>0, <2>1, <2>2, <2>3, <2>4, StaleIsSeen
  <2>6. nodes' = Restored(s) /\ (nodesById' = nodesById \/ nodesById' = rebuildNodesById(nodes'))
        /\ (nodesById' = nodesById => nodesById' = Restored(s) \/ nodesById' = rebuildNodesById(nodes'))
    BY <1>0, <1>4, <2>5 DEF SetNodes, s
  <2>7. Restored(s) = [i \in DOMAIN Restored(s) |-> Restored(s)[i]]
        /\ \A i \in DOMAIN Restored(s) : Restored(s)[i].stamp = s.stamp
    BY DEF Restored, Node
  <2>8. nodesById' = nodes' /\ nodes' = [i \in DOMAIN nodes' |-> nodes'[i]]
    BY <2>6, <2>7 DEF rebuildNodesById
  <2>9. \A i \in DOMAIN nodes' : nodes'[i].stamp \notin StampsOf(Front(p)) \union StampsOf(g)
    BY <2>1, <2>6, <2>7
  <2>10. QED
    BY <2>1, <2>8, <2>9 DEF g
<1>5. GoodSeq(past, nodeIdCounter) /\ GoodSeq(future, nodeIdCounter)
  BY DEF StoreInv
<1>6. CASE Undo
  <2>1. /\ past # <<>> /\ SetNodes(Restored(Last(past)), nodesById)
        /\ past' = Front(past)
        /\ future' = Append(future, Partialize(nodes, edges, Fresh))
        /\ UNCHANGED <<isTracking, nodeIdCounter, dragged>>
    BY <1>6 DEF Undo
  <2>2. /\ nodesById' = nodes' /\ nodes' = [i \in DOMAIN nodes' |-> nodes'[i]]
        /\ Kept(past', future')
        /\ \A i \in DOMAIN nodes' :
             nodes'[i].stamp \notin StampsOf(past') \union StampsOf(future')
    BY <1>0, <1>1, <1>4, <1>5, <2>1
  <2>3. QED
    BY <1>0, <2>1, <2>2 DEF ObjectInv
<1>7. CASE Redo
  <2>1. /\ future # <<>> /\ SetNodes(Restored(Last(future)), nodesById)
        /\ future' = Front(future)
        /\ past' = Append(past, Partialize(nodes, edges, Fresh))
        /\ UNCHANGED <<isTracking, nodeIdCounter, dragged>>
    BY <1>7 DEF Redo
  <2>2. Kept(future, past)
    BY <1>0, KeptSwap
  <2>3. /\ nodesById' = nodes' /\ nodes' = [i \in DOMAIN nodes' |-> nodes'[i]]
        /\ Kept(future', past')
        /\ \A i \in DOMAIN nodes' :
             nodes'[i].stamp \notin StampsOf(future') \union StampsOf(past')
    BY <1>0, <1>1, <1>4, <1>5, <2>1, <2>2
  <2>4. Kept(past', future')
    BY <2>3, KeptSwap
  <2>5. QED
    BY <1>0, <2>1, <2>3, <2>4 DEF ObjectInv
<1>8. CASE Still
  BY <1>0, <1>8 DEF Still, ObjectInv, graphVars, historyVars
<1>9. QED
  BY <1>2, <1>3, <1>6, <1>7, <1>8, StepKinds

(* ObjectInv holds in every state. *)
THEOREM ObjectInvariance == Spec => []ObjectInv
<1>1. Init => StoreInv /\ ObjectInv
  BY StoreInitInv, ObjectInitInv
<1>2. StoreInv /\ ObjectInv /\ [Next]_vars => (StoreInv /\ ObjectInv)'
  BY StoreStep, ObjectStep
<1>3. QED
  BY <1>1, <1>2, PTL DEF Spec

(* Whoever looks a node up by its id finds the object that is on the       *)
(* canvas, and no snapshot of the history shares an object with it: a node *)
(* restored by undo or redo is always noticed by the subscriber.           *)
(* (workflowStore.ts 43-51, 305-312)                                       *)
THEOREM CacheIsTrue == Spec => []CacheAgrees
<1>1. ObjectInv => CacheAgrees
  BY DEF ObjectInv, CacheAgrees, Snapshots, StampsOf
<1>2. QED
  BY ObjectInvariance, <1>1, PTL

-----------------------------------------------------------------------------
(* The line that undo and redo move along, entry by entry.                 *)

PlainOne(s) == [vals |-> s.vals, edges |-> s.edges]

Line(p, c, f) ==
  Plain(p) \o <<c>> \o [k \in DOMAIN f |-> Plain(f)[Len(f) + 1 - k]]

Spot(p, c, f, i) ==
  IF i <= Len(p) THEN PlainOne(p[i])
  ELSE IF i = Len(p) + 1 THEN c
  ELSE PlainOne(f[Len(p) + Len(f) + 2 - i])

LEMMA FunctionIsSequence ==
  ASSUME NEW n \in Nat, NEW S, NEW h \in [1..n -> S]
  PROVE  h \in Seq(S) /\ Len(h) = n
<1>1. h \in Seq(S)
  BY SeqDef
<1>2. Len(h) \in Nat /\ 1..Len(h) = 1..n
  BY <1>1, LenProperties
<1>3. Len(h) = n
  <2>1. \A m \in Nat : 1..m = 1..n => m = n
    <3> SUFFICES ASSUME NEW m \in Nat, 1..m = 1..n PROVE m = n
      OBVIOUS
    <3>1. m <= n
      <4>1. CASE m = 0
        BY <4>1
      <4>2. CASE m # 0
        BY <4>2
      <4>3. QED
        BY <4>1, <4>2
    <3>2. n <= m
      <4>1. CASE n = 0
        BY <4>1
      <4>2. CASE n # 0
        BY <4>2
      <4>3. QED
        BY <4>1, <4>2
    <3>3. QED
      BY <3>1, <3>2
  <2>2. QED
    BY <1>2, <2>1
<1>4. QED
  BY <1>1, <1>3

LEMMA LineIs ==
  ASSUME NEW p, NEW f, NEW c, Sequence(p), Sequence(f)
  PROVE  /\ Line(p, c, f) =
               [i \in 1..(Len(p) + 1 + Len(f)) |-> Spot(p, c, f, i)]
         /\ Len(Line(p, c, f)) = Len(p) + 1 + Len(f)
<1> DEFINE n == Len(p)
           m == Len(f)
           A == Plain(p)
           B == <<c>>
           C == [k \in DOMAIN f |-> Plain(f)[m + 1 - k]]
           T == {A[k] : k \in 1..n} \union {c} \union {C[k] : k \in 1..m}
<1>1. n \in Nat /\ DOMAIN p = 1..n /\ m \in Nat /\ DOMAIN f = 1..m
  BY SequenceIs
<1>2. /\ A = [k \in 1..n |-> PlainOne(p[k])]
      /\ C = [k \in 1..m |-> PlainOne(f[m + 1 - k])]
  <2>1. \A k \in 1..m : m + 1 - k \in 1..m
    BY <1>1
  <2>2. \A k \in 1..m : Plain(f)[m + 1 - k] = PlainOne(f[m + 1 - k])
    BY <1>1, <2>1 DEF Plain, PlainOne
  <2>3. C = [k \in 1..m |-> PlainOne(f[m + 1 - k])]
    BY <1>1, <2>2
  <2>4. QED
    BY <1>1, <2>3 DEF Plain, PlainOne
<1> HIDE DEF n, m, A, C
<1>3. A \in [1..n -> T] /\ C \in [1..m -> T] /\ c \in T
  <2>1. A = [k \in 1..n |-> A[k]] /\ C = [k \in 1..m |-> C[k]]
    BY <1>2
  <2>2. QED
    BY <2>1
<1> HIDE DEF T
<1>4. /\ A \in Seq(T) /\ Len(A) = n
      /\ C \in Seq(T) /\ Len(C) = m
      /\ B \in Seq(T) /\ Len(B) = 1 /\ B[1] = c
  BY <1>1, <1>3, FunctionIsSequence
<1> HIDE DEF B
<1>5. /\ A \o B \in Seq(T) /\ Len(A \o B) = n + 1
      /\ \A i \in 1..(n + 1) : (A \o B)[i] = IF i <= n THEN A[i] ELSE B[i - n]
  <2>1. /\ A \o B \in Seq(T) /\ Len(A \o B) = Len(A) + Len(B)
        /\ \A i \in 1..(Len(A) + Len(B)) :
             (A \o B)[i] = IF i <= Len(A) THEN A[i] ELSE B[i - Len(A)]
    BY <1>4, ConcatProperties
  <2>2. QED
    BY <1>4, <2>1
<1> DEFINE AB == A \o B
           L == AB \o C
<1> HIDE DEF AB
<1>6. AB \in Seq(T) /\ Len(AB) = n + 1
      /\ \A i \in 1..(n + 1) : AB[i] = IF i <= n THEN A[i] ELSE B[i - n]
  BY <1>5 DEF AB
<1>7. /\ L \in Seq(T) /\ Len(L) = (n + 1) + m
      /\ \A i \in 1..((n + 1) + m) :
           L[i] = IF i <= n + 1 THEN AB[i] ELSE C[i - (n + 1)]
  <2>1. /\ L \in Seq(T) /\ Len(L) = Len(AB) + Len(C)
        /\ \A i \in 1..(Len(AB) + Len(C)) :
             L[i] = IF i <= Len(AB) THEN AB[i] ELSE C[i - Len(AB)]
    <3>1. AB \in Seq(T) /\ C \in Seq(T)
      BY <1>4, <1>6
    <3>2. QED
      BY <3>1, ConcatProperties
  <2> HIDE DEF L
  <2>2. QED
    BY <1>4, <1>6, <2>1
<1> HIDE DEF L
<1>8. ASSUME NEW i \in 1..((n + 1) + m) PROVE L[i] = Spot(p, c, f, i)
  <2>0. i \in Int
    OBVIOUS
  <2>1. CASE i <= n
    <3>1. i \in 1..(n + 1) /\ i <= n + 1 /\ i \in 1..n
      BY <1>1, <2>1
    <3>2. L[i] = A[i]
      BY <1>6, <1>7, <2>1, <3>1
    <3>3. QED
      BY <1>2, <2>1, <3>1, <3>2 DEF Spot, n
  <2>2. CASE i = n + 1
    <3>1. i \in 1..(n + 1) /\ i <= n + 1 /\ ~(i <= n) /\ i - n = 1
      BY <1>1, <2>2
    <3>2. L[i] = c
      BY <1>4, <1>6, <1>7, <3>1
    <3>3. QED
      BY <2>2, <3>1, <3>2 DEF Spot, n
  <2>3. CASE i > n + 1
    <3>1. /\ ~(i <= n + 1) /\ ~(i <= n) /\ i # n + 1 /\ i - (n + 1) \in 1..m
          /\ m + 1 - (i - (n + 1)) = n + m + 2 - i
      BY <1>1, <2>3
    <3>2. L[i] = C[i - (n + 1)]
      BY <1>7, <3>1
    <3>3. L[i] = PlainOne(f[n + m + 2 - i])
      BY <1>2, <3>1, <3>2
    <3>4. QED
      BY <3>1, <3>3 DEF Spot, n, m
  <2>4. QED
    BY <1>1, <2>0, <2>1, <2>2, <2>3
<1>9. Line(p, c, f) = L
  BY DEF Line, L, AB, A, B, C, m
<1>10. DOMAIN L = 1..((n + 1) + m) /\ L = [i \in DOMAIN L |-> L[i]]
  BY <1>7, LenProperties
<1>11. L = [i \in 1..((n + 1) + m) |-> Spot(p, c, f, i)]
  BY <1>8, <1>10
<1>12. (n + 1) + m = Len(p) + 1 + Len(f)
  BY DEF n, m
<1>13. QED
  BY <1>7, <1>9, <1>11, <1>12

(* One step back along the line. *)
LEMMA LineBack ==
  ASSUME NEW p, NEW f, NEW s, Sequence(p), Sequence(f), p # <<>>
  PROVE  Line(Front(p), PlainOne(Last(p)), Append(f, s)) = Line(p, PlainOne(s), f)
<1> DEFINE q == Front(p)
           g == Append(f, s)
           n == Len(p)
           m == Len(f)
           c == PlainOne(s)
           d == PlainOne(Last(p))
<1>1. n \in Nat /\ n >= 1 /\ m \in Nat
  BY SequenceIs
<1>2. /\ Sequence(q) /\ Len(q) = n - 1
      /\ \A k \in 1..(n - 1) : q[k] = p[k]
  BY FrontIs
<1>3. /\ Sequence(g) /\ Len(g) = m + 1
      /\ \A k \in 1..m : g[k] = f[k]
      /\ g[m + 1] = s
  BY AppendIs
<1>4. d = PlainOne(p[n])
  BY DEF Last
<1>5. /\ Line(q, d, g) = [i \in 1..(Len(q) + 1 + Len(g)) |-> Spot(q, d, g, i)]
      /\ Line(p, c, f) = [i \in 1..(n + 1 + m) |-> Spot(p, c, f, i)]
  <2> HIDE DEF q, g, c, d
  <2>1. Line(q, d, g) = [i \in 1..(Len(q) + 1 + Len(g)) |-> Spot(q, d, g, i)]
    BY <1>2, <1>3, LineIs
  <2>2. Line(p, c, f) = [i \in 1..(n + 1 + m) |-> Spot(p, c, f, i)]
    BY LineIs
  <2>3. QED
    BY <2>1, <2>2
<1> HIDE DEF q, g, c, d
<1>6. Len(q) + 1 + Len(g) = n + 1 + m
  BY <1>1, <1>2, <1>3
<1>7. ASSUME NEW i \in 1..(n + 1 + m) PROVE Spot(q, d, g, i) = Spot(p, c, f, i)
  <2>1. Len(q) + 1 = n /\ Len(q) + Len(g) + 2 - i = n + m + 2 - i
    BY <1>1, <1>2, <1>3
  <2>2. Spot(q, d, g, i) = IF i <= n - 1 THEN PlainOne(q[i])
                           ELSE IF i = n THEN d
                           ELSE PlainOne(g[n + m + 2 - i])
    BY <1>2, <2>1 DEF Spot
  <2>3. Spot(p, c, f, i) = IF i <= n THEN PlainOne(p[i])
                           ELSE IF i = n + 1 THEN c
                           ELSE PlainOne(f[n + m + 2 - i])
    BY DEF Spot
  <2>4. i \in Int /\ i >= 1 /\ i <= n + 1 + m
    BY <1>1
  <2> HIDE DEF n, m
  <2>5. CASE i <= n - 1
    <3>1. i <= n /\ i \in 1..(n - 1)
      BY <1>1, <2>4, <2>5
    <3>2. QED
      BY <1>2, <2>2, <2>3, <2>5, <3>1
  <2>6. CASE i = n
    <3>1. i <= n /\ ~(i <= n - 1)
      BY <1>1, <2>6
    <3>2. QED
      BY <1>4, <2>2, <2>3, <2>6, <3>1
  <2>7. CASE i = n + 1
    <3>1. ~(i <= n) /\ ~(i <= n - 1) /\ i # n /\ n + m + 2 - i = m + 1
      BY <1>1, <2>7
    <3>2. QED
      BY <1>3, <2>2, <2>3, <2>7, <3>1 DEF c
  <2>8. CASE i > n + 1
    <3>1. ~(i <= n) /\ ~(i <= n - 1) /\ i # n /\ i # n + 1 /\ n + m + 2 - i \in 1..m
      BY <1>1, <2>4, <2>8
    <3>2. QED
      BY <1>3, <2>2, <2>3, <3>1
  <2>9. QED
    BY <1>1, <2>4, <2>5, <2>6, <2>7, <2>8
<1>8. Line(q, d, g) = Line(p, c, f)
  BY <1>5, <1>6, <1>7
<1>9. QED
  BY <1>8 DEF q, d, g, c

(* And one step forth. *)
LEMMA LineForth ==
  ASSUME NEW p, NEW f, NEW s, Sequence(p), Sequence(f), f # <<>>
  PROVE  Line(Append(p, s), PlainOne(Last(f)), Front(f)) = Line(p, PlainOne(s), f)
<1> DEFINE q == Append(p, s)
           g == Front(f)
<1>1. Len(p) \in Nat /\ p = [k \in 1..Len(p) |-> p[k]]
      /\ Len(f) \in Nat /\ Len(f) >= 1 /\ f = [k \in 1..Len(f) |-> f[k]]
  BY SequenceIs
<1>2. /\ Sequence(q) /\ Len(q) = Len(p) + 1 /\ q[Len(p) + 1] = s
      /\ \A k \in 1..Len(p) : q[k] = p[k]
  BY AppendIs
<1>3. q # <<>>
  BY <1>1, <1>2, SequenceIs
<1>4. /\ Sequence(g) /\ Len(g) = Len(f) - 1
      /\ \A k \in 1..(Len(f) - 1) : g[k] = f[k]
  BY FrontIs
<1>5. Front(q) = p
  <2>1. /\ Sequence(Front(q)) /\ Len(Front(q)) = Len(q) - 1
        /\ \A k \in 1..(Len(q) - 1) : Front(q)[k] = q[k]
    BY <1>2, <1>3, FrontIs
  <2>2. Front(q) = [k \in 1..Len(Front(q)) |-> Front(q)[k]]
    BY <2>1, SequenceIs
  <2>3. Len(q) - 1 = Len(p)
    BY <1>1, <1>2
  <2> HIDE DEF q
  <2>4. QED
    BY <1>1, <1>2, <2>1, <2>2, <2>3
<1>6. Last(q) = s
  BY <1>2 DEF Last
<1>7. Append(g, Last(f)) = f
  <2> DEFINE h == Append(g, Last(f))
  <2>1. /\ Sequence(h) /\ Len(h) = Len(g) + 1
        /\ \A k \in 1..Len(g) : h[k] = g[k]
        /\ h[Len(g) + 1] = Last(f)
    BY <1>4, AppendIs
  <2>2. h = [k \in 1..Len(h) |-> h[k]]
    BY <2>1, SequenceIs
  <2>3. Len(g) + 1 = Len(f)
    BY <1>1, <1>4
  <2> HIDE DEF h, g
  <2>4. ASSUME NEW k \in 1..Len(f) PROVE h[k] = f[k]
    <3>1. k = Len(f) \/ k \in 1..(Len(f) - 1)
      BY <1>1
    <3>2. QED
      BY <1>4, <2>1, <2>3, <3>1 DEF Last
  <2>5. h = f
    BY <1>1, <2>1, <2>2, <2>3, <2>4
  <2>6. QED
    BY <2>5 DEF h
<1>8. Line(Front(q), PlainOne(Last(q)), Append(g, Last(f)))
        = Line(q, PlainOne(Last(f)), g)
  BY <1>2, <1>3, <1>4, LineBack
<1>9. QED
  BY <1>5, <1>6, <1>7, <1>8

-----------------------------------------------------------------------------
(* What a record does to the line up to the present version.               *)

\* the k-th version, c being the one after all of p
Ext(p, c, k) == IF k <= Len(p) THEN PlainOne(p[k]) ELSE c

Lost(p) == IF Len(p) >= Limit THEN 1 ELSE 0

LEMMA RecordAdds ==
  ASSUME NEW p, NEW f, Kept(p, f), NEW ns, NEW es, NEW ms, NEW ds, NEW t,
         isTracking, Authored(ns, es) # Authored(ms, ds)
  PROVE  LET h == Record(State(ns, es), State(ms, ds),
                         [past |-> p, future |-> f], t) IN
         /\ h.future = <<>>
         /\ Len(h.past) = Len(p) + 1 - Lost(p)
         /\ \A k \in 1..Len(h.past) :
              PlainOne(h.past[k]) = Ext(p, Authored(ns, es), k + Lost(p))
<1> DEFINE old == [past |-> p, future |-> f]
           room == IF Len(p) >= Limit THEN Tail(p) ELSE p
           snap == Partialize(ns, es, t)
           h == Record(State(ns, es), State(ms, ds), old, t)
           c == Authored(ns, es)
<1>1. /\ Sequence(p) /\ Len(p) \in Nat /\ Limit \in Nat /\ Limit >= 2
  BY SequenceIs, StoreAssumption DEF Kept
<1>2. /\ Sequence(room) /\ Len(room) = Len(p) - Lost(p) /\ Lost(p) \in {0, 1}
      /\ \A k \in 1..Len(room) : room[k] = p[k + Lost(p)]
  <2>1. CASE Len(p) >= Limit
    <3>1. p # <<>> /\ Lost(p) = 1 /\ room = Tail(p)
      BY <1>1, <2>1, SequenceIs DEF Lost
    <3> HIDE DEF room
    <3>2. /\ Sequence(room) /\ Len(room) = Len(p) - 1
          /\ \A k \in 1..(Len(p) - 1) : room[k] = p[k + 1]
      BY <1>1, <3>1, TailIs
    <3>3. QED
      BY <3>1, <3>2
  <2>2. CASE ~(Len(p) >= Limit)
    <3>1. Lost(p) = 0 /\ room = p
      BY <2>2 DEF Lost
    <3> HIDE DEF room
    <3>2. \A k \in 1..Len(p) : k + 0 = k
      BY <1>1
    <3>3. QED
      BY <1>1, <3>1, <3>2
  <2>3. QED
    BY <2>1, <2>2
<1>3. h.past = Append(room, snap) /\ h.future = <<>>
  BY DEF Record, Saved, State
<1>4. PlainOne(snap) = c
  BY PartializeIs DEF PlainOne
<1> HIDE DEF h, room, snap, c
<1>5. /\ Len(h.past) = Len(room) + 1
      /\ \A k \in 1..Len(room) : h.past[k] = room[k]
      /\ h.past[Len(room) + 1] = snap
  BY <1>2, <1>3, AppendIs
<1>6. Len(room) \in Nat
  BY <1>2, SequenceIs
<1>7. ASSUME NEW k \in 1..Len(h.past) PROVE PlainOne(h.past[k]) = Ext(p, c, k + Lost(p))
  <2>1. CASE k \in 1..Len(room)
    <3>1. h.past[k] = p[k + Lost(p)] /\ k + Lost(p) <= Len(p)
      BY <1>1, <1>2, <1>5, <2>1
    <3>2. QED
      BY <3>1 DEF Ext
  <2>2. CASE k = Len(room) + 1
    <3>1. ~(k + Lost(p) <= Len(p)) /\ h.past[k] = snap
      BY <1>1, <1>2, <1>5, <2>2
    <3>2. QED
      BY <1>4, <3>1 DEF Ext
  <2>3. QED
    BY <1>5, <1>6, <2>1, <2>2
<1>8. Len(h.past) = Len(p) + 1 - Lost(p)
  BY <1>1, <1>2, <1>5
<1>9. QED
  BY <1>3, <1>7, <1>8 DEF h, c

LEMMA RecordLeaves ==
  ASSUME NEW h, NEW ns, NEW es, NEW ms, NEW ds, NEW t,
         ~isTracking \/ Authored(ns, es) = Authored(ms, ds)
  PROVE  Record(State(ns, es), State(ms, ds), h, t) = h
BY DEF Record, State

LEMMA LineStarts ==
  ASSUME NEW p, NEW f, NEW c, Sequence(p), Sequence(f), NEW k \in 1..(Len(p) + 1)
  PROVE  Line(p, c, f)[k] = Ext(p, c, k)
<1>1. Len(p) \in Nat /\ Len(f) \in Nat
  BY SequenceIs
<1>2. k \in 1..(Len(p) + 1 + Len(f)) /\ (k <= Len(p) \/ k = Len(p) + 1)
  BY <1>1
<1>3. Line(p, c, f)[k] = Spot(p, c, f, k)
  BY <1>2, LineIs
<1>4. k = Len(p) + 1 => ~(k <= Len(p))
  BY <1>1
<1>5. QED
  BY <1>2, <1>3, <1>4 DEF Spot, Ext

-----------------------------------------------------------------------------
(* The steps of WorkflowStore are steps of EditHistory.                    *)

LEMMA LineIsTimeline ==
  /\ Timeline = Line(past, Current, future)
  /\ Timeline' = Line(past', Current', future')
BY DEF Timeline, Line

LEMMA RoomIs ==
  ASSUME NEW p \in Nat, NEW q \in Nat, NEW n \in {1, 2}, NEW l \in Nat, NEW o \in Nat,
         q + 1 = p + 1 + n - o,
         o = IF p + 1 + n > l + 1 THEN p + 1 + n - (l + 1) ELSE 0,
         NEW r, r = IF p + 1 + n > l + 1 THEN l + 1 ELSE p + 1 + n
  PROVE  p + 1 \in Nat /\ r = q + 1 /\ p + 1 + n - r = o
<1>1. CASE p + 1 + n > l + 1
  BY <1>1
<1>2. CASE ~(p + 1 + n > l + 1)
  BY <1>2
<1>3. QED
  BY <1>1, <1>2

(* An edit or two that were recorded. *)
LEMMA EditIs ==
  ASSUME Kept(past, future), Kept(past', future'), future' = <<>>,
         dragged.on = FALSE, UNCHANGED dragged, Current' # Current,
         NEW n \in {1, 2}, NEW lost \in Nat,
         Len(past') + 1 = Len(past) + 1 + n - lost,
         lost = IF Len(past) + 1 + n > Limit + 1
                THEN Len(past) + 1 + n - (Limit + 1) ELSE 0,
         \A k \in 1..(Len(past') + 1 - n) :
           PlainOne(past'[k]) = Ext(past, Current, k + lost)
  PROVE  Editing!Edit(n)
<1>1. /\ Sequence(past) /\ Sequence(future) /\ Sequence(past') /\ Sequence(future')
      /\ Len(past) \in Nat /\ Len(past') \in Nat /\ Limit \in Nat /\ Limit >= 2
  <2>1. Sequence(past) /\ Sequence(future) /\ Sequence(past') /\ Sequence(future')
    BY DEF Kept
  <2>2. Len(past) \in Nat /\ Len(past') \in Nat
    BY <2>1, SequenceIs
  <2>3. Limit \in Nat /\ Limit >= 2
    BY StoreAssumption
  <2>4. QED
    BY <2>1, <2>2, <2>3
<1> DEFINE at == Len(past) + 1
           whole == at + n
           room == IF whole > Limit + 1 THEN Limit + 1 ELSE whole
<1>2. at \in Nat /\ room = Len(past') + 1 /\ whole - room = lost
  <2> DEFINE p == Len(past)
             q == Len(past')
             l == Limit
  <2>1. /\ p \in Nat /\ q \in Nat /\ l \in Nat /\ n \in {1, 2} /\ lost \in Nat
        /\ q + 1 = p + 1 + n - lost
        /\ lost = IF p + 1 + n > l + 1 THEN p + 1 + n - (l + 1) ELSE 0
    BY <1>1
  <2>2. /\ at = p + 1 /\ whole = p + 1 + n
        /\ room = IF p + 1 + n > l + 1 THEN l + 1 ELSE p + 1 + n
    OBVIOUS
  <2>3. q + 1 = Len(past') + 1
    OBVIOUS
  <2> HIDE DEF p, q, l, at, whole, room
  <2>4. p + 1 \in Nat /\ room = q + 1 /\ p + 1 + n - room = lost
    BY <2>1, <2>2, RoomIs
  <2>5. QED
    BY <2>2, <2>3, <2>4
<1>3. Len(Timeline') = room
  <2>1. Len(Timeline') = Len(past') + 1 + Len(future')
    BY <1>1, LineIs, LineIsTimeline
  <2>2. Len(future') = 0
    BY EmptyIs
  <2> HIDE DEF room
  <2>3. QED
    BY <1>1, <1>2, <2>1, <2>2
<1>4. Timeline'[room] = Current' /\ Timeline[at] = Current
  <2>1. /\ Len(past') + 1 \in 1..(Len(past') + 1) /\ ~(Len(past') + 1 <= Len(past'))
        /\ at \in 1..(Len(past) + 1) /\ ~(at <= Len(past))
    BY <1>1
  <2> HIDE DEF room, at
  <2>2. Timeline'[Len(past') + 1] = Ext(past', Current', Len(past') + 1)
    BY <1>1, <2>1, LineStarts, LineIsTimeline
  <2>3. Timeline[at] = Ext(past, Current, at)
    BY <1>1, <2>1, LineStarts, LineIsTimeline
  <2>4. QED
    BY <1>2, <2>1, <2>2, <2>3 DEF Ext
<1>5. ASSUME NEW k \in 1..(room - n) PROVE Timeline'[k] = Timeline[k + lost]
  <2>1. /\ k \in 1..(Len(past') + 1 - n) /\ k \in 1..(Len(past') + 1)
        /\ k <= Len(past') /\ k + lost \in 1..(Len(past) + 1)
    BY <1>1, <1>2
  <2>2. Timeline'[k] = Ext(past', Current', k)
    BY <1>1, <2>1, LineStarts, LineIsTimeline
  <2>3. Timeline[k + lost] = Ext(past, Current, k + lost)
    BY <1>1, <2>1, LineStarts, LineIsTimeline
  <2>4. Ext(past', Current', k) = PlainOne(past'[k])
    BY <2>1 DEF Ext
  <2>5. QED
    BY <2>1, <2>2, <2>3, <2>4
<1> HIDE DEF room, whole, at
<1>6. Timeline'[room] # Timeline[at]
  BY <1>4
<1>7. /\ ~dragged.on /\ UNCHANGED dragged.on /\ Len(past') + 1 = room
      /\ Len(Timeline') = room
      /\ \A k \in 1..(room - n) : Timeline'[k] = Timeline[k + (whole - room)]
  BY <1>2, <1>3, <1>5
<1>8. QED
  BY <1>6, <1>7 DEF Editing!Edit, room, whole, at

LEMMA LostIs ==
  ASSUME NEW p, Sequence(p), Len(p) <= Limit
  PROVE  /\ Lost(p) \in Nat /\ Len(p) \in Nat /\ Limit \in Nat /\ Limit >= 2
         /\ (Len(p) = Limit /\ Lost(p) = 1) \/ (Len(p) < Limit /\ Lost(p) = 0)
<1>1. Len(p) \in Nat
  BY SequenceIs
<1>2. Limit \in Nat /\ Limit >= 2
  BY StoreAssumption
<1>3. QED
  BY <1>1, <1>2 DEF Lost

LEMMA KeptFits ==
  ASSUME NEW p, NEW f, Kept(p, f)
  PROVE  Sequence(p) /\ Len(p) <= Limit
<1>1. Sequence(p) /\ Sequence(f) /\ Len(p) + Len(f) <= Limit
  BY DEF Kept
<1>2. Len(p) \in Nat /\ Len(f) \in Nat
  BY <1>1, SequenceIs
<1>3. Limit \in Nat
  BY StoreAssumption
<1>4. QED
  BY <1>1, <1>2, <1>3

LEMMA EditOnce ==
  ASSUME Kept(past, future), Kept(past', future'), future' = <<>>,
         dragged.on = FALSE, UNCHANGED dragged, Current' # Current,
         Len(past') = Len(past) + 1 - Lost(past),
         \A k \in 1..Len(past') : PlainOne(past'[k]) = Ext(past, Current, k + Lost(past))
  PROVE  Editing!Edit(1)
<1> DEFINE lost == Lost(past)
<1>1. Sequence(past) /\ Len(past) <= Limit /\ Sequence(past')
  BY KeptFits
<1>2. /\ lost \in Nat /\ Len(past) \in Nat /\ Limit \in Nat
      /\ (Len(past) = Limit /\ lost = 1) \/ (Len(past) < Limit /\ lost = 0)
  BY <1>1, LostIs
<1>3. Len(past') \in Nat
  BY <1>1, SequenceIs
<1>4. /\ Len(past') = Len(past) + 1 - lost
      /\ \A k \in 1..Len(past') : PlainOne(past'[k]) = Ext(past, Current, k + lost)
  OBVIOUS
<1> HIDE DEF lost
<1>5. Len(past') + 1 = Len(past) + 1 + 1 - lost /\ Len(past') + 1 - 1 = Len(past')
  BY <1>2, <1>3, <1>4
<1>6. lost = IF Len(past) + 1 + 1 > Limit + 1
             THEN Len(past) + 1 + 1 - (Limit + 1) ELSE 0
  BY <1>2
<1>7. \A k \in 1..(Len(past') + 1 - 1) : PlainOne(past'[k]) = Ext(past, Current, k + lost)
  BY <1>4, <1>5
<1>8. QED
  BY <1>2, <1>5, <1>6, <1>7, EditIs

\* p is the history between the two
LEMMA EditTwice ==
  ASSUME Kept(past, future), Kept(past', future'), future' = <<>>,
         dragged.on = FALSE, UNCHANGED dragged, Current' # Current,
         NEW p, NEW f, Kept(p, f), NEW c,
         Len(p) = Len(past) + 1 - Lost(past),
         \A k \in 1..Len(p) : PlainOne(p[k]) = Ext(past, Current, k + Lost(past)),
         Len(past') = Len(p) + 1 - Lost(p),
         \A k \in 1..Len(past') : PlainOne(past'[k]) = Ext(p, c, k + Lost(p))
  PROVE  Editing!Edit(2)
<1> DEFINE a == Lost(past)
           b == Lost(p)
           lost == a + b
<1>1. Sequence(past) /\ Len(past) <= Limit /\ Sequence(past') /\ Sequence(p) /\ Len(p) <= Limit
  BY KeptFits
<1>2. /\ a \in Nat /\ Len(past) \in Nat /\ Limit \in Nat /\ Limit >= 2
      /\ (Len(past) = Limit /\ a = 1) \/ (Len(past) < Limit /\ a = 0)
  BY <1>1, LostIs
<1>3. /\ b \in Nat /\ Len(p) \in Nat
      /\ (Len(p) = Limit /\ b = 1) \/ (Len(p) < Limit /\ b = 0)
  BY <1>1, LostIs
<1>4. Len(past') \in Nat
  BY <1>1, SequenceIs
<1>5. /\ Len(p) = Len(past) + 1 - a /\ Len(past') = Len(p) + 1 - b
      /\ \A k \in 1..Len(p) : PlainOne(p[k]) = Ext(past, Current, k + a)
      /\ \A k \in 1..Len(past') : PlainOne(past'[k]) = Ext(p, c, k + b)
  OBVIOUS
<1> HIDE DEF a, b
<1>6. lost \in Nat /\ Len(past') + 1 = Len(past) + 1 + 2 - lost
  BY <1>2, <1>3, <1>4, <1>5
<1>7. lost = IF Len(past) + 1 + 2 > Limit + 1
             THEN Len(past) + 1 + 2 - (Limit + 1) ELSE 0
  <2>1. CASE Len(past) = Limit /\ a = 1
    <3>1. Len(p) = Limit /\ b = 1
      BY <1>2, <1>3, <1>5, <2>1
    <3>2. QED
      BY <1>2, <2>1, <3>1
  <2>2. CASE Len(past) < Limit /\ a = 0
    <3>1. Len(p) = Len(past) + 1
      BY <1>2, <1>3, <1>5, <2>2
    <3>2. CASE Len(p) = Limit /\ b = 1
      BY <1>2, <2>2, <3>1, <3>2
    <3>3. CASE Len(p) < Limit /\ b = 0
      BY <1>2, <2>2, <3>1, <3>3
    <3>4. QED
      BY <1>3, <3>2, <3>3
  <2>3. QED
    BY <1>2, <2>1, <2>2
<1>8. ASSUME NEW k \in 1..(Len(past') + 1 - 2)
      PROVE  PlainOne(past'[k]) = Ext(past, Current, k + lost)
  <2>1. k \in 1..Len(past') /\ k + b <= Len(p) /\ k + b \in 1..Len(p)
        /\ (k + b) + a = k + lost
    BY <1>2, <1>3, <1>4, <1>5
  <2>2. PlainOne(past'[k]) = Ext(p, c, k + b)
    BY <1>5, <2>1
  <2>3. Ext(p, c, k + b) = PlainOne(p[k + b])
    BY <2>1 DEF Ext
  <2>4. PlainOne(p[k + b]) = Ext(past, Current, (k + b) + a)
    BY <1>5, <2>1
  <2>5. QED
    BY <2>1, <2>2, <2>3, <2>4
<1> HIDE DEF lost
<1>9. QED
  BY <1>6, <1>7, <1>8, EditIs

(* What is written while something is dragged, and what is not authored.   *)
LEMMA ReplaceIs ==
  ASSUME Kept(past, future), UNCHANGED <<past, future, dragged>>,
         dragged.on \in BOOLEAN, ~dragged.on => Current' = Current
  PROVE  [Editing!Next]_(Editing!vars)
<1>1. Sequence(past) /\ Sequence(future) /\ Len(past) \in Nat /\ Len(future) \in Nat
  BY SequenceIs DEF Kept
<1>2. CASE Current' = Current
  <2>1. Timeline' = Timeline
    BY <1>2, LineIsTimeline
  <2>2. QED
    BY <2>1 DEF Editing!vars
<1>3. CASE dragged.on
  <2> DEFINE N == Len(past) + 1 + Len(future)
  <2>1. /\ Timeline = [i \in 1..N |-> Spot(past, Current, future, i)]
        /\ Len(Timeline) = N
    BY <1>1, LineIs, LineIsTimeline
  <2>2. /\ Timeline' = [i \in 1..N |-> Spot(past, Current', future, i)]
        /\ Len(Timeline') = N
    BY <1>1, LineIs, LineIsTimeline
  <2>3. ASSUME NEW k \in 1..N, k # Len(past) + 1
        PROVE  Spot(past, Current', future, k) = Spot(past, Current, future, k)
    BY <2>3 DEF Spot
  <2> HIDE DEF N
  <2>4. \A k \in 1..Len(Timeline) : k # Len(past) + 1 => Timeline'[k] = Timeline[k]
    BY <2>1, <2>2, <2>3
  <2>5. Editing!Replace
    BY <1>3, <2>1, <2>2, <2>4 DEF Editing!Replace
  <2>6. QED
    BY <2>5 DEF Editing!Next
<1>4. QED
  BY <1>2, <1>3

LEMMA UndoIs ==
  ASSUME ObjectInv
  PROVE  (Undo => Editing!Undo) /\ (Redo => Editing!Redo)
<1>1. /\ Sequence(past) /\ Sequence(future)
      /\ \A k \in DOMAIN past : Functional(past[k])
      /\ \A k \in DOMAIN future : Functional(future[k])
  BY DEF ObjectInv, Kept
<1>2. PlainOne(Partialize(nodes, edges, Fresh)) = Current
  BY PartializeIs DEF PlainOne, Current
<1>3. ASSUME NEW s, Functional(s), nodes' = Restored(s), edges' = s.edges
      PROVE  Current' = PlainOne(s)
  <2>1. Current' = Authored(Restored(s), s.edges)
    BY <1>3 DEF Current
  <2>2. /\ DOMAIN Restored(s) = DOMAIN s.vals
        /\ \A i \in DOMAIN s.vals : Restored(s)[i].v = s.vals[i]
    BY DEF Restored, Node
  <2>3. [i \in DOMAIN Restored(s) |-> Restored(s)[i].v] = s.vals
    BY <1>3, <2>2 DEF Functional
  <2>4. QED
    BY <2>1, <2>3 DEF Authored, PlainOne
<1>4. /\ Len(past) \in Nat /\ Len(future) \in Nat
      /\ past # <<>> <=> Len(past) >= 1
      /\ future # <<>> <=> Len(future) >= 1
      /\ DOMAIN past = 1..Len(past) /\ DOMAIN future = 1..Len(future)
  BY <1>1, SequenceIs
<1>5. ASSUME Undo PROVE Editing!Undo
  <2>1. /\ past # <<>> /\ nodes' = Restored(Last(past)) /\ edges' = Last(past).edges
        /\ past' = Front(past)
        /\ future' = Append(future, Partialize(nodes, edges, Fresh))
        /\ UNCHANGED dragged
    BY <1>5 DEF Undo, SetNodes
  <2>2. Functional(Last(past))
    BY <1>1, <1>4, <2>1 DEF Last
  <2>3. Current' = PlainOne(Last(past))
    BY <1>3, <2>1, <2>2
  <2>4. Line(Front(past), PlainOne(Last(past)), Append(future, Partialize(nodes, edges, Fresh)))
          = Line(past, PlainOne(Partialize(nodes, edges, Fresh)), future)
    BY <1>1, <2>1, LineBack
  <2>5. Timeline' = Timeline
    BY <1>2, <2>1, <2>3, <2>4, LineIsTimeline
  <2>6. Len(past') = Len(past) - 1
    BY <1>1, <2>1, FrontIs
  <2>7. Len(past) + 1 > 1 /\ Len(past') + 1 = (Len(past) + 1) - 1
    BY <1>4, <2>1, <2>6
  <2>8. QED
    BY <2>1, <2>5, <2>7 DEF Editing!Undo
<1>6. ASSUME Redo PROVE Editing!Redo
  <2>1. /\ future # <<>> /\ nodes' = Restored(Last(future)) /\ edges' = Last(future).edges
        /\ future' = Front(future)
        /\ past' = Append(past, Partialize(nodes, edges, Fresh))
        /\ UNCHANGED dragged
    BY <1>6 DEF Redo, SetNodes
  <2>2. Functional(Last(future))
    BY <1>1, <1>4, <2>1 DEF Last
  <2>3. Current' = PlainOne(Last(future))
    BY <1>3, <2>1, <2>2
  <2>4. Line(Append(past, Partialize(nodes, edges, Fresh)), PlainOne(Last(future)), Front(future))
          = Line(past, PlainOne(Partialize(nodes, edges, Fresh)), future)
    BY <1>1, <2>1, LineForth
  <2>5. Timeline' = Timeline
    BY <1>2, <2>1, <2>3, <2>4, LineIsTimeline
  <2>6. Len(past') = Len(past) + 1
    BY <1>1, <2>1, AppendIs
  <2>7. Len(Timeline) = Len(past) + 1 + Len(future)
    BY <1>1, LineIs, LineIsTimeline
  <2>8. Len(past) + 1 < Len(Timeline) /\ Len(past') + 1 = (Len(past) + 1) + 1
    BY <1>4, <2>1, <2>6, <2>7
  <2>9. QED
    BY <2>1, <2>5, <2>8 DEF Editing!Redo
<1>7. QED
  BY <1>5, <1>6

LEMMA AuthoredIs ==
  ASSUME NEW ns, NEW es, NEW ms, NEW ds, Authored(ns, es) = Authored(ms, ds)
  PROVE  es = ds
BY DEF Authored

(* A write is an edit, unless it is made in a drag or says nothing new.    *)
LEMMA WrittenIs ==
  ASSUME ObjectInv, ObjectInv', NEW ns, NEW es, Written(ns, es)
  PROVE  [Editing!Next]_(Editing!vars)
<1> DEFINE h == Record(State(nodes, edges), State(ns, es),
                       [past |-> past, future |-> future], Fresh)
<1>1. /\ dragged.on \in BOOLEAN /\ isTracking = ~dragged.on
      /\ Kept(past, future) /\ Kept(past', future')
  BY DEF ObjectInv
<1>2. /\ past' = h.past /\ future' = h.future /\ UNCHANGED dragged
      /\ nodes' = ns /\ edges' = es
  BY DEF Written, SetHistory, History
<1>3. Current = Authored(nodes, edges) /\ Current' = Authored(ns, es)
  BY <1>2 DEF Current
<1>4. CASE isTracking /\ Authored(nodes, edges) # Authored(ns, es)
  <2>1. /\ h.future = <<>>
        /\ Len(h.past) = Len(past) + 1 - Lost(past)
        /\ \A k \in 1..Len(h.past) :
             PlainOne(h.past[k]) = Ext(past, Authored(nodes, edges), k + Lost(past))
    BY <1>1, <1>4, RecordAdds
  <2> HIDE DEF h
  <2>2. Editing!Edit(1)
    <3>1. /\ future' = <<>> /\ dragged.on = FALSE /\ Current' # Current
          /\ Len(past') = Len(past) + 1 - Lost(past)
          /\ \A k \in 1..Len(past') :
               PlainOne(past'[k]) = Ext(past, Current, k + Lost(past))
      BY <1>1, <1>2, <1>3, <1>4, <2>1
    <3>2. QED
      BY <1>1, <1>2, <3>1, EditOnce
  <2>3. QED
    BY <2>2 DEF Editing!Next
<1>5. CASE ~isTracking \/ Authored(nodes, edges) = Authored(ns, es)
  <2>1. h = [past |-> past, future |-> future]
    BY <1>5, RecordLeaves
  <2> HIDE DEF h
  <2>2. UNCHANGED <<past, future, dragged>> /\ (~dragged.on => Current' = Current)
    BY <1>1, <1>2, <1>3, <1>5, <2>1
  <2>3. QED
    BY <1>1, <2>2, ReplaceIs
<1>6. QED
  BY <1>4, <1>5

(* Deleting a selection is two edits if edges and nodes go.                *)
LEMMA DeleteIs ==
  ASSUME StoreInv, ObjectInv, ObjectInv', NEW ids, NEW es, onDelete(ids, es)
  PROVE  [Editing!Next]_(Editing!vars)
<1> DEFINE left == [i \in DOMAIN nodes \ ids |-> nodes[i]]
           kept == EdgesWithin(DOMAIN left, edges \ es)
           first == Record(State(nodes, edges), State(nodes, kept),
                           [past |-> past, future |-> future], Fresh)
           second == Record(State(nodes, kept), State(left, kept), first, Fresh2)
           between == Authored(nodes, kept)
<1>1. /\ dragged.on \in BOOLEAN /\ isTracking = ~dragged.on
      /\ Kept(past, future) /\ Kept(past', future')
  BY DEF ObjectInv
<1>2. /\ past' = second.past /\ future' = second.future
      /\ nodes' = left /\ edges' = kept /\ UNCHANGED dragged
  BY DEF onDelete, SetNodes, SetHistory, History
<1>3. Fresh \notin StampsOf(past) \union StampsOf(future)
  <2>1. Fresh \notin InUse
    BY FreshAre
  <2>2. QED
    BY <2>1, InUseIs
<1>4. Kept(first.past, first.future)
  BY <1>1, <1>3, KeptRecord
<1>5. first = [past |-> first.past, future |-> first.future]
  BY DEF Record, Saved
<1> HIDE DEF left, kept
<1>6. Current = Authored(nodes, edges) /\ Current' = Authored(left, kept)
  BY <1>2 DEF Current
<1>7. isTracking /\ Current # between =>
        /\ first.future = <<>>
        /\ Len(first.past) = Len(past) + 1 - Lost(past)
        /\ \A k \in 1..Len(first.past) :
             PlainOne(first.past[k]) = Ext(past, Current, k + Lost(past))
  BY <1>1, <1>6, RecordAdds
<1>8. ~isTracking \/ Current = between => first = [past |-> past, future |-> future]
  BY <1>6, RecordLeaves
<1> HIDE DEF first
<1>9. isTracking /\ between # Current' =>
        /\ second.future = <<>>
        /\ Len(second.past) = Len(first.past) + 1 - Lost(first.past)
        /\ \A k \in 1..Len(second.past) :
             PlainOne(second.past[k]) = Ext(first.past, between, k + Lost(first.past))
  <2> DEFINE p == first.past
             f == first.future
             h == Record(State(nodes, kept), State(left, kept),
                         [past |-> p, future |-> f], Fresh2)
  <2>1. SUFFICES ASSUME isTracking, Authored(nodes, kept) # Authored(left, kept)
                 PROVE  /\ h.future = <<>>
                        /\ Len(h.past) = Len(p) + 1 - Lost(p)
                        /\ \A k \in 1..Len(h.past) :
                             PlainOne(h.past[k]) = Ext(p, Authored(nodes, kept), k + Lost(p))
    BY <1>5, <1>6
  <2>2. Kept(p, f)
    BY <1>4
  <2> HIDE DEF p, f
  <2>3. QED
    BY <2>1, <2>2, RecordAdds
<1>10. ~isTracking \/ between = Current' => second = first
  BY <1>6, RecordLeaves
<1> HIDE DEF second, between
<1>11. CASE isTracking /\ Current # between /\ between # Current'
  <2>1. Current' # Current
    <3>1. kept # edges
      BY <1>6, <1>11 DEF between
    <3>2. QED
      BY <1>6, <3>1, AuthoredIs
  <2>2. /\ future' = <<>> /\ dragged.on = FALSE
        /\ Len(past') = Len(first.past) + 1 - Lost(first.past)
        /\ \A k \in 1..Len(past') :
             PlainOne(past'[k]) = Ext(first.past, between, k + Lost(first.past))
    BY <1>1, <1>2, <1>9, <1>11
  <2>3. Editing!Edit(2)
    <3> DEFINE p == first.past
               f == first.future
    <3>1. /\ Kept(p, f)
          /\ Len(p) = Len(past) + 1 - Lost(past)
          /\ \A k \in 1..Len(p) : PlainOne(p[k]) = Ext(past, Current, k + Lost(past))
          /\ Len(past') = Len(p) + 1 - Lost(p)
          /\ \A k \in 1..Len(past') : PlainOne(past'[k]) = Ext(p, between, k + Lost(p))
      BY <1>4, <1>7, <1>11, <2>2
    <3> HIDE DEF p, f
    <3>2. QED
      BY <1>1, <1>2, <2>1, <2>2, <3>1, EditTwice
  <2>4. QED
    BY <2>3 DEF Editing!Next
<1>12. CASE isTracking /\ Current # between /\ between = Current'
  <2>1. /\ future' = <<>> /\ dragged.on = FALSE /\ Current' # Current
        /\ Len(past') = Len(past) + 1 - Lost(past)
        /\ \A k \in 1..Len(past') : PlainOne(past'[k]) = Ext(past, Current, k + Lost(past))
    BY <1>1, <1>2, <1>7, <1>10, <1>12
  <2>2. Editing!Edit(1)
    BY <1>1, <1>2, <2>1, EditOnce
  <2>3. QED
    BY <2>2 DEF Editing!Next
<1>13. CASE isTracking /\ Current = between /\ between # Current'
  <2>1. first.past = past /\ first.future = future
    BY <1>8, <1>13
  <2>2. /\ future' = <<>> /\ dragged.on = FALSE /\ Current' # Current
        /\ Len(past') = Len(past) + 1 - Lost(past)
        /\ \A k \in 1..Len(past') : PlainOne(past'[k]) = Ext(past, Current, k + Lost(past))
    BY <1>1, <1>2, <1>9, <1>13, <2>1
  <2>3. Editing!Edit(1)
    BY <1>1, <1>2, <2>2, EditOnce
  <2>4. QED
    BY <2>3 DEF Editing!Next
<1>14. CASE ~isTracking \/ (Current = between /\ between = Current')
  <2>1. second = first /\ first = [past |-> past, future |-> future]
    BY <1>8, <1>10, <1>14
  <2>2. UNCHANGED <<past, future, dragged>>
    BY <1>2, <2>1
  <2>3. ~dragged.on => Current' = Current
    BY <1>1, <1>14
  <2>4. QED
    BY <1>1, <2>2, <2>3, ReplaceIs
<1>15. QED
  BY <1>11, <1>12, <1>13, <1>14

(* A drag begins or ends, or nothing an undo could take back happens.      *)
LEMMA StillIs ==
  ASSUME ObjectInv, Still
  PROVE  [Editing!Next]_(Editing!vars)
<1>1. /\ dragged.on \in BOOLEAN /\ dragged'.on \in BOOLEAN
      /\ UNCHANGED <<nodes, edges, past, future>>
  BY DEF ObjectInv, Still, graphVars, historyVars
<1>2. Current' = Current
  BY <1>1 DEF Current
<1>3. Timeline' = Timeline
  BY <1>1, <1>2, LineIsTimeline
<1>4. CASE dragged'.on = dragged.on
  BY <1>1, <1>3, <1>4 DEF Editing!vars
<1>5. CASE dragged'.on = ~dragged.on
  <2>1. Editing!Hold
    BY <1>1, <1>3, <1>5 DEF Editing!Hold
  <2>2. QED
    BY <2>1 DEF Editing!Next
<1>6. QED
  BY <1>1, <1>4, <1>5

LEMMA StepEdits ==
  ASSUME StoreInv, ObjectInv, ObjectInv', [Next]_vars
  PROVE  /\ [Editing!Next]_(Editing!vars)
         /\ (Undo => Editing!Undo) /\ (Redo => Editing!Redo)
<1>1. (Undo => Editing!Undo) /\ (Redo => Editing!Redo)
  BY UndoIs
<1>2. Undo \/ Redo => [Editing!Next]_(Editing!vars)
  BY <1>1 DEF Editing!Next
<1>3. QED
  BY <1>1, <1>2, StepKinds, WrittenIs, DeleteIs, StillIs

(* Before the first edit there is one version.                             *)
LEMMA HistoryStarts == Init => Editing!Init
<1> SUFFICES ASSUME Init PROVE Editing!Init
  OBVIOUS
<1>1. past = <<>> /\ future = <<>> /\ dragged.on = FALSE
  BY DEF Init, NoDrag
<1>2. Len(Timeline) = Len(past) + 1 + Len(future)
  <2>1. Sequence(past) /\ Sequence(future)
    BY <1>1, EmptyIs
  <2>2. QED
    BY <2>1, LineIs, LineIsTimeline
<1>3. Len(past) = 0 /\ Len(future) = 0
  BY <1>1, EmptyIs
<1>4. QED
  BY <1>1, <1>2, <1>3 DEF Editing!Init

(* Undo and redo move along a line of versions and change none of it; an   *)
(* edit can be taken back with all before it that there is room for, two   *)
(* if a selection was deleted; an edit in a drag leaves no version behind, *)
(* and a run none at all.  (workflowStore.ts 37-41, 243-251, 278, 315-325) *)
THEOREM HistoryTakesBack == Spec => ImplementsHistory
<1>1. [](StoreInv /\ ObjectInv) /\ [][Next]_vars
      => [][Editing!Next]_(Editing!vars)
  BY StepEdits, PTL
<1>2. [](StoreInv /\ ObjectInv) /\ [][Next]_vars
      => [][(Undo => Editing!Undo) /\ (Redo => Editing!Redo)]_vars
  <2>1. StoreInv /\ ObjectInv /\ ObjectInv' /\ [Next]_vars
        => [(Undo => Editing!Undo) /\ (Redo => Editing!Redo)]_vars
    BY StepEdits
  <2>2. QED
    BY <2>1, PTL
<1>3. QED
  BY <1>1, <1>2, HistoryStarts, StoreInvariance, ObjectInvariance, PTL
  DEF Spec, ImplementsHistory, Editing!Spec
=============================================================================
