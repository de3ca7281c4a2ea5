------------------------- MODULE CycleSearchProofs -------------------------
(***************************************************************************)
(* Proofs about CycleSearch, for every graph: an edge painted red lies on  *)
(* a cycle, and some edge is red in the end exactly when the server would  *)
(* refuse the graph.                                                       *)
(***************************************************************************)
EXTENDS CycleSearch, SequenceTheorems, TLAPS

Frames == [node : GraphNodes, left : SUBSET EdgeSpace,
           incomingEdge : EdgeSpace \union {NoEdge}]

SearchTypeOK ==
  /\ graph \in SUBSET EdgeSpace
  /\ colour \in [GraphNodes -> {"white", "gray", "black"}]
  /\ stack \in Seq(Frames)
  /\ cyclic \in SUBSET graph

\* the stack holds the gray nodes, each once
GrayInv ==
  /\ \A i \in 1..Len(stack) : colour[stack[i].node] = "gray"
  /\ \A n \in GraphNodes :
       colour[n] = "gray" => \E i \in 1..Len(stack) : stack[i].node = n
  /\ \A i, j \in 1..Len(stack) : stack[i].node = stack[j].node => i = j

\* each was entered by an edge out of the one below
PathInv ==
  /\ \A i \in 2..Len(stack) :
       /\ stack[i].incomingEdge \in graph
       /\ stack[i].incomingEdge.source = stack[i - 1].node
       /\ stack[i].incomingEdge.target = stack[i].node
  /\ stack # << >> => stack[1].incomingEdge = NoEdge
  /\ \A i \in 1..Len(stack) : stack[i].left \subseteq adj(stack[i].node)

Black(n) == colour[n] = "black"

\* as long as nothing is marked, edges visited lead to nodes done with, but
\* for those of the path, and no set of nodes done with holds a cycle
DoneInv ==
  /\ \A i \in 1..Len(stack) :
       \A e \in adj(stack[i].node) \ stack[i].left :
         \/ Black(e.target)
         \/ i < Len(stack) /\ e.target = stack[i + 1].node
  /\ \A e \in graph : Black(e.source) => Black(e.target)
  /\ \A ns \in SUBSET GraphNodes :
       ns # {} /\ (\A n \in ns : Black(n)) =>
         \E n \in ns : \A e \in graph : e.target = n => e.source \notin ns

LoopsInv == \A e \in graph : SelfLoop(e) => e \in cyclic

SearchInv ==
  /\ SearchTypeOK /\ GrayInv /\ PathInv
  /\ LoopsInv /\ (cyclic = {} => DoneInv)
  /\ MarkedLieOnCycles

-----------------------------------------------------------------------------
(* The search starts with the invariant true. *)
LEMMA SearchInitInv == SearchInit => SearchInv
<1> SUFFICES ASSUME SearchInit PROVE SearchInv
  OBVIOUS
<1> USE DEF SearchInit
<1>1. SearchTypeOK
  BY DEF SearchTypeOK
<1>2. GrayInv /\ PathInv
  BY DEF GrayInv, PathInv
<1>3. LoopsInv
  BY DEF LoopsInv
<1>4. DoneInv
  BY <1>1, EdgeAssumption DEF DoneInv, Black, SearchTypeOK
<1>5. MarkedLieOnCycles
  <2> SUFFICES ASSUME NEW e \in cyclic PROVE OnCycle(e)
    BY DEF MarkedLieOnCycles
  <2>1. {e} \in SUBSET graph /\ Ring({e})
    BY DEF SelfLoop, Ring
  <2>2. QED
    BY <2>1 DEF OnCycle
<1>6. QED
  BY <1>1, <1>2, <1>3, <1>4, <1>5 DEF SearchInv

(* An edge back to a node of the path and the edges of the path above that *)
(* node form a ring.                                                       *)
LEMMA BackEdgeClosesRing ==
  ASSUME SearchInv, NEW e \in graph, stack # << >>, e \in Top.left,
         NEW k \in 1..Len(stack), stack[k].node = e.target
  PROVE  Ring({e} \union {stack[i].incomingEdge : i \in (k + 1)..Len(stack)})
<1> DEFINE n == Len(stack)
           Up == {stack[i].incomingEdge : i \in (k + 1)..n}
           es == {e} \union Up
<1>1. n \in Nat /\ n >= 1 /\ k \in 1..n
  BY DEF SearchInv, SearchTypeOK
<1>2. e.source = stack[n].node /\ e.target = stack[k].node
  BY <1>1 DEF SearchInv, PathInv, Top, adj
<1>3. ASSUME NEW i \in (k + 1)..n
      PROVE  /\ stack[i].incomingEdge.source = stack[i - 1].node
             /\ stack[i].incomingEdge.target = stack[i].node
  BY <1>1 DEF SearchInv, PathInv
<1>4. \A i, j \in 1..n : stack[i].node = stack[j].node => i = j
  BY DEF SearchInv, GrayInv
<1> HIDE DEF n
<1>5. ASSUME NEW f \in es
      PROVE  /\ \E g \in es : g.source = f.target
             /\ \E g \in es : g.target = f.source
  <2>1. CASE f = e
    <3>1. CASE k = n
      BY <2>1, <3>1, <1>2
    <3>2. CASE k < n
      <4>1. stack[k + 1].incomingEdge \in es /\ stack[n].incomingEdge \in es
        BY <3>2, <1>1
      <4>2. stack[k + 1].incomingEdge.source = stack[k].node
        BY <1>3, <3>2, <1>1
      <4>3. stack[n].incomingEdge.target = stack[n].node
        BY <1>3, <3>2, <1>1
      <4>4. QED
        BY <2>1, <4>1, <4>2, <4>3, <1>2
    <3>3. QED
      BY <3>1, <3>2, <1>1
  <2>2. ASSUME NEW i \in (k + 1)..n, f = stack[i].incomingEdge
        PROVE  /\ \E g \in es : g.source = f.target
               /\ \E g \in es : g.target = f.source
    <3>1. \E g \in es : g.source = f.target
      <4>1. CASE i = n
        BY <4>1, <2>2, <1>2, <1>3
      <4>2. CASE i < n
        <5>1. i + 1 \in (k + 1)..n
          BY <4>2, <1>1
        <5>2. stack[i + 1].incomingEdge.source = stack[i].node
          BY <5>1, <1>1, <1>3
        <5>3. QED
          BY <5>1, <5>2, <2>2, <1>3
      <4>3. QED
        BY <4>1, <4>2, <1>1
    <3>2. \E g \in es : g.target = f.source
      <4>1. CASE i = k + 1
        BY <4>1, <2>2, <1>1, <1>2, <1>3
      <4>2. CASE i > k + 1
        <5>1. i - 1 \in (k + 1)..n
          BY <4>2, <1>1
        <5>2. stack[i - 1].incomingEdge.target = stack[i - 1].node
          BY <5>1, <1>3
        <5>3. QED
          BY <5>1, <5>2, <2>2, <1>3
      <4>3. QED
        BY <4>1, <4>2, <1>1
    <3>3. QED
      BY <3>1, <3>2
  <2>3. QED
    BY <1>5, <2>1, <2>2
<1>6. ASSUME NEW i \in (k + 1)..n
      PROVE  /\ stack[i].incomingEdge.source # e.source
             /\ stack[i].incomingEdge.target # e.target
  BY <1>1, <1>2, <1>3, <1>4
<1>7. ASSUME NEW i \in (k + 1)..n, NEW j \in (k + 1)..n,
             \/ stack[i].incomingEdge.source = stack[j].incomingEdge.source
             \/ stack[i].incomingEdge.target = stack[j].incomingEdge.target
      PROVE  i = j
  <2>1. i \in 1..n /\ j \in 1..n /\ i - 1 \in 1..n /\ j - 1 \in 1..n
    BY <1>1
  <2>2. stack[i - 1].node = stack[j - 1].node \/ stack[i].node = stack[j].node
    BY <1>3, <1>7
  <2>3. QED
    BY <2>1, <2>2, <1>1, <1>4
<1>8. ASSUME NEW f \in es, NEW g \in es, f.source = g.source \/ f.target = g.target
      PROVE  f = g
  BY <1>6, <1>7, <1>8
<1>9. QED
  BY <1>5, <1>8 DEF Ring, n

-----------------------------------------------------------------------------
(* Visiting an edge changes nothing of the stack but the edges left to its *)
(* top frame.                                                              *)
LEMMA VisitedKeeps ==
  ASSUME SearchTypeOK, stack # << >>, NEW e
  PROVE  /\ Visited(e) \in Seq(Frames)
         /\ Len(stack) \in Nat /\ Len(stack) >= 1
         /\ Len(Visited(e)) = Len(stack)
         /\ \A i \in 1..Len(stack) :
              /\ Visited(e)[i].node = stack[i].node
              /\ Visited(e)[i].incomingEdge = stack[i].incomingEdge
              /\ i < Len(stack) => Visited(e)[i].left = stack[i].left
         /\ Visited(e)[Len(stack)].left = Top.left \ {e}
<1>1. Len(stack) \in Nat /\ Len(stack) >= 1
  BY DEF SearchTypeOK
<1>2. stack \in Seq(Frames) /\ stack[Len(stack)] \in Frames
  BY <1>1 DEF SearchTypeOK
<1>3. [Top EXCEPT !.left = @ \ {e}] \in Frames
  BY <1>2 DEF Top, Frames
<1>4. Visited(e) = [stack EXCEPT ![Len(stack)] = [Top EXCEPT !.left = @ \ {e}]]
  BY DEF Visited, Top
<1>5. Visited(e) \in Seq(Frames) /\ Len(Visited(e)) = Len(stack)
  BY <1>1, <1>2, <1>3, <1>4
<1>6. \A i \in 1..Len(stack) : Visited(e)[i] =
        IF i = Len(stack) THEN [Top EXCEPT !.left = @ \ {e}] ELSE stack[i]
  BY <1>1, <1>2, <1>4
<1>7. QED
  BY <1>1, <1>2, <1>5, <1>6 DEF Top, Frames

(* Entering a node, from the stack s, puts its frame on top. *)
LEMMA PushAdds ==
  ASSUME NEW s \in Seq(Frames), NEW f \in Frames
  PROVE  /\ Append(s, f) \in Seq(Frames)
         /\ Len(s) \in Nat
         /\ Len(Append(s, f)) = Len(s) + 1
         /\ \A i \in 1..Len(s) : Append(s, f)[i] = s[i]
         /\ Append(s, f)[Len(s) + 1] = f
  OBVIOUS

(* The stack without its top. *)
LEMMA PopDrops ==
  ASSUME SearchTypeOK, stack # << >>
  PROVE  LET s == SubSeq(stack, 1, Len(stack) - 1) IN
         /\ s \in Seq(Frames)
         /\ Len(stack) \in Nat /\ Len(stack) >= 1
         /\ Len(s) = Len(stack) - 1
         /\ \A i \in 1..(Len(stack) - 1) : s[i] = stack[i]
<1> DEFINE n == Len(stack)
           s == SubSeq(stack, 1, n - 1)
<1>1. stack \in Seq(Frames) /\ n \in Nat /\ n >= 1
  BY DEF SearchTypeOK
<1>2. \A i \in 1..n : stack[i] \in Frames
  BY <1>1
<1>3. /\ s \in Seq(Frames)
      /\ Len(s) = IF 1 <= n - 1 THEN n - 1 - 1 + 1 ELSE 0
      /\ \A i \in 1..(n - 1 - 1 + 1) : s[i] = stack[1 + i - 1]
  <2>1. 1 \in Int /\ n - 1 \in Int /\ \A i \in 1..(n - 1) : stack[i] \in Frames
    BY <1>1, <1>2
  <2> HIDE DEF n
  <2>2. QED
    BY <2>1, SubSeqProperties
<1>4. Len(s) = n - 1 /\ \A i \in 1..(n - 1) : s[i] = stack[i]
  <2> HIDE DEF s, n
  <2>1. Len(s) = n - 1
    BY <1>1, <1>3
  <2>2. ASSUME NEW i \in 1..(n - 1) PROVE s[i] = stack[i]
    <3>1. i \in 1..(n - 1 - 1 + 1) /\ 1 + i - 1 = i
      BY <1>1
    <3>2. QED
      BY <1>3, <3>1
  <2>3. QED
    BY <2>1, <2>2
<1>5. QED
  BY <1>1, <1>3, <1>4

LEMMA FrameType ==
  ASSUME SearchTypeOK, NEW n \in GraphNodes, NEW e \in EdgeSpace \union {NoEdge}
  PROVE  Frame(n, e) \in Frames
<1>1. adj(n) \in SUBSET EdgeSpace
  BY DEF SearchTypeOK, adj
<1>2. QED
  BY <1>1 DEF Frame, Frames

(* Every step keeps the types. *)
LEMMA StepSearchType == SearchInv /\ [SearchNext]_searchVars => SearchTypeOK'
<1> SUFFICES ASSUME SearchTypeOK, PathInv, [SearchNext]_searchVars
             PROVE  SearchTypeOK'
  BY DEF SearchInv
<1>1. ASSUME NEW n \in GraphNodes, StartAt(n) PROVE SearchTypeOK'
  <2>1. Frame(n, NoEdge) \in Frames
    BY FrameType
  <2>2. QED
    BY <1>1, <2>1 DEF StartAt, SearchTypeOK
<1>2. ASSUME NEW e \in graph, BackEdge(e) PROVE SearchTypeOK'
  <2>1. stack' \in Seq(Frames)
    BY <1>2, VisitedKeeps DEF BackEdge
  <2>2. cyclic' \in SUBSET graph
    <3>1. ASSUME NEW i \in DOMAIN stack, stack[i].incomingEdge # NoEdge
          PROVE  stack[i].incomingEdge \in graph
      BY <3>1, i = 1 \/ i \in 2..Len(stack) DEF SearchTypeOK, PathInv
    <3>2. QED
      BY <1>2, <3>1 DEF BackEdge, SearchTypeOK
  <2>3. QED
    BY <1>2, <2>1, <2>2 DEF BackEdge, SearchTypeOK
<1>3. ASSUME NEW e \in graph, Descend(e) PROVE SearchTypeOK'
  <2>1. e \in EdgeSpace /\ e.target \in GraphNodes
    BY EdgeAssumption DEF SearchTypeOK
  <2>2. stack' \in Seq(Frames)
    BY <1>3, <2>1, VisitedKeeps, FrameType, PushAdds DEF Descend
  <2>3. QED
    BY <1>3, <2>1, <2>2 DEF Descend, SearchTypeOK
<1>4. ASSUME NEW e \in graph, SkipEdge(e) PROVE SearchTypeOK'
  BY <1>4, VisitedKeeps DEF SkipEdge, SearchTypeOK
<1>5. CASE Backtrack
  BY <1>5, PopDrops DEF Backtrack, SearchTypeOK, Top
<1>6. CASE UNCHANGED searchVars
  BY <1>6 DEF searchVars, SearchTypeOK
<1>7. QED
  BY <1>1, <1>2, <1>3, <1>4, <1>5, <1>6 DEF SearchNext

(* Every step leaves a path of the gray nodes. *)
LEMMA StepPath == SearchInv /\ [SearchNext]_searchVars => GrayInv' /\ PathInv'
<1> SUFFICES ASSUME SearchTypeOK, GrayInv, PathInv, [SearchNext]_searchVars
             PROVE  GrayInv' /\ PathInv'
  BY DEF SearchInv
<1>0. Len(stack) \in Nat /\ (stack = << >> <=> Len(stack) = 0)
  BY DEF SearchTypeOK
<1>7. \A i \in 1..Len(stack) : stack[i] \in Frames /\ stack[i].node \in GraphNodes
  <2>1. \A i \in 1..Len(stack) : stack[i] \in Frames
    BY <1>0 DEF SearchTypeOK
  <2>2. QED
    BY <2>1 DEF Frames
<1>1. ASSUME NEW n \in GraphNodes, StartAt(n) PROVE GrayInv' /\ PathInv'
  <2>1. /\ Len(stack') = 1 /\ stack'[1].node = n
        /\ stack'[1].incomingEdge = NoEdge /\ stack'[1].left = adj(n)
    BY <1>1 DEF StartAt, Frame
  <2>2. \A m \in GraphNodes : colour[m] # "gray"
    BY <1>1, <1>0 DEF StartAt, GrayInv
  <2>3. colour' = [colour EXCEPT ![n] = "gray"] /\ graph' = graph
    BY <1>1 DEF StartAt
  <2>4. GrayInv'
    BY <2>1, <2>2, <2>3 DEF GrayInv, SearchTypeOK
  <2>5. PathInv'
    BY <2>1, <2>3 DEF PathInv, adj
  <2>6. QED
    BY <2>4, <2>5
<1>2. ASSUME NEW e \in graph, stack # << >>, e \in Top.left,
             stack' = Visited(e), colour' = colour, graph' = graph
      PROVE  GrayInv' /\ PathInv'
  <2>1. /\ Len(stack') = Len(stack)
        /\ \A i \in 1..Len(stack) :
             /\ stack'[i].node = stack[i].node
             /\ stack'[i].incomingEdge = stack[i].incomingEdge
             /\ stack'[i].left \subseteq stack[i].left
    BY <1>2, VisitedKeeps DEF Top
  <2>2. GrayInv'
    BY <1>2, <2>1 DEF GrayInv
  <2>3. PathInv'
    <3>1. \A i \in 2..Len(stack') :
            /\ stack'[i].incomingEdge \in graph'
            /\ stack'[i].incomingEdge.source = stack'[i - 1].node
            /\ stack'[i].incomingEdge.target = stack'[i].node
      <4> SUFFICES ASSUME NEW i \in 2..Len(stack)
                   PROVE  /\ stack'[i].incomingEdge \in graph
                          /\ stack'[i].incomingEdge.source = stack'[i - 1].node
                          /\ stack'[i].incomingEdge.target = stack'[i].node
        BY <1>2, <2>1
      <4>1. i \in 1..Len(stack) /\ i - 1 \in 1..Len(stack)
        BY <1>0
      <4>2. QED
        BY <4>1, <2>1 DEF PathInv
    <3>2. stack' # << >> => stack'[1].incomingEdge = NoEdge
      BY <1>0, <1>2, <2>1 DEF PathInv
    <3>3. \A i \in 1..Len(stack') : stack'[i].left \subseteq adj(stack'[i].node)
      BY <1>2, <2>1 DEF PathInv
    <3>4. QED
      BY <1>2, <2>1, <3>1, <3>2, <3>3 DEF PathInv, adj
  <2>4. QED
    BY <2>2, <2>3
<1>3. ASSUME NEW e \in graph, Descend(e) PROVE GrayInv' /\ PathInv'
  <2> DEFINE n == Len(stack)
             f == Frame(e.target, e)
  <2>1. e \in EdgeSpace /\ e.target \in GraphNodes
    BY EdgeAssumption DEF SearchTypeOK
  <2>2. f \in Frames
    BY <2>1, FrameType
  <2>3. /\ n \in Nat /\ n >= 1 /\ Len(stack') = n + 1 /\ stack'[n + 1] = f
        /\ \A i \in 1..n :
             /\ stack'[i].node = stack[i].node
             /\ stack'[i].incomingEdge = stack[i].incomingEdge
             /\ stack'[i].left \subseteq stack[i].left
    BY <1>3, <2>2, VisitedKeeps, PushAdds DEF Descend, Top
  <2>4. /\ stack'[n + 1].node = e.target /\ stack'[n + 1].incomingEdge = e
        /\ stack'[n + 1].left = adj(e.target)
    BY <2>3 DEF Frame
  <2>5. colour' = [colour EXCEPT ![e.target] = "gray"] /\ graph' = graph
        /\ colour[e.target] = "white"
    BY <1>3 DEF Descend
  <2>6. e.source = stack[n].node
    BY <1>3, <2>3 DEF Descend, Top, PathInv, adj
  <2> HIDE DEF n, f
  <2>7. \A i \in 1..(n + 1) : i = n + 1 \/ i \in 1..n
    BY <2>3
  <2>8. GrayInv'
    <3>1. \A i \in 1..n : colour[stack[i].node] = "gray" /\ stack[i].node \in GraphNodes
      BY <1>7 DEF GrayInv, n
    <3>2. \A i \in 1..n : stack[i].node # e.target
      BY <3>1, <2>5
    <3>3. \A i \in 1..(n + 1) : colour'[stack'[i].node] = "gray"
      BY <2>1, <2>3, <2>4, <2>5, <2>7, <3>1 DEF SearchTypeOK
    <3>4. ASSUME NEW m \in GraphNodes, colour'[m] = "gray"
          PROVE  \E i \in 1..(n + 1) : stack'[i].node = m
      <4>1. CASE m = e.target
        BY <4>1, <2>3, <2>4
      <4>2. CASE m # e.target
        <5>1. PICK i \in 1..n : stack[i].node = m
          BY <4>2, <3>4, <2>5 DEF GrayInv, SearchTypeOK, n
        <5>2. QED
          BY <5>1, <2>3
      <4>3. QED
        BY <4>1, <4>2
    <3>5. ASSUME NEW i \in 1..(n + 1), NEW j \in 1..(n + 1),
                 stack'[i].node = stack'[j].node
          PROVE  i = j
      <4>1. \A k, l \in 1..n : stack[k].node = stack[l].node => k = l
        BY DEF GrayInv, n
      <4>2. QED
        BY <4>1, <3>2, <3>5, <2>3, <2>4, <2>7
    <3>6. QED
      BY <3>3, <3>4, <3>5, <2>3 DEF GrayInv
  <2>9. PathInv'
    <3>1. ASSUME NEW i \in 2..(n + 1)
          PROVE  /\ stack'[i].incomingEdge \in graph
                 /\ stack'[i].incomingEdge.source = stack'[i - 1].node
                 /\ stack'[i].incomingEdge.target = stack'[i].node
      <4>1. i - 1 \in 1..n /\ (i = n + 1 \/ i \in 2..n)
        BY <2>3
      <4>2. CASE i = n + 1
        BY <4>2, <2>3, <2>4, <2>6
      <4>3. CASE i \in 2..n
        <5>1. /\ stack[i].incomingEdge \in graph
              /\ stack[i].incomingEdge.source = stack[i - 1].node
              /\ stack[i].incomingEdge.target = stack[i].node
          BY <4>3 DEF PathInv, n
        <5>2. QED
          BY <4>1, <4>3, <5>1, <2>3
      <4>4. QED
        BY <4>1, <4>2, <4>3
    <3>2. stack'[1].incomingEdge = NoEdge
      BY <1>3, <2>3 DEF PathInv, Descend
    <3>3. \A i \in 1..(n + 1) : stack'[i].left \subseteq adj(stack'[i].node)
      <4>1. \A i \in 1..n : stack[i].left \subseteq adj(stack[i].node)
        BY DEF PathInv, n
      <4>2. QED
        BY <4>1, <2>3, <2>4, <2>7
    <3>4. QED
      BY <3>1, <3>2, <3>3, <2>3, <2>5 DEF PathInv, adj
  <2>10. QED
    BY <2>8, <2>9
<1>4. CASE Backtrack
  <2> DEFINE n == Len(stack)
  <2>1. /\ n \in Nat /\ n >= 1 /\ Len(stack') = n - 1
        /\ \A i \in 1..(n - 1) : stack'[i] = stack[i]
    BY <1>4, PopDrops DEF Backtrack
  <2>2. colour' = [colour EXCEPT ![stack[n].node] = "black"] /\ graph' = graph
    BY <1>4 DEF Backtrack, Top
  <2>3. \A i \in 1..n : colour[stack[i].node] = "gray" /\ stack[i].node \in GraphNodes
    BY <1>7 DEF GrayInv
  <2>4. \A i, j \in 1..n : stack[i].node = stack[j].node => i = j
    BY DEF GrayInv
  <2>5. \A m \in GraphNodes : colour[m] = "gray" => \E i \in 1..n : stack[i].node = m
    BY DEF GrayInv
  <2>6. PathInv'
    <3>1. \A i \in 2..n :
            /\ stack[i].incomingEdge \in graph
            /\ stack[i].incomingEdge.source = stack[i - 1].node
            /\ stack[i].incomingEdge.target = stack[i].node
      BY DEF PathInv
    <3>2. \A i \in 2..(n - 1) :
            /\ stack'[i].incomingEdge \in graph'
            /\ stack'[i].incomingEdge.source = stack'[i - 1].node
            /\ stack'[i].incomingEdge.target = stack'[i].node
      <4> TAKE i \in 2..(n - 1)
      <4>1. i \in 2..n /\ i \in 1..(n - 1) /\ i - 1 \in 1..(n - 1)
        BY <2>1
      <4>2. QED
        BY <4>1, <3>1, <2>1, <2>2
    <3>3. stack' # << >> => stack'[1].incomingEdge = NoEdge
      <4>1. n - 1 = 0 => stack' = << >>
        BY <1>4, <2>1, PopDrops, EmptySeq DEF Backtrack
      <4>2. QED
        BY <4>1, <2>1, <1>0 DEF PathInv
    <3>4. \A i \in 1..(n - 1) : stack'[i].left \subseteq adj(stack'[i].node)
      BY <2>1 DEF PathInv
    <3>5. QED
      BY <3>2, <3>3, <3>4, <2>1, <2>2 DEF PathInv, adj
  <2> HIDE DEF n
  <2>7. GrayInv'
    <3>1. \A i \in 1..(n - 1) : stack[i].node # stack[n].node
      BY <2>1, <2>4
    <3>2. \A i \in 1..(n - 1) : colour'[stack'[i].node] = "gray"
      BY <3>1, <2>1, <2>2, <2>3 DEF SearchTypeOK
    <3>3. ASSUME NEW m \in GraphNodes, colour'[m] = "gray"
          PROVE  \E i \in 1..(n - 1) : stack'[i].node = m
      <4>1. m # stack[n].node /\ colour[m] = "gray"
        BY <3>3, <2>2 DEF SearchTypeOK
      <4>2. PICK i \in 1..n : stack[i].node = m
        BY <4>1, <2>5
      <4>3. i \in 1..(n - 1)
        BY <4>1, <4>2, <2>1
      <4>4. QED
        BY <4>2, <4>3, <2>1
    <3>4. \A i, j \in 1..(n - 1) : stack'[i].node = stack'[j].node => i = j
      BY <2>1, <2>4
    <3>5. QED
      BY <3>2, <3>3, <3>4, <2>1 DEF GrayInv
  <2>8. QED
    BY <2>6, <2>7
<1>5. CASE UNCHANGED searchVars
  BY <1>5 DEF searchVars, GrayInv, PathInv, adj
<1>8. QED
  BY <1>1, <1>2, <1>3, <1>4, <1>5 DEF SearchNext, BackEdge, SkipEdge

(* Every step keeps the loops marked, from the beginning. *)
LEMMA StepLoops == SearchInv /\ [SearchNext]_searchVars => LoopsInv'
  BY DEF SearchInv, LoopsInv, SelfLoop, SearchNext, StartAt, BackEdge, Descend,
         SkipEdge, Backtrack, searchVars

(* Every step marks only edges of cycles. *)
LEMMA StepMarked == SearchInv /\ [SearchNext]_searchVars => MarkedLieOnCycles'
<1> SUFFICES ASSUME SearchInv, [SearchNext]_searchVars, NEW d \in cyclic'
             PROVE  OnCycle(d)'
  BY DEF MarkedLieOnCycles
<1>1. graph' = graph
  BY DEF SearchNext, StartAt, BackEdge, Descend, SkipEdge, Backtrack, searchVars
<1>2. CASE d \in cyclic
  BY <1>1, <1>2 DEF SearchInv, MarkedLieOnCycles, OnCycle
<1>3. ASSUME NEW e \in graph, BackEdge(e), d \notin cyclic PROVE OnCycle(d)'
  <2> DEFINE n == Len(stack)
  <2>1. n \in Nat /\ SearchTypeOK /\ GrayInv /\ PathInv
    BY DEF SearchInv, SearchTypeOK
  <2>2. e.target \in GraphNodes /\ colour[e.target] = "gray"
    BY <1>3, <2>1, EdgeAssumption DEF BackEdge, SearchTypeOK
  <2>3. PICK k \in 1..n : stack[k].node = e.target
    BY <2>1, <2>2 DEF GrayInv
  <2> DEFINE es == {e} \union {stack[i].incomingEdge : i \in (k + 1)..n}
  <2>4. Ring(es)
    BY <1>3, <2>3, BackEdgeClosesRing DEF BackEdge
  <2>5. es \in SUBSET graph
    <3>1. \A i \in (k + 1)..n : i \in 2..n
      BY <2>1
    <3>2. QED
      BY <2>1, <3>1 DEF PathInv
  <2>6. d \in es
    <3>1. CASE d = e
      BY <3>1
    <3>2. CASE d # e
      <4>1. PICK i \in 1..n : /\ d = stack[i].incomingEdge
                              /\ \A j \in i..n : stack[j].node # e.target
        BY <1>3, <3>2, <2>1 DEF BackEdge, SearchTypeOK
      <4>2. i \in (k + 1)..n
        BY <2>1, <2>3, <4>1
      <4>3. QED
        BY <4>1, <4>2
    <3>3. QED
      BY <3>1, <3>2
  <2>7. QED
    BY <1>1, <2>4, <2>5, <2>6 DEF OnCycle
<1>4. CASE cyclic' = cyclic
  BY <1>2, <1>4
<1>5. QED
  BY <1>2, <1>3, <1>4
     DEF SearchNext, StartAt, Descend, SkipEdge, Backtrack, searchVars

(* While nothing is marked, every step leaves the edges visited leading to *)
(* the path or to nodes done with, among which no cycle is closed: a node  *)
(* is done with after all its edges lead to such nodes, and none of them   *)
(* leads back to it.                                                       *)
LEMMA StepDone ==
  SearchInv /\ [SearchNext]_searchVars => (cyclic' = {} => DoneInv')
<1> SUFFICES ASSUME SearchInv, [SearchNext]_searchVars, cyclic' = {}
             PROVE  DoneInv'
  OBVIOUS
<1>0. /\ SearchTypeOK /\ GrayInv /\ PathInv /\ LoopsInv
      /\ Len(stack) \in Nat /\ (stack = << >> <=> Len(stack) = 0)
  BY DEF SearchInv, SearchTypeOK
<1>1. cyclic = {} /\ graph' = graph
  BY DEF SearchNext, StartAt, BackEdge, Descend, SkipEdge, Backtrack, searchVars
<1>2. DoneInv /\ \A e \in graph : ~SelfLoop(e)
  BY <1>0, <1>1 DEF SearchInv, LoopsInv
<1>3. \A e \in graph : e.source \in GraphNodes /\ e.target \in GraphNodes
  BY <1>0, EdgeAssumption DEF SearchTypeOK
<1> DEFINE Visit(i, e, st, col) ==
             \/ col[e.target] = "black"
             \/ i < Len(st) /\ e.target = st[i + 1].node
           Edges(col) == \A e \in graph :
             col[e.source] = "black" => col[e.target] = "black"
           Sets(col) == \A ns \in SUBSET GraphNodes :
             ns # {} /\ (\A n \in ns : col[n] = "black") =>
               \E n \in ns : \A e \in graph : e.target = n => e.source \notin ns
           Visits(st, col) == \A i \in 1..Len(st) :
             \A e \in adj(st[i].node) \ st[i].left : Visit(i, e, st, col)
<1>4. Visits(stack, colour) /\ Edges(colour) /\ Sets(colour)
  BY <1>2 DEF DoneInv, Black
<1>5. Visits(stack', colour') /\ Edges(colour') /\ Sets(colour') => DoneInv'
  BY <1>1 DEF DoneInv, Black, adj
<1>6. ASSUME \A n \in GraphNodes : colour'[n] = "black" <=> colour[n] = "black"
      PROVE  Edges(colour') /\ Sets(colour')
  <2>1. Edges(colour')
    BY <1>3, <1>4, <1>6
  <2>2. Sets(colour')
    BY <1>4, <1>6
  <2>3. QED
    BY <2>1, <2>2
<1>7. ASSUME NEW m \in GraphNodes, colour[m] = "white",
             colour' = [colour EXCEPT ![m] = "gray"]
      PROVE  \A n \in GraphNodes : colour'[n] = "black" <=> colour[n] = "black"
  BY <1>0, <1>7 DEF SearchTypeOK
<1>8. ASSUME NEW n \in GraphNodes, StartAt(n) PROVE DoneInv'
  <2>1. Edges(colour') /\ Sets(colour')
    <3>1. colour[n] = "white" /\ colour' = [colour EXCEPT ![n] = "gray"]
      BY <1>8 DEF StartAt
    <3> HIDE DEF Edges, Sets
    <3>2. QED
      BY <3>1, <1>6, <1>7
  <2>2. Visits(stack', colour')
    <3>1. /\ Len(stack') = 1 /\ stack'[1].node = n /\ stack'[1].left = adj(n)
      BY <1>8 DEF StartAt, Frame
    <3>2. QED
      BY <3>1
  <2> HIDE DEF Edges, Sets, Visits
  <2>3. QED
    BY <1>5, <2>1, <2>2
<1>9. ASSUME NEW e \in graph, SkipEdge(e) PROVE DoneInv'
  <2>1. Edges(colour') /\ Sets(colour')
    BY <1>4, <1>9 DEF SkipEdge
  <2>2. Visits(stack', colour')
    <3>1. /\ Len(stack') = Len(stack)
          /\ \A i \in 1..Len(stack) :
               /\ stack'[i].node = stack[i].node
               /\ stack[i].left \subseteq stack'[i].left \union {e}
      BY <1>0, <1>9, VisitedKeeps DEF SkipEdge, Top
    <3>2. colour' = colour /\ colour[e.target] = "black"
      BY <1>9 DEF SkipEdge
    <3> SUFFICES ASSUME NEW i \in 1..Len(stack),
                        NEW d \in adj(stack[i].node) \ stack'[i].left
                 PROVE  Visit(i, d, stack', colour')
      BY <3>1
    <3>3. d = e \/ Visit(i, d, stack, colour)
      BY <1>4, <3>1
    <3>4. i < Len(stack) => stack'[i + 1].node = stack[i + 1].node
      BY <1>0, <3>1
    <3>5. QED
      BY <3>1, <3>2, <3>3, <3>4
  <2> HIDE DEF Edges, Sets, Visits
  <2>3. QED
    BY <1>5, <2>1, <2>2
<1>10. ASSUME NEW e \in graph, Descend(e) PROVE DoneInv'
  <2> DEFINE n == Len(stack)
             f == Frame(e.target, e)
  <2>1. e \in EdgeSpace /\ e.target \in GraphNodes
    BY <1>0, <1>3 DEF SearchTypeOK
  <2>2. Edges(colour') /\ Sets(colour')
    <3>1. colour[e.target] = "white"
          /\ colour' = [colour EXCEPT ![e.target] = "gray"]
      BY <1>10 DEF Descend
    <3> HIDE DEF Edges, Sets
    <3>2. QED
      BY <2>1, <3>1, <1>6, <1>7
  <2>3. Visits(stack', colour')
    <3>1. f \in Frames
      BY <1>0, <2>1, FrameType
    <3>2. /\ n \in Nat /\ n >= 1 /\ Len(stack') = n + 1 /\ stack'[n + 1] = f
          /\ \A i \in 1..n :
               /\ stack'[i].node = stack[i].node
               /\ i < n => stack'[i].left = stack[i].left
          /\ stack'[n].left = stack[n].left \ {e}
      BY <1>0, <1>10, <3>1, VisitedKeeps, PushAdds DEF Descend, Top
    <3>3. /\ stack'[n + 1].node = e.target
          /\ stack'[n + 1].left = adj(e.target)
      BY <3>2 DEF Frame
    <3>4. \A d \in graph : colour[d.target] = "black" => colour'[d.target] = "black"
      BY <1>0, <1>3, <1>10, <2>1 DEF Descend, SearchTypeOK
    <3> HIDE DEF f
    <3> SUFFICES ASSUME NEW i \in 1..(n + 1),
                        NEW d \in adj(stack'[i].node) \ stack'[i].left
                 PROVE  Visit(i, d, stack', colour')
      BY <3>2
    <3>5. d \in graph
      BY DEF adj
    <3>6. CASE i = n + 1
      BY <3>3, <3>6
    <3>7. CASE i = n
      <4>1. CASE d = e
        BY <3>2, <3>3, <3>7, <4>1
      <4>2. CASE d # e
        <5>1. Visit(n, d, stack, colour)
          BY <1>4, <3>2, <3>7, <4>2
        <5>2. QED
          BY <5>1, <3>2, <3>4, <3>5
      <4>3. QED
        BY <4>1, <4>2
    <3>8. CASE i \in 1..(n - 1)
      <4>1. i \in 1..n /\ i < n /\ i + 1 \in 1..n
        BY <3>2, <3>8
      <4>2. Visit(i, d, stack, colour)
        BY <1>4, <3>2, <4>1
      <4>3. stack'[i + 1].node = stack[i + 1].node
        BY <3>2, <4>1
      <4>4. QED
        BY <3>2, <3>4, <3>5, <4>1, <4>2, <4>3
    <3>9. QED
      BY <3>2, <3>6, <3>7, <3>8
  <2> HIDE DEF Edges, Sets, Visits
  <2>4. QED
    BY <1>5, <2>2, <2>3
<1>11. CASE Backtrack
  <2> DEFINE n == Len(stack)
             m == stack[n].node
  <2>1. /\ n \in Nat /\ n >= 1 /\ Len(stack') = n - 1
        /\ \A i \in 1..(n - 1) : stack'[i] = stack[i]
    BY <1>0, <1>11, PopDrops DEF Backtrack
  <2>2. colour' = [colour EXCEPT ![m] = "black"] /\ stack[n].left = {}
    BY <1>11 DEF Backtrack, Top
  <2>3. stack[n] \in Frames
    BY <1>0, <2>1 DEF SearchTypeOK
  <2>4. m \in GraphNodes /\ colour[m] = "gray"
    BY <1>0, <2>1, <2>3 DEF GrayInv, Frames
  <2>5. \A e \in graph : e.source = m => colour[e.target] = "black"
    BY <1>2, <1>4, <2>1, <2>2 DEF adj
  <2> HIDE DEF n, m
  <2>6. \A k \in GraphNodes : colour'[k] = "black" <=> colour[k] = "black" \/ k = m
    BY <1>0, <2>2, <2>4 DEF SearchTypeOK
  <2>7. Edges(colour')
    BY <1>3, <1>4, <2>5, <2>6
  <2>8. Sets(colour')
    <3> SUFFICES ASSUME NEW ns \in SUBSET GraphNodes, ns # {},
                        \A k \in ns : colour'[k] = "black"
                 PROVE  \E k \in ns : \A e \in graph :
                          e.target = k => e.source \notin ns
      OBVIOUS
    <3>1. CASE m \notin ns
      <4>1. \A k \in ns : colour[k] = "black"
        BY <2>6, <3>1
      <4>2. QED
        BY <1>4, <4>1
    <3>2. CASE m \in ns
      <4> SUFFICES ASSUME NEW e \in graph, e.target = m, e.source \in ns
                   PROVE  FALSE
        BY <3>2
      <4>1. e.source # m
        BY <1>2 DEF SelfLoop
      <4>2. colour[e.source] = "black"
        BY <2>6, <4>1
      <4>3. QED
        BY <1>4, <2>4, <4>2
    <3>3. QED
      BY <3>1, <3>2
  <2>9. Visits(stack', colour')
    <3> SUFFICES ASSUME NEW i \in 1..(n - 1), NEW d \in adj(stack[i].node) \ stack[i].left
                 PROVE  Visit(i, d, stack', colour')
      BY <2>1
    <3>1. i \in 1..n /\ i + 1 \in 1..n /\ (i + 1 = n \/ i + 1 \in 1..(n - 1))
      BY <2>1
    <3>2. d \in graph /\ d.target \in GraphNodes
      BY <1>3 DEF adj
    <3>3. colour[d.target] = "black" \/ d.target = stack[i + 1].node
      BY <1>4, <3>1 DEF n
    <3>4. CASE colour[d.target] = "black" \/ i + 1 = n
      BY <2>6, <3>2, <3>3, <3>4 DEF m
    <3>5. CASE d.target = stack[i + 1].node /\ i + 1 \in 1..(n - 1)
      BY <2>1, <3>5
    <3>6. QED
      BY <3>1, <3>3, <3>4, <3>5
  <2> HIDE DEF Edges, Sets, Visits
  <2>10. QED
    BY <1>5, <2>7, <2>8, <2>9
<1>12. CASE UNCHANGED searchVars
  BY <1>2, <1>12 DEF searchVars, DoneInv, Black, adj
<1>13. ASSUME NEW e \in graph, BackEdge(e) PROVE FALSE
  BY <1>13 DEF BackEdge
<1>14. QED
  BY <1>8, <1>9, <1>10, <1>11, <1>12, <1>13 DEF SearchNext

(* SearchInv holds in every state of every search. *)
THEOREM SearchInvariance == SearchSpec => []SearchInv
<1>1. SearchInv /\ [SearchNext]_searchVars => SearchInv'
  BY StepSearchType, StepPath, StepLoops, StepDone, StepMarked DEF SearchInv
<1>2. QED
  BY SearchInitInv, <1>1, PTL DEF SearchSpec

(* No edge is painted red that is on no cycle, whatever the graph and in   *)
(* whatever order its edges are visited.  (cycles.ts 32)                   *)
THEOREM Marked == SearchSpec => []MarkedLieOnCycles
<1>1. SearchInv => MarkedLieOnCycles
  BY DEF SearchInv
<1>2. QED
  BY SearchInvariance, <1>1, PTL

(* Some edge is red in the end if and only if the server would refuse the  *)
(* graph for a cycle.  (cycles.ts 7-13, executor.cpp 449-514)              *)
THEOREM Warned == SearchSpec => []WarnedIffRefused
<1>1. ASSUME SearchInv, SearchDone PROVE cyclic # {} <=> ServerRefuses
  <2>1. \A e \in graph : e.source \in GraphNodes /\ e.target \in GraphNodes
    BY <1>1, EdgeAssumption DEF SearchInv, SearchTypeOK
  <2>2. ASSUME NEW d \in cyclic PROVE ServerRefuses
    <3>1. PICK es \in SUBSET graph : d \in es /\ Ring(es)
      BY <1>1 DEF SearchInv, MarkedLieOnCycles, OnCycle
    <3> DEFINE ns == {e.target : e \in es}
    <3>2. ns \in SUBSET GraphNodes /\ ns # {}
      BY <2>1, <3>1
    <3>3. ASSUME NEW k \in ns
          PROVE  \E e \in graph : e.target = k /\ e.source \in ns
      <4>1. PICK e \in es : e.target = k
        OBVIOUS
      <4>2. PICK f \in es : f.target = e.source
        BY <3>1 DEF Ring
      <4>3. QED
        BY <4>1, <4>2
    <3>4. QED
      BY <3>2, <3>3 DEF ServerRefuses
  <2>3. ASSUME ServerRefuses, cyclic = {} PROVE FALSE
    <3>1. PICK ns \in SUBSET GraphNodes :
            /\ ns # {}
            /\ \A k \in ns : \E e \in graph : e.target = k /\ e.source \in ns
      BY <2>3 DEF ServerRefuses
    <3>2. \A k \in ns : Black(k)
      BY <1>1, <3>1 DEF SearchDone, allNodes, Black
    <3>3. QED
      BY <1>1, <2>3, <3>1, <3>2 DEF SearchInv, DoneInv
  <2>4. QED
    BY <2>2, <2>3
<1>2. SearchInv => WarnedIffRefused
  BY <1>1 DEF WarnedIffRefused
<1>3. QED
  BY SearchInvariance, <1>2, PTL
=============================================================================
