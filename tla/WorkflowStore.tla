---------------------------- MODULE WorkflowStore ----------------------------
(***************************************************************************)
(* The editor's store: the nodes and edges of the workflow, the cache of   *)
(* nodes by id, and the history of undo and redo.                          *)
(*                                                                         *)
(* A node is an object with an identity: the cache is checked by comparing *)
(* one object (workflowStore.ts:309), and the history shares the objects   *)
(* it restores with the canvas.  An identity is a stamp, the same for all  *)
(* objects made by one write; objects of one node differ if their stamps   *)
(* do.  Nodes are ordered by id, in the order they are made in.            *)
(*                                                                         *)
(* What the user authors of a node (its label, position and config) is one *)
(* value, and so is what a run leaves on it (status, times, output).       *)
(*                                                                         *)
(* The clipboard may hold a node copied anywhere, the file chosen may be   *)
(* any that the program has saved: copying and saving write nothing here.  *)
(*                                                                         *)
(* External: zundo, the history, of which the code uses a wrapped set()    *)
(* that saves the state before a write, undo() and redo(); and React Flow, *)
(* which turns gestures into calls of onNodesChange and onEdgesChange.     *)
(***************************************************************************)
EXTENDS Naturals, Sequences, FiniteSets

CONSTANTS
  MaxId,      \* bound: ids that are given out
  MaxNodes,   \* bound: nodes on the canvas
  Vals,       \* what can be authored of a node
  NewVal,     \* what a node dropped from the palette is like
  Stamps,     \* bound: identities in use at a time
  Limit,      \* entries kept in the history (50 in the code)
  Files,      \* workflows that were saved: what was authored of them
  MaxWrites   \* bound: writes of what is authored

ASSUME StoreAssumption ==
  /\ MaxId \in Nat /\ MaxNodes \in Nat /\ Limit \in Nat \ {0, 1}
  /\ NewVal \in Vals /\ MaxWrites \in Nat
  /\ \A f \in Files :
       /\ DOMAIN f.vals \subseteq 1..MaxId
       /\ f.edges \subseteq (DOMAIN f.vals) \X (DOMAIN f.vals)

\* the program never runs out of new objects: a write makes up to three kinds
ASSUME StampAssumption ==
  IsFiniteSet(Stamps) => Cardinality(Stamps) > MaxId + Limit + 2

Ids == 1..MaxId
NoId == 0
Runtime == {"idle", "done"}

VARIABLES
  nodes, nodesById, edges, selectedNodeId,
  past, future, isTracking,     \* zundo: pastStates, futureStates
  nodeIdCounter,
  dragged,                      \* history: what was authored when a drag began
  writes                        \* bound

graphVars   == <<nodes, nodesById, edges>>
historyVars == <<past, future>>
vars == <<graphVars, selectedNodeId, historyVars, isTracking, nodeIdCounter,
          dragged, writes>>

NoNodes == [i \in {} |-> 0]
NoDrag  == [on |-> FALSE, from |-> [vals |-> NoNodes, edges |-> {}]]

Init ==
  /\ nodes = NoNodes /\ nodesById = NoNodes /\ edges = {}
  /\ selectedNodeId = NoId
  /\ past = <<>> /\ future = <<>> /\ isTracking = TRUE
  /\ nodeIdCounter = 0
  /\ dragged = NoDrag
  /\ writes = 0

-----------------------------------------------------------------------------
(* What is authored.                                                       *)

Authored(ns, es) == [vals |-> [i \in DOMAIN ns |-> ns[i].v], edges |-> es]

Current == Authored(nodes, edges)

EdgesWithin(ids, es) == {e \in es : e[1] \in ids /\ e[2] \in ids}

-----------------------------------------------------------------------------
(* Objects.                                                                *)

Node(v, status, stamp) == [v |-> v, status |-> status, stamp |-> stamp]

InUse ==
  {nodes[i].stamp : i \in DOMAIN nodes} \union
  UNION {{h[k].stamp : k \in DOMAIN h} : h \in {past, future}}

\* an identity no object has, and a second one
Fresh  == CHOOSE t \in Stamps : t \notin InUse
Fresh2 == CHOOSE t \in Stamps : t \notin InUse \union {Fresh}
Fresh3 == CHOOSE t \in Stamps : t \notin InUse \union {Fresh, Fresh2}

\* MUTANT of Partialize: the snapshot takes over the node objects
Partialize_shared(ns, es, stamp) ==
  [vals |-> [i \in DOMAIN ns |-> ns[i].v], edges |-> es,
   stamp |-> IF ns = NoNodes THEN stamp ELSE ns[CHOOSE i \in DOMAIN ns :
                                       \A j \in DOMAIN ns : i <= j].stamp]

\* partialize copies every node (stripNodesForSnapshot): runtime state is
\* gone, and the copies are new objects
Partialize(ns, es, stamp) ==
  [vals |-> [i \in DOMAIN ns |-> ns[i].v], edges |-> es, stamp |-> stamp]

Restored(snap) ==
  [i \in DOMAIN snap.vals |-> Node(snap.vals[i], "idle", snap.stamp)]

-----------------------------------------------------------------------------
(* Writing.                                                                *)

First(ns) == CHOOSE i \in DOMAIN ns : \A j \in DOMAIN ns : i <= j

\* the test of the subscriber
Consistent(cache, ns) ==
  /\ Cardinality(DOMAIN cache) = Cardinality(DOMAIN ns)
  /\ ns # NoNodes =>
       /\ First(ns) \in DOMAIN cache
       /\ cache[First(ns)] = ns[First(ns)]

rebuildNodesById(ns) == [i \in DOMAIN ns |-> ns[i]]

\* set() of the nodes, with the cache the writer gives: the subscriber
\* rebuilds the cache if its test fails
SetNodes(ns, cache) ==
  /\ nodes' = ns
  /\ nodesById' = IF Consistent(cache, ns) THEN cache ELSE rebuildNodesById(ns)

\* a state before a write, saved; the oldest goes if there is no room
Saved(before, h, stamp) ==
  [past   |-> Append(IF Len(h.past) >= Limit THEN Tail(h.past) ELSE h.past,
                     Partialize(before.nodes, before.edges, stamp)),
   future |-> <<>>]

Record(before, after, h, stamp) ==
  IF isTracking /\ Authored(before.nodes, before.edges)
                     # Authored(after.nodes, after.edges)
  THEN Saved(before, h, stamp)
  ELSE h

State(ns, es) == [nodes |-> ns, edges |-> es]

Count(ns, es) ==
  IF Authored(ns, es) = Current
  THEN UNCHANGED writes
  ELSE writes < MaxWrites /\ writes' = writes + 1

History == [past |-> past, future |-> future]

SetHistory(h) == past' = h.past /\ future' = h.future

\* one write of nodes and edges by a mutator, which rebuilds the cache itself
Write(ns, es) ==
  /\ SetNodes(ns, rebuildNodesById(ns))
  /\ edges' = es
  /\ Count(ns, es)
  /\ SetHistory(Record(State(nodes, edges), State(ns, es), History, Fresh))

Room == Cardinality(DOMAIN nodes) < MaxNodes /\ nodeIdCounter < MaxId

generateNodeId == nodeIdCounter + 1

With(ns, i, n) == [j \in DOMAIN ns \union {i} |-> IF j = i THEN n ELSE ns[j]]

-----------------------------------------------------------------------------
(* Mutators.                                                               *)

setSelectedNode(id) ==
  /\ selectedNodeId' = id
  /\ UNCHANGED <<graphVars, historyVars, isTracking, nodeIdCounter, dragged,
                 writes>>

\* onDrop: a node of the palette.  There is one pointer: it drops no node
\* while it drags one.
addNode ==
  /\ Room /\ ~dragged.on
  /\ nodeIdCounter' = generateNodeId
  /\ Write(With(nodes, generateNodeId, Node(NewVal, "idle", Fresh2)), edges)
  /\ UNCHANGED <<selectedNodeId, isTracking, dragged>>

duplicateNode(id) ==
  /\ Room /\ id \in DOMAIN nodesById
  /\ nodeIdCounter' = generateNodeId
  /\ Write(With(nodes, generateNodeId, Node(nodesById[id].v, "idle", Fresh2)),
           edges)
  /\ selectedNodeId' = generateNodeId
  /\ UNCHANGED <<isTracking, dragged>>

\* MUTANT of removeNode: keeps the edges that lead to the node
removeNode_source(id) ==
  /\ id \in DOMAIN nodes
  /\ Write([i \in DOMAIN nodes \ {id} |-> nodes[i]],
           {e \in edges : e[1] # id})
  /\ selectedNodeId' = IF selectedNodeId = id THEN NoId ELSE selectedNodeId
  /\ UNCHANGED <<isTracking, nodeIdCounter, dragged>>

\* without such a node nothing changes
removeNode(id) ==
  /\ id \in DOMAIN nodes
  /\ Write([i \in DOMAIN nodes \ {id} |-> nodes[i]],
           EdgesWithin(DOMAIN nodes \ {id}, edges))
  /\ selectedNodeId' = IF selectedNodeId = id THEN NoId ELSE selectedNodeId
  /\ UNCHANGED <<isTracking, nodeIdCounter, dragged>>

\* a new config, label or position: updateNodeData, or a key that moves it
updateNodeData(id, v) ==
  /\ id \in DOMAIN nodes
  /\ Write(With(nodes, id, Node(v, nodes[id].status, Fresh2)), edges)
  /\ UNCHANGED <<selectedNodeId, isTracking, nodeIdCounter, dragged>>

\* an event of a run; for a node that is gone it changes nothing
updateNodeStatus(id, status) ==
  /\ id \in DOMAIN nodes
  /\ Write(With(nodes, id, Node(nodes[id].v, status, Fresh2)), edges)
  /\ UNCHANGED <<selectedNodeId, isTracking, nodeIdCounter, dragged>>

\* setNodes of selectAll, and a selection made by React Flow: new objects
\* that say nothing new
selectAll ==
  /\ nodes # NoNodes
  /\ Write([i \in DOMAIN nodes |->
             Node(nodes[i].v, nodes[i].status, Fresh2)], edges)
  /\ UNCHANGED <<selectedNodeId, isTracking, nodeIdCounter, dragged>>

\* onLayout: every node is moved; the edges are set to the same
onLayout(v) ==
  /\ nodes # NoNodes
  /\ Write([i \in DOMAIN nodes |-> Node(v, nodes[i].status, Fresh2)], edges)
  /\ UNCHANGED <<selectedNodeId, isTracking, nodeIdCounter, dragged>>

\* onConnect, of two nodes on the canvas: setEdges writes no nodes
onConnect(i, j) ==
  /\ i \in DOMAIN nodes /\ j \in DOMAIN nodes /\ i # j
  /\ edges' = edges \union {<<i, j>>}
  /\ Count(nodes, edges')
  /\ SetHistory(Record(State(nodes, edges), State(nodes, edges'), History, Fresh))
  /\ UNCHANGED <<nodes, nodesById, selectedNodeId, isTracking, nodeIdCounter,
                 dragged>>

\* the Delete key: React Flow removes the edges, then, in a second write, the
\* nodes; selectedNodeId stays
onDelete(ids, es) ==
  LET left  == [i \in DOMAIN nodes \ ids |-> nodes[i]]
      kept  == EdgesWithin(DOMAIN left, edges \ es)
      first == Record(State(nodes, edges), State(nodes, kept), History, Fresh)
  IN
  /\ ids \subseteq DOMAIN nodes /\ es \subseteq edges
  /\ SetNodes(left, rebuildNodesById(left))
  /\ edges' = kept
  /\ Count(left, kept)
  /\ SetHistory(Record(State(nodes, kept), State(left, kept), first, Fresh2))
  /\ UNCHANGED <<selectedNodeId, isTracking, nodeIdCounter, dragged>>

-----------------------------------------------------------------------------
(* Dragging: pauseHistory(), positions, resumeHistory().                   *)

onNodeDragStart ==
  /\ ~dragged.on /\ nodes # NoNodes
  /\ isTracking' = FALSE
  /\ dragged' = [on |-> TRUE, from |-> Current]
  /\ UNCHANGED <<graphVars, selectedNodeId, historyVars, nodeIdCounter, writes>>

onNodeDrag(id, v) ==
  /\ dragged.on
  /\ updateNodeData(id, v)

\* MUTANT of onNodeDragStop: the history stays paused
onNodeDragStop_paused ==
  /\ dragged.on
  /\ dragged' = NoDrag
  /\ UNCHANGED <<graphVars, selectedNodeId, historyVars, isTracking,
                 nodeIdCounter, writes>>

onNodeDragStop ==
  /\ dragged.on
  /\ isTracking' = TRUE
  /\ dragged' = NoDrag
  /\ UNCHANGED <<graphVars, selectedNodeId, historyVars, nodeIdCounter, writes>>

-----------------------------------------------------------------------------
(* Undo and redo.                                                          *)

Last(s) == s[Len(s)]
Front(s) == SubSeq(s, 1, Len(s) - 1)

\* the snapshot's own objects go on the canvas, the cache is left as it was:
\* the subscriber has to see it
Undo ==
  /\ past # <<>>
  /\ SetNodes(Restored(Last(past)), nodesById)
  /\ edges' = Last(past).edges
  /\ past' = Front(past)
  /\ future' = Append(future, Partialize(nodes, edges, Fresh))
  /\ UNCHANGED <<selectedNodeId, isTracking, nodeIdCounter, dragged, writes>>

Redo ==
  /\ future # <<>>
  /\ SetNodes(Restored(Last(future)), nodesById)
  /\ edges' = Last(future).edges
  /\ future' = Front(future)
  /\ past' = Append(past, Partialize(nodes, edges, Fresh))
  /\ UNCHANGED <<selectedNodeId, isTracking, nodeIdCounter, dragged, writes>>

-----------------------------------------------------------------------------
(* Paste and load.                                                         *)

\* the status is pasted too.  The selected node gets a new object first.
handleLegacyPaste(v, status) ==
  LET deselected ==
        IF selectedNodeId \in DOMAIN nodes
        THEN With(nodes, selectedNodeId,
                  Node(nodes[selectedNodeId].v, nodes[selectedNodeId].status,
                       Fresh3))
        ELSE nodes
  IN
  /\ Room
  /\ nodeIdCounter' = generateNodeId
  /\ Write(With(deselected, generateNodeId, Node(v, status, Fresh2)), edges)
  /\ selectedNodeId' = generateNodeId
  /\ UNCHANGED <<isTracking, dragged>>

\* MUTANT of RaiseCounter: the file's ids are not looked at
RaiseCounter_not(ids) == nodeIdCounter' = nodeIdCounter

\* past every id of the file that it has not passed
RaiseCounter(ids) ==
  LET counters == {nodeIdCounter} \union {i + 1 : i \in ids} IN
  nodeIdCounter' \in {c \in counters : \A d \in counters : d <= c}

\* statuses are not taken over; the history goes on, with the workflow that
\* was replaced as its latest entry
importWorkflow(file) ==
  /\ \A i \in DOMAIN file.vals : i < MaxId
  /\ RaiseCounter(DOMAIN file.vals)
  /\ Write([i \in DOMAIN file.vals |-> Node(file.vals[i], "idle", Fresh2)],
           file.edges)
  /\ selectedNodeId' = NoId
  /\ UNCHANGED <<isTracking, dragged>>

-----------------------------------------------------------------------------

Next ==
  \/ addNode \/ selectAll \/ Undo \/ Redo
  \/ onNodeDragStart \/ onNodeDragStop
  \/ \E id \in DOMAIN nodes, v \in Vals : onNodeDrag(id, v)
  \/ \E v \in Vals, s \in Runtime : handleLegacyPaste(v, s)
  \/ \E file \in Files : importWorkflow(file)
  \/ \E id \in DOMAIN nodes \union {NoId} : setSelectedNode(id)
  \/ \E id \in DOMAIN nodes :
       \/ duplicateNode(id) \/ removeNode(id)
       \/ \E j \in DOMAIN nodes : onConnect(id, j)
       \/ \E v \in Vals : updateNodeData(id, v)
       \/ \E s \in Runtime : updateNodeStatus(id, s)
  \/ \E v \in Vals : onLayout(v)
  \/ \E ids \in SUBSET DOMAIN nodes, es \in SUBSET edges : onDelete(ids, es)

Spec == Init /\ [][Next]_vars

-----------------------------------------------------------------------------
(* Properties.                                                             *)

Snapshots == {past[k] : k \in DOMAIN past} \union {future[k] : k \in DOMAIN future}

(* Whoever looks a node up by its id finds the very object that is on the  *)
(* canvas, after an undo and a redo too, which write past the cache and    *)
(* leave it to a test of one node: it suffices because no snapshot shares  *)
(* an object with the canvas or another snapshot.                          *)
CacheAgrees ==
  /\ nodesById = nodes
  /\ \A s \in Snapshots : \A i \in DOMAIN nodes : nodes[i].stamp # s.stamp

(* A new node never gets an id that anything on the canvas or in the       *)
(* history has or refers to: not after an import, an undo or a redo.       *)
IdsAreFresh ==
  \A i \in Ids : i > nodeIdCounter =>
    /\ i \notin DOMAIN nodes
    /\ i # selectedNodeId
    /\ \A s \in Snapshots : i \notin DOMAIN s.vals

(* No edge is left, or brought back, without both of its nodes.            *)
NoDanglingEdge ==
  /\ edges = EdgesWithin(DOMAIN nodes, edges)
  /\ \A s \in Snapshots : s.edges = EdgesWithin(DOMAIN s.vals, s.edges)

\* the snapshots without their identities
Plain(h) == [k \in DOMAIN h |-> [vals |-> h[k].vals, edges |-> h[k].edges]]

\* what undo and redo can reach, from the oldest to the latest
Timeline ==
  Plain(past) \o <<Current>> \o [k \in DOMAIN future |->
                                   Plain(future)[Len(future) + 1 - k]]

Editing == INSTANCE EditHistory WITH
  line <- Timeline, at <- Len(past) + 1, held <- dragged.on

(* Undo and redo only move along the history.  An edit can be taken back,  *)
(* with all before it that there is room for; deleting a selection is two  *)
(* edits, and an edit in a drag none, however many drags there were.  What *)
(* a run or a selection does to the nodes leaves the history as it was, so *)
(* that redo survives a run.  (workflowStore.ts 37-41, 243-251, 278)        *)
ImplementsHistory ==
  Editing!Spec /\ [][(Undo => Editing!Undo) /\ (Redo => Editing!Redo)]_vars

(* workflowStore.ts:315: "call on drag start so the whole drag registers   *)
(* as a single history entry": what was there when a drag began is among   *)
(* what undo and redo reach when it ends.                                  *)
DragIsOneEntry ==
  [][onNodeDragStop => \E k \in DOMAIN Timeline' : Timeline'[k] = dragged.from]_vars
=============================================================================
