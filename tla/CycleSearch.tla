---------------------------- MODULE CycleSearch -----------------------------
(***************************************************************************)
(* findCyclicEdges, the depth-first search by which the canvas paints the  *)
(* edges of cycles red, and the verdict of the server on the same graph.   *)
(*                                                                         *)
(* The order in which edges and nodes are visited is that of the array of  *)
(* edges; here it is any order.                                            *)
(***************************************************************************)
EXTENDS Naturals, Sequences

CONSTANTS
  GraphNodes,
  EdgeSpace,   \* edges there may be: records of id, source and target
  NoEdge

ASSUME EdgeAssumption ==
  /\ \A e \in EdgeSpace : e.source \in GraphNodes /\ e.target \in GraphNodes
  /\ NoEdge \notin EdgeSpace

VARIABLES
  graph,    \* the edges
  colour,
  stack,    \* frames: a node, its edges yet to visit, the edge that led here
  cyclic    \* the edges marked

searchVars == <<graph, colour, stack, cyclic>>

SelfLoop(e) == e.source = e.target

\* adj: the edges out of a node that a search follows
adj(n) == {e \in graph : e.source = n /\ ~SelfLoop(e)}

\* allNodes: those an edge touches
allNodes == {e.source : e \in graph} \union {e.target : e \in graph}

\* MUTANT of SearchInit: an edge from a node to itself is on no path either
SearchInit_loops ==
  /\ graph \in SUBSET EdgeSpace
  /\ colour = [n \in GraphNodes |-> "white"]
  /\ stack = << >>
  /\ cyclic = {}

SearchInit ==
  /\ graph \in SUBSET EdgeSpace
  /\ colour = [n \in GraphNodes |-> "white"]
  /\ stack = << >>
  /\ cyclic = {e \in graph : SelfLoop(e)}

Top == stack[Len(stack)]

Frame(n, e) == [node |-> n, left |-> adj(n), incomingEdge |-> e]

\* the rest of the stack, its top frame with e visited
Visited(e) == [stack EXCEPT ![Len(stack)].left = @ \ {e}]

StartAt(n) ==
  /\ stack = << >>
  /\ n \in allNodes /\ colour[n] = "white"
  /\ colour' = [colour EXCEPT ![n] = "gray"]
  /\ stack' = <<Frame(n, NoEdge)>>
  /\ UNCHANGED <<graph, cyclic>>

\* MUTANT of BackEdge: the walk back includes the edge that led to the target
BackEdge_above(e) ==
  /\ stack # << >> /\ e \in Top.left
  /\ colour[e.target] = "gray"
  /\ stack' = Visited(e)
  /\ cyclic' = cyclic \union {e} \union
       {stack[i].incomingEdge : i \in {i \in DOMAIN stack :
          /\ stack[i].incomingEdge # NoEdge
          /\ \A j \in (i + 1)..Len(stack) : stack[j].node # e.target}}
  /\ UNCHANGED <<graph, colour>>

\* an edge to a node on the path: it and the path from there close a cycle
BackEdge(e) ==
  /\ stack # << >> /\ e \in Top.left
  /\ colour[e.target] = "gray"
  /\ stack' = Visited(e)
  /\ cyclic' = cyclic \union {e} \union
       {stack[i].incomingEdge : i \in {i \in DOMAIN stack :
          /\ stack[i].incomingEdge # NoEdge
          /\ \A j \in i..Len(stack) : stack[j].node # e.target}}
  /\ UNCHANGED <<graph, colour>>

Descend(e) ==
  /\ stack # << >> /\ e \in Top.left
  /\ colour[e.target] = "white"
  /\ colour' = [colour EXCEPT ![e.target] = "gray"]
  /\ stack' = Append(Visited(e), Frame(e.target, e))
  /\ UNCHANGED <<graph, cyclic>>

\* an edge to a node done with
SkipEdge(e) ==
  /\ stack # << >> /\ e \in Top.left
  /\ colour[e.target] = "black"
  /\ stack' = Visited(e)
  /\ UNCHANGED <<graph, colour, cyclic>>

Backtrack ==
  /\ stack # << >> /\ Top.left = {}
  /\ colour' = [colour EXCEPT ![Top.node] = "black"]
  /\ stack' = SubSeq(stack, 1, Len(stack) - 1)
  /\ UNCHANGED <<graph, cyclic>>

SearchNext ==
  \/ \E n \in GraphNodes : StartAt(n)
  \/ \E e \in graph : BackEdge(e) \/ Descend(e) \/ SkipEdge(e)
  \/ Backtrack

SearchSpec == SearchInit /\ [][SearchNext]_searchVars

SearchDone == stack = << >> /\ \A n \in allNodes : colour[n] = "black"

-----------------------------------------------------------------------------
(* What a cycle is, and who objects to one.                                *)

\* a ring: disjoint cycles, as each edge follows one and is followed by one,
\* and no two leave, or end at, the same node
Ring(es) ==
  /\ \A e \in es : /\ \E f \in es : f.source = e.target
                   /\ \E f \in es : f.target = e.source
  /\ \A e, f \in es : e.source = f.source \/ e.target = f.target => e = f

OnCycle(e) == \E es \in SUBSET graph : e \in es /\ Ring(es)

\* Kahn's algorithm leaves nodes unvisited: some, each with an edge from one
\* of them
ServerRefuses ==
  \E ns \in SUBSET GraphNodes :
    /\ ns # {}
    /\ \A n \in ns : \E e \in graph : e.target = n /\ e.source \in ns

-----------------------------------------------------------------------------
(* Properties.                                                             *)

(* No edge is painted red that is on no cycle.  (cycles.ts 32)             *)
MarkedLieOnCycles == \A e \in cyclic : OnCycle(e)

(* When the search is done some edge is red if and only if the server      *)
(* would refuse the graph for a cycle: nobody runs into that unwarned.     *)
(* (cycles.ts 7-13, executor.cpp 449-514)                                  *)
WarnedIffRefused == SearchDone => (cyclic # {} <=> ServerRefuses)

(* "Edges not in the set are guaranteed not to participate in any cycle."  *)
(* (cycles.ts 33-34)                                                       *)
UnmarkedLieOnNone == SearchDone => \A e \in graph \ cyclic : ~OnCycle(e)
=============================================================================
