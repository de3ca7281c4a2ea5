----------------------------- MODULE Connecting -----------------------------
(***************************************************************************)
(* Drawing edges on the canvas, and what the server thinks of them.        *)
(*                                                                         *)
(* A connection is dragged from a source port over target ports; the       *)
(* canvas asks isValidConnection of each it comes over, and calls          *)
(* onConnect when it is dropped on one that is valid.  A run sends the     *)
(* edges to the server, which validates them against its own table.        *)
(*                                                                         *)
(* External: React Flow, which offers the ports the node components        *)
(* render, those of the manifest.                                          *)
(***************************************************************************)
EXTENDS Manifest, Handlers, FiniteSets, Naturals

CONSTANTS
  CanvasNodes,
  MaxEdges      \* bound: edges drawn

VARIABLES
  canvasType,     \* the type of each node
  edges,          \* those drawn, each with the dataType that colours it
  dragged,        \* the handle a connection is being dragged from, or none
  over,           \* the handle it is over, or none
  lastRejection,  \* lastRejectionRef is set
  rejected        \* the toast that says so

connectVars == <<canvasType, edges, dragged, over, lastRejection, rejected>>

ConnectInit ==
  /\ canvasType \in [CanvasNodes -> ManifestTypes]
  /\ edges = {}
  /\ dragged = {} /\ over = {}
  /\ lastRejection = FALSE /\ rejected = FALSE

HandlesOf(direction) ==
  UNION {{[node |-> n, port |-> p.id] :
            p \in {p \in NODE_MANIFEST[canvasType[n]].ports :
                     p.direction = direction}} : n \in CanvasNodes}

-----------------------------------------------------------------------------
(* portSchema.ts.                                                          *)

\* getPort: the port of this id, whichever direction it has
getPort(t, id) == {p \in NODE_MANIFEST[t].ports : p.id = id}

\* MUTANT of areTypesCompatible: an image may feed anything but a net
areTypesCompatible_image(st, tt) ==
  \/ st = tt
  \/ tt # "branch" /\ (st \in {"branch", "generic", "image"} \/ tt = "generic")

areTypesCompatible(st, tt) ==
  \/ st = tt
  \/ /\ tt # "branch"
     /\ \/ st = "branch"
        \/ st = "generic" \/ tt = "generic"
        \/ st = "image" /\ tt = "tensor"

validateConnection(s, t) ==
  LET sources == getPort(canvasType[s.node], s.port)
      targets == getPort(canvasType[t.node], t.port) IN
  /\ s.node # t.node
  /\ \A p \in sources : p.direction = "source"
  /\ \A p \in targets : p.direction = "target"
  /\ \A p \in sources, q \in targets :
       areTypesCompatible(p.dataType, q.dataType)

-----------------------------------------------------------------------------
(* The gesture.                                                            *)

onConnectStart(s) ==
  /\ dragged = {} /\ dragged' = {s}
  /\ lastRejection' = FALSE
  /\ UNCHANGED <<canvasType, edges, over, rejected>>

\* over a handle, or over none
HoverHandle(ts) ==
  /\ dragged # {}
  /\ over' = ts
  /\ lastRejection' = (lastRejection \/ \E s \in dragged, t \in ts :
                                          ~validateConnection(s, t))
  /\ UNCHANGED <<canvasType, edges, dragged, rejected>>

\* the edge that addEdge makes of a connection
EdgeOf(s, t) == [source |-> s.node, sourceHandle |-> s.port,
                 target |-> t.node, targetHandle |-> t.port]

\* the connection is dropped: onConnect, if it is valid, then onConnectEnd
DropConnection ==
  /\ dragged # {}
  /\ LET valid == {st \in dragged \X over : validateConnection(st[1], st[2])}
     IN edges' = edges \union {EdgeOf(st[1], st[2]) : st \in valid}
  /\ Cardinality(edges') <= MaxEdges
  /\ rejected' = (rejected \/ lastRejection)
  /\ lastRejection' = FALSE
  /\ dragged' = {} /\ over' = {}
  /\ UNCHANGED canvasType

DismissToast ==
  /\ rejected /\ rejected' = FALSE
  /\ UNCHANGED <<canvasType, edges, dragged, over, lastRejection>>

\* an edge is selected and deleted
DeleteEdge(e) ==
  /\ edges' = edges \ {e}
  /\ UNCHANGED <<canvasType, dragged, over, lastRejection, rejected>>

ConnectNext ==
  \/ \E s \in HandlesOf("source") : onConnectStart(s)
  \/ \E t \in HandlesOf("target") : HoverHandle({t})
  \/ HoverHandle({})
  \/ DropConnection \/ DismissToast
  \/ \E e \in edges : DeleteEdge(e)

ConnectSpec == ConnectInit /\ [][ConnectNext]_connectVars

-----------------------------------------------------------------------------
(* Executor::validate_graph, pass 2.                                       *)

compatible(st, tt) ==
  \/ st = tt
  \/ IF tt = "branch"
     THEN st = "branch"
     ELSE \/ st = "branch" \/ st = "generic" \/ tt = "generic"
          \/ st = "image" /\ tt = "tensor"

ServerAccepts(e) ==
  \E p \in port_defs(canvasType[e.source]),
     q \in port_defs(canvasType[e.target]) :
    /\ p.id = e.sourceHandle /\ p.direction = "source"
    /\ q.id = e.targetHandle /\ q.direction = "target"
    /\ compatible(p.dataType, q.dataType)

-----------------------------------------------------------------------------
(* Properties.                                                             *)

(* Whatever edges are drawn, the server finds both ports of each in its    *)
(* own table and lets the one feed the other: a graph drawn on the canvas  *)
(* is never refused for its ports.  The two tables and the two rules are   *)
(* kept in step by hand.  (portSchema.ts 67-101, executor.cpp 590-603)     *)
DrawnIsAccepted == \A e \in edges : ServerAccepts(e)
=============================================================================
