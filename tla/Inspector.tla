------------------------------ MODULE Inspector ------------------------------
(***************************************************************************)
(* The model inspector: the request a node's config makes, the drawer that *)
(* is opened for it, and the hook that calls model.inspect.                *)
(*                                                                         *)
(* React runs an effect after it has rendered: the drawer's is due while   *)
(* what it last ran for is not what it is rendered with.  When it is run   *)
(* is left open, and answers may come in between.  The hook cannot cancel  *)
(* a call; it drops the answers of all calls but the latest.               *)
(*                                                                         *)
(* External: the server, which answers a call with a graph or an error, in *)
(* any order; the connection, which may drop it (WsClient: every call is   *)
(* settled in the end).                                                    *)
(***************************************************************************)
EXTENDS Naturals

CONSTANTS
  Models,    \* what there is to inspect: vendor, paramPath and modelPath
  Layers,    \* a layer of a model
  MaxSeq     \* bound: calls and resets of one drawer

None == "none"

VARIABLES
  request,        \* inspectRequest of the selected node, None without a path
  inspectorOpen,
  ranFor,         \* what the drawer's effect last ran for
  inspectSeq,     \* seqRef
  inspectCalls,   \* calls on their way
  inspectGraph,   \* the model whose graph is shown
  inspectLoading, inspectError,
  selectedLayer

inspectorVars == <<request, inspectorOpen, ranFor, inspectSeq, inspectCalls,
                   inspectGraph, inspectLoading, inspectError, selectedLayer>>

NoError == [code |-> 0, from |-> None, of |-> None]

Rendered == [open |-> inspectorOpen, request |-> request]

InspectorInit ==
  /\ request \in Models \union {None}
  /\ inspectorOpen = FALSE
  /\ ranFor = Rendered
  /\ inspectSeq = 0
  /\ inspectCalls = {}
  /\ inspectGraph = None
  /\ inspectLoading = FALSE /\ inspectError = NoError
  /\ selectedLayer = None

-----------------------------------------------------------------------------
(* The user.                                                               *)

\* another node is selected, or the path of this one edited: the panel and
\* its drawer stay mounted
AskFor(r) ==
  /\ r # request
  /\ request' = r
  /\ UNCHANGED <<inspectorOpen, ranFor, inspectSeq, inspectCalls, inspectGraph,
                 inspectLoading, inspectError, selectedLayer>>

\* "View Model" is there with a request only
OpenInspector ==
  /\ request # None /\ ~inspectorOpen
  /\ inspectorOpen' = TRUE
  /\ UNCHANGED <<request, ranFor, inspectSeq, inspectCalls, inspectGraph,
                 inspectLoading, inspectError, selectedLayer>>

\* the button, or Escape
CloseInspector ==
  /\ inspectorOpen
  /\ inspectorOpen' = FALSE
  /\ UNCHANGED <<request, ranFor, inspectSeq, inspectCalls, inspectGraph,
                 inspectLoading, inspectError, selectedLayer>>

\* no node is selected: the drawer unmounts, and a call it made has nobody to
\* tell its answer to
UnmountInspector ==
  /\ request' = None
  /\ inspectorOpen' = FALSE
  /\ ranFor' = [open |-> FALSE, request |-> None]
  /\ inspectSeq' = 0
  /\ inspectCalls' = {}
  /\ inspectGraph' = None
  /\ inspectLoading' = FALSE /\ inspectError' = NoError
  /\ selectedLayer' = None

\* a click on a layer of the graph, on the canvas or in the list
SelectLayer(l) ==
  /\ inspectorOpen /\ inspectGraph # None
  /\ selectedLayer' = l
  /\ UNCHANGED <<request, inspectorOpen, ranFor, inspectSeq, inspectCalls,
                 inspectGraph, inspectLoading, inspectError>>

-----------------------------------------------------------------------------
(* useModelInspect.                                                        *)

inspect(r) ==
  /\ inspectSeq' = inspectSeq + 1
  /\ inspectCalls' = inspectCalls \union {[seq |-> inspectSeq + 1, of |-> r]}
  /\ inspectLoading' = TRUE
  /\ inspectError' = NoError
  /\ UNCHANGED <<inspectGraph, selectedLayer>>

reset ==
  /\ inspectSeq' = inspectSeq + 1
  /\ inspectGraph' = None
  /\ inspectError' = NoError
  /\ inspectLoading' = FALSE
  /\ UNCHANGED inspectCalls

\* the drawer's effect on [open, vendor, paramPath, modelPath]
DrawerEffect ==
  /\ ranFor # Rendered
  /\ inspectSeq < MaxSeq
  /\ ranFor' = Rendered
  /\ \/ inspectorOpen /\ request # None /\ inspect(request)
     \/ /\ inspectorOpen /\ request = None
        /\ UNCHANGED <<inspectSeq, inspectCalls, inspectGraph, inspectLoading,
                       inspectError, selectedLayer>>
     \/ ~inspectorOpen /\ reset /\ selectedLayer' = None
  /\ UNCHANGED <<request, inspectorOpen>>

\* WsClient.call rejects with new Error(`${code}: ${message}`) for an error of
\* the server, as it does for a timeout or a closed socket: an Error has no
\* field named code
NoCode == "no code"
Rejection(kind) == [code |-> NoCode]

toInspectError(kind) ==
  IF Rejection(kind).code = NoCode THEN 0 ELSE Rejection(kind).code

\* MUTANT of InspectAnswer: any answer is taken
InspectAnswer_any(c, kind) ==
  /\ c \in inspectCalls
  /\ inspectCalls' = inspectCalls \ {c}
  /\ inspectLoading' = FALSE
  /\ IF kind = "graph"
     THEN inspectGraph' = c.of /\ UNCHANGED inspectError
     ELSE /\ inspectError' = [code |-> toInspectError(kind), from |-> kind,
                              of |-> c.of]
          /\ UNCHANGED inspectGraph
  /\ UNCHANGED <<request, inspectorOpen, ranFor, inspectSeq, selectedLayer>>

\* a call is answered, with a graph or an error, or rejected by the transport
InspectAnswer(c, kind) ==
  /\ c \in inspectCalls
  /\ inspectCalls' = inspectCalls \ {c}
  /\ IF c.seq # inspectSeq
     THEN UNCHANGED <<inspectGraph, inspectLoading, inspectError>>
     ELSE /\ inspectLoading' = FALSE
          /\ IF kind = "graph"
             THEN inspectGraph' = c.of /\ UNCHANGED inspectError
             ELSE /\ inspectError' = [code |-> toInspectError(kind),
                                      from |-> kind, of |-> c.of]
                  /\ UNCHANGED inspectGraph
  /\ UNCHANGED <<request, inspectorOpen, ranFor, inspectSeq, selectedLayer>>

InspectAnswers ==
  \E c \in inspectCalls, kind \in {"graph", "server", "transport"} :
    InspectAnswer(c, kind)

InspectorNext ==
  \/ \E r \in Models \union {None} : AskFor(r)
  \/ \E l \in Layers : SelectLayer(l)
  \/ OpenInspector \/ CloseInspector \/ UnmountInspector
  \/ DrawerEffect \/ InspectAnswers

InspectorSpec == InspectorInit /\ [][InspectorNext]_inspectorVars

-----------------------------------------------------------------------------
(* Properties.                                                             *)

AtRestInspector == ranFor = Rendered /\ ~inspectLoading

(* An open drawer at rest shows, of the model of the selected node, its    *)
(* graph or its error: never what an earlier call for another node, before *)
(* a close or a change of path, came back with.  (useModelInspect.ts       *)
(* 21-25.)  With the error there may still be the graph of another model:  *)
(* the hook keeps the latest it had.                                       *)
InspectorShowsSelected ==
  AtRestInspector /\ inspectorOpen /\ request # None =>
    \/ inspectError # NoError /\ inspectError.of = request
    \/ inspectError = NoError /\ inspectGraph = request

(* useModelInspect.ts 93-96: "we keep the code field truthful (negative    *)
(* for RPC errors, 0 for non-RPC failures)".                               *)
InspectErrorKeepsCode == inspectError.from = "server" => inspectError.code # 0
=============================================================================
