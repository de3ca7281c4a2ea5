------------------------------- MODULE GraphRun -------------------------------
(***************************************************************************)
(* What Executor::execute does with a graph: the data flow of successive   *)
(* runs over one Executor.  A handler is modelled by what it does to the   *)
(* ports: which it declares, which it writes, which of its inputs it does  *)
(* without, and whether it may throw; handlers alike in this are one kind. *)
(*                                                                         *)
(* Only the worker touches this state, so one action is the whole visit of *)
(* a node.  A stop is seen between two nodes (Cancel) or right after a     *)
(* handler (Suppressed).  Pauses are in RunControl.  Every graph of Graphs *)
(* passes validate_graph: a refused one never reaches the loop.            *)
(***************************************************************************)
EXTENDS Naturals, Sequences, FiniteSets

CONSTANTS
  Nodes,     \* node ids
  Graphs,    \* what a client may execute: [kind, edges], edges in their order
  MaxRuns    \* bound: number of runs

\* createNet, condition, debug, saveImage, saveText and output are handlers
\*   input    inputImage, inputTensor: no input, one output
\*   task     postprocess, segmentationMask: one input and needs it
\*   join     inference, benchmark, annotateImage, drawBoxes, composite: two
\*            inputs and needs both
\*   overlay  tensorToImage: needs its tensor; the image to draw on is optional
Kinds == {"createNet", "input", "task", "join", "overlay", "condition", "debug",
          "saveImage", "saveText", "output"}
InHandles  == {"a", "b"}
OutHandles == {"o", "true_branch", "false_branch"}
Ports == Nodes \X OutHandles
Edge == [source : Nodes, source_handle : OutHandles,
         target : Nodes, target_handle : InHandles]

\* the ports a handler of the kind declares
Sources(kind) ==
  CASE kind = "condition" -> {"true_branch", "false_branch"}
    [] kind \in {"saveImage", "saveText", "output"} -> {}
    [] OTHER -> {"o"}

Targets(kind) ==
  CASE kind \in {"createNet", "input"} -> {}
    [] kind \in {"join", "overlay"}    -> {"a", "b"}
    [] OTHER -> {"a"}

\* the inputs without which the handler throws
Required(kind) ==
  CASE kind = "join" -> {"a", "b"}
    [] kind \in {"task", "overlay", "saveImage"} -> {"a"}
    [] OTHER -> {}

\* kinds that may throw for reasons of their own: a file that cannot be read
\* or written, a value of another type, a setting, the engine
MayThrow == Kinds \ {"condition", "debug", "output"}

\* validate_graph(): no cycle, and every edge joins declared ports
Valid(g) ==
  /\ g.kind \in [Nodes -> Kinds]
  /\ g.edges \in Seq(Edge)
  /\ \A i \in DOMAIN g.edges :
       /\ g.edges[i].source_handle \in Sources(g.kind[g.edges[i].source])
       /\ g.edges[i].target_handle \in Targets(g.kind[g.edges[i].target])
  /\ \A S \in (SUBSET Nodes) \ {{}} : \E n \in S : \A i \in DOMAIN g.edges :
       g.edges[i].target = n => g.edges[i].source \notin S

ASSUME GraphsAssumption == MaxRuns \in Nat /\ \A g \in Graphs : Valid(g)

VARIABLES
  run, running,       \* how many runs were started; whether one is in progress
  destroyed,          \* the Executor is gone
  graph,              \* the graph of the latest run
  fails, taken,       \* its handlers' behaviour: who throws, which branch
  todo,               \* nodes of the order this run has not visited
  port_data,          \* what each source port holds
  dead_ports, failed_nodes,
  status,             \* last status notified per node
  upstream,           \* the node a skip is attributed to, or none
  nets, next_handle   \* the engine: live nets and its handle counter

vars == <<run, running, destroyed, graph, fails, taken, todo, port_data, dead_ports,
          failed_nodes, status, upstream, nets, next_handle>>
runVars == <<run, destroyed, graph, fails, taken>>

\* PortValue: nothing stored, std::monostate, a net handle, or data (of which
\* only the run that computed it matters)
Absent  == [kind |-> "absent", id |-> 0]
Nothing == [kind |-> "nothing", id |-> 0]
Net(h)  == [kind |-> "net", id |-> h]
Data(r) == [kind |-> "data", id |-> r]

Empty == [p \in Ports |-> Absent]
Unvisited == [n \in Nodes |-> "none"]
NoUpstream == [n \in Nodes |-> {}]
NoGraph == [kind |-> [n \in Nodes |-> "output"], edges |-> <<>>]

Init ==
  /\ run = 0
  /\ running = FALSE
  /\ destroyed = FALSE
  /\ graph = NoGraph
  /\ fails = {}
  /\ taken = {}
  /\ todo = Nodes
  /\ port_data = Empty
  /\ dead_ports = {}
  /\ failed_nodes = {}
  /\ status = Unvisited
  /\ upstream = NoUpstream
  /\ nets = {}
  /\ next_handle = 1

-----------------------------------------------------------------------------
(* Edges, by their position in the graph's list.                           *)

SourcePort(i) == <<graph.edges[i].source, graph.edges[i].source_handle>>

inputs_for(n) == {i \in DOMAIN graph.edges : graph.edges[i].target = n}

First(S) == CHOOSE i \in S : \A j \in S : i <= j

\* MUTANT of OutPorts: the default port only
OutPorts_default(n) == {<<n, "o">>}

\* every port an edge leaves n from
OutPorts(n) == {SourcePort(i) : i \in {j \in DOMAIN graph.edges :
                                         graph.edges[j].source = n}}

\* the first edge into the handle whose port holds something
Holding(n, h) == {i \in inputs_for(n) : /\ graph.edges[i].target_handle = h
                                        /\ port_data[SourcePort(i)] # Absent}

resolve_input(n, h) ==
  IF Holding(n, h) = {} THEN Nothing
  ELSE port_data[SourcePort(First(Holding(n, h)))]

\* MUTANT of should_skip: one dead input is enough
should_skip_any(n) ==
  \E i \in inputs_for(n) : SourcePort(i) \in dead_ports

should_skip(n) ==
  /\ inputs_for(n) # {}
  /\ \A i \in inputs_for(n) : SourcePort(i) \in dead_ports

\* MUTANT of Ready: the graph's own node order
Ready_unordered(n) == running /\ n \in todo

\* topological_sort(): n comes after the sources of its edges
Ready(n) ==
  /\ running
  /\ n \in todo
  /\ \A i \in inputs_for(n) : graph.edges[i].source \notin todo

-----------------------------------------------------------------------------
(* The life of a run.                                                      *)

HeldNets == {port_data[p].id : p \in {q \in Ports : port_data[q].kind = "net"}}

\* MUTANT of ReleaseNets: nobody calls destroy_net
ReleaseNets_never == UNCHANGED nets

\* release_net_handles()
ReleaseNets == nets' = nets \ HeldNets

\* MUTANT of ClearRunState: outputs kept for a re-run
ClearRunState_reuse ==
  /\ port_data' = [p \in Ports |-> IF port_data[p].kind = "net" THEN Absent
                                                             ELSE port_data[p]]
  /\ dead_ports' = {}
  /\ failed_nodes' = {}

ClearRunState ==
  /\ port_data' = Empty
  /\ dead_ports' = {}
  /\ failed_nodes' = {}

\* which of its nodes will throw for reasons of their own, and which of its
\* conditions will hold, is settled by data the model leaves out
StartRun ==
  /\ ~running
  /\ ~destroyed
  /\ run < MaxRuns
  /\ run' = run + 1
  /\ running' = TRUE
  /\ graph' \in Graphs
  /\ fails' \in SUBSET {n \in Nodes : graph'.kind[n] \in MayThrow}
  /\ taken' \in SUBSET {n \in Nodes : graph'.kind[n] = "condition"}
  /\ todo' = Nodes
  /\ ReleaseNets
  /\ ClearRunState
  /\ status' = Unvisited
  /\ upstream' = NoUpstream
  /\ UNCHANGED <<destroyed, next_handle>>

Stops ==
  /\ running
  /\ running' = FALSE
  /\ UNCHANGED <<runVars, todo, port_data, dead_ports, failed_nodes, status,
                 upstream, nets, next_handle>>

\* the end of the order
Finish == todo = {} /\ Stops

\* a stop polled at the head of the loop
Cancel == todo # {} /\ Stops

\* MUTANT of Failing: a skip does not pass the blame on
Failing_direct(n) ==
  {i \in inputs_for(n) : status[graph.edges[i].source] = "error"}

\* the first failed node that feeds n
Failing(n) == {i \in inputs_for(n) : graph.edges[i].source \in failed_nodes}

FirstSource(S) == IF S = {} THEN {} ELSE {graph.edges[First(S)].source}

Cause(n) == FirstSource(Failing(n))

Skip(n) ==
  /\ Ready(n)
  /\ should_skip(n)
  /\ todo' = todo \ {n}
  /\ dead_ports' = dead_ports \union OutPorts(n)
  /\ upstream' = [upstream EXCEPT ![n] = Cause(n)]
  /\ failed_nodes' = IF Cause(n) = {} THEN failed_nodes
                                      ELSE failed_nodes \union {n}
  /\ status' = [status EXCEPT ![n] = "skipped"]
  /\ UNCHANGED <<runVars, running, port_data, nets, next_handle>>

\* what a handler writes, and the port it declares dead
Output(n) ==
  <<n, IF graph.kind[n] # "condition" THEN "o"
       ELSE IF n \in taken THEN "true_branch" ELSE "false_branch">>

Value(n) ==
  CASE graph.kind[n] = "createNet" -> Net(next_handle)
    [] graph.kind[n] \in {"condition", "debug"} -> resolve_input(n, "a")
    [] OTHER -> Data(run)

Routed(n) ==
  IF graph.kind[n] = "condition"
    THEN {<<n, "true_branch">>, <<n, "false_branch">>} \ {Output(n)}
    ELSE {}

\* an input the handler needs resolves to nothing, being unconnected or empty
Misses(n) ==
  \E h \in Required(graph.kind[n]) : resolve_input(n, h) = Nothing

Throws(n) == n \in fails \/ Misses(n)

\* the handler's effect on ports and engine, up to its return
Handle(n) ==
  /\ port_data' = IF Sources(graph.kind[n]) = {} THEN port_data
                  ELSE [port_data EXCEPT ![Output(n)] = Value(n)]
  /\ IF graph.kind[n] = "createNet"
       THEN nets' = nets \union {next_handle} /\ next_handle' = next_handle + 1
       ELSE UNCHANGED <<nets, next_handle>>

Visit(n) ==
  /\ Ready(n)
  /\ ~should_skip(n)
  /\ todo' = todo \ {n}
  /\ UNCHANGED <<runVars, upstream>>

Done(n) ==
  /\ Visit(n)
  /\ ~Throws(n)
  /\ Handle(n)
  /\ dead_ports' = dead_ports \union Routed(n)
  /\ status' = [status EXCEPT ![n] = "done"]
  /\ UNCHANGED <<running, failed_nodes>>

\* record_failure()
Fail(n) ==
  /\ Visit(n)
  /\ Throws(n)
  /\ failed_nodes' = failed_nodes \union {n}
  /\ dead_ports' = dead_ports \union OutPorts(n)
  /\ status' = [status EXCEPT ![n] = "error"]
  /\ UNCHANGED <<running, port_data, nets, next_handle>>

\* a stop seen after the handler: its effects stay, its status is not sent
Suppressed(n) ==
  /\ Visit(n)
  /\ IF Throws(n) THEN UNCHANGED <<port_data, nets, next_handle, dead_ports>>
     ELSE Handle(n) /\ dead_ports' = dead_ports \union Routed(n)
  /\ status' = [status EXCEPT ![n] = "running"]
  /\ running' = FALSE
  /\ UNCHANGED failed_nodes

\* ~Executor() releases what the last run left
Destroy ==
  /\ ~running
  /\ ~destroyed
  /\ destroyed' = TRUE
  /\ ReleaseNets
  /\ port_data' = Empty
  /\ UNCHANGED <<run, running, graph, fails, taken, todo, dead_ports,
                 failed_nodes, status, upstream, next_handle>>

Next ==
  \/ StartRun
  \/ Finish
  \/ Cancel
  \/ \E n \in Nodes : Skip(n) \/ Done(n) \/ Fail(n) \/ Suppressed(n)
  \/ Destroy

Spec == Init /\ [][Next]_vars

-----------------------------------------------------------------------------
(* Properties.                                                             *)

PortValues ==
  [kind : {"absent", "nothing", "net", "data"}, id : Nat]

TypeOK ==
  /\ run \in Nat
  /\ running \in BOOLEAN
  /\ destroyed \in BOOLEAN
  /\ Valid(graph)
  /\ fails \subseteq Nodes
  /\ taken \subseteq Nodes
  /\ todo \subseteq Nodes
  /\ port_data \in [Ports -> PortValues]
  /\ dead_ports \subseteq Ports
  /\ failed_nodes \subseteq Nodes
  /\ status \in [Nodes -> {"none", "running", "done", "error", "skipped"}]
  /\ upstream \in [Nodes -> SUBSET Nodes]
  /\ nets \subseteq Nat
  /\ next_handle \in Nat

\* told from the statuses alone: m delivers at its port h
Delivers(m, h) == status[m] = "done" /\ Output(m) = <<m, h>>

(* A visited node was skipped exactly when it has inputs and no node that  *)
(* feeds it delivers there, whatever the order of the visit, the runs      *)
(* before and the way failures and untaken branches spread: dead_ports     *)
(* says no more and no less than the statuses do.  (executor.cpp 199-231,  *)
(* 359-374, 412-420)                                                       *)
SkipIffUnreachable ==
  \A n \in Nodes \ todo :
    status[n] = "skipped" <=>
      /\ inputs_for(n) # {}
      /\ \A i \in inputs_for(n) :
           ~Delivers(graph.edges[i].source, graph.edges[i].source_handle)

(* What a node saw stays true: a node that ended well would still find the *)
(* inputs it cannot do without, and one that failed, perhaps for an input  *)
(* that held nothing, would fail still: no visit to come can overturn the  *)
(* verdict.  (executor.cpp 185-191, 336-353; core_handlers.cpp 64-66,      *)
(* 299-305, 432-442, 508-520)                                              *)
VerdictStands == ~destroyed =>
  \A n \in Nodes : /\ status[n] = "done" => ~Throws(n)
                   /\ status[n] = "error" => Throws(n)

Blamed(n) == {i \in inputs_for(n) :
                \/ status[graph.edges[i].source] = "error"
                \/ upstream[graph.edges[i].source] # {}}

(* A skip is blamed on a failure of this run exactly when a node feeding   *)
(* the skipped one failed or was itself skipped for a failure; otherwise   *)
(* it is a pruned branch.  (executor.cpp 200-230, frontend status          *)
(* "skipped" with its reason)                                              *)
SkipReasonIsRight ==
  \A n \in Nodes : status[n] = "skipped" => upstream[n] = FirstSource(Blamed(n))

(* Nothing an earlier run computed can be an input of this one: data is of *)
(* this run and nets are alive.  (executor.cpp 160-168)                    *)
InputsAreFresh ==
  \A p \in Ports :
    /\ port_data[p].kind = "data" => port_data[p].id = run
    /\ port_data[p].kind = "net" => port_data[p].id \in nets

(* The engine holds no net that no port holds: none leaks, however the run *)
(* ended, and none is left once the Executor is gone.  (executor.cpp       *)
(* 67-81, 89-93, 160-165)                                                  *)
NoNetLeaks == nets \subseteq HeldNets

(* A dead port holds no value: a node that does run never reads the output *)
(* of a branch that was not taken, of a failed node or of a skipped one.   *)
(* (executor.cpp 355-374, core_handlers.cpp 1333-1344)                     *)
DeadPortsAreEmpty ==
  \A p \in dead_ports : port_data[p] = Absent

(* executor.cpp 314-316: after a failure the nodes downstream get          *)
(* upstream_failed and not a confusing "Missing input" message.            *)
FailureNeverShowsAsMissing ==
  \A n \in Nodes : (status[n] = "error" /\ n \notin fails) =>
    \A i \in inputs_for(n) :
      /\ graph.edges[i].target_handle \in Required(graph.kind[n])
      /\ resolve_input(n, graph.edges[i].target_handle) = Nothing
      => graph.edges[i].source \notin failed_nodes

-----------------------------------------------------------------------------
(* The inductive invariant behind the safety properties.                   *)

\* a node is visited after the nodes that feed it
VisitInv ==
  /\ \A n \in Nodes : n \in todo <=> status[n] = "none"
  /\ \A n \in Nodes \ todo : \A i \in inputs_for(n) :
       graph.edges[i].source \notin todo
  /\ running => ~destroyed /\ \A n \in Nodes : status[n] # "running"

\* only the port a handler writes is ever written, and by a handler that ended
PortInv ==
  \A p \in Ports : port_data[p] # Absent =>
    p = Output(p[1]) /\ status[p[1]] \in {"done", "running"}

\* a dead port is one of a visited node and not the one it wrote; once the
\* node is dealt with, its ports that do not deliver are dead
DeadInv ==
  /\ \A p \in dead_ports :
       /\ p[1] \notin todo
       /\ p = Output(p[1]) => status[p[1]] \in {"error", "skipped"}
  /\ \A i \in DOMAIN graph.edges :
       LET m == graph.edges[i].source IN
         m \notin todo /\ status[m] # "running"
           /\ ~Delivers(m, graph.edges[i].source_handle)
         => SourcePort(i) \in dead_ports

FailInv ==
  \A n \in Nodes :
    /\ n \in failed_nodes <=> status[n] = "error" \/ upstream[n] # {}
    /\ upstream[n] # {} => status[n] = "skipped"

IInv ==
  /\ TypeOK /\ VisitInv /\ PortInv /\ DeadInv /\ FailInv
  /\ InputsAreFresh /\ NoNetLeaks
  /\ SkipIffUnreachable /\ VerdictStands /\ SkipReasonIsRight
=============================================================================
