--------------------------- MODULE GraphRunProofs ---------------------------
(***************************************************************************)
(* Proofs about GraphRun, for every set of nodes, every set of valid       *)
(* graphs and any number of runs: IInv is inductive and the safety         *)
(* properties of the data flow follow from it.                             *)
(***************************************************************************)
EXTENDS GraphRun, TLAPS, WellFoundedInduction

(* The first of a nonempty set of positions is one of them. *)
LEMMA FirstIsOne ==
  ASSUME NEW S \in SUBSET Nat, S # {}
  PROVE  First(S) \in S
<1> DEFINE less == {ss \in Nat \X Nat : ss[1] < ss[2]}
<1>1. IsWellFoundedOn(less, Nat)
  BY NatLessThanWellFounded DEF OpToRel
<1> HIDE DEF less
<1>2. PICK x \in S : \A y \in S : ~(<<y, x>> \in less)
  BY <1>1, WFMin
<1>3. ASSUME NEW y \in S PROVE x <= y
  <2>1. <<y, x>> \in Nat \X Nat /\ <<y, x>> \notin less
    BY <1>2
  <2>2. ~(y < x)
    BY <2>1 DEF less
  <2>3. QED
    BY <2>2
<1>4. QED
  BY <1>3 DEF First

(* The edges of the graph are edges, and the ports they leave are ports. *)
LEMMA EdgeType ==
  ASSUME TypeOK, NEW i \in DOMAIN graph.edges
  PROVE  /\ i \in Nat
         /\ graph.edges[i].source \in Nodes
         /\ graph.edges[i].target \in Nodes
         /\ graph.edges[i].source_handle \in OutHandles
         /\ SourcePort(i) \in Ports
         /\ SourcePort(i)[1] = graph.edges[i].source
<1>1. graph.edges \in Seq(Edge)
  BY DEF TypeOK, Valid
<1>2. i \in Nat /\ graph.edges[i] \in Edge
  BY <1>1
<1>3. QED
  BY <1>2 DEF Edge, SourcePort, Ports

LEMMA OutputType ==
  ASSUME NEW n \in Nodes
  PROVE  Output(n) \in Ports /\ Output(n)[1] = n
BY DEF Output, Ports, OutHandles

LEMMA InputsAreEdges ==
  ASSUME TypeOK, NEW n \in Nodes
  PROVE  inputs_for(n) \subseteq DOMAIN graph.edges /\ inputs_for(n) \subseteq Nat
BY EdgeType DEF inputs_for

(* What an input resolves to is nothing, or what a port holds. *)
LEMMA ResolveType ==
  ASSUME TypeOK, NEW n \in Nodes, NEW h
  PROVE  \/ resolve_input(n, h) = Nothing
         \/ \E p \in Ports : resolve_input(n, h) = port_data[p]
<1>1. CASE Holding(n, h) = {}
  BY <1>1 DEF resolve_input
<1>2. CASE Holding(n, h) # {}
  <2>1. Holding(n, h) \in SUBSET Nat /\ Holding(n, h) \subseteq DOMAIN graph.edges
    BY InputsAreEdges DEF Holding
  <2>2. First(Holding(n, h)) \in DOMAIN graph.edges
    BY <1>2, <2>1, FirstIsOne
  <2>3. SourcePort(First(Holding(n, h))) \in Ports
    BY <2>2, EdgeType
  <2>4. QED
    BY <1>2, <2>3 DEF resolve_input
<1>3. QED
  BY <1>1, <1>2

(* What a handler writes is a port value, fresh if the ports are. *)
LEMMA ValueType ==
  ASSUME TypeOK, NEW n \in Nodes
  PROVE  /\ Value(n) \in PortValues
         /\ InputsAreFresh /\ graph.kind[n] # "createNet" =>
              /\ Value(n).kind = "data" => Value(n).id = run
              /\ Value(n).kind = "net" => Value(n).id \in nets
<1>1. CASE graph.kind[n] = "createNet"
  BY <1>1 DEF Value, Net, PortValues, TypeOK
<1>2. CASE graph.kind[n] \notin {"createNet", "condition", "debug"}
  BY <1>2 DEF Value, Data, PortValues, TypeOK
<1>3. CASE graph.kind[n] \in {"condition", "debug"}
  <2>1. Value(n) = resolve_input(n, "a")
    BY <1>3 DEF Value
  <2>2. CASE resolve_input(n, "a") = Nothing
    BY <2>1, <2>2 DEF Nothing, PortValues
  <2>3. CASE \E p \in Ports : resolve_input(n, "a") = port_data[p]
    BY <2>1, <2>3 DEF TypeOK, InputsAreFresh
  <2>4. QED
    BY <2>2, <2>3, ResolveType
<1>4. QED
  BY <1>1, <1>2, <1>3

(* The initial state: no graph, nothing visited, nothing held. *)
LEMMA InitInv == Init => IInv
<1> SUFFICES ASSUME Init PROVE IInv
  OBVIOUS
<1>1. Valid(NoGraph)
  <2>1. NoGraph.edges = <<>> /\ NoGraph.kind = [n \in Nodes |-> "output"]
    BY DEF NoGraph
  <2>2. NoGraph.kind \in [Nodes -> Kinds] /\ NoGraph.edges \in Seq(Edge)
    BY <2>1 DEF Kinds
  <2>3. DOMAIN NoGraph.edges = {}
    BY <2>1
  <2>4. QED
    BY <2>2, <2>3 DEF Valid
<1>2. graph.edges = <<>> /\ DOMAIN graph.edges = {}
  BY DEF Init, NoGraph
<1>3. TypeOK
  BY <1>1 DEF Init, TypeOK, Empty, Absent, PortValues, Unvisited, NoUpstream
<1>4. VisitInv /\ PortInv /\ DeadInv /\ FailInv
  BY <1>2 DEF Init, VisitInv, PortInv, DeadInv, FailInv, Empty, Unvisited,
              NoUpstream
<1>5. InputsAreFresh /\ NoNetLeaks
  BY DEF Init, InputsAreFresh, NoNetLeaks, Empty, Absent
<1>6. SkipIffUnreachable /\ VerdictStands /\ SkipReasonIsRight
  BY DEF Init, SkipIffUnreachable, VerdictStands, SkipReasonIsRight, Unvisited
<1>7. QED
  BY <1>3, <1>4, <1>5, <1>6 DEF IInv

(* The visit of n disturbs nothing that n or a node visited before reads:  *)
(* those that feed it were visited earlier.                                *)
LEMMA VisitKeeps ==
  ASSUME IInv, NEW n \in Nodes, Ready(n), UNCHANGED runVars,
         \A m \in Nodes : m # n => /\ status'[m] = status[m]
                                  /\ upstream'[m] = upstream[m],
         \A p \in Ports : p[1] # n => port_data'[p] = port_data[p],
         NEW m \in Nodes, m \notin todo \/ m = n
  PROVE  /\ inputs_for(m)' = inputs_for(m)
         /\ \A i \in inputs_for(m) :
              /\ graph.edges[i].source \in Nodes \ todo
              /\ graph.edges[i].source # n
              /\ Delivers(graph.edges[i].source, graph.edges[i].source_handle)'
                   <=> Delivers(graph.edges[i].source, graph.edges[i].source_handle)
         /\ Throws(m)' <=> Throws(m)
         /\ Blamed(m)' = Blamed(m)
<1>1. TypeOK /\ VisitInv
  BY DEF IInv
<1>2. graph' = graph /\ fails' = fails /\ taken' = taken
  BY DEF runVars
<1>3. inputs_for(m)' = inputs_for(m)
  BY <1>2 DEF inputs_for
<1>4. \A i \in inputs_for(m) : /\ graph.edges[i].source \in Nodes \ todo
                               /\ graph.edges[i].source # n
                               /\ i \in DOMAIN graph.edges
  BY <1>1, EdgeType DEF VisitInv, Ready, inputs_for
<1>5. \A i \in inputs_for(m) : port_data'[SourcePort(i)] = port_data[SourcePort(i)]
  BY <1>1, <1>4, EdgeType
<1>6. ASSUME NEW h PROVE resolve_input(m, h)' = resolve_input(m, h)
  <2>1. Holding(m, h)' = Holding(m, h)
    BY <1>2, <1>3, <1>5 DEF Holding, SourcePort
  <2>2. CASE Holding(m, h) = {}
    BY <2>1, <2>2 DEF resolve_input, Nothing
  <2>3. CASE Holding(m, h) # {}
    <3>1. Holding(m, h) \in SUBSET Nat /\ Holding(m, h) \subseteq inputs_for(m)
      BY <1>1, InputsAreEdges DEF Holding
    <3>2. First(Holding(m, h)) \in inputs_for(m)
      BY <2>3, <3>1, FirstIsOne
    <3>3. QED
      BY <1>2, <1>5, <2>1, <2>3, <3>2 DEF resolve_input, SourcePort
  <2>4. QED
    BY <2>2, <2>3
<1>7. Throws(m)' <=> Throws(m)
  BY <1>2, <1>6 DEF Throws, Misses
<1>8. Blamed(m)' = Blamed(m)
  BY <1>2, <1>3, <1>4 DEF Blamed
<1>9. ASSUME NEW i \in inputs_for(m)
      PROVE  Delivers(graph.edges[i].source, graph.edges[i].source_handle)'
               <=> Delivers(graph.edges[i].source, graph.edges[i].source_handle)
  BY <1>2, <1>4 DEF Delivers, Output
<1>10. QED
  BY <1>3, <1>4, <1>7, <1>8, <1>9

(* dead_ports says of a node about to be visited what the statuses say.    *)
LEMMA SkipsTheUnreachable ==
  ASSUME IInv, NEW n \in Nodes, Ready(n)
  PROVE  should_skip(n) <=>
           /\ inputs_for(n) # {}
           /\ \A i \in inputs_for(n) :
                ~Delivers(graph.edges[i].source, graph.edges[i].source_handle)
<1>1. TypeOK /\ VisitInv /\ DeadInv
  BY DEF IInv
<1>2. ASSUME NEW i \in inputs_for(n)
      PROVE  SourcePort(i) \in dead_ports <=>
               ~Delivers(graph.edges[i].source, graph.edges[i].source_handle)
  <2>1. /\ i \in DOMAIN graph.edges
        /\ graph.edges[i].source \in Nodes \ todo
        /\ status[graph.edges[i].source] # "running"
    BY <1>1, EdgeType DEF VisitInv, Ready, inputs_for
  <2>2. SourcePort(i) = <<graph.edges[i].source, graph.edges[i].source_handle>>
    BY DEF SourcePort
  <2>3. QED
    BY <1>1, <2>1, <2>2 DEF DeadInv, Delivers
<1>3. QED
  BY <1>2 DEF should_skip

(* The failed nodes are those whose failure a skip is blamed on. *)
LEMMA BlamesTheFailed ==
  ASSUME IInv, NEW n \in Nodes
  PROVE  Failing(n) = Blamed(n)
<1>1. TypeOK /\ FailInv
  BY DEF IInv
<1>2. \A i \in inputs_for(n) : graph.edges[i].source \in Nodes
  BY <1>1, EdgeType DEF inputs_for
<1>3. QED
  BY <1>1, <1>2 DEF FailInv, Failing, Blamed

(* Whatever the outcome of the visit of n, if it is the one the code       *)
(* decides on, the verdicts of all visited nodes are right after it.       *)
LEMMA VisitJudges ==
  ASSUME IInv, NEW n \in Nodes, Ready(n), UNCHANGED runVars,
         todo' = todo \ {n},
         \A m \in Nodes : m # n => /\ status'[m] = status[m]
                                  /\ upstream'[m] = upstream[m],
         \A p \in Ports : p[1] # n => port_data'[p] = port_data[p],
         status'[n] \in {"skipped", "done", "error", "running"},
         status'[n] = "skipped" <=> should_skip(n),
         status'[n] = "done" => ~Throws(n),
         status'[n] = "error" => Throws(n),
         status'[n] = "skipped" => upstream'[n] = Cause(n)
  PROVE  /\ SkipIffUnreachable' /\ VerdictStands' /\ SkipReasonIsRight'
         /\ \A m \in Nodes : m \in todo' <=> status'[m] = "none"
         /\ \A m \in Nodes \ todo' : \A i \in inputs_for(m)' :
              graph'.edges[i].source \notin todo'
<1>1. /\ TypeOK /\ VisitInv /\ SkipIffUnreachable /\ VerdictStands
      /\ SkipReasonIsRight
  BY DEF IInv
<1>2. graph' = graph /\ fails' = fails /\ taken' = taken /\ destroyed' = destroyed
  BY DEF runVars
<1>3. n \in todo /\ running /\ ~destroyed
  BY <1>1 DEF Ready, VisitInv
<1> DEFINE Seen(m) == m \in Nodes /\ (m \notin todo \/ m = n)
<1>4. ASSUME NEW m, Seen(m)
      PROVE  /\ inputs_for(m)' = inputs_for(m)
             /\ \A i \in inputs_for(m) :
                  /\ graph.edges[i].source \in Nodes \ todo
                  /\ graph.edges[i].source # n
                  /\ Delivers(graph.edges[i].source, graph.edges[i].source_handle)'
                       <=> Delivers(graph.edges[i].source, graph.edges[i].source_handle)
             /\ Throws(m)' <=> Throws(m)
             /\ Blamed(m)' = Blamed(m)
  BY <1>4, VisitKeeps
<1>5. ASSUME NEW m \in Nodes PROVE m \in todo' <=> status'[m] = "none"
  BY <1>1, <1>3 DEF VisitInv
<1>6. ASSUME NEW m \in Nodes \ todo', NEW i \in inputs_for(m)'
      PROVE  graph'.edges[i].source \notin todo'
  BY <1>2, <1>4
<1>7. SkipIffUnreachable'
  <2> SUFFICES ASSUME NEW m \in Nodes \ todo'
               PROVE  status'[m] = "skipped" <=>
                        /\ inputs_for(m) # {}
                        /\ \A i \in inputs_for(m) :
                             ~Delivers(graph.edges[i].source,
                                       graph.edges[i].source_handle)
    BY <1>2, <1>4 DEF SkipIffUnreachable
  <2>1. CASE m = n
    BY <2>1, SkipsTheUnreachable
  <2>2. CASE m # n
    BY <1>1, <2>2 DEF SkipIffUnreachable
  <2>3. QED
    BY <2>1, <2>2
<1>8. VerdictStands'
  <2> SUFFICES ASSUME NEW m \in Nodes
               PROVE  /\ status'[m] = "done" => ~Throws(m)'
                      /\ status'[m] = "error" => Throws(m)'
    BY DEF VerdictStands
  <2>1. CASE m = n
    BY <1>4, <2>1
  <2>2. CASE m # n /\ m \notin todo
    BY <1>1, <1>3, <1>4, <2>2 DEF VerdictStands
  <2>3. CASE m # n /\ m \in todo
    BY <1>1, <2>3 DEF VisitInv
  <2>4. QED
    BY <2>1, <2>2, <2>3
<1>9. SkipReasonIsRight'
  <2> SUFFICES ASSUME NEW m \in Nodes, status'[m] = "skipped"
               PROVE  upstream'[m] = FirstSource(Blamed(m))'
    BY DEF SkipReasonIsRight
  <2>1. m \notin todo \/ m = n
    BY <1>1 DEF VisitInv
  <2>2. FirstSource(Blamed(m))' = FirstSource(Blamed(m))
    BY <1>2, <1>4, <2>1 DEF FirstSource
  <2>3. CASE m = n
    BY <2>2, <2>3, BlamesTheFailed DEF Cause
  <2>4. CASE m # n
    BY <1>1, <2>2, <2>4 DEF SkipReasonIsRight
  <2>5. QED
    BY <2>3, <2>4
<1>10. QED
  BY <1>5, <1>6, <1>7, <1>8, <1>9

(* A handler writes its own port only, which held nothing. *)
LEMMA HandleKeeps ==
  ASSUME IInv, NEW n \in Nodes, Ready(n), Handle(n), UNCHANGED runVars
  PROVE  /\ port_data' \in [Ports -> PortValues]
         /\ nets' \subseteq Nat /\ next_handle' \in Nat
         /\ \A p \in Ports : p # Output(n) => port_data'[p] = port_data[p]
         /\ InputsAreFresh' /\ NoNetLeaks'
<1>1. /\ TypeOK /\ VisitInv /\ PortInv /\ InputsAreFresh /\ NoNetLeaks
  BY DEF IInv
<1>2. Output(n) \in Ports /\ Output(n)[1] = n
  BY OutputType
<1>3. port_data[Output(n)] = Absent
  BY <1>1, <1>2 DEF PortInv, VisitInv, Ready
<1>4. run' = run /\ graph' = graph
  BY DEF runVars
<1>5. CASE graph.kind[n] = "createNet"
  <2>1. /\ port_data' = [port_data EXCEPT ![Output(n)] = Net(next_handle)]
        /\ nets' = nets \union {next_handle}
        /\ next_handle' = next_handle + 1
    BY <1>5 DEF Handle, Value, Sources
  <2>2. next_handle \in Nat /\ nets \subseteq Nat /\ Net(next_handle) \in PortValues
    BY <1>1 DEF TypeOK, Net, PortValues
  <2>3. port_data' \in [Ports -> PortValues]
    BY <1>1, <2>1, <2>2 DEF TypeOK
  <2>4. /\ port_data'[Output(n)] = Net(next_handle)
        /\ \A p \in Ports : p # Output(n) => port_data'[p] = port_data[p]
    BY <1>1, <1>2, <2>1 DEF TypeOK
  <2>5. InputsAreFresh'
    BY <1>1, <1>4, <2>1, <2>4 DEF InputsAreFresh, Net
  <2>6. NoNetLeaks'
    <3> SUFFICES ASSUME NEW h \in nets'
                 PROVE  \E p \in Ports : port_data'[p].kind = "net"
                                         /\ port_data'[p].id = h
      BY DEF NoNetLeaks, HeldNets
    <3>1. CASE h = next_handle
      BY <1>2, <2>4, <3>1 DEF Net
    <3>2. CASE h \in nets
      <4>1. PICK p \in Ports : port_data[p].kind = "net" /\ port_data[p].id = h
        BY <1>1, <3>2 DEF NoNetLeaks, HeldNets
      <4>2. p # Output(n)
        BY <1>3, <4>1 DEF Absent
      <4>3. QED
        BY <2>4, <4>1, <4>2
    <3>3. QED
      BY <2>1, <3>1, <3>2
  <2>7. QED
    BY <2>1, <2>2, <2>3, <2>4, <2>5, <2>6
<1>6. CASE graph.kind[n] # "createNet"
  <2>1. /\ \/ port_data' = port_data
           \/ port_data' = [port_data EXCEPT ![Output(n)] = Value(n)]
        /\ nets' = nets /\ next_handle' = next_handle
    BY <1>6 DEF Handle
  <2>2. /\ Value(n) \in PortValues
        /\ Value(n).kind = "data" => Value(n).id = run
        /\ Value(n).kind = "net" => Value(n).id \in nets
    BY <1>1, <1>6, ValueType
  <2>3. port_data' \in [Ports -> PortValues]
    BY <1>1, <2>1, <2>2 DEF TypeOK
  <2>4. \A p \in Ports :
          /\ p # Output(n) => port_data'[p] = port_data[p]
          /\ port_data'[p] = port_data[p] \/ port_data'[p] = Value(n)
    BY <1>1, <1>2, <2>1 DEF TypeOK
  <2>5. InputsAreFresh'
    <3> SUFFICES ASSUME NEW p \in Ports
                 PROVE  /\ port_data'[p].kind = "data" => port_data'[p].id = run
                        /\ port_data'[p].kind = "net" => port_data'[p].id \in nets
      BY <1>4, <2>1 DEF InputsAreFresh
    <3>1. CASE port_data'[p] = port_data[p]
      BY <1>1, <3>1 DEF InputsAreFresh
    <3>2. CASE port_data'[p] = Value(n)
      BY <2>2, <3>2
    <3>3. QED
      BY <2>4, <3>1, <3>2
  <2>6. NoNetLeaks'
    <3> SUFFICES ASSUME NEW h \in nets
                 PROVE  \E p \in Ports : port_data'[p].kind = "net"
                                         /\ port_data'[p].id = h
      BY <2>1 DEF NoNetLeaks, HeldNets
    <3>1. PICK p \in Ports : port_data[p].kind = "net" /\ port_data[p].id = h
      BY <1>1 DEF NoNetLeaks, HeldNets
    <3>2. p # Output(n)
      BY <1>3, <3>1 DEF Absent
    <3>3. QED
      BY <2>4, <3>1, <3>2
  <2>7. QED
    BY <1>1, <2>1, <2>3, <2>4, <2>5, <2>6 DEF TypeOK
<1>7. QED
  BY <1>5, <1>6

(* Of the ports of a node that ended well, the one it wrote delivers and   *)
(* the others are routed away.                                             *)
LEMMA RoutedAway ==
  ASSUME TypeOK, NEW i \in DOMAIN graph.edges, NEW n, n = graph.edges[i].source
  PROVE  SourcePort(i) = Output(n) \/ SourcePort(i) \in Routed(n)
<1>1. graph.edges[i].source_handle \in Sources(graph.kind[n])
  BY DEF TypeOK, Valid
<1>2. SourcePort(i) = <<n, graph.edges[i].source_handle>>
  BY DEF SourcePort
<1>3. CASE graph.kind[n] = "condition"
  <2>1. graph.edges[i].source_handle \in {"true_branch", "false_branch"}
    BY <1>1, <1>3 DEF Sources
  <2>2. QED
    BY <1>2, <1>3, <2>1 DEF Routed
<1>4. CASE graph.kind[n] \in {"saveImage", "saveText", "output"}
  BY <1>1, <1>4 DEF Sources
<1>5. CASE graph.kind[n] \notin {"condition", "saveImage", "saveText", "output"}
  <2>1. graph.edges[i].source_handle = "o"
    BY <1>1, <1>5 DEF Sources
  <2>2. QED
    BY <1>2, <1>5, <2>1 DEF Output
<1>6. QED
  BY <1>3, <1>4, <1>5

LEMMA RoutedType ==
  ASSUME NEW n \in Nodes, NEW p \in Routed(n)
  PROVE  p \in Ports /\ p[1] = n /\ p # Output(n)
BY DEF Routed, Ports, OutHandles

LEMMA OutPortsType ==
  ASSUME TypeOK, NEW n \in Nodes
  PROVE  \A p \in OutPorts(n) : p \in Ports /\ p[1] = n
BY EdgeType DEF OutPorts

(* The ports a visit of n declares dead are n's, not the one it wrote, and *)
(* unless the run was stopped all of n's that do not deliver.              *)
LEMMA VisitBuries ==
  ASSUME IInv, NEW n \in Nodes, Ready(n), UNCHANGED runVars,
         todo' = todo \ {n},
         \A m \in Nodes : m # n => status'[m] = status[m],
         NEW D, dead_ports' = dead_ports \union D,
         \A p \in D : p \in Ports /\ p[1] = n,
         \A p \in D : p = Output(n) => status'[n] \in {"error", "skipped"},
         status'[n] # "running" =>
           \A i \in DOMAIN graph.edges : graph.edges[i].source = n =>
             \/ SourcePort(i) \in D
             \/ SourcePort(i) = Output(n) /\ status'[n] = "done"
  PROVE  dead_ports' \subseteq Ports /\ DeadInv'
<1>1. TypeOK /\ DeadInv
  BY DEF IInv
<1>2. graph' = graph /\ taken' = taken /\ n \in todo
  BY DEF runVars, Ready
<1>3. dead_ports' \subseteq Ports
  BY <1>1 DEF TypeOK
<1>4. ASSUME NEW p \in dead_ports'
      PROVE  /\ p[1] \notin todo'
             /\ p = Output(p[1])' => status'[p[1]] \in {"error", "skipped"}
  <2>1. Output(p[1])' = Output(p[1])
    BY <1>2 DEF Output
  <2>2. CASE p \in D
    BY <2>1, <2>2
  <2>3. CASE p \in dead_ports
    <3>1. p[1] \in Nodes /\ p[1] \notin todo
      BY <1>1, <2>3 DEF DeadInv, TypeOK, Ports
    <3>2. status'[p[1]] = status[p[1]]
      BY <1>2, <3>1
    <3>3. QED
      BY <1>1, <2>1, <2>3, <3>1, <3>2 DEF DeadInv
  <2>4. QED
    BY <2>2, <2>3
<1>5. ASSUME NEW i \in DOMAIN graph.edges, NEW m, m = graph.edges[i].source,
             m \notin todo', status'[m] # "running",
             ~Delivers(m, graph.edges[i].source_handle)'
      PROVE  SourcePort(i) \in dead_ports'
  <2>1. m \in Nodes /\ Output(m)' = Output(m)
    BY <1>1, <1>2, <1>5, EdgeType DEF Output
  <2>2. SourcePort(i) = <<m, graph.edges[i].source_handle>>
    BY <1>5 DEF SourcePort
  <2>3. CASE m = n
    BY <1>2, <1>5, <2>1, <2>2, <2>3 DEF Delivers
  <2>4. CASE m # n
    <3>1. m \notin todo /\ status'[m] = status[m]
      BY <1>5, <2>1, <2>4
    <3>2. ~Delivers(m, graph.edges[i].source_handle)
      BY <1>2, <1>5, <2>1, <3>1 DEF Delivers
    <3>3. QED
      BY <1>1, <1>5, <3>1, <3>2 DEF DeadInv
  <2>5. QED
    BY <2>3, <2>4
<1>6. DeadInv'
  <2>1. \A i : SourcePort(i)' = SourcePort(i)
    BY <1>2 DEF SourcePort
  <2>2. QED
    BY <1>2, <1>4, <1>5, <2>1 DEF DeadInv
<1>7. QED
  BY <1>3, <1>6

LEMMA SkipInv == ASSUME IInv, NEW n \in Nodes, Skip(n) PROVE IInv'
<1>1. TypeOK /\ VisitInv /\ PortInv /\ FailInv /\ InputsAreFresh /\ NoNetLeaks
  BY DEF IInv
<1>2. /\ Ready(n) /\ should_skip(n)
      /\ todo' = todo \ {n}
      /\ dead_ports' = dead_ports \union OutPorts(n)
      /\ upstream' = [upstream EXCEPT ![n] = Cause(n)]
      /\ failed_nodes' = IF Cause(n) = {} THEN failed_nodes
                                          ELSE failed_nodes \union {n}
      /\ status' = [status EXCEPT ![n] = "skipped"]
      /\ UNCHANGED <<runVars, running, port_data, nets, next_handle>>
  BY DEF Skip
<1>3. n \in todo /\ status[n] = "none" /\ graph' = graph /\ run' = run
      /\ taken' = taken
  BY <1>1, <1>2 DEF Ready, VisitInv, runVars
<1>4. /\ status'[n] = "skipped" /\ upstream'[n] = Cause(n)
      /\ \A m \in Nodes : m # n => /\ status'[m] = status[m]
                                   /\ upstream'[m] = upstream[m]
  BY <1>1, <1>2 DEF TypeOK
<1>5. /\ SkipIffUnreachable' /\ VerdictStands' /\ SkipReasonIsRight'
      /\ \A m \in Nodes : m \in todo' <=> status'[m] = "none"
      /\ \A m \in Nodes \ todo' : \A i \in inputs_for(m)' :
           graph'.edges[i].source \notin todo'
  BY <1>2, <1>4, VisitJudges
<1>6. dead_ports' \subseteq Ports /\ DeadInv'
  <2>1. \A i \in DOMAIN graph.edges :
          graph.edges[i].source = n => SourcePort(i) \in OutPorts(n)
    BY DEF OutPorts
  <2>2. \A p \in OutPorts(n) : p \in Ports /\ p[1] = n
    BY <1>1, OutPortsType
  <2>3. \A p \in OutPorts(n) : p = Output(n) => status'[n] \in {"error", "skipped"}
    BY <1>4
  <2>4. /\ Ready(n) /\ UNCHANGED runVars /\ todo' = todo \ {n}
        /\ \A m \in Nodes : m # n => status'[m] = status[m]
        /\ dead_ports' = dead_ports \union OutPorts(n)
        /\ status'[n] # "running" =>
             \A i \in DOMAIN graph.edges : graph.edges[i].source = n =>
               \/ SourcePort(i) \in OutPorts(n)
               \/ SourcePort(i) = Output(n) /\ status'[n] = "done"
    BY <1>2, <1>4, <2>1
  <2>5. QED
    BY <2>2, <2>3, <2>4, VisitBuries
<1>7. Cause(n) \subseteq Nodes
  <2>1. Failing(n) \in SUBSET Nat /\ Failing(n) \subseteq DOMAIN graph.edges
    BY <1>1, InputsAreEdges DEF Failing
  <2>2. Failing(n) # {} => First(Failing(n)) \in DOMAIN graph.edges
    BY <2>1, FirstIsOne
  <2>3. QED
    BY <1>1, <2>2, EdgeType DEF Cause, FirstSource
<1>8. TypeOK'
  BY <1>1, <1>2, <1>6, <1>7 DEF TypeOK, runVars
<1>9. VisitInv'
  BY <1>1, <1>2, <1>4, <1>5 DEF VisitInv, runVars
<1>10. PortInv'
  <2>1. \A m : Output(m)' = Output(m)
    BY <1>3 DEF Output
  <2>2. \A p \in Ports : p[1] \in Nodes
    BY DEF Ports
  <2>3. QED
    BY <1>1, <1>2, <1>3, <1>4, <2>1, <2>2 DEF PortInv
<1>11. FailInv'
  BY <1>1, <1>2, <1>3, <1>4 DEF FailInv
<1>12. InputsAreFresh' /\ NoNetLeaks'
  BY <1>1, <1>2, <1>3 DEF InputsAreFresh, NoNetLeaks, HeldNets
<1>13. QED
  BY <1>5, <1>6, <1>8, <1>9, <1>10, <1>11, <1>12 DEF IInv

(* A handler that returned: its port is written, its status is done or,    *)
(* when the run was stopped meanwhile, left running.                       *)
LEMMA ReturnInv ==
  ASSUME IInv, NEW n \in Nodes, Visit(n), ~Throws(n), Handle(n),
         dead_ports' = dead_ports \union Routed(n),
         NEW s \in {"done", "running"}, status' = [status EXCEPT ![n] = s],
         running' \in BOOLEAN, running' => running /\ s = "done",
         UNCHANGED failed_nodes
  PROVE  IInv'
<1>1. TypeOK /\ VisitInv /\ PortInv /\ FailInv
  BY DEF IInv
<1>2. /\ Ready(n) /\ ~should_skip(n) /\ todo' = todo \ {n}
      /\ UNCHANGED <<runVars, upstream>>
  BY DEF Visit
<1>3. n \in todo /\ status[n] = "none" /\ graph' = graph /\ taken' = taken
      /\ destroyed' = destroyed
  BY <1>1, <1>2 DEF Ready, VisitInv, runVars
<1>4. /\ status'[n] = s /\ upstream' = upstream
      /\ \A m \in Nodes : m # n => status'[m] = status[m]
  BY <1>1, <1>2 DEF TypeOK
<1>5. /\ port_data' \in [Ports -> PortValues]
      /\ nets' \subseteq Nat /\ next_handle' \in Nat
      /\ \A p \in Ports : p # Output(n) => port_data'[p] = port_data[p]
      /\ InputsAreFresh' /\ NoNetLeaks'
  BY <1>2, HandleKeeps
<1>6. /\ SkipIffUnreachable' /\ VerdictStands' /\ SkipReasonIsRight'
      /\ \A m \in Nodes : m \in todo' <=> status'[m] = "none"
      /\ \A m \in Nodes \ todo' : \A i \in inputs_for(m)' :
           graph'.edges[i].source \notin todo'
  <2>1. \A p \in Ports : p[1] # n => port_data'[p] = port_data[p]
    BY <1>5, OutputType
  <2>2. QED
    BY <1>2, <1>4, <2>1, VisitJudges
<1>7. dead_ports' \subseteq Ports /\ DeadInv'
  <2>1. \A p \in Routed(n) : p \in Ports /\ p[1] = n /\ p # Output(n)
    BY RoutedType
  <2>2. \A i \in DOMAIN graph.edges : graph.edges[i].source = n =>
          SourcePort(i) \in Routed(n) \/ SourcePort(i) = Output(n)
    BY <1>1, RoutedAway
  <2>3. QED
    BY <1>2, <1>4, <2>1, <2>2, VisitBuries
<1>8. TypeOK'
  BY <1>1, <1>2, <1>5, <1>7 DEF TypeOK, runVars
<1>9. VisitInv'
  BY <1>1, <1>3, <1>4, <1>6 DEF VisitInv
<1>10. PortInv'
  <2> SUFFICES ASSUME NEW p \in Ports, port_data'[p] # Absent
               PROVE  p = Output(p[1]) /\ status'[p[1]] \in {"done", "running"}
    BY <1>3 DEF PortInv, Output
  <2>1. p[1] \in Nodes
    BY DEF Ports
  <2>2. CASE p = Output(n)
    BY <1>4, <2>2, OutputType
  <2>3. CASE p # Output(n)
    BY <1>1, <1>3, <1>4, <1>5, <2>1, <2>3 DEF PortInv
  <2>4. QED
    BY <2>2, <2>3
<1>11. FailInv'
  BY <1>1, <1>3, <1>4 DEF FailInv
<1>12. QED
  BY <1>5, <1>6, <1>7, <1>8, <1>9, <1>10, <1>11 DEF IInv

(* A handler that threw: a failure is recorded or, when the run was        *)
(* stopped meanwhile, left unrecorded.                                     *)
LEMMA ThrowInv ==
  ASSUME IInv, NEW n \in Nodes, Visit(n), Throws(n),
         UNCHANGED <<port_data, nets, next_handle>>,
         \/ /\ failed_nodes' = failed_nodes \union {n}
            /\ dead_ports' = dead_ports \union OutPorts(n)
            /\ status' = [status EXCEPT ![n] = "error"]
            /\ running' = running
         \/ /\ UNCHANGED <<failed_nodes, dead_ports>>
            /\ status' = [status EXCEPT ![n] = "running"]
            /\ running' = FALSE
  PROVE  IInv'
<1>1. TypeOK /\ VisitInv /\ PortInv /\ FailInv /\ InputsAreFresh /\ NoNetLeaks
  BY DEF IInv
<1>2. /\ Ready(n) /\ ~should_skip(n) /\ todo' = todo \ {n}
      /\ UNCHANGED <<runVars, upstream>>
  BY DEF Visit
<1>3. n \in todo /\ status[n] = "none" /\ graph' = graph /\ taken' = taken
      /\ destroyed' = destroyed /\ run' = run
  BY <1>1, <1>2 DEF Ready, VisitInv, runVars
<1>4. /\ status'[n] \in {"error", "running"} /\ upstream' = upstream
      /\ \A m \in Nodes : m # n => status'[m] = status[m]
  BY <1>1, <1>2 DEF TypeOK
<1>5. /\ SkipIffUnreachable' /\ VerdictStands' /\ SkipReasonIsRight'
      /\ \A m \in Nodes : m \in todo' <=> status'[m] = "none"
      /\ \A m \in Nodes \ todo' : \A i \in inputs_for(m)' :
           graph'.edges[i].source \notin todo'
  BY <1>2, <1>4, VisitJudges
<1>6. dead_ports' \subseteq Ports /\ DeadInv'
  <2>1. \A i \in DOMAIN graph.edges :
          graph.edges[i].source = n => SourcePort(i) \in OutPorts(n)
    BY DEF OutPorts
  <2>2. CASE status' = [status EXCEPT ![n] = "error"]
               /\ dead_ports' = dead_ports \union OutPorts(n)
    <3>1. status'[n] = "error"
      BY <1>1, <2>2 DEF TypeOK
    <3>2. \A p \in OutPorts(n) : p \in Ports /\ p[1] = n
      BY <1>1, OutPortsType
    <3>3. \A p \in OutPorts(n) : p = Output(n) => status'[n] \in {"error", "skipped"}
      BY <3>1
    <3>4. /\ Ready(n) /\ UNCHANGED runVars /\ todo' = todo \ {n}
          /\ \A m \in Nodes : m # n => status'[m] = status[m]
          /\ dead_ports' = dead_ports \union OutPorts(n)
          /\ status'[n] # "running" =>
               \A i \in DOMAIN graph.edges : graph.edges[i].source = n =>
                 \/ SourcePort(i) \in OutPorts(n)
                 \/ SourcePort(i) = Output(n) /\ status'[n] = "done"
      BY <1>2, <1>4, <2>1, <2>2
    <3>5. QED
      BY <3>2, <3>3, <3>4, VisitBuries
  <2>3. CASE status' = [status EXCEPT ![n] = "running"]
               /\ dead_ports' = dead_ports
    <3>1. status'[n] = "running"
      BY <1>1, <2>3 DEF TypeOK
    <3> DEFINE D == {}
    <3>2. /\ dead_ports' = dead_ports \union D
          /\ \A p \in D : p \in Ports /\ p[1] = n
          /\ \A p \in D : p = Output(n) => status'[n] \in {"error", "skipped"}
      BY <2>3
    <3> HIDE DEF D
    <3>3. QED
      BY <1>2, <1>4, <3>1, <3>2, VisitBuries
  <2>4. QED
    BY <2>2, <2>3
<1>7. TypeOK'
  BY <1>1, <1>2, <1>6 DEF TypeOK, runVars
<1>8. VisitInv'
  BY <1>1, <1>3, <1>4, <1>5 DEF VisitInv, TypeOK
<1>9. PortInv'
  <2>1. \A m : Output(m)' = Output(m)
    BY <1>3 DEF Output
  <2>2. \A p \in Ports : p[1] \in Nodes
    BY DEF Ports
  <2>3. QED
    BY <1>1, <1>2, <1>3, <1>4, <2>1, <2>2 DEF PortInv
<1>10. FailInv'
  BY <1>1, <1>3, <1>4 DEF FailInv, TypeOK
<1>11. InputsAreFresh' /\ NoNetLeaks'
  BY <1>1, <1>3 DEF InputsAreFresh, NoNetLeaks, HeldNets
<1>12. QED
  BY <1>5, <1>6, <1>7, <1>8, <1>9, <1>10, <1>11 DEF IInv

(* What the verdicts depend on, left alone, leaves the verdicts alone. *)
LEMMA SameVerdicts ==
  ASSUME UNCHANGED <<graph, taken, status, upstream>>, NEW n
  PROVE  /\ inputs_for(n)' = inputs_for(n)
         /\ Output(n)' = Output(n)
         /\ \A i : SourcePort(i)' = SourcePort(i)
         /\ Blamed(n)' = Blamed(n)
         /\ FirstSource(Blamed(n))' = FirstSource(Blamed(n))
         /\ \A h : Delivers(n, h)' <=> Delivers(n, h)
         /\ port_data' = port_data /\ fails' = fails => (Throws(n)' <=> Throws(n))
<1>1. inputs_for(n)' = inputs_for(n)
  BY DEF inputs_for
<1>2. Output(n)' = Output(n)
  BY DEF Output
<1>3. \A i : SourcePort(i)' = SourcePort(i)
  BY DEF SourcePort
<1>4. Blamed(n)' = Blamed(n)
  BY <1>1 DEF Blamed
<1>5. FirstSource(Blamed(n))' = FirstSource(Blamed(n))
  BY <1>4 DEF FirstSource
<1>6. \A h : Delivers(n, h)' <=> Delivers(n, h)
  BY <1>2 DEF Delivers
<1>7. ASSUME port_data' = port_data, fails' = fails PROVE Throws(n)' <=> Throws(n)
  <2>1. \A h : Holding(n, h)' = Holding(n, h)
    BY <1>1, <1>3, <1>7 DEF Holding
  <2>2. \A h : resolve_input(n, h)' = resolve_input(n, h)
    BY <1>3, <1>7, <2>1 DEF resolve_input, SourcePort, Nothing
  <2>3. QED
    BY <1>7, <2>2 DEF Throws, Misses
<1>8. QED
  BY <1>1, <1>2, <1>3, <1>4, <1>5, <1>6, <1>7

(* Between two nodes and between two runs. *)
LEMMA StartInv == ASSUME IInv, StartRun PROVE IInv'
<1>1. TypeOK
  BY DEF IInv
<1>2. /\ run' = run + 1 /\ running' = TRUE /\ ~destroyed
      /\ graph' \in Graphs
      /\ fails' \subseteq Nodes /\ taken' \subseteq Nodes
      /\ todo' = Nodes
      /\ nets' = nets \ HeldNets
      /\ port_data' = Empty /\ dead_ports' = {} /\ failed_nodes' = {}
      /\ status' = Unvisited /\ upstream' = NoUpstream
      /\ UNCHANGED <<destroyed, next_handle>>
  BY DEF StartRun, ReleaseNets, ClearRunState
<1>3. Valid(graph')
  BY <1>2, GraphsAssumption
<1>4. nets' = {}
  BY <1>2 DEF IInv, NoNetLeaks
<1>5. TypeOK'
  <2>1. port_data' \in [Ports -> PortValues]
    BY <1>2 DEF Empty, Absent, PortValues
  <2>2. /\ status' \in [Nodes -> {"none", "running", "done", "error", "skipped"}]
        /\ upstream' \in [Nodes -> SUBSET Nodes]
    BY <1>2 DEF Unvisited, NoUpstream
  <2>3. Valid(graph)'
    BY <1>3 DEF Valid
  <2>4. run' \in Nat /\ next_handle' \in Nat
    BY <1>1, <1>2 DEF TypeOK
  <2>5. running' \in BOOLEAN /\ destroyed' \in BOOLEAN
    BY <1>1, <1>2 DEF TypeOK
  <2>6. QED
    BY <1>2, <1>4, <2>1, <2>2, <2>3, <2>4, <2>5 DEF TypeOK
<1>6. VisitInv' /\ PortInv' /\ FailInv'
  BY <1>2 DEF VisitInv, PortInv, FailInv, Empty, Unvisited, NoUpstream
<1>7. DeadInv'
  <2>1. \A i \in DOMAIN graph'.edges : graph'.edges[i].source \in Nodes
    <3>1. graph'.edges \in Seq(Edge)
      BY <1>3 DEF Valid
    <3>2. \A i \in DOMAIN graph'.edges : graph'.edges[i] \in Edge
      BY <3>1
    <3>3. QED
      BY <3>2 DEF Edge
  <2>2. QED
    BY <1>2, <2>1 DEF DeadInv
<1>8. InputsAreFresh' /\ NoNetLeaks'
  BY <1>2, <1>4 DEF InputsAreFresh, NoNetLeaks, Empty, Absent
<1>9. SkipIffUnreachable' /\ VerdictStands' /\ SkipReasonIsRight'
  BY <1>2 DEF SkipIffUnreachable, VerdictStands, SkipReasonIsRight, Unvisited
<1>10. QED
  BY <1>5, <1>6, <1>7, <1>8, <1>9 DEF IInv

(* Nothing but the run's own progress flag moves. *)
LEMMA RestInv ==
  ASSUME IInv, running' \in BOOLEAN, running' => running, UNCHANGED runVars,
         UNCHANGED <<todo, port_data, dead_ports, failed_nodes, status,
                     upstream, nets, next_handle>>
  PROVE  IInv'
<1> USE DEF IInv, runVars
<1>1. UNCHANGED <<graph, fails, taken, port_data, status, upstream>>
  OBVIOUS
<1>2. TypeOK'
  BY DEF TypeOK
<1>3. VisitInv'
  BY <1>1, SameVerdicts DEF VisitInv
<1>4. PortInv' /\ DeadInv' /\ FailInv'
  BY <1>1, SameVerdicts DEF PortInv, DeadInv, FailInv
<1>5. InputsAreFresh' /\ NoNetLeaks'
  BY DEF InputsAreFresh, NoNetLeaks, HeldNets
<1>6. SkipIffUnreachable' /\ SkipReasonIsRight'
  <2>1. ASSUME NEW m \in Nodes \ todo
        PROVE  status'[m] = "skipped" <=>
                 /\ inputs_for(m) # {}
                 /\ \A i \in inputs_for(m) :
                      ~Delivers(graph.edges[i].source,
                                graph.edges[i].source_handle)
    BY DEF SkipIffUnreachable
  <2>2. \A i : Delivers(graph.edges[i].source, graph.edges[i].source_handle)'
            <=> Delivers(graph.edges[i].source, graph.edges[i].source_handle)
    BY <1>1 DEF Delivers, Output
  <2>3. SkipIffUnreachable'
    BY <1>1, <2>1, <2>2, SameVerdicts DEF SkipIffUnreachable
  <2>4. SkipReasonIsRight'
    BY <1>1, SameVerdicts DEF SkipReasonIsRight
  <2>5. QED
    BY <2>3, <2>4
<1>7. VerdictStands'
  BY <1>1, SameVerdicts DEF VerdictStands
<1>8. QED
  BY <1>2, <1>3, <1>4, <1>5, <1>6, <1>7

LEMMA DestroyInv == ASSUME IInv, Destroy PROVE IInv'
<1> USE DEF IInv, Destroy
<1>1. nets' = {}
  BY DEF ReleaseNets, NoNetLeaks
<1>2. UNCHANGED <<graph, taken, status, upstream>>
  OBVIOUS
<1>3. TypeOK'
  BY <1>1 DEF TypeOK, Empty, Absent, PortValues
<1>4. VisitInv'
  BY <1>2, SameVerdicts DEF VisitInv
<1>5. PortInv' /\ DeadInv' /\ FailInv'
  BY <1>2, SameVerdicts DEF PortInv, DeadInv, FailInv, Empty
<1>6. InputsAreFresh' /\ NoNetLeaks'
  BY <1>1 DEF InputsAreFresh, NoNetLeaks, HeldNets, Empty, Absent
<1>7. SkipIffUnreachable' /\ SkipReasonIsRight'
  <2>1. ASSUME NEW m \in Nodes \ todo
        PROVE  status'[m] = "skipped" <=>
                 /\ inputs_for(m) # {}
                 /\ \A i \in inputs_for(m) :
                      ~Delivers(graph.edges[i].source,
                                graph.edges[i].source_handle)
    BY DEF SkipIffUnreachable
  <2>2. \A i : Delivers(graph.edges[i].source, graph.edges[i].source_handle)'
            <=> Delivers(graph.edges[i].source, graph.edges[i].source_handle)
    BY <1>2 DEF Delivers, Output
  <2>3. SkipIffUnreachable'
    BY <1>2, <2>1, <2>2, SameVerdicts DEF SkipIffUnreachable
  <2>4. SkipReasonIsRight'
    BY <1>2, SameVerdicts DEF SkipReasonIsRight
  <2>5. QED
    BY <2>3, <2>4
<1>8. VerdictStands'
  BY DEF VerdictStands
<1>9. QED
  BY <1>3, <1>4, <1>5, <1>6, <1>7, <1>8

(* Every step of the executor keeps the invariant: one case per action. *)
LEMMA StepInv == IInv /\ [Next]_vars => IInv'
<1> SUFFICES ASSUME IInv, [Next]_vars PROVE IInv'
  OBVIOUS
<1>1. CASE StartRun
  BY <1>1, StartInv
<1>2. CASE Finish \/ Cancel
  BY <1>2, RestInv DEF Finish, Cancel, Stops
<1>3. ASSUME NEW n \in Nodes, Skip(n) PROVE IInv'
  BY <1>3, SkipInv
<1>4. ASSUME NEW n \in Nodes, Done(n) PROVE IInv'
  <2>1. /\ Visit(n) /\ ~Throws(n) /\ Handle(n)
        /\ dead_ports' = dead_ports \union Routed(n)
        /\ status' = [status EXCEPT ![n] = "done"]
        /\ UNCHANGED failed_nodes
        /\ running' = running /\ running \in BOOLEAN
    BY <1>4 DEF Done, IInv, TypeOK
  <2> DEFINE s == "done"
  <2>2. /\ s \in {"done", "running"} /\ s = "done"
        /\ status' = [status EXCEPT ![n] = s]
    BY <2>1
  <2> HIDE DEF s
  <2>3. QED
    BY <2>1, <2>2, ReturnInv
<1>5. ASSUME NEW n \in Nodes, Fail(n) PROVE IInv'
  BY <1>5, ThrowInv DEF Fail
<1>6. ASSUME NEW n \in Nodes, Suppressed(n) PROVE IInv'
  <2>1. CASE Throws(n)
    BY <1>6, <2>1, ThrowInv DEF Suppressed
  <2>2. CASE ~Throws(n)
    BY <1>6, <2>2, ReturnInv DEF Suppressed
  <2>3. QED
    BY <2>1, <2>2
<1>7. CASE Destroy
  BY <1>7, DestroyInv
<1>8. CASE UNCHANGED vars
  BY <1>8, RestInv DEF vars, runVars, IInv, TypeOK
<1>9. QED
  BY <1>1, <1>2, <1>3, <1>4, <1>5, <1>6, <1>7, <1>8 DEF Next

-----------------------------------------------------------------------------
(* IInv holds in every reachable state. *)
THEOREM Invariance == Spec => []IInv
BY InitInv, StepInv, PTL DEF Spec

(* Every variable keeps its type. *)
THEOREM TypeCorrect == Spec => []TypeOK
<1>1. IInv => TypeOK
  BY DEF IInv
<1>2. QED
  BY Invariance, <1>1, PTL

(* A node is skipped exactly when nothing that feeds it delivers, in every *)
(* graph and whatever the order of the visit.                              *)
THEOREM SkipsExactly == Spec => []SkipIffUnreachable
<1>1. IInv => SkipIffUnreachable
  BY DEF IInv
<1>2. QED
  BY Invariance, <1>1, PTL

(* A node that ended well has the inputs its handler needs, and one that   *)
(* failed would fail still, whatever is visited after it.                  *)
THEOREM VerdictsStand == Spec => []VerdictStands
<1>1. IInv => VerdictStands
  BY DEF IInv
<1>2. QED
  BY Invariance, <1>1, PTL

(* A skip is blamed on a failure exactly when a failure is behind it. *)
THEOREM ReasonsRight == Spec => []SkipReasonIsRight
<1>1. IInv => SkipReasonIsRight
  BY DEF IInv
<1>2. QED
  BY Invariance, <1>1, PTL

(* No value of an earlier run and no destroyed net is ever an input. *)
THEOREM Fresh == Spec => []InputsAreFresh
<1>1. IInv => InputsAreFresh
  BY DEF IInv
<1>2. QED
  BY Invariance, <1>1, PTL

(* The engine never holds a net that no port holds. *)
THEOREM NoLeaks == Spec => []NoNetLeaks
<1>1. IInv => NoNetLeaks
  BY DEF IInv
<1>2. QED
  BY Invariance, <1>1, PTL

(* A dead port holds no value. *)
THEOREM DeadEmpty == Spec => []DeadPortsAreEmpty
<1>1. IInv => DeadPortsAreEmpty
  <2> SUFFICES ASSUME IInv, NEW p \in dead_ports PROVE port_data[p] = Absent
    BY DEF DeadPortsAreEmpty
  <2>1. p \in Ports
    BY DEF IInv, TypeOK
  <2>2. QED
    BY <2>1 DEF IInv, PortInv, DeadInv
<1>2. QED
  BY Invariance, <1>1, PTL
=============================================================================
