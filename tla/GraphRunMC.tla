------------------------------ MODULE GraphRunMC ------------------------------
(* GraphRun over every small graph of a family.  Nodes are numbered and     *)
(* edges go upwards, which gives every acyclic graph up to renaming.        *)
EXTENDS GraphRun

CONSTANTS
  KindsOf,    \* per node, the kinds it may have
  MaxEdges    \* bound: edges of a graph

EdgesFor(kind) ==
  {e \in Edge : /\ e.source < e.target
                /\ e.source_handle \in Sources(kind[e.source])
                /\ e.target_handle \in Targets(kind[e.target])}

\* all orders of all sets of at most MaxEdges edges
Lists(S) ==
  {s \in UNION {[1..k -> S] : k \in 0..MaxEdges} :
     \A i, j \in DOMAIN s : s[i] = s[j] => i = j}

Family ==
  UNION {{[kind |-> k, edges |-> l] : l \in Lists(EdgesFor(k))} :
         k \in {f \in [Nodes -> Kinds] : \A n \in Nodes : f[n] \in KindsOf[n]}}

\* each kind somewhere: those without inputs first, those that need or do
\* without two inputs last, where failures and pruned branches meet
AnyKind == <<{"createNet", "input", "condition"},
             {"condition", "debug", "task"},
             {"join", "overlay", "saveImage", "saveText", "output"}>>

\* nets, data and failures that one run could leave to the next
Chain == <<{"createNet", "condition"}, {"debug", "task"}, {"output"}>>

\* a condition, or two sources of data, into a node that needs both
Join == <<{"condition", "input"}, {"input", "task"}, {"join"}>>
=============================================================================
