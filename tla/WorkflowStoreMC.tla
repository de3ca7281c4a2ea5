-------------------------- MODULE WorkflowStoreMC --------------------------
(* Instances of WorkflowStore for TLC.                                     *)
EXTENDS WorkflowStore

\* the empty workflow, and one whose ids are ahead of the counter of a new
\* session
SavedFiles == {[vals |-> NoNodes, edges |-> {}],
          [vals |-> [i \in {1, 3} |-> NewVal], edges |-> {<<1, 3>>}]}

\* Identities only matter as equal or not: states that differ in the names of
\* their stamps are one.  A stamp is told by the objects that have it.
Who(t) == <<{i \in DOMAIN nodes : nodes[i].stamp = t},
            {i \in DOMAIN nodesById : nodesById[i].stamp = t},
            {k \in DOMAIN past : past[k].stamp = t},
            {k \in DOMAIN future : future[k].stamp = t}>>

Named(f) == [i \in DOMAIN f |-> [f[i] EXCEPT !.stamp = Who(@)]]

UpToStamps ==
  <<Named(nodes), Named(nodesById), edges, selectedNodeId, Named(past),
    Named(future), isTracking, nodeIdCounter, dragged, writes>>
=============================================================================
