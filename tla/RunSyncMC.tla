------------------------------ MODULE RunSyncMC ------------------------------
(* Instances of RunSync for TLC: a graph of one or two nodes, and as many  *)
(* messages as it takes for a run to be paused and resumed, or stopped and *)
(* superseded, with its events still on their way.                         *)
EXTENDS RunSync, TLC

NodeSymmetry == Permutations(Nodes)
=============================================================================
