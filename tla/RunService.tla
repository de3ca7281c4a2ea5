----------------------------- MODULE RunService -----------------------------
(***************************************************************************)
(* What the backend promises of a run, with no threads, locks, epochs or   *)
(* flags: runs happen one at a time under increasing ids; a run visits     *)
(* each node of its graph once; a node it is held at starts only after a   *)
(* release; a command given while nothing is held leaves nothing behind;   *)
(* once a run is halted no further node is admitted, and it ends early     *)
(* only if it was halted or its graph was refused.                         *)
(*                                                                         *)
(* RunControl implements this specification (RunControlMC checks the step  *)
(* simulation, RunControlProofs proves its parts).                         *)
(***************************************************************************)
EXTENDS Naturals

CONSTANTS Nodes

VARIABLES
  run,     \* the id of the latest run, 0 before the first
  phase,   \* where that run stands
  halted,  \* it was told to stop, and has taken notice of being told
  whole,   \* the nodes of its graph
  left     \* those it has not visited yet

vars == <<run, phase, halted, whole, left>>

\* none: no run;  starting: not yet receptive to a halt;  ready: between two
\* nodes;  admitted: at a node that has not begun;  held: at that node until
\* released;  busy: in the node's handler;  finished: the run is over
Phases == {"none", "starting", "ready", "admitted", "held", "released",
           "busy", "finished"}

Init ==
  /\ run = 0
  /\ phase = "none"
  /\ halted = FALSE
  /\ whole = {}
  /\ left = {}

Launch(g) ==
  /\ phase = "none"
  /\ phase' = "starting"
  /\ run' = run + 1
  /\ halted' = FALSE
  /\ whole' = g
  /\ left' = g

Move(from, to) ==
  /\ phase = from
  /\ phase' = to
  /\ UNCHANGED <<run, halted, whole>>

Ready == Move("starting", "ready") /\ UNCHANGED left

Admit(n) ==
  /\ Move("ready", "admitted")
  /\ ~halted
  /\ n \in left
  /\ left' = left \ {n}

PassOver == Move("admitted", "ready") /\ UNCHANGED left

\* a halted run is not held: it goes on to see that it was halted
Hold ==
  /\ Move("admitted", IF halted THEN "released" ELSE "held")
  /\ UNCHANGED left

\* resume or step
Release == Move("held", "released") /\ UNCHANGED left

Proceed == Move("released", "admitted") /\ ~halted /\ UNCHANGED left

Begin == Move("admitted", "busy") /\ UNCHANGED left

End == Move("busy", "ready") /\ UNCHANGED left

\* the run visited everything, or its graph was refused, or it was halted
Finish ==
  /\ \/ Move("ready", "finished") /\ (left \in {{}, whole} \/ halted)
     \/ Move("released", "finished") /\ halted
     \/ Move("busy", "finished") /\ halted
  /\ UNCHANGED left

Halt ==
  /\ phase \notin {"none", "starting"}
  /\ halted' = TRUE
  /\ phase' = IF phase = "held" THEN "released" ELSE phase
  /\ UNCHANGED <<run, whole, left>>

Retire ==
  /\ phase = "finished"
  /\ phase' = "none"
  /\ halted' = FALSE
  /\ UNCHANGED <<run, whole, left>>

Next ==
  \/ \E g \in SUBSET Nodes : Launch(g)
  \/ Ready \/ (\E n \in Nodes : Admit(n)) \/ PassOver \/ Hold \/ Release
  \/ Proceed \/ Begin \/ End \/ Finish \/ Halt \/ Retire

Spec == Init /\ [][Next]_vars

\* Only a hold that nobody releases keeps a run from ending.
Progress == []<>(phase \in {"none", "finished", "held"})
=============================================================================
