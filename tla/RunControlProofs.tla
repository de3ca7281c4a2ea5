-------------------------- MODULE RunControlProofs --------------------------
(***************************************************************************)
(* Proofs about RunControl, for every set of nodes and whatever the bounds *)
(* on runs and commands: the invariant IInv is inductive, the safety       *)
(* properties follow from it, and every step simulates RunService.         *)
(***************************************************************************)
EXTENDS RunControl, TLAPS

(* The program starts with the invariant true. *)
LEMMA InitInv == Init => IInv
<1> SUFFICES ASSUME Init PROVE IInv
  OBVIOUS
<1>1. wpc \in WorkerStates /\ loop \in LoopStates
  BY DEF Init, WorkerStates, LoopStates
<1>2. stopped \in BOOLEAN /\ stepping \in BOOLEAN /\ cancelled \in BOOLEAN
  BY DEF Init
<1>3. node_statuses \in [Nodes -> Statuses]
  BY DEF Init, NoStatus, Statuses
<1>4. TypeOK
  BY <1>1, <1>2, <1>3 DEF Init, TypeOK
<1>5. LoopInv /\ RunIdInv /\ EpochInv
  BY DEF Init, LoopInv, RunIdInv, EpochInv
<1>6. NodeInv /\ StatusInv /\ PauseInv
  BY DEF Init, NodeInv, StatusInv, PauseInv, NoStatus, AtNode, Unbegun
<1>7. QED
  BY <1>4, <1>5, <1>6 DEF IInv

(* Every step of either thread keeps it: one case per action. *)
LEMMA StepInv == IInv /\ [Next]_vars => IInv'
<1> SUFFICES ASSUME IInv, [Next]_vars PROVE IInv'
  OBVIOUS
<1> USE DEF IInv, TypeOK, LoopInv, RunIdInv, EpochInv, NodeInv, StatusInv,
   PauseInv, AtNode, Unbegun, NoStatus, Statuses, LoopStates, WorkerStates,
   debugVars, snapVars, sessionVars, workerVars
<1>1. CASE StopOrCancel
  BY <1>1 DEF StopOrCancel, RaiseStop
<1>2. CASE Continue
  <2>1. stepping' \in BOOLEAN
    BY <1>2 DEF Continue
  <2>2. /\ resume_epoch' = resume_epoch + 1
        /\ UNCHANGED <<breakpoints, pause_snapshot, stopped, cancelled,
           snapVars,
                       sessionVars, workerVars>>
    BY <1>2 DEF Continue, Wake
  <2>3. QED
    BY <2>1, <2>2
<1>3. CASE StepOver
  BY <1>3 DEF StepOver, Wake
<1>4. CASE \E n \in Nodes : EditBreakpoint(n)
  BY <1>4 DEF EditBreakpoint
<1>5. CASE \E g, bps \in SUBSET Nodes : Execute(g, bps)
  BY <1>5 DEF Execute
<1>6. CASE Shutdown
  BY <1>6 DEF Shutdown, RaiseStop, Joinable
<1>7. CASE StopPrevious
  BY <1>7 DEF StopPrevious, RaiseStop
<1>8. CASE NoPrevious
  BY <1>8 DEF NoPrevious, Joinable
<1>9. CASE Join
  BY <1>9 DEF Join
<1>10. CASE BeginRun
  BY <1>10 DEF BeginRun
<1>11. CASE Spawn
  BY <1>11 DEF Spawn
<1>12. CASE Enter
  BY <1>12 DEF Enter, Go
<1>13. CASE Reset
  BY <1>13 DEF Reset, Go
<1>14. CASE Prepare
  BY <1>14 DEF Prepare, Go, LocalStep
<1>15. CASE Break
  BY <1>15 DEF Break, Go, LocalStep
<1>16. CASE \E n \in Nodes : NextNode(n)
  BY <1>16 DEF NextNode, Go
<1>17. CASE Skip
  BY <1>17 DEF Skip, Go, Notify, SetStatus
<1>18. CASE CheckStepping
  BY <1>18 DEF CheckStepping, Go, LocalStep
<1>19. CASE CheckBreakpoint
  BY <1>19 DEF CheckBreakpoint, Go, LocalStep
<1>20. CASE BeginPause
  BY <1>20 DEF BeginPause, Go
<1>21. CASE Announce
  BY <1>21 DEF Announce, Go, SetStatus
<1>22. CASE WaitForResume
  BY <1>22 DEF WaitForResume, Go, LocalStep
<1>23. CASE ClearPause
  BY <1>23 DEF ClearPause, Go
<1>24. CASE StopAfterPause
  BY <1>24 DEF StopAfterPause, Go, LocalStep
<1>25. CASE StartNode
  BY <1>25 DEF StartNode, Go, Notify, SetStatus
<1>26. CASE HandlerReturns
  BY <1>26 DEF HandlerReturns, Go, LocalStep
<1>27. CASE StopAfterNode
  BY <1>27 DEF StopAfterNode, Go, LocalStep
<1>28. CASE Report
  BY <1>28 DEF Report, Go, Notify, SetStatus
<1>29. CASE Complete
  BY <1>29 DEF Complete, Go, LocalStep
<1>30. CASE UNCHANGED vars
  BY <1>30 DEF vars
<1>31. QED
  BY <1>1, <1>2, <1>3, <1>4, <1>5, <1>6, <1>7, <1>8, <1>9, <1>10, <1>11,
     <1>12, <1>13, <1>14, <1>15, <1>16, <1>17, <1>18, <1>19, <1>20, <1>21,
     <1>22, <1>23, <1>24, <1>25, <1>26, <1>27, <1>28, <1>29, <1>30
  DEF Next, Client, Handler, Worker

(* The invariant holds in every reachable state. *)
THEOREM Invariance == Spec => []IInv
<1>1. IInv /\ UNCHANGED vars => IInv'
  BY StepInv
<1>2. QED
  BY InitInv, StepInv, PTL DEF Spec

(* Every variable keeps its type. *)
THEOREM TypeCorrect == Spec => []TypeOK
<1>1. IInv => TypeOK
  BY DEF IInv
<1>2. QED
  BY <1>1, Invariance, PTL

(* An event is always stamped with the id of the run that emits it, which  *)
(* is the run the session names, however starts and stops interleave.      *)
THEOREM EventsTagged == Spec => []EventsCarryTheirRun
<1>1. IInv => EventsCarryTheirRun
  BY DEF IInv, LoopInv, RunIdInv, EventsCarryTheirRun
<1>2. QED
  BY <1>1, Invariance, PTL

(* workflow.state never reports a status of an earlier run under a newer   *)
(* run's id, nor one of a node the run has not visited.                    *)
THEOREM SnapshotCoherent == Spec => []SnapshotIsOfThisRun
<1>1. IInv => SnapshotIsOfThisRun
  BY DEF IInv, TypeOK, RunIdInv, StatusInv, NoStatus, SnapshotIsOfThisRun
<1>2. QED
  BY <1>1, Invariance, PTL

(* A pause is reported only while the worker is in it, and only the node   *)
(* the worker is at is ever shown running or paused.                       *)
THEOREM PauseCoherent == Spec => []PauseShownIsReal
<1>1. IInv => PauseShownIsReal
  BY DEF IInv, StatusInv, PauseInv, PauseShownIsReal
<1>2. QED
  BY <1>1, Invariance, PTL

-----------------------------------------------------------------------------

(* Between the snapshot of the epoch and the end of the wait, any command  *)
(* releases the worker and no step undoes it.                              *)
LEMMA StepKeepsResume ==
  IInv /\ [Next]_vars =>
    [(wpc \in {"announce", "waiting"}
        /\ (Released \/ resume_epoch' # resume_epoch))
       => Released' \/ wpc' = "woken"]_vars
<1> SUFFICES ASSUME IInv, Next, wpc \in {"announce", "waiting"},
                    Released \/ resume_epoch' # resume_epoch
             PROVE  Released' \/ wpc' = "woken"
  BY DEF vars
<1> USE DEF IInv, TypeOK, LoopInv, EpochInv, Released, debugVars, snapVars,
            sessionVars, workerVars
<1>1. CASE Client
  BY <1>1 DEF Client, StopOrCancel, Continue, StepOver, EditBreakpoint, Execute,
     Shutdown, RaiseStop, Wake
<1>2. CASE Handler
  BY <1>2 DEF Handler, StopPrevious, NoPrevious, Join, BeginRun, Spawn, RaiseStop
<1>3. CASE Announce \/ WaitForResume
  BY <1>3 DEF Announce, WaitForResume, Go, LocalStep
<1>4. CASE Worker /\ ~(Announce \/ WaitForResume)
  BY <1>4 DEF Worker, Enter, Reset, Prepare, Break, NextNode, Skip, CheckStepping,
     CheckBreakpoint, BeginPause, ClearPause, StopAfterPause, StartNode,
     HandlerReturns, StopAfterNode, Report, Complete, Go
<1>5. QED
  BY <1>1, <1>2, <1>3, <1>4 DEF Next, Worker

(* No resume is lost, in whatever order it meets the pause. *)
THEOREM ResumeSafe == Spec => ResumeIsNotLost
BY Invariance, StepKeepsResume, PTL DEF Spec, ResumeIsNotLost

-----------------------------------------------------------------------------

(* A stop, whoever raises it, is RunService's Halt once the worker is past *)
(* its reset and is no step of RunService before.                          *)
LEMMA StopMaps ==
  ASSUME IInv, UNCHANGED <<run_id, graph, todo, wpc>>, stopped'
  PROVE  [Service!Next]_(Service!vars)
<1> USE DEF Phase, PastReset, Released, Service!Next, Service!vars
<1>1. CASE wpc \in {"none", "enter", "reset"}
  BY <1>1
<1>2. CASE wpc \notin {"none", "enter", "reset"}
  <2>1. Phase \notin {"none", "starting"}
    BY <1>2 DEF IInv, TypeOK, WorkerStates
  <2>2. Phase' = IF Phase = "held" THEN "released" ELSE Phase
    BY <1>2 DEF IInv, TypeOK, WorkerStates
  <2>3. (PastReset /\ stopped)' = TRUE
    BY <1>2
  <2>4. Service!Halt
    BY <2>1, <2>2, <2>3 DEF Service!Halt
  <2>5. QED
    BY <2>4
<1>3. QED
  BY <1>1, <1>2

(* Every step of either thread is a step of RunService or leaves it alone. *)
LEMMA StepSimulates == IInv /\ [Next]_vars => [Service!Next]_(Service!vars)
<1> SUFFICES ASSUME IInv, [Next]_vars PROVE [Service!Next]_(Service!vars)
  OBVIOUS
<1> USE DEF IInv, TypeOK, LoopInv, RunIdInv, EpochInv, NodeInv, Phase,
   PastReset, Released, Service!Next, Service!vars, Service!Move, debugVars,
   snapVars, sessionVars, workerVars
<1>1. CASE StopOrCancel
  <2>1. UNCHANGED <<run_id, graph, todo, wpc>> /\ stopped'
    BY <1>1 DEF StopOrCancel, RaiseStop, workerVars
  <2>2. QED
    BY <2>1, StopMaps
<1>2. CASE Continue
  BY <1>2 DEF Continue, Wake, Service!Release
<1>3. CASE StepOver
  BY <1>3 DEF StepOver, Wake, Service!Release
<1>4. CASE \E n \in Nodes : EditBreakpoint(n)
  BY <1>4 DEF EditBreakpoint
<1>5. CASE \E g, bps \in SUBSET Nodes : Execute(g, bps)
  BY <1>5 DEF Execute
<1>6. CASE Shutdown
  <2>1. UNCHANGED <<run_id, graph, todo, wpc>> /\ stopped'
    BY <1>6 DEF Shutdown, RaiseStop, workerVars
  <2>2. QED
    BY <2>1, StopMaps
<1>7. CASE StopPrevious
  <2>1. UNCHANGED <<run_id, graph, todo, wpc>> /\ stopped'
    BY <1>7 DEF StopPrevious, RaiseStop, workerVars
  <2>2. QED
    BY <2>1, StopMaps
<1>8. CASE NoPrevious
  BY <1>8 DEF NoPrevious, Joinable
<1>9. CASE Join
  BY <1>9 DEF Join, Service!Retire
<1>10. CASE BeginRun
  BY <1>10 DEF BeginRun
<1>11. CASE Spawn
  BY <1>11 DEF Spawn, Service!Launch
<1>12. CASE Enter
  BY <1>12 DEF Enter, Go
<1>13. CASE Reset
  BY <1>13 DEF Reset, Go, Service!Ready
<1>14. CASE Prepare
  BY <1>14 DEF Prepare, Go, LocalStep, Unbegun, Service!Finish
<1>15. CASE Break
  BY <1>15 DEF Break, Go, LocalStep, Service!Finish
<1>16. CASE \E n \in Nodes : NextNode(n)
  BY <1>16 DEF NextNode, Go, Service!Admit
<1>17. CASE Skip
  BY <1>17 DEF Skip, Go, Notify, SetStatus, Service!PassOver
<1>18. CASE CheckStepping
  BY <1>18 DEF CheckStepping, Go, LocalStep
<1>19. CASE CheckBreakpoint
  BY <1>19 DEF CheckBreakpoint, Go, LocalStep
<1>20. CASE BeginPause
  BY <1>20 DEF BeginPause, Go, Service!Hold
<1>21. CASE Announce
  BY <1>21 DEF Announce, Go, SetStatus
<1>22. CASE WaitForResume
  BY <1>22 DEF WaitForResume, Go, LocalStep
<1>23. CASE ClearPause
  BY <1>23 DEF ClearPause, Go
<1>24. CASE StopAfterPause
  BY <1>24 DEF StopAfterPause, Go, LocalStep, Service!Finish, Service!Proceed
<1>25. CASE StartNode
  BY <1>25 DEF StartNode, Go, Notify, SetStatus, Service!Begin
<1>26. CASE HandlerReturns
  BY <1>26 DEF HandlerReturns, Go, LocalStep
<1>27. CASE StopAfterNode
  BY <1>27 DEF StopAfterNode, Go, LocalStep, Service!Finish
<1>28. CASE Report
  BY <1>28 DEF Report, Go, Notify, SetStatus, Service!End
<1>29. CASE Complete
  BY <1>29 DEF Complete, Go, LocalStep
<1>30. CASE UNCHANGED vars
  BY <1>30 DEF vars
<1>31. QED
  BY <1>1, <1>2, <1>3, <1>4, <1>5, <1>6, <1>7, <1>8, <1>9, <1>10, <1>11,
     <1>12, <1>13, <1>14, <1>15, <1>16, <1>17, <1>18, <1>19, <1>20, <1>21,
     <1>22, <1>23, <1>24, <1>25, <1>26, <1>27, <1>28, <1>29, <1>30
  DEF Next, Client, Handler, Worker

(* RunControl implements RunService. *)
THEOREM Implements == Spec => ImplementsService
<1>1. Init => Service!Init
  BY DEF Init, Service!Init, Phase, PastReset
<1>2. QED
  BY <1>1, Invariance, StepSimulates, PTL DEF Spec, ImplementsService, Service!Spec
=============================================================================
