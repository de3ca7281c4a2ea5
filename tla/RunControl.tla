----------------------------- MODULE RunControl -----------------------------
(***************************************************************************)
(* The backend's run control: one DebugController and one Executor shared  *)
(* by two threads,                                                         *)
(*                                                                         *)
(*   - the server loop, on which every RPC handler of main.cpp runs, and   *)
(*     RunSession::start / shutdown with it;                               *)
(*   - the worker RunSession spawns for a run, which is inside             *)
(*     Executor::execute from its first statement to its last.             *)
(*                                                                         *)
(* An action is the code between two accesses to what the threads share:   *)
(* the mutex-protected breakpoints and resume epoch, the atomics stopped_  *)
(* and stepping_, the mutex-protected snapshot (run id, statuses, pause).  *)
(* A handler that touches the shared state once is one action.             *)
(*                                                                         *)
(* Abstracted here: which nodes the graph makes unreachable (GraphRun      *)
(* models the data flow, a node may be skipped or visited here), whether a *)
(* node's handler succeeds, the order in which a graph is visited (any),   *)
(* and the events on the wire, which the modules that compose this one     *)
(* with a client derive from the worker's steps.                           *)
(***************************************************************************)
EXTENDS Naturals, FiniteSets

CONSTANTS
  Nodes,      \* the node ids a client may put in a graph
  NoNode,     \* the empty string of paused_at_
  MaxRuns,    \* bound: number of workflow.execute requests
  MaxEpoch    \* bound: resume epoch up to which clients send commands

ASSUME NodesAssumption == NoNode \notin Nodes
ASSUME BoundsAssumption == MaxRuns \in Nat /\ MaxEpoch \in Nat

VARIABLES
  \* DebugController
  breakpoints, resume_epoch, pause_snapshot, stopped, stepping,
  \* Executor, under state_mutex_: what workflow.state reports
  current_run_id, node_statuses, paused_at,
  \* the loop thread: where its handler stands, the graph it is starting,
  \* and RunSession::last_run_id_
  loop, request, last_run_id,
  \* the worker thread: where execute() stands, the run id and graph its
  \* closure captured, the nodes of the order still ahead, the current node
  wpc, run_id, graph, todo, node,
  \* history: a client stopped or cancelled the run the worker is on
  cancelled

debugVars   == <<breakpoints, resume_epoch, pause_snapshot, stopped, stepping>>
snapVars    == <<current_run_id, node_statuses, paused_at>>
sessionVars == <<loop, request, last_run_id>>
workerVars  == <<wpc, run_id, graph, todo, node>>
vars == <<debugVars, snapVars, sessionVars, workerVars, cancelled>>

Statuses == {"none", "paused", "running", "done", "error", "skipped"}
LoopStates == {"idle", "seeded", "joining", "launching", "spawning",
               "exiting", "exited"}
WorkerStates == {"none", "enter", "reset", "prepare", "boundary", "visit",
                 "armed", "pausing", "announce", "waiting", "woken",
                 "recheck", "start", "exec", "executed", "report",
                 "complete", "ended"}

NoStatus == [n \in Nodes |-> "none"]

Init ==
  /\ breakpoints = {}
  /\ resume_epoch = 0
  /\ pause_snapshot = 0
  /\ stopped = FALSE
  /\ stepping = FALSE
  /\ current_run_id = 0
  /\ node_statuses = NoStatus
  /\ paused_at = NoNode
  /\ loop = "idle"
  /\ request = {}
  /\ last_run_id = 0
  /\ wpc = "none"
  /\ run_id = 0
  /\ graph = {}
  /\ todo = {}
  /\ node = NoNode
  /\ cancelled = FALSE

-----------------------------------------------------------------------------
(* DebugController: the commands, each one critical section.               *)

Joinable == wpc # "none"

RaiseStop ==
  /\ resume_epoch' = resume_epoch + 1
  /\ stopped' = TRUE
  /\ UNCHANGED <<breakpoints, pause_snapshot, stepping>>

Wake ==
  /\ resume_epoch' = resume_epoch + 1
  /\ UNCHANGED <<breakpoints, pause_snapshot, stopped, cancelled>>

-----------------------------------------------------------------------------
(* The loop thread.  A client's message is handled when the loop is idle.  *)

Receive == loop = "idle" /\ resume_epoch < MaxEpoch

\* workflow.stop and workflow.cancel: executor->stop(); cancel also reads the
\* session's run id, which only this thread writes.
StopOrCancel ==
  /\ Receive
  /\ RaiseStop
  /\ cancelled' = (cancelled \/ wpc \notin {"none", "ended"})
  /\ UNCHANGED <<snapVars, sessionVars, workerVars>>

\* debug.continue
Continue ==
  /\ Receive
  /\ Wake
  /\ stepping' = FALSE
  /\ UNCHANGED <<snapVars, sessionVars, workerVars>>

\* debug.step_over
StepOver ==
  /\ Receive
  /\ Wake
  /\ stepping' = TRUE
  /\ UNCHANGED <<snapVars, sessionVars, workerVars>>

\* debug.add_breakpoint and debug.remove_breakpoint
EditBreakpoint(n) ==
  /\ loop = "idle"
  /\ breakpoints' \in {breakpoints \union {n}, breakpoints \ {n}}
  /\ UNCHANGED <<resume_epoch, pause_snapshot, stopped, stepping, cancelled,
                 snapVars, sessionVars, workerVars>>

\* workflow.execute up to RunSession::start: the request's breakpoints replace
\* the armed set while the previous run may still be going.
Execute(g, bps) ==
  /\ loop = "idle"
  /\ last_run_id < MaxRuns
  /\ breakpoints' = bps
  /\ request' = g
  /\ loop' = "seeded"
  /\ UNCHANGED <<resume_epoch, pause_snapshot, stopped, stepping, cancelled,
                 snapVars, last_run_id, workerVars>>

\* MUTANT of StopPrevious: the old worker is detached, not joined
StopPrevious_detach ==
  /\ loop = "seeded"
  /\ Joinable
  /\ RaiseStop
  /\ loop' = "launching"
  /\ UNCHANGED <<request, last_run_id, snapVars, workerVars, cancelled>>

\* start(): a joinable worker is told to stop, then joined.
StopPrevious ==
  /\ loop = "seeded"
  /\ Joinable
  /\ RaiseStop
  /\ loop' = "joining"
  /\ UNCHANGED <<request, last_run_id, snapVars, workerVars, cancelled>>

NoPrevious ==
  /\ loop = "seeded"
  /\ ~Joinable
  /\ loop' = "launching"
  /\ UNCHANGED <<request, last_run_id, debugVars, snapVars, workerVars,
                 cancelled>>

Join ==
  /\ wpc = "ended"
  /\ \/ loop = "joining" /\ loop' = "launching"
     \/ loop = "exiting" /\ loop' = "exited"
  /\ wpc' = "none"
  /\ UNCHANGED <<request, last_run_id, debugVars, snapVars, run_id, graph,
                 todo, node, cancelled>>

\* MUTANT of BeginRun: the id is published without clearing the statuses
BeginRun_stale ==
  /\ loop = "launching"
  /\ last_run_id' = last_run_id + 1
  /\ current_run_id' = last_run_id'
  /\ paused_at' = NoNode
  /\ loop' = "spawning"
  /\ UNCHANGED <<request, node_statuses, debugVars, workerVars, cancelled>>

\* make_run_id() and Executor::begin_run()
BeginRun ==
  /\ loop = "launching"
  /\ last_run_id' = last_run_id + 1
  /\ current_run_id' = last_run_id'
  /\ node_statuses' = NoStatus
  /\ paused_at' = NoNode
  /\ loop' = "spawning"
  /\ UNCHANGED <<request, debugVars, workerVars, cancelled>>

\* the thread is created with its own copy of the graph and the id
Spawn ==
  /\ loop = "spawning"
  /\ wpc' = "enter"
  /\ run_id' = last_run_id
  /\ graph' = request
  /\ todo' = request
  /\ node' = NoNode
  /\ cancelled' = FALSE
  /\ loop' = "idle"
  /\ UNCHANGED <<request, last_run_id, debugVars, snapVars>>

\* server.run() returned: RunSession::shutdown()
Shutdown ==
  /\ loop = "idle"
  /\ RaiseStop
  /\ loop' = IF Joinable THEN "exiting" ELSE "exited"
  /\ UNCHANGED <<request, last_run_id, snapVars, workerVars, cancelled>>

Client ==
  \/ StopOrCancel
  \/ Continue
  \/ StepOver
  \/ \E n \in Nodes : EditBreakpoint(n)
  \/ \E g, bps \in SUBSET Nodes : Execute(g, bps)
  \/ Shutdown

Handler == StopPrevious \/ NoPrevious \/ Join \/ BeginRun \/ Spawn

-----------------------------------------------------------------------------
(* The worker: Executor::execute from the first statement to the last.     *)

Go(from, to) == wpc = from /\ wpc' = to

LocalStep == UNCHANGED <<debugVars, snapVars, sessionVars, run_id, graph,
                         todo, node, cancelled>>

SetStatus(s) == node_statuses' = [node_statuses EXCEPT ![node] = s]

Notify(s) ==
  /\ SetStatus(s)
  /\ UNCHANGED <<debugVars, current_run_id, paused_at, sessionVars, run_id,
                 graph, todo, node, cancelled>>

\* a caller that published no id leaves it to execute()
Enter ==
  /\ Go("enter", "reset")
  /\ IF current_run_id # run_id
       THEN /\ current_run_id' = run_id
            /\ node_statuses' = NoStatus
            /\ paused_at' = NoNode
       ELSE UNCHANGED snapVars
  /\ UNCHANGED <<debugVars, sessionVars, run_id, graph, todo, node, cancelled>>

\* debug_.reset(); the epoch is kept
Reset ==
  /\ Go("reset", "prepare")
  /\ stopped' = FALSE
  /\ stepping' = FALSE
  /\ UNCHANGED <<breakpoints, resume_epoch, pause_snapshot, snapVars,
                 sessionVars, run_id, graph, todo, node, cancelled>>

\* validate_graph(): a refused graph goes straight to the complete event
Prepare ==
  /\ Go("prepare", "boundary") \/ Go("prepare", "complete")
  /\ LocalStep

\* the head of the loop: the stop flag is polled before the next node
Break ==
  /\ Go("boundary", "complete")
  /\ stopped \/ todo = {}
  /\ LocalStep

\* MUTANTS of NextNode: the stop flag is not polled; the node stays ahead
NextNode_unpolled(n) ==
  /\ Go("boundary", "visit")
  /\ n \in todo
  /\ node' = n
  /\ todo' = todo \ {n}
  /\ UNCHANGED <<debugVars, snapVars, sessionVars, run_id, graph, cancelled>>

NextNode_again(n) ==
  /\ Go("boundary", "visit")
  /\ ~stopped
  /\ n \in todo
  /\ node' = n
  /\ UNCHANGED <<debugVars, snapVars, sessionVars, run_id, graph, todo, cancelled>>

NextNode(n) ==
  /\ Go("boundary", "visit")
  /\ ~stopped
  /\ n \in todo
  /\ node' = n
  /\ todo' = todo \ {n}
  /\ UNCHANGED <<debugVars, snapVars, sessionVars, run_id, graph, cancelled>>

\* every input port is dead
Skip ==
  /\ Go("visit", "boundary")
  /\ Notify("skipped")

\* should_pause(): the stepping flag, then the breakpoint set
CheckStepping ==
  /\ \/ Go("visit", "pausing") /\ stepping
     \/ Go("visit", "armed") /\ ~stepping
  /\ LocalStep

CheckBreakpoint ==
  /\ \/ Go("armed", "pausing") /\ node \in breakpoints
     \/ Go("armed", "start") /\ node \notin breakpoints
  /\ LocalStep

BeginPause ==
  /\ Go("pausing", "announce")
  /\ pause_snapshot' = resume_epoch
  /\ UNCHANGED <<breakpoints, resume_epoch, stopped, stepping, snapVars,
                 sessionVars, run_id, graph, todo, node, cancelled>>

\* MUTANT of Announce: the epoch is read again once the pause is published
Announce_resnapshot ==
  /\ Go("announce", "waiting")
  /\ SetStatus("paused")
  /\ paused_at' = node
  /\ pause_snapshot' = resume_epoch
  /\ UNCHANGED <<breakpoints, resume_epoch, stopped, stepping, current_run_id,
                 sessionVars, run_id, graph, todo, node, cancelled>>

\* the snapshot shows the pause, then pause_cb_ sends it
Announce ==
  /\ Go("announce", "waiting")
  /\ SetStatus("paused")
  /\ paused_at' = node
  /\ UNCHANGED <<debugVars, current_run_id, sessionVars, run_id, graph, todo,
                 node, cancelled>>

Released == resume_epoch > pause_snapshot \/ stopped

\* MUTANTS of WaitForResume: a stop without its epoch wakes nobody; one resume
\* too many is waited for
WaitForResume_flagless ==
  /\ Go("waiting", "woken")
  /\ resume_epoch > pause_snapshot /\ ~stopped
  /\ LocalStep

WaitForResume_late ==
  /\ Go("waiting", "woken")
  /\ resume_epoch > pause_snapshot + 1 \/ stopped
  /\ LocalStep

WaitForResume ==
  /\ Go("waiting", "woken")
  /\ Released
  /\ LocalStep

\* MUTANT of ClearPause: the snapshot keeps showing the pause
ClearPause_forgets ==
  /\ Go("woken", "recheck")
  /\ LocalStep

ClearPause ==
  /\ Go("woken", "recheck")
  /\ paused_at' = NoNode
  /\ UNCHANGED <<debugVars, current_run_id, node_statuses, sessionVars,
                 run_id, graph, todo, node, cancelled>>

StopAfterPause ==
  /\ \/ Go("recheck", "complete") /\ stopped
     \/ Go("recheck", "start") /\ ~stopped
  /\ LocalStep

StartNode ==
  /\ Go("start", "exec")
  /\ Notify("running")

\* the node's handler returns or throws
HandlerReturns ==
  /\ Go("exec", "executed")
  /\ LocalStep

\* a stop seen after the handler suppresses the terminal event
StopAfterNode ==
  /\ \/ Go("executed", "complete") /\ stopped
     \/ Go("executed", "report") /\ ~stopped
  /\ LocalStep

\* done, or record_failure()
Report ==
  /\ Go("report", "boundary")
  /\ \E s \in {"done", "error"} : Notify(s)

Complete ==
  /\ Go("complete", "ended")
  /\ LocalStep

Worker ==
  \/ Enter \/ Reset \/ Prepare \/ Break \/ (\E n \in Nodes : NextNode(n))
  \/ Skip \/ CheckStepping \/ CheckBreakpoint \/ BeginPause \/ Announce
  \/ WaitForResume \/ ClearPause \/ StopAfterPause \/ StartNode
  \/ HandlerReturns \/ StopAfterNode \/ Report \/ Complete

Next == Client \/ Handler \/ Worker

Spec == Init /\ [][Next]_vars

(* The operating system schedules both threads and a node's handler        *)
(* returns; clients promise nothing.                                       *)
Fairness == WF_vars(Worker) /\ WF_vars(Handler)

FairSpec == Spec /\ Fairness

-----------------------------------------------------------------------------
(* What a client is promised: the mapping to RunService.                   *)

Phase ==
  CASE wpc = "none"                                           -> "none"
    [] wpc \in {"enter", "reset"}                             -> "starting"
    [] wpc \in {"prepare", "boundary"}                        -> "ready"
    [] wpc \in {"visit", "armed", "pausing", "start"}         -> "admitted"
    [] wpc \in {"announce", "waiting"} /\ ~Released           -> "held"
    [] wpc \in {"announce", "waiting"} /\ Released            -> "released"
    [] wpc \in {"woken", "recheck"}                           -> "released"
    [] wpc \in {"exec", "executed", "report"}                 -> "busy"
    [] wpc \in {"complete", "ended"}                          -> "finished"

\* debug_.reset() is behind the worker: a stop is no longer erased
PastReset == wpc \notin {"none", "enter", "reset"}

Service == INSTANCE RunService WITH
  run <- run_id, phase <- Phase, halted <- (PastReset /\ stopped),
  whole <- graph, left <- todo

-----------------------------------------------------------------------------
(* Properties.                                                             *)

TypeOK ==
  /\ breakpoints \subseteq Nodes
  /\ resume_epoch \in Nat
  /\ pause_snapshot \in Nat
  /\ stopped \in BOOLEAN
  /\ stepping \in BOOLEAN
  /\ current_run_id \in Nat
  /\ node_statuses \in [Nodes -> Statuses]
  /\ paused_at \in Nodes \union {NoNode}
  /\ loop \in LoopStates
  /\ request \subseteq Nodes
  /\ last_run_id \in Nat
  /\ wpc \in WorkerStates
  /\ run_id \in Nat
  /\ graph \subseteq Nodes
  /\ todo \subseteq Nodes
  /\ node \in Nodes \union {NoNode}
  /\ cancelled \in BOOLEAN

(* The id notify_status and the pause event are stamped with is the id of  *)
(* the run the worker is executing, and that is the run the session names. *)
(* (run_session.cpp 54-57, executor.cpp 400-405)                           *)
EventsCarryTheirRun ==
  wpc \notin {"none", "enter", "ended"} =>
    current_run_id = run_id /\ run_id = last_run_id

(* Whatever workflow.state reports is about nodes the current run has      *)
(* visited: no status of an earlier run is ever shown under a newer id.    *)
(* (executor.cpp 131-141, run_session.cpp 60-70)                           *)
SnapshotIsOfThisRun ==
  \A n \in Nodes : node_statuses[n] # "none" =>
    current_run_id = run_id /\ n \in graph \ todo

(* At most one node is shown running or paused, the one the worker is at;  *)
(* a pause is shown only while the worker is in it.  (executor.cpp         *)
(* 266-286)                                                                *)
PauseShownIsReal ==
  /\ \A n \in Nodes : node_statuses[n] \in {"running", "paused"} => n = node
  /\ paused_at # NoNode =>
       /\ wpc \in {"waiting", "woken"}
       /\ paused_at = node
       /\ node_statuses[node] = "paused"

(* Every step of the two threads is a step RunService allows, or none: no  *)
(* resume is lost or kept for a later pause, a held node does not start, a *)
(* halted run admits no node, no run ends early for another reason.        *)
ImplementsService == Service!Spec

(* A resume, step or stop that arrives once the pause is announced - or    *)
(* between the snapshot of the epoch and the wait - wakes the worker, and  *)
(* nothing takes that back.  (debug_controller.h 41-46, 73-81)             *)
ResumeIsNotLost ==
  [][(wpc \in {"announce", "waiting"}
        /\ (Released \/ resume_epoch' # resume_epoch))
       => Released' \/ wpc' = "woken"]_vars

(* A run in progress ends, or is held at a pause nobody released.          *)
OnlyAHoldBlocks == Service!Progress

(* A stop the run has taken notice of ends the run, held or not.           *)
(* (debug_controller.cpp 78-85, executor.cpp 192, 287, 306)                *)
StopEndsRun == (PastReset /\ stopped) ~> (wpc \in {"none", "ended"})

(* A start or shutdown gets to join the worker, provided its stop reached  *)
(* the run and was not erased.  (run_session.cpp 48-52, 90-96)             *)
JoinReturns ==
  (loop \in {"joining", "exiting"} /\ PastReset /\ stopped)
    ~> (loop \in {"launching", "exited"})

(* memories/repo/wire-protocol.md: a cancel is observed at node boundaries *)
(* - a run whose stop was asked for sees it at its next boundary.          *)
CancelIsObserved == (cancelled /\ wpc = "boundary") => stopped

(* run_session.cpp 45-47: the join completes after at most one node - the  *)
(* loop never waits for a worker that waits for the loop.                  *)
JoinNeverStuck ==
  loop \in {"joining", "exiting"} => ~(wpc = "waiting" /\ ~Released)

-----------------------------------------------------------------------------
(* The inductive invariant behind the safety properties.                   *)

\* one live worker at most, and none while start() creates the next
LoopInv ==
  loop \in {"launching", "spawning", "exited"} => wpc = "none"

\* the three run ids agree, except that the worker's lags while start() has
\* issued the next id and not yet created its thread
RunIdInv ==
  /\ current_run_id = last_run_id
  /\ last_run_id = IF loop = "spawning" THEN run_id + 1 ELSE run_id

\* a pause is measured from an epoch already reached
EpochInv == pause_snapshot <= resume_epoch

AtNode == {"visit", "armed", "pausing", "announce", "waiting", "woken",
           "recheck", "start", "exec", "executed", "report"}

Unbegun == {"enter", "reset", "prepare"}

NodeInv ==
  /\ todo \subseteq graph
  /\ wpc \in Unbegun => todo = graph
  /\ wpc \in AtNode => node \in graph \ todo

\* the worker leaves a node before it shows the next one
StatusInv ==
  /\ loop = "spawning" \/ wpc \in Unbegun => node_statuses = NoStatus
  /\ \A n \in Nodes : node_statuses[n] # "none" => n \in graph \ todo
  /\ \A n \in Nodes : node_statuses[n] \in {"running", "paused"} =>
       n = node /\ wpc \notin {"boundary", "visit", "armed", "pausing", "announce"}

PauseInv ==
  paused_at # NoNode =>
    /\ wpc \in {"waiting", "woken"}
    /\ paused_at = node
    /\ node_statuses[node] = "paused"

IInv ==
  /\ TypeOK /\ LoopInv /\ RunIdInv /\ EpochInv /\ NodeInv
  /\ StatusInv /\ PauseInv
=============================================================================
