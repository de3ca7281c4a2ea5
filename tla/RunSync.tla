------------------------------- MODULE RunSync -------------------------------
(***************************************************************************)
(* The frontend's view of a run: the browser client (WsClient, the actions *)
(* of useWorkflowActions, the handlers of WorkflowRunner) composed with    *)
(* the backend of RunControl over a WebSocket.                             *)
(*                                                                         *)
(* The server loop takes one message at a time.  A reply is sent when its  *)
(* handler ends; a worker's broadcast is deferred to the loop, which       *)
(* publishes it between two messages.  Each direction of the socket is     *)
(* first in, first out.  A lost connection loses what is on its way to the *)
(* client and a suffix of what is on its way to the server.                *)
(*                                                                         *)
(* Left out: editing the graph and its breakpoints (a request carries the  *)
(* whole graph and any set of breakpoints), several clients, shutdown of   *)
(* the server.                                                             *)
(***************************************************************************)
EXTENDS RunControl, Sequences

CONSTANTS
  MaxSends,     \* bound: messages the user makes the client send
  MaxConns,     \* bound: connections
  MaxTimeouts   \* bound: calls whose 30 s run out

(* RunControl's own bounds never hold a message back.                      *)
ASSUME ClientAssumption ==
  /\ MaxSends \in Nat /\ MaxConns \in Nat /\ MaxTimeouts \in Nat
  /\ MaxRuns >= MaxSends /\ MaxEpoch >= MaxSends

VARIABLES
  \* the client: workflowStore.isRunning, WorkflowRunner's currentRunId (0 for
  \* null), debugStore.pausedAtNodeId, the statuses on the canvas
  isRunning, currentRunId, pausedAtNodeId, shown,
  \* WsClient: connected, the calls it waits for, the id of the last one
  connected, pending, requestId,
  \* the socket: its number, both directions; events deferred to the loop
  conn, toServer, toClient, deferred,
  \* the execute call being served and not yet answered
  caller,
  \* bounds
  sends, timeouts

backend   == vars
storeVars == <<isRunning, currentRunId, pausedAtNodeId, shown>>
wireVars  == <<connected, conn, toServer, toClient, deferred>>
bounds    == <<sends, timeouts>>
syncVars  == <<backend, storeVars, pending, requestId, wireVars, caller, bounds>>

NoCall == [type |-> "none", id |-> 0, conn |-> 0, bps |-> {}]

InitSync ==
  /\ Init
  /\ isRunning = FALSE
  /\ currentRunId = 0
  /\ pausedAtNodeId = NoNode
  /\ shown = NoStatus
  /\ connected = TRUE
  /\ pending = {}
  /\ requestId = 0
  /\ conn = 1
  /\ toServer = <<>>
  /\ toClient = <<>>
  /\ deferred = <<>>
  /\ caller = NoCall
  /\ sends = 0
  /\ timeouts = 0

-----------------------------------------------------------------------------
(* Messages.  The run of an invalid or a complete event is history: the    *)
(* code sends these two without it.                                        *)

Status(n, s) == [type |-> "status", node |-> n, status |-> s, run |-> current_run_id]
Paused(n)    == [type |-> "paused", node |-> n, run |-> current_run_id]
Invalid(bad) == [type |-> "invalid", nodes |-> bad, run |-> current_run_id]
Completed    == [type |-> "complete", run |-> current_run_id]

Started  == [type |-> "started", id |-> caller.id, run |-> last_run_id]
Snapshot(id) == [type |-> "snapshot", id |-> id, run |-> current_run_id,
                 statuses |-> node_statuses, paused_at |-> paused_at]

-----------------------------------------------------------------------------
(* WsClient.                                                               *)

Send(m) == toServer' = Append(toServer, m)

\* call(), on an open socket
Call(method, bps) ==
  /\ requestId' = requestId + 1
  /\ pending' = pending \union {[id |-> requestId', method |-> method]}
  /\ Send([type |-> method, id |-> requestId', conn |-> conn', bps |-> bps])

\* notify(): on a closed socket the message is dropped without a word
NotifyServer(type) ==
  IF connected THEN Send([NoCall EXCEPT !.type = type]) ELSE UNCHANGED toServer

\* a call is answered at most once
Waits(id, method) == [id |-> id, method |-> method] \in pending

Settle(id) == pending' = {p \in pending : p.id # id}

\* what run() does when its call is rejected
Rejected(calls) ==
  isRunning' = (isRunning /\ \A p \in calls : p.method # "execute")

\* 30 s without an answer.  A state call that fails is only logged.
Timeout(p) ==
  /\ timeouts < MaxTimeouts
  /\ timeouts' = timeouts + 1
  /\ pending' = pending \ {p}
  /\ Rejected({p})
  /\ UNCHANGED <<currentRunId, pausedAtNodeId, shown, requestId, wireVars,
                 caller, sends, backend>>

\* the socket closes: every pending call is rejected, what was on its way to
\* the client is lost, and so is what the server had not yet taken in
Disconnect ==
  /\ connected
  /\ connected' = FALSE
  /\ Rejected(pending)
  /\ pending' = {}
  /\ toClient' = <<>>
  /\ \E k \in 0..Len(toServer) : toServer' = SubSeq(toServer, 1, k)
  /\ UNCHANGED <<currentRunId, pausedAtNodeId, shown, requestId, conn,
                 deferred, caller, bounds, backend>>

\* the socket opens again: reconcileFromSnapshot() asks for workflow.state
Reconnect ==
  /\ ~connected
  /\ conn < MaxConns
  /\ connected' = TRUE
  /\ conn' = conn + 1
  /\ Call("state", {})
  /\ UNCHANGED <<storeVars, toClient, deferred, caller, bounds, backend>>

Network ==
  \/ MaxConns > 1 /\ Disconnect
  \/ Reconnect
  \/ \E p \in pending : Timeout(p)

-----------------------------------------------------------------------------
(* The user.                                                               *)

Press ==
  /\ sends < MaxSends
  /\ sends' = sends + 1
  /\ UNCHANGED <<connected, conn, toClient, deferred, caller, timeouts, backend>>

\* run(): nothing while a run is on or the socket is closed
Run(bps) ==
  /\ Press
  /\ ~isRunning
  /\ connected
  /\ isRunning' = TRUE
  /\ Call("execute", bps)
  /\ UNCHANGED <<currentRunId, pausedAtNodeId, shown>>

\* stop(): the pause on display stays
Stop ==
  /\ Press
  /\ isRunning
  /\ isRunning' = FALSE
  /\ NotifyServer("stop")
  /\ UNCHANGED <<currentRunId, pausedAtNodeId, shown, pending, requestId>>

\* continueExec() and stepOver()
Resume ==
  /\ Press
  /\ pausedAtNodeId # NoNode
  /\ pausedAtNodeId' = NoNode
  /\ \E type \in {"continue", "step"} : NotifyServer(type)
  /\ UNCHANGED <<isRunning, currentRunId, shown, pending, requestId>>

\* the RUN button and the R key: continueExec() while a pause is on display
runOrResume ==
  IF pausedAtNodeId # NoNode
  THEN Resume
  ELSE \E bps \in SUBSET Nodes : Run(bps)

\* CONTINUE and STEP
User == runOrResume \/ Stop \/ Resume

-----------------------------------------------------------------------------
(* The client takes a message in.                                          *)

isFreshEvent(m) == currentRunId = 0 \/ m.run = currentRunId

OnStatus(m) ==
  /\ m.type = "status"
  /\ shown' = IF isFreshEvent(m) THEN [shown EXCEPT ![m.node] = m.status] ELSE shown
  /\ UNCHANGED <<isRunning, currentRunId, pausedAtNodeId, pending>>

OnPaused(m) ==
  /\ m.type = "paused"
  /\ IF isFreshEvent(m)
       THEN /\ pausedAtNodeId' = m.node
            /\ shown' = [shown EXCEPT ![m.node] = "paused"]
       ELSE UNCHANGED <<pausedAtNodeId, shown>>
  /\ UNCHANGED <<isRunning, currentRunId, pending>>

\* handleValidationFailed()
OnInvalid(m) ==
  /\ m.type = "invalid"
  /\ shown' = [n \in Nodes |-> IF n \in m.nodes THEN "error" ELSE shown[n]]
  /\ UNCHANGED <<isRunning, currentRunId, pausedAtNodeId, pending>>

OnComplete(m) ==
  /\ m.type = "complete"
  /\ isRunning' = FALSE
  /\ UNCHANGED <<currentRunId, pausedAtNodeId, shown, pending>>

\* the rest of run(), unless its call was rejected
OnStarted(m) ==
  /\ m.type = "started"
  /\ currentRunId' = IF Waits(m.id, "execute") THEN m.run ELSE currentRunId
  /\ Settle(m.id)
  /\ UNCHANGED <<isRunning, pausedAtNodeId, shown>>

\* MUTANTS of OnSnapshot: the statuses, the pause or the run are not adopted
OnSnapshot_blank(m) ==
  /\ m.type = "snapshot"
  /\ IF Waits(m.id, "state")
       THEN currentRunId' = m.run /\ pausedAtNodeId' = m.paused_at
       ELSE UNCHANGED <<currentRunId, pausedAtNodeId>>
  /\ Settle(m.id)
  /\ UNCHANGED <<isRunning, shown>>

OnSnapshot_unpaused(m) ==
  /\ m.type = "snapshot"
  /\ IF Waits(m.id, "state")
       THEN /\ currentRunId' = m.run
            /\ shown' = [n \in Nodes |-> IF m.statuses[n] = "none" THEN shown[n]
                                         ELSE m.statuses[n]]
       ELSE UNCHANGED <<currentRunId, shown>>
  /\ Settle(m.id)
  /\ UNCHANGED <<isRunning, pausedAtNodeId>>

OnSnapshot_unnamed(m) ==
  /\ m.type = "snapshot"
  /\ IF Waits(m.id, "state")
       THEN /\ shown' = [n \in Nodes |-> IF m.statuses[n] = "none" THEN shown[n]
                                         ELSE m.statuses[n]]
            /\ pausedAtNodeId' = m.paused_at
       ELSE UNCHANGED <<shown, pausedAtNodeId>>
  /\ Settle(m.id)
  /\ UNCHANGED <<isRunning, currentRunId>>

\* the rest of reconcileFromSnapshot()
OnSnapshot(m) ==
  /\ m.type = "snapshot"
  /\ IF Waits(m.id, "state")
       THEN /\ currentRunId' = m.run
            /\ shown' = [n \in Nodes |-> IF m.statuses[n] = "none" THEN shown[n]
                                         ELSE m.statuses[n]]
            /\ pausedAtNodeId' = m.paused_at
       ELSE UNCHANGED <<currentRunId, shown, pausedAtNodeId>>
  /\ Settle(m.id)
  /\ UNCHANGED isRunning

ReceiveMessage ==
  /\ toClient # <<>>
  /\ toClient' = Tail(toClient)
  /\ LET m == Head(toClient) IN
       \/ OnStatus(m) \/ OnPaused(m) \/ OnInvalid(m) \/ OnComplete(m)
       \/ OnStarted(m) \/ OnSnapshot(m)
  /\ UNCHANGED <<requestId, connected, conn, toServer, deferred, caller,
                 bounds, backend>>

-----------------------------------------------------------------------------
(* The server loop.                                                        *)

\* ws->send() and publish(): what finds the socket closed is lost
Transmit(m, to) ==
  toClient' = IF connected /\ to = conn THEN Append(toClient, m) ELSE toClient

\* no handler is on the loop
AtRest == caller = NoCall

clientVars == <<storeVars, pending, requestId, connected, conn, bounds>>

Serve ==
  /\ AtRest
  /\ toServer # <<>>
  /\ toServer' = Tail(toServer)
  /\ LET m == Head(toServer) IN
       \/ /\ m.type = "stop" /\ StopOrCancel
          /\ UNCHANGED <<toClient, caller>>
       \/ /\ m.type = "continue" /\ Continue
          /\ UNCHANGED <<toClient, caller>>
       \/ /\ m.type = "step" /\ StepOver
          /\ UNCHANGED <<toClient, caller>>
       \/ /\ m.type = "execute" /\ Execute(Nodes, m.bps)
          /\ caller' = m
          /\ UNCHANGED toClient
       \/ /\ m.type = "state"
          /\ Transmit(Snapshot(m.id), m.conn)
          /\ UNCHANGED <<caller, backend>>
  /\ UNCHANGED <<clientVars, deferred>>

\* the rest of start()
Starting ==
  /\ StopPrevious \/ NoPrevious \/ Join \/ BeginRun \/ Spawn
  /\ UNCHANGED <<clientVars, toServer, toClient, deferred, caller>>

\* workflow.execute answers once start() has returned, its worker on the way
Reply ==
  /\ loop = "idle"
  /\ ~AtRest
  /\ Transmit(Started, caller.conn)
  /\ caller' = NoCall
  /\ UNCHANGED <<clientVars, toServer, deferred, backend>>

\* an event deferred to the loop is published between two handlers
Flush ==
  /\ AtRest
  /\ deferred # <<>>
  /\ deferred' = Tail(deferred)
  /\ Transmit(Head(deferred), conn)
  /\ UNCHANGED <<clientVars, toServer, caller, backend>>

-----------------------------------------------------------------------------
(* The worker: its steps, each with the event it broadcasts.               *)

\* MUTANT of Emit: published from the worker's thread, past the loop
Emit_direct(e) == Transmit(e, conn) /\ UNCHANGED deferred

Emit(e) == deferred' = Append(deferred, e) /\ UNCHANGED toClient

Silent ==
  \/ Enter \/ Reset \/ Break \/ (\E n \in Nodes : NextNode(n))
  \/ CheckStepping \/ CheckBreakpoint \/ BeginPause \/ WaitForResume
  \/ ClearPause \/ StopAfterPause \/ HandlerReturns \/ StopAfterNode

\* MUTANT of Prepared: a refused graph ends without its complete event
Prepared_final ==
  /\ Go("prepare", "boundary") \/ Go("prepare", "ended")
  /\ LocalStep
  /\ IF wpc' = "ended" THEN \E bad \in SUBSET graph : Emit(Invalid(bad))
                       ELSE UNCHANGED <<deferred, toClient>>

Prepared ==
  /\ Prepare
  /\ IF wpc' = "complete" THEN \E bad \in SUBSET graph : Emit(Invalid(bad))
                          ELSE UNCHANGED <<deferred, toClient>>

WorkerSync ==
  /\ \/ Silent /\ UNCHANGED <<deferred, toClient>>
     \/ Prepared
     \/ (Skip \/ StartNode \/ Report) /\ Emit(Status(node, node_statuses'[node]))
     \/ Announce /\ Emit(Paused(node))
     \/ Complete /\ Emit(Completed)
  /\ UNCHANGED <<clientVars, toServer, caller>>

NextSync ==
  \/ User \/ Network \/ ReceiveMessage
  \/ Serve \/ Starting \/ Reply \/ Flush \/ WorkerSync

SpecSync == InitSync /\ [][NextSync]_syncVars

-----------------------------------------------------------------------------
(* Properties.                                                             *)

\* the client and the server have nothing left to tell each other
Quiet ==
  /\ connected
  /\ pending = {}
  /\ toServer = <<>> /\ toClient = <<>> /\ deferred = <<>>
  /\ AtRest

\* the client gave up on no call
InTime == timeouts = 0

(* Once everything sent has arrived, the canvas shows of every node the    *)
(* run has visited what the executor knows of it - also when the run       *)
(* superseded another, and after an outage.  (WorkflowRunner.ts 107-111,   *)
(* 172-207, 218-229; run_session.cpp 54-72)                                *)
CanvasAgrees ==
  Quiet /\ InTime =>
    \A n \in Nodes : node_statuses[n] # "none" => shown[n] = node_statuses[n]

(* A worker that waits for a resume has a client that offers one: no pause *)
(* is missed or hidden, whatever was pressed while its event was on its    *)
(* way.  (WorkflowRunner.ts 279-304, useWorkflowActions.ts 108-120)        *)
PausedIsShown ==
  Quiet /\ InTime /\ wpc = "waiting" /\ ~Released => pausedAtNodeId = paused_at

(* main.cpp 487-489: the end-of-run signal clears the client's isRunning,  *)
(* so that RUN is free again.                                              *)
IdleIsShown == Quiet /\ wpc \in {"none", "ended"} => ~isRunning

(* So it does while there is no outage, for a refused graph, a superseded  *)
(* run and a call whose answer came after the client gave it up.           *)
(* (executor.cpp 176-180, 324-329; WorkflowRunner.ts 306-314)              *)
IdleIsShownOnline == conn = 1 => IdleIsShown

\* the server has yet to serve this connection's state call, and its answer
\* is on its way
StateAsked ==
  \E i \in 1..Len(toServer) :
    toServer[i].type = "state" /\ toServer[i].conn = conn

SnapshotToCome ==
  StateAsked \/ \E i \in 1..Len(toClient) : toClient[i].type = "snapshot"

(* WorkflowRunner.ts 83-84: an event the filter drops belongs to a run     *)
(* that was cancelled or superseded.                                       *)
DroppedIsSuperseded ==
  LET m == Head(toClient) IN
  toClient # <<>> /\ m.type \in {"status", "paused"} /\ ~isFreshEvent(m)
    => m.run < current_run_id

(* So it is while calls are answered in time: the reply that names a run   *)
(* reaches the client before the run's first event, whatever the worker    *)
(* and an earlier run have sent by then - or the client has reconnected    *)
(* meanwhile, and the snapshot that tells it the same is still to come.    *)
(* (run_session.cpp 60-82, ws_server.cpp 53-59, 90-112,                    *)
(* WorkflowRunner.ts 172-207)                                              *)
NothingFreshIsDropped == InTime /\ ~SnapshotToCome => DroppedIsSuperseded

(* WorkflowRunner.ts 28: events from a superseded run carry the prior id   *)
(* and must be dropped.                                                    *)
SupersededIsDropped ==
  [][LET m == Head(toClient) IN
     ReceiveMessage /\ m.run < currentRunId
       /\ m.type \in {"status", "paused", "invalid", "complete"}
       => UNCHANGED storeVars]_syncVars
=============================================================================
