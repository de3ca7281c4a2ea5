--------------------------- MODULE RunSyncProofs ---------------------------
(***************************************************************************)
(* Proofs about RunSync, for every set of nodes and any number of runs,    *)
(* messages, connections and timeouts: what a quiet client shows is what   *)
(* the executor knows, and no event of the present run is dropped for      *)
(* good.                                                                   *)
(*                                                                         *)
(* RunSync's properties speak of a client with nothing on its way.  The    *)
(* invariant SyncInv says of every state what the messages on their way    *)
(* will make of it: the last one that speaks of a node tells what the      *)
(* executor knows, the client will be able to tell it from a message of an *)
(* earlier run, or a snapshot that tells it again is still to come.        *)
(***************************************************************************)
EXTENDS RunSync, RunControlProofs, SequenceTheorems

-----------------------------------------------------------------------------
(* Messages, by kind.                                                      *)

ServerMessages ==
  [type : {"none", "stop", "continue", "step", "execute", "state"},
   id : Nat, conn : Nat, bps : SUBSET Nodes]

Events ==
  [type : {"status"}, node : Nodes, status : Statuses, run : Nat]
    \union [type : {"paused"}, node : Nodes, run : Nat]
    \union [type : {"invalid"}, nodes : SUBSET Nodes, run : Nat]
    \union [type : {"complete"}, run : Nat]

Replies ==
  [type : {"started"}, id : Nat, run : Nat]
    \union [type : {"snapshot"}, id : Nat, run : Nat,
            statuses : [Nodes -> Statuses], paused_at : Nodes \union {NoNode}]

ClientMessages == Events \union Replies

\* the two kinds of call, of reply, and of event the filter looks at
Calls    == {m \in ServerMessages : m.type \in {"execute", "state"}}
Filtered == {m \in ClientMessages : m.type \in {"status", "paused"}}

\* what speaks of node n, and what tells of it what the executor knows
Speaks(n) ==
  {m \in ClientMessages :
     \/ m.type \in {"status", "paused"} /\ m.node = n
     \/ m.type = "invalid" /\ n \in m.nodes
     \/ m.type = "snapshot" /\ m.statuses[n] # "none"}

Tells(n) ==
  {m \in Speaks(n) :
     /\ m.run = current_run_id
     /\ \/ m.type = "status" /\ m.status = node_statuses[n]
        \/ m.type = "paused" /\ node_statuses[n] = "paused"
        \/ m.type = "snapshot" /\ m.statuses[n] = node_statuses[n]}

\* the same of the pause
SpeaksOfPause == {m \in ClientMessages : m.type \in {"paused", "snapshot"}}

TellsPause ==
  {m \in SpeaksOfPause :
     /\ m.run = current_run_id
     /\ \/ m.type = "paused" /\ m.node = paused_at
        \/ m.type = "snapshot" /\ m.paused_at = paused_at}

\* the last message of q that is in S is also in T
LastIs(q, S, T) ==
  \A i \in 1..Len(q) : q[i] \in S =>
    q[i] \in T \/ \E j \in 1..Len(q) : i < j /\ q[j] \in S

None(q, S) == \A i \in 1..Len(q) : q[i] \notin S

Has(q, type) == \E i \in 1..Len(q) : q[i].type = type

-----------------------------------------------------------------------------
(* The invariant.                                                          *)

WireTypeOK ==
  /\ toServer \in Seq(ServerMessages)
  /\ toClient \in Seq(ClientMessages)
  /\ deferred \in Seq(Events)
  /\ caller \in ServerMessages
  /\ pending \subseteq [id : Nat, method : {"execute", "state"}]
  /\ requestId \in Nat /\ conn \in Nat /\ timeouts \in Nat
  /\ currentRunId \in Nat
  /\ shown \in [Nodes -> Statuses]

\* only execute keeps the loop busy; messages are of connections there were
LoopBusyInv ==
  /\ loop \in {"idle", "seeded", "joining", "launching", "spawning"}
  /\ loop # "idle" => ~AtRest
  /\ AtRest \/ caller.type = "execute"
  /\ \A i \in 1..Len(toServer) : toServer[i].conn <= conn
  /\ caller.conn <= conn
  /\ conn > 0
  /\ ~connected => toClient = <<>>

\* calls are served and answered in the order of their ids
OrderInv ==
  /\ \A i \in 1..Len(toServer) : toServer[i] \in Calls =>
       /\ toServer[i].id <= requestId
       /\ ~AtRest => caller.id < toServer[i].id
       /\ \A j \in 1..Len(toServer) : toServer[j] \in Calls /\ i < j =>
            toServer[i].id < toServer[j].id
  /\ ~AtRest => caller.id <= requestId
  /\ \A i \in 1..Len(toClient) : toClient[i] \in Replies =>
       /\ toClient[i].id <= requestId
       /\ ~AtRest => toClient[i].id < caller.id
       /\ \A j \in 1..Len(toServer) : toServer[j] \in Calls =>
            toClient[i].id < toServer[j].id
       /\ \A j \in 1..Len(toClient) : toClient[j] \in Replies /\ i < j =>
            toClient[i].id < toClient[j].id

\* and the client waits for the answers
WaitInv ==
  connected /\ InTime =>
    /\ \A i \in 1..Len(toServer) :
         toServer[i] \in Calls /\ toServer[i].conn = conn =>
         Waits(toServer[i].id, toServer[i].type)
    /\ ~AtRest /\ caller.conn = conn => Waits(caller.id, "execute")
    /\ \A i \in 1..Len(toClient) :
         /\ toClient[i].type = "started" => Waits(toClient[i].id, "execute")
         /\ toClient[i].type = "snapshot" => Waits(toClient[i].id, "state")

\* nothing is of a run yet to come; runs are named in their order
RunOrderInv ==
  /\ currentRunId <= current_run_id
  /\ \A i \in 1..Len(deferred) : deferred[i].run <= current_run_id
  /\ \A i \in 1..Len(toClient) :
       /\ toClient[i].run <= current_run_id
       /\ toClient[i] \in Replies =>
            /\ currentRunId <= toClient[i].run
            /\ \A j \in 1..Len(toClient) : toClient[j] \in Replies /\ i < j =>
                 toClient[i].run <= toClient[j].run

\* an execute call whose reply is lost is served before the state call
LostReplyInv ==
  connected =>
    /\ \A i \in 1..Len(toServer) :
         toServer[i].type = "execute" /\ toServer[i].conn # conn =>
         \E j \in 1..Len(toServer) :
           i < j /\ toServer[j].type = "state" /\ toServer[j].conn = conn
    /\ ~AtRest /\ caller.conn # conn => StateAsked

\* the client knows the present run's id, or is about to be told
NamedInv ==
  connected /\ InTime =>
    \/ StateAsked
    \/ ~AtRest /\ caller.conn = conn
    \/ currentRunId = current_run_id
    \/ \E j \in 1..Len(toClient) :
         toClient[j] \in Replies /\ toClient[j].run = current_run_id

\* before an event of that run arrives - or it will be told by a snapshot
FreshInv ==
  connected /\ InTime => \A i \in 1..Len(toClient) :
    toClient[i] \in Filtered /\ toClient[i].run = current_run_id =>
      \/ StateAsked
      \/ currentRunId = current_run_id
      \/ \E j \in 1..Len(toClient) :
           j < i /\ toClient[j] \in Replies /\ toClient[j].run = current_run_id
      \/ \E j \in 1..Len(toClient) : i < j /\ toClient[j].type = "snapshot"

\* events of the present run are of nodes it has visited, and so says a
\* snapshot behind one
VisitedInv ==
  /\ \A i \in 1..Len(deferred) :
       deferred[i] \in Filtered /\ deferred[i].run = current_run_id =>
       node_statuses[deferred[i].node] # "none"
  /\ \A i \in 1..Len(toClient) :
       toClient[i] \in Filtered /\ toClient[i].run = current_run_id =>
       /\ node_statuses[toClient[i].node] # "none"
       /\ \A j \in 1..Len(toClient) : i < j /\ toClient[j].type = "snapshot" =>
            toClient[j].statuses[toClient[i].node] # "none"

\* the last message that speaks of a visited node tells what is known of it
CanvasOf(n) ==
  /\ LastIs(deferred, Speaks(n), Tells(n))
  /\ connected /\ InTime /\ None(deferred, Speaks(n)) =>
       \/ StateAsked
       \/ /\ LastIs(toClient, Speaks(n), Tells(n))
          /\ None(toClient, Speaks(n)) => shown[n] = node_statuses[n]

CanvasInv == \A n \in Nodes : node_statuses[n] # "none" => CanvasOf(n)

Held == wpc = "waiting" /\ ~Released

ResumeAsked ==
  \E i \in 1..Len(toServer) : toServer[i].type \in {"continue", "step"}

\* the last message that speaks of the pause of a held worker tells of it
PauseTold ==
  /\ LastIs(deferred, SpeaksOfPause, TellsPause)
  /\ connected /\ InTime /\ None(deferred, SpeaksOfPause) =>
       \/ StateAsked \/ ResumeAsked
       \/ /\ LastIs(toClient, SpeaksOfPause, TellsPause)
          /\ None(toClient, SpeaksOfPause) => pausedAtNodeId = paused_at

PauseShownInv == Held => PauseTold

Alive == wpc \notin {"none", "ended"}

\* while a first connection shows a run, its complete event is to come
CompletesInv ==
  /\ ~AtRest /\ loop = "idle" => Alive \/ Has(deferred, "complete")
  /\ conn = 1 /\ connected /\ isRunning =>
       \/ Has(toServer, "execute") \/ ~AtRest
       \/ Alive \/ Has(deferred, "complete") \/ Has(toClient, "complete")

SyncInv ==
  /\ IInv /\ WireTypeOK /\ LoopBusyInv /\ OrderInv /\ WaitInv /\ RunOrderInv
  /\ LostReplyInv /\ NamedInv /\ FreshInv /\ VisitedInv /\ CanvasInv
  /\ PauseShownInv /\ CompletesInv

-----------------------------------------------------------------------------
(* Queues.                                                                 *)

(* What a message appended to a queue leaves of it. *)
LEMMA Appended ==
  ASSUME NEW M, NEW q \in Seq(M), NEW m \in M
  PROVE  /\ Append(q, m) \in Seq(M)
         /\ Len(q) \in Nat
         /\ Len(Append(q, m)) = Len(q) + 1
         /\ \A i \in 1..Len(q) : Append(q, m)[i] = q[i]
         /\ Append(q, m)[Len(q) + 1] = m
  BY AppendProperties, LenProperties

(* What taking the head of a queue leaves of it. *)
LEMMA Taken ==
  ASSUME NEW M, NEW q \in Seq(M), q # <<>>
  PROVE  /\ Tail(q) \in Seq(M)
         /\ Len(q) \in Nat /\ Len(q) >= 1
         /\ Len(Tail(q)) = Len(q) - 1
         /\ \A i \in 1..Len(Tail(q)) : Tail(q)[i] = q[i + 1]
         /\ Head(q) = q[1]
         /\ Head(q) \in M
  BY HeadTailProperties, LenProperties, EmptySeq

(* The last of a kind, when a message is appended. *)
LEMMA LastAppended ==
  ASSUME NEW M, NEW q \in Seq(M), NEW m \in M, NEW S, NEW T,
         \/ m \in S /\ m \in T
         \/ LastIs(q, S, T) /\ m \notin S
  PROVE  LastIs(Append(q, m), S, T)
<1> DEFINE r == Append(q, m)
<1>1. /\ Len(q) \in Nat /\ Len(r) = Len(q) + 1 /\ r[Len(q) + 1] = m
      /\ \A i \in 1..Len(q) : r[i] = q[i]
  BY Appended
<1> HIDE DEF r
<1>2. LastIs(r, S, T)
  BY <1>1 DEF LastIs
<1>3. QED
  BY <1>2 DEF r

LEMMA NoneAppended ==
  ASSUME NEW M, NEW q \in Seq(M), NEW m \in M, NEW S
  PROVE  None(Append(q, m), S) <=> None(q, S) /\ m \notin S
<1> DEFINE r == Append(q, m)
<1>1. /\ Len(q) \in Nat /\ Len(r) = Len(q) + 1 /\ r[Len(q) + 1] = m
      /\ \A i \in 1..Len(q) : r[i] = q[i]
  BY Appended
<1> HIDE DEF r
<1>2. None(r, S) <=> None(q, S) /\ m \notin S
  BY <1>1 DEF None
<1>3. QED
  BY <1>2 DEF r

(* The last of a kind, when the head is taken. *)
LEMMA LastTaken ==
  ASSUME NEW M, NEW q \in Seq(M), q # <<>>, NEW S, NEW T, LastIs(q, S, T)
  PROVE  /\ LastIs(Tail(q), S, T)
         /\ None(Tail(q), S) /\ Head(q) \in S => Head(q) \in T
         /\ None(Tail(q), S) /\ Head(q) \notin S => None(q, S)
<1> DEFINE r == Tail(q)
<1>1. /\ Len(q) \in Nat /\ Len(q) >= 1 /\ Len(r) = Len(q) - 1
      /\ \A i \in 1..Len(r) : r[i] = q[i + 1]
      /\ Head(q) = q[1]
  BY Taken
<1> HIDE DEF r
<1>2. \A j \in 2..Len(q) : j - 1 \in 1..Len(r) /\ r[j - 1] = q[j]
  BY <1>1
<1>3. LastIs(r, S, T)
  <2> SUFFICES ASSUME NEW i \in 1..Len(r), r[i] \in S, r[i] \notin T
               PROVE  \E j \in 1..Len(r) : i < j /\ r[j] \in S
    BY DEF LastIs
  <2>1. i + 1 \in 1..Len(q) /\ q[i + 1] = r[i]
    BY <1>1
  <2>2. PICK j \in 1..Len(q) : i + 1 < j /\ q[j] \in S
    BY <2>1 DEF LastIs
  <2>3. j \in 2..Len(q) /\ i < j - 1
    BY <2>2, <1>1
  <2>4. QED
    BY <2>2, <2>3, <1>2
<1>4. None(r, S) => \A j \in 2..Len(q) : q[j] \notin S
  BY <1>2 DEF None
<1>5. None(r, S) /\ Head(q) \in S => Head(q) \in T
  BY <1>1, <1>4 DEF LastIs
<1>6. None(r, S) /\ Head(q) \notin S => None(q, S)
  BY <1>1, <1>4 DEF None
<1>7. QED
  BY <1>3, <1>5, <1>6 DEF r

-----------------------------------------------------------------------------
(* What the steps do, as far as a message can tell.                        *)

(* What is sent is a message. *)
LEMMA MessageTypes ==
  ASSUME IInv, WireTypeOK
  PROVE  /\ \A n \in Nodes, s \in Statuses : Status(n, s) \in Events
         /\ \A n \in Nodes : Paused(n) \in Events
         /\ \A bad \in SUBSET Nodes : Invalid(bad) \in Events
         /\ Completed \in Events
         /\ Started \in Replies
         /\ \A id \in Nat : Snapshot(id) \in Replies
<1> USE DEF IInv, TypeOK, Events, Replies
<1>1. \A n \in Nodes, s \in Statuses : Status(n, s) \in Events
  BY DEF Status
<1>2. \A n \in Nodes : Paused(n) \in Events
  BY DEF Paused
<1>3. \A bad \in SUBSET Nodes : Invalid(bad) \in Events
  BY DEF Invalid
<1>4. Completed \in Events
  BY DEF Completed
<1>5. Started \in Replies
  BY DEF Started, WireTypeOK, ServerMessages
<1>6. \A id \in Nat : Snapshot(id) \in Replies
  BY DEF Snapshot
<1>7. QED
  BY <1>1, <1>2, <1>3, <1>4, <1>5, <1>6

(* A message's kind tells its set. *)
LEMMA Kinds ==
  ASSUME NEW m \in ClientMessages
  PROVE  /\ m.run \in Nat
         /\ m \in Replies <=> m.type \in {"started", "snapshot"}
         /\ m \in Events <=> m \notin Replies
         /\ m \in Replies => m.id \in Nat
         /\ m.type \in {"status", "paused"} => m.node \in Nodes
         /\ m.type = "status" => m.status \in Statuses
         /\ m.type = "snapshot" => m.statuses \in [Nodes -> Statuses]
  BY DEF ClientMessages, Events, Replies

(* A worker's step, and the event it defers. *)
LEMMA WorkerEffect ==
  ASSUME IInv, WorkerSync
  PROVE  /\ UNCHANGED <<clientVars, toServer, toClient, caller, loop,
                        last_run_id, current_run_id>>
         /\ \/ /\ UNCHANGED <<deferred, node_statuses>>
               /\ Alive'
               /\ Held' => Held /\ paused_at' = paused_at
            \/ \E bad \in SUBSET Nodes :
                 /\ deferred' = Append(deferred, Invalid(bad))
                 /\ node_statuses = NoStatus /\ UNCHANGED node_statuses
                 /\ Alive' /\ ~Held'
            \/ \E s \in Statuses \ {"none"} :
                 /\ node \in Nodes
                 /\ deferred' = Append(deferred, Status(node, s))
                 /\ node_statuses' = [node_statuses EXCEPT ![node] = s]
                 /\ Alive' /\ ~Held'
            \/ /\ node \in Nodes
               /\ deferred' = Append(deferred, Paused(node))
               /\ node_statuses' = [node_statuses EXCEPT ![node] = "paused"]
               /\ paused_at' = node
               /\ Alive'
            \/ /\ deferred' = Append(deferred, Completed)
               /\ UNCHANGED node_statuses
               /\ ~Held'
<1> USE DEF IInv, TypeOK, LoopInv, RunIdInv, NodeInv, StatusInv, AtNode, Unbegun,
            Alive, Held, Released, Go, LocalStep, debugVars, snapVars, sessionVars,
            workerVars
<1>1. UNCHANGED <<clientVars, toServer, caller>>
  BY DEF WorkerSync
<1>2. CASE Silent /\ UNCHANGED <<deferred, toClient>>
  <2>1. CASE Enter
    BY <1>1, <1>2, <2>1 DEF Enter
  <2>2. CASE Reset
    BY <1>1, <1>2, <2>2 DEF Reset
  <2>3. CASE Break
    BY <1>1, <1>2, <2>3 DEF Break
  <2>4. CASE \E n \in Nodes : NextNode(n)
    BY <1>1, <1>2, <2>4 DEF NextNode
  <2>5. CASE CheckStepping \/ CheckBreakpoint \/ BeginPause
    BY <1>1, <1>2, <2>5 DEF CheckStepping, CheckBreakpoint, BeginPause
  <2>6. CASE WaitForResume \/ ClearPause \/ StopAfterPause
    BY <1>1, <1>2, <2>6 DEF WaitForResume, ClearPause, StopAfterPause
  <2>7. CASE HandlerReturns \/ StopAfterNode
    BY <1>1, <1>2, <2>7 DEF HandlerReturns, StopAfterNode
  <2>8. QED
    BY <1>2, <2>1, <2>2, <2>3, <2>4, <2>5, <2>6, <2>7 DEF Silent
<1>3. CASE Prepared
  BY <1>1, <1>3 DEF Prepared, Prepare, Emit
<1>4. CASE (Skip \/ StartNode \/ Report) /\ Emit(Status(node, node_statuses'[node]))
  <2>1. node \in Nodes
    BY <1>4 DEF Skip, StartNode, Report
  <2>2. PICK s \in Statuses \ {"none"} : Notify(s)
    BY <1>4 DEF Skip, StartNode, Report, Statuses
  <2>3. node_statuses' = [node_statuses EXCEPT ![node] = s] /\ node_statuses'[node] = s
    BY <2>1, <2>2 DEF Notify, SetStatus
  <2>4. deferred' = Append(deferred, Status(node, s)) /\ UNCHANGED toClient
    BY <1>4, <2>3 DEF Emit
  <2>5. Alive' /\ ~Held'
    BY <1>4 DEF Skip, StartNode, Report
  <2>6. UNCHANGED <<loop, last_run_id, current_run_id>>
    BY <2>2 DEF Notify
  <2>7. QED
    BY <1>1, <2>1, <2>2, <2>3, <2>4, <2>5, <2>6
<1>5. CASE Announce /\ Emit(Paused(node))
  BY <1>1, <1>5 DEF Announce, SetStatus, Emit
<1>6. CASE Complete /\ Emit(Completed)
  BY <1>1, <1>6 DEF Complete, Emit
<1>7. QED
  BY <1>2, <1>3, <1>4, <1>5, <1>6 DEF WorkerSync

(* A step of start(): the executor goes on to the next run, or stays. *)
LEMMA StartingEffect ==
  ASSUME IInv, LoopBusyInv, Starting
  PROVE  /\ UNCHANGED <<clientVars, toServer, toClient, deferred, caller>>
         /\ ~AtRest
         /\ loop' \in {"idle", "joining", "launching", "spawning"}
         /\ loop' = "idle" => Alive'
         /\ \/ /\ UNCHANGED <<node_statuses, current_run_id>>
               /\ Held' => Held /\ paused_at' = paused_at
            \/ /\ node_statuses' = NoStatus
               /\ current_run_id' = current_run_id + 1
               /\ ~Held'
<1> USE DEF IInv, TypeOK, LoopInv, RunIdInv, EpochInv, LoopBusyInv, Alive, Held,
            Released, debugVars, snapVars, sessionVars, workerVars
<1>1. UNCHANGED <<clientVars, toServer, toClient, deferred, caller>>
  BY DEF Starting
<1>2. CASE StopPrevious
  BY <1>1, <1>2 DEF StopPrevious, RaiseStop
<1>3. CASE NoPrevious
  BY <1>1, <1>3 DEF NoPrevious
<1>4. CASE Join
  BY <1>1, <1>4 DEF Join
<1>5. CASE BeginRun
  BY <1>1, <1>5 DEF BeginRun
<1>6. CASE Spawn
  BY <1>1, <1>6 DEF Spawn
<1>7. QED
  BY <1>2, <1>3, <1>4, <1>5, <1>6 DEF Starting

(* A stop, continue or step served. *)
LEMMA NoticeEffect ==
  ASSUME IInv, StopOrCancel \/ Continue \/ StepOver
  PROVE  /\ UNCHANGED <<loop, wpc, node_statuses, current_run_id, paused_at>>
         /\ Held' => Held
         /\ Continue \/ StepOver => ~Held'
  BY DEF IInv, TypeOK, EpochInv, StopOrCancel, Continue, StepOver, RaiseStop, Wake,
         Held, Released, snapVars, sessionVars, workerVars

(* An execute call taken up. *)
LEMMA ExecuteEffect ==
  ASSUME NEW bps, Execute(Nodes, bps)
  PROVE  /\ UNCHANGED <<wpc, node_statuses, current_run_id, paused_at>>
         /\ loop' = "seeded"
         /\ Held' => Held
  BY DEF Execute, Held, Released, snapVars, workerVars

(* The backend's part of every step is a step of RunControl or none. *)
LEMMA BackendStep ==
  ASSUME WireTypeOK, [NextSync]_syncVars
  PROVE  [Next]_vars
<1> USE DEF backend
<1>1. CASE UNCHANGED syncVars
  BY <1>1 DEF syncVars
<1>2. CASE User
  BY <1>2 DEF User, runOrResume, Run, Stop, Resume, Press
<1>3. CASE Network
  BY <1>3 DEF Network, Disconnect, Reconnect, Timeout
<1>4. CASE ReceiveMessage \/ Reply \/ Flush
  BY <1>4 DEF ReceiveMessage, Reply, Flush
<1>5. CASE Serve
  <2>1. Head(toServer) \in ServerMessages
    BY <1>5, Taken DEF Serve, WireTypeOK
  <2>2. Head(toServer).bps \in SUBSET Nodes
    BY <2>1 DEF ServerMessages
  <2>3. QED
    BY <1>5, <2>2 DEF Serve, Next, Client
<1>6. CASE Starting
  BY <1>6 DEF Starting, Next, Handler
<1>7. CASE WorkerSync
  BY <1>7 DEF WorkerSync, Silent, Prepared, Next, Worker
<1>8. QED
  BY <1>1, <1>2, <1>3, <1>4, <1>5, <1>6, <1>7 DEF NextSync

\* what neither the client's sends nor its receipts touch
serverVars == <<deferred, caller, backend>>

(* RUN sends a call and waits for its answer. *)
LEMMA RunEffect ==
  ASSUME WireTypeOK, NEW bps \in SUBSET Nodes, Run(bps)
  PROVE  \E m \in Calls :
           /\ m.type = "execute" /\ m.id = requestId + 1 /\ m.conn = conn
           /\ toServer' = Append(toServer, m)
           /\ pending' = pending \union {[id |-> m.id, method |-> m.type]}
           /\ requestId' = requestId + 1
           /\ connected
           /\ UNCHANGED <<connected, conn, toClient, timeouts, serverVars,
                          currentRunId, pausedAtNodeId, shown>>
<1> DEFINE m == [type |-> "execute", id |-> requestId + 1, conn |-> conn, bps |-> bps]
<1>1. m \in Calls
  BY DEF Calls, ServerMessages, WireTypeOK
<1>2. /\ m.type = "execute" /\ m.id = requestId + 1 /\ m.conn = conn
      /\ toServer' = Append(toServer, m)
      /\ pending' = pending \union {[id |-> m.id, method |-> m.type]}
      /\ requestId' = requestId + 1
  BY DEF Run, Press, Call, Send
<1>3. connected /\ UNCHANGED <<connected, conn, toClient, timeouts, serverVars,
                               currentRunId, pausedAtNodeId, shown>>
  BY DEF Run, Press, serverVars
<1>4. QED
  BY <1>1, <1>2, <1>3

(* A new connection asks for the state. *)
LEMMA ReconnectEffect ==
  ASSUME WireTypeOK, Reconnect
  PROVE  \E m \in Calls :
           /\ m.type = "state" /\ m.id = requestId + 1 /\ m.conn = conn'
           /\ toServer' = Append(toServer, m)
           /\ pending' = pending \union {[id |-> m.id, method |-> m.type]}
           /\ requestId' = requestId + 1
           /\ ~connected /\ connected' /\ conn' = conn + 1
           /\ UNCHANGED <<toClient, timeouts, serverVars, storeVars>>
<1> DEFINE m == [type |-> "state", id |-> requestId + 1, conn |-> conn + 1, bps |-> {}]
<1>1. m \in Calls
  BY DEF Calls, ServerMessages, WireTypeOK
<1>2. /\ m.type = "state" /\ m.id = requestId + 1 /\ m.conn = conn'
      /\ toServer' = Append(toServer, m)
      /\ pending' = pending \union {[id |-> m.id, method |-> m.type]}
      /\ requestId' = requestId + 1
  BY DEF Reconnect, Call, Send
<1>3. /\ ~connected /\ connected' /\ conn' = conn + 1
      /\ UNCHANGED <<toClient, timeouts, serverVars, storeVars>>
  BY DEF Reconnect, bounds, serverVars
<1>4. QED
  BY <1>1, <1>2, <1>3

(* STOP, CONTINUE and STEP send a notice, or nothing on a closed socket. *)
LEMMA NotifyEffect ==
  ASSUME WireTypeOK, Stop \/ Resume
  PROVE  /\ UNCHANGED <<connected, conn, toClient, timeouts, serverVars, pending,
                        requestId, currentRunId, shown>>
         /\ isRunning' => isRunning
         /\ \/ toServer' = toServer /\ (connected => UNCHANGED pausedAtNodeId)
            \/ \E m \in ServerMessages \ Calls :
                 /\ m.type \in {"stop", "continue", "step"} /\ m.conn = 0
                 /\ toServer' = Append(toServer, m)
                 /\ m.type = "stop" => UNCHANGED pausedAtNodeId
<1>1. /\ UNCHANGED <<connected, conn, toClient, timeouts, serverVars, pending,
                     requestId, currentRunId, shown>>
      /\ isRunning' => isRunning
  BY DEF Stop, Resume, Press, serverVars
<1>2. \A t \in {"stop", "continue", "step"} :
        /\ [NoCall EXCEPT !.type = t] \in ServerMessages
        /\ [NoCall EXCEPT !.type = t].type = t
        /\ [NoCall EXCEPT !.type = t].conn = 0
  BY DEF NoCall, ServerMessages
<1>3. CASE Stop
  BY <1>1, <1>2, <1>3 DEF Stop, NotifyServer, Send, Calls
<1>4. CASE Resume
  <2>1. PICK t \in {"continue", "step"} : NotifyServer(t)
    BY <1>4 DEF Resume
  <2>2. CASE connected
    <3>1. toServer' = Append(toServer, [NoCall EXCEPT !.type = t])
      BY <2>1, <2>2 DEF NotifyServer, Send
    <3>2. [NoCall EXCEPT !.type = t] \in ServerMessages \ Calls
      BY <1>2 DEF Calls
    <3>3. QED
      BY <1>1, <1>2, <3>1, <3>2
  <2>3. CASE ~connected
    BY <1>1, <2>1, <2>3 DEF NotifyServer
  <2>4. QED
    BY <2>2, <2>3
<1>5. QED
  BY <1>3, <1>4

(* A call the client gives up: none is in time any more. *)
LEMMA TimeoutEffect ==
  ASSUME WireTypeOK, NEW p \in pending, Timeout(p)
  PROVE  /\ ~InTime'
         /\ pending' = pending \ {p}
         /\ isRunning' => isRunning
         /\ UNCHANGED <<connected, conn, toServer, toClient, serverVars, requestId,
                        currentRunId, pausedAtNodeId, shown>>
<1>1. timeouts' = timeouts + 1 /\ timeouts \in Nat
  BY DEF Timeout, WireTypeOK
<1>2. ~InTime'
  BY <1>1 DEF InTime
<1>3. isRunning' => isRunning
  BY DEF Timeout, Rejected
<1>4. QED
  BY <1>2, <1>3 DEF Timeout, wireVars, serverVars

(* The connection is lost, with what was on its way. *)
LEMMA DisconnectEffect ==
  ASSUME WireTypeOK, Disconnect
  PROVE  /\ connected /\ ~connected'
         /\ pending' = {}
         /\ toClient' = <<>>
         /\ toServer' \in Seq(ServerMessages)
         /\ Len(toServer') <= Len(toServer)
         /\ \A i \in 1..Len(toServer') : toServer'[i] = toServer[i]
         /\ UNCHANGED <<conn, serverVars, timeouts, requestId, currentRunId,
                        pausedAtNodeId, shown>>
<1>1. PICK k \in 0..Len(toServer) : toServer' = SubSeq(toServer, 1, k)
  BY DEF Disconnect
<1>2. Len(toServer) \in Nat /\ \A i \in 1..k : toServer[i] \in ServerMessages
  BY LenProperties, ElementOfSeq DEF WireTypeOK
<1>3. /\ toServer' \in Seq(ServerMessages)
      /\ Len(toServer') = IF 1 <= k THEN k - 1 + 1 ELSE 0
      /\ \A i \in 1..(k - 1 + 1) : toServer'[i] = toServer[1 + i - 1]
  BY <1>1, <1>2, SubSeqProperties
<1>4. Len(toServer') = k /\ \A i \in 1..k : toServer'[i] = toServer[i]
  BY <1>2, <1>3
<1>5. QED
  BY <1>2, <1>3, <1>4 DEF Disconnect, bounds, serverVars

Head1 == Head(toClient)

\* the head of toClient is an answer the client waits for
Answered == \/ Head1.type = "started" /\ Waits(Head1.id, "execute")
            \/ Head1.type = "snapshot" /\ Waits(Head1.id, "state")

(* A message taken in by the client. *)
LEMMA ReceiveEffect ==
  ASSUME WireTypeOK, ReceiveMessage
  PROVE  /\ toClient # <<>> /\ toClient' = Tail(toClient)
         /\ Head1 \in ClientMessages
         /\ UNCHANGED <<connected, conn, toServer, timeouts, serverVars, requestId>>
         /\ currentRunId' = IF Answered THEN Head1.run ELSE currentRunId
         /\ pending' = IF Head1 \in Replies
                         THEN {p \in pending : p.id # Head1.id} ELSE pending
         /\ isRunning' => isRunning
         /\ Head1.type = "complete" => ~isRunning'
<1>1. /\ toClient # <<>> /\ toClient' = Tail(toClient)
      /\ UNCHANGED <<connected, conn, toServer, timeouts, serverVars, requestId>>
  BY DEF ReceiveMessage, bounds, serverVars
<1>2. Head1 \in ClientMessages
  BY <1>1, Taken DEF WireTypeOK, Head1
<1>3. Head1 \in Replies <=> Head1.type \in {"started", "snapshot"}
  BY <1>2, Kinds
<1>4. CASE OnStatus(Head1) \/ OnPaused(Head1) \/ OnInvalid(Head1) \/ OnComplete(Head1)
  BY <1>1, <1>2, <1>3, <1>4 DEF OnStatus, OnPaused, OnInvalid, OnComplete, Answered
<1>5. CASE OnStarted(Head1)
  BY <1>1, <1>2, <1>3, <1>5 DEF OnStarted, Settle, Answered
<1>6. CASE OnSnapshot(Head1)
  BY <1>1, <1>2, <1>3, <1>6 DEF OnSnapshot, Settle, Answered
<1>7. QED
  BY <1>4, <1>5, <1>6 DEF ReceiveMessage, Head1

Served == Head(toServer)

(* A message served by the loop. *)
LEMMA ServeEffect ==
  ASSUME IInv, WireTypeOK, Serve
  PROVE  /\ AtRest /\ toServer # <<>> /\ toServer' = Tail(toServer)
         /\ Served \in ServerMessages
         /\ UNCHANGED <<clientVars, deferred, node_statuses, current_run_id,
                        paused_at, wpc>>
         /\ Held' => Held
         /\ \/ /\ Served.type \in {"stop", "continue", "step"}
               /\ Served.type \in {"continue", "step"} => ~Held'
               /\ UNCHANGED <<toClient, caller, loop>>
            \/ /\ Served.type = "execute"
               /\ caller' = Served /\ loop' = "seeded"
               /\ UNCHANGED toClient
            \/ /\ Served.type = "state"
               /\ Transmit(Snapshot(Served.id), Served.conn)
               /\ UNCHANGED <<caller, loop>>
<1>1. /\ AtRest /\ toServer # <<>> /\ toServer' = Tail(toServer)
      /\ UNCHANGED <<clientVars, deferred>>
  BY DEF Serve
<1>2. Served \in ServerMessages
  BY <1>1, Taken DEF WireTypeOK, Served
<1>3. CASE /\ Served.type \in {"stop", "continue", "step"}
           /\ StopOrCancel \/ Continue \/ StepOver
           /\ Served.type \in {"continue", "step"} => Continue \/ StepOver
           /\ UNCHANGED <<toClient, caller>>
  BY <1>1, <1>2, <1>3, NoticeEffect
<1>4. CASE /\ Served.type = "execute" /\ Execute(Nodes, Served.bps)
           /\ caller' = Served /\ UNCHANGED toClient
  BY <1>1, <1>2, <1>4, ExecuteEffect
<1>5. CASE /\ Served.type = "state" /\ Transmit(Snapshot(Served.id), Served.conn)
           /\ UNCHANGED <<caller, backend>>
  BY <1>1, <1>2, <1>5 DEF backend, vars, Held, Released, debugVars, snapVars,
     sessionVars, workerVars
<1>6. QED
  BY <1>3, <1>4, <1>5 DEF Serve, Served

(* So a step is one of these. *)
LEMMA Steps ==
  [NextSync]_syncVars =>
    \/ \E bps \in SUBSET Nodes : Run(bps)
    \/ Stop \/ Resume
    \/ \E p \in pending : Timeout(p)
    \/ Disconnect \/ Reconnect \/ ReceiveMessage
    \/ Serve \/ Starting \/ Reply \/ Flush \/ WorkerSync
    \/ UNCHANGED syncVars
  BY DEF NextSync, User, runOrResume, Network

(* What is sent to the client, if it is. *)
LEMMA TransmitEffect ==
  ASSUME WireTypeOK, NEW m \in ClientMessages, NEW to, Transmit(m, to)
  PROVE  /\ toClient' \in Seq(ClientMessages)
         /\ connected /\ to = conn => toClient' = Append(toClient, m)
         /\ ~(connected /\ to = conn) => toClient' = toClient
  BY Appended DEF Transmit, WireTypeOK

-----------------------------------------------------------------------------
(* One conjunct of the invariant after the other.                          *)

LEMMA EventsAreMessages == Events \subseteq ClientMessages /\ Replies \subseteq ClientMessages
  BY DEF ClientMessages

LEMMA CallsAreMessages == Calls \subseteq ServerMessages
  BY DEF Calls

LEMMA TypeStep == SyncInv /\ [NextSync]_syncVars => WireTypeOK'
<1> SUFFICES ASSUME SyncInv, [NextSync]_syncVars PROVE WireTypeOK'
  OBVIOUS
<1>1. IInv /\ WireTypeOK /\ LoopBusyInv
  BY DEF SyncInv
<1>a. /\ toServer \in Seq(ServerMessages) /\ toClient \in Seq(ClientMessages)
      /\ deferred \in Seq(Events)
      /\ caller \in ServerMessages
      /\ pending \subseteq [id : Nat, method : {"execute", "state"}]
      /\ requestId \in Nat /\ conn \in Nat /\ timeouts \in Nat
      /\ currentRunId \in Nat
      /\ shown \in [Nodes -> Statuses]
  BY <1>1 DEF WireTypeOK
<1>2. CASE \E bps \in SUBSET Nodes : Run(bps)
  <2>1. PICK bps \in SUBSET Nodes : Run(bps)
    BY <1>2
  <2>2. PICK m \in Calls :
           /\ toServer' = Append(toServer, m)
           /\ pending' = pending \union {[id |-> m.id, method |-> m.type]}
           /\ requestId' = requestId + 1
           /\ UNCHANGED <<conn, toClient, timeouts, serverVars,
                          currentRunId, shown>>
    BY <1>1, <2>1, RunEffect
  <2>3. toServer' \in Seq(ServerMessages)
    BY <1>a, <2>2, CallsAreMessages, Appended
  <2>4. m.id \in Nat /\ m.type \in {"execute", "state"}
    BY DEF Calls, ServerMessages
  <2>5. QED
    BY <1>a, <2>2, <2>3, <2>4 DEF WireTypeOK, serverVars
<1>3. CASE Stop \/ Resume
  <2>1. /\ UNCHANGED <<conn, toClient, timeouts, serverVars, pending,
                        requestId, currentRunId, shown>>
        /\ toServer' = toServer \/ \E m \in ServerMessages : toServer' = Append(toServer, m)
    BY <1>1, <1>3, NotifyEffect
  <2>2. toServer' \in Seq(ServerMessages)
    <3>1. \A m \in ServerMessages : Append(toServer, m) \in Seq(ServerMessages)
      BY <1>a, Appended
    <3>2. QED
      BY <1>a, <2>1, <3>1
  <2>3. QED
    BY <1>a, <2>1, <2>2 DEF WireTypeOK, serverVars
<1>4. CASE \E p \in pending : Timeout(p)
  BY <1>a, <1>4 DEF WireTypeOK, Timeout, wireVars
<1>5. CASE Disconnect
  <2>1. <<>> \in Seq(ClientMessages)
    BY EmptySeq
  <2>2. QED
    BY <1>a, <1>1, <1>5, <2>1, DisconnectEffect DEF WireTypeOK, serverVars
<1>6. CASE Reconnect
  <2>2. PICK m \in Calls :
           /\ toServer' = Append(toServer, m)
           /\ pending' = pending \union {[id |-> m.id, method |-> m.type]}
           /\ requestId' = requestId + 1 /\ conn' = conn + 1
           /\ UNCHANGED <<toClient, timeouts, serverVars, storeVars>>
    BY <1>1, <1>6, ReconnectEffect
  <2>3. toServer' \in Seq(ServerMessages)
    BY <1>a, <2>2, CallsAreMessages, Appended
  <2>4. m.id \in Nat /\ m.type \in {"execute", "state"}
    BY DEF Calls, ServerMessages
  <2>5. QED
    BY <1>a, <2>2, <2>3, <2>4 DEF WireTypeOK, serverVars, storeVars
<1>7. CASE ReceiveMessage
  <2>1. /\ toClient # <<>> /\ toClient' = Tail(toClient)
        /\ Head1 \in ClientMessages
        /\ UNCHANGED <<conn, toServer, timeouts, serverVars, requestId>>
        /\ currentRunId' = IF Answered THEN Head1.run ELSE currentRunId
        /\ pending' = IF Head1 \in Replies
                         THEN {p \in pending : p.id # Head1.id} ELSE pending
    BY <1>1, <1>7, ReceiveEffect
  <2>2. toClient' \in Seq(ClientMessages)
    BY <1>a, <2>1, Taken
  <2>3. currentRunId' \in Nat
    BY <1>a, <2>1, Kinds
  <2>4. shown' \in [Nodes -> Statuses]
    <3>1. CASE OnStatus(Head1)
      BY <1>a, <2>1, <3>1, Kinds DEF OnStatus
    <3>2. CASE OnPaused(Head1)
      BY <1>a, <2>1, <3>2, Kinds DEF OnPaused, Statuses
    <3>3. CASE OnInvalid(Head1)
      BY <1>a, <3>3 DEF OnInvalid, Statuses
    <3>4. CASE OnComplete(Head1) \/ OnStarted(Head1)
      BY <1>a, <3>4 DEF OnComplete, OnStarted
    <3>5. CASE OnSnapshot(Head1)
      BY <1>a, <2>1, <3>5, Kinds DEF OnSnapshot
    <3>6. QED
      BY <1>7, <3>1, <3>2, <3>3, <3>4, <3>5 DEF ReceiveMessage, Head1
  <2>5. QED
    BY <1>a, <2>1, <2>2, <2>3, <2>4 DEF WireTypeOK, serverVars
<1>8. CASE Serve
  <2>1. /\ toServer # <<>> /\ toServer' = Tail(toServer)
        /\ Served \in ServerMessages
        /\ UNCHANGED <<clientVars, deferred>>
        /\ caller' \in {caller, Served}
        /\ toClient' = toClient \/ Transmit(Snapshot(Served.id), Served.conn)
    BY <1>1, <1>8, ServeEffect
  <2>2. toServer' \in Seq(ServerMessages)
    BY <1>a, <2>1, Taken
  <2>3. Snapshot(Served.id) \in ClientMessages
    BY <1>1, <2>1, MessageTypes, EventsAreMessages DEF ServerMessages
  <2>4. toClient' \in Seq(ClientMessages)
    BY <1>1, <1>a, <2>1, <2>3, TransmitEffect
  <2>5. QED
    BY <1>a, <2>1, <2>2, <2>4 DEF WireTypeOK, clientVars, storeVars, bounds
<1>9. CASE Starting
  BY <1>1, <1>a, <1>9, StartingEffect DEF WireTypeOK, clientVars, storeVars, bounds
<1>10. CASE Reply
  <2>1. Started \in ClientMessages /\ NoCall \in ServerMessages
    BY <1>1, MessageTypes, EventsAreMessages DEF NoCall, ServerMessages
  <2>2. toClient' \in Seq(ClientMessages)
    BY <1>1, <1>10, <2>1, TransmitEffect DEF Reply
  <2>3. QED
    BY <1>a, <1>10, <2>1, <2>2 DEF WireTypeOK, Reply, clientVars, storeVars, bounds
<1>11. CASE Flush
  <2>1. Head(deferred) \in ClientMessages /\ deferred' \in Seq(Events)
    BY <1>a, <1>11, Taken, EventsAreMessages DEF Flush
  <2>2. toClient' \in Seq(ClientMessages)
    BY <1>1, <1>11, <2>1, TransmitEffect DEF Flush
  <2>3. QED
    BY <1>a, <1>11, <2>1, <2>2 DEF WireTypeOK, Flush, clientVars, storeVars, bounds
<1>12. CASE WorkerSync
  <2>1. /\ UNCHANGED <<clientVars, toServer, toClient, caller>>
        /\ deferred' = deferred \/ \E e \in Events : deferred' = Append(deferred, e)
    <3> HIDE <1>1
    <3>1. IInv /\ WireTypeOK
      BY <1>1
    <3>2. "paused" \in Statuses
      BY DEF Statuses
    <3>3. QED
      BY <3>1, <1>12, WorkerEffect, MessageTypes
  <2>2. deferred' \in Seq(Events)
    BY <1>a, <2>1, Appended
  <2>3. QED
    BY <1>a, <2>1, <2>2 DEF WireTypeOK, clientVars, storeVars, bounds
<1>13. CASE UNCHANGED syncVars
  BY <1>a, <1>13 DEF WireTypeOK, syncVars, storeVars, wireVars, bounds
<1>14. QED
  BY <1>2, <1>3, <1>4, <1>5, <1>6, <1>7, <1>8, <1>9, <1>10, <1>11, <1>12, <1>13, Steps

(* The queue to the server, when a message joins it. *)
LEMMA ServerQueue ==
  ASSUME WireTypeOK, NEW m \in ServerMessages, toServer' = Append(toServer, m)
  PROVE  /\ Len(toServer) \in Nat /\ Len(toServer') = Len(toServer) + 1
         /\ \A i \in 1..Len(toServer) : toServer'[i] = toServer[i]
         /\ toServer'[Len(toServer) + 1] = m
  BY Appended DEF WireTypeOK

(* And when the loop takes one. *)
LEMMA ServerQueueTaken ==
  ASSUME WireTypeOK, toServer # <<>>, toServer' = Tail(toServer)
  PROVE  /\ Len(toServer) \in Nat /\ Len(toServer) >= 1
         /\ Len(toServer') = Len(toServer) - 1
         /\ \A i \in 1..Len(toServer') : toServer'[i] = toServer[i + 1]
         /\ Served = toServer[1]
         /\ Served \in ServerMessages
  BY Taken DEF WireTypeOK, Served

(* The queue to the client likewise. *)
LEMMA ClientQueue ==
  ASSUME WireTypeOK, NEW m \in ClientMessages, toClient' = Append(toClient, m)
  PROVE  /\ Len(toClient) \in Nat /\ Len(toClient') = Len(toClient) + 1
         /\ \A i \in 1..Len(toClient) : toClient'[i] = toClient[i]
         /\ toClient'[Len(toClient) + 1] = m
  BY Appended DEF WireTypeOK

LEMMA ClientQueueTaken ==
  ASSUME WireTypeOK, toClient # <<>>, toClient' = Tail(toClient)
  PROVE  /\ Len(toClient) \in Nat /\ Len(toClient) >= 1
         /\ Len(toClient') = Len(toClient) - 1
         /\ \A i \in 1..Len(toClient') : toClient'[i] = toClient[i + 1]
         /\ Head1 = toClient[1]
         /\ Head1 \in ClientMessages
  BY Taken DEF WireTypeOK, Head1

LEMMA LoopBusyStep == SyncInv /\ [NextSync]_syncVars => LoopBusyInv'
<1> SUFFICES ASSUME SyncInv, [NextSync]_syncVars PROVE LoopBusyInv'
  OBVIOUS
<1>1. IInv /\ WireTypeOK /\ LoopBusyInv
  BY DEF SyncInv
<1>2. conn \in Nat /\ caller \in ServerMessages /\ Len(toServer) \in Nat
  BY <1>1, LenProperties DEF WireTypeOK
<1>3. \A i \in 1..Len(toServer) : toServer[i] \in ServerMessages
  BY <1>1, ElementOfSeq DEF WireTypeOK
<1>4. UNCHANGED serverVars => UNCHANGED <<caller, loop>>
  BY DEF serverVars, backend, vars, sessionVars
<1>5. CASE \E bps \in SUBSET Nodes : Run(bps)
  <2>1. PICK m \in Calls :
           /\ m.conn = conn
           /\ toServer' = Append(toServer, m)
           /\ connected
           /\ UNCHANGED <<connected, conn, toClient, serverVars>>
    BY <1>1, <1>5, RunEffect
  <2>2. /\ Len(toServer') = Len(toServer) + 1
        /\ \A i \in 1..Len(toServer) : toServer'[i] = toServer[i]
        /\ toServer'[Len(toServer) + 1] = m
    BY <1>1, <2>1, ServerQueue, CallsAreMessages
  <2>3. \A i \in 1..Len(toServer') : toServer'[i].conn <= conn
    BY <1>1, <1>2, <2>1, <2>2 DEF LoopBusyInv
  <2>4. QED
    BY <1>1, <1>4, <2>1, <2>3 DEF LoopBusyInv, AtRest
<1>6. CASE Stop \/ Resume
  <2>1. UNCHANGED <<connected, conn, toClient, serverVars>>
    BY <1>1, <1>6, NotifyEffect
  <2>2. \A i \in 1..Len(toServer') : toServer'[i].conn <= conn
    <3>1. CASE toServer' = toServer
      BY <1>1, <3>1 DEF LoopBusyInv
    <3>2. ASSUME NEW m \in ServerMessages, m.conn = 0, toServer' = Append(toServer, m)
          PROVE  \A i \in 1..Len(toServer') : toServer'[i].conn <= conn
      <4>1. /\ Len(toServer') = Len(toServer) + 1
            /\ \A i \in 1..Len(toServer) : toServer'[i] = toServer[i]
            /\ toServer'[Len(toServer) + 1] = m
        BY <1>1, <3>2, ServerQueue
      <4>2. QED
        BY <1>1, <1>2, <3>2, <4>1 DEF LoopBusyInv
    <3>3. QED
      BY <1>1, <1>6, <3>1, <3>2, NotifyEffect
  <2>3. QED
    BY <1>1, <1>4, <2>1, <2>2 DEF LoopBusyInv, AtRest
<1>7. CASE \E p \in pending : Timeout(p)
  BY <1>1, <1>4, <1>7, TimeoutEffect DEF LoopBusyInv, AtRest
<1>8. CASE Disconnect
  BY <1>1, <1>2, <1>4, <1>8, DisconnectEffect DEF LoopBusyInv, AtRest
<1>9. CASE Reconnect
  <2>1. PICK m \in Calls :
           /\ m.conn = conn'
           /\ toServer' = Append(toServer, m)
           /\ connected' /\ conn' = conn + 1
           /\ UNCHANGED <<toClient, serverVars>>
    BY <1>1, <1>9, ReconnectEffect
  <2>2. /\ Len(toServer') = Len(toServer) + 1
        /\ \A i \in 1..Len(toServer) : toServer'[i] = toServer[i]
        /\ toServer'[Len(toServer) + 1] = m
    BY <1>1, <2>1, ServerQueue, CallsAreMessages
  <2>3. \A i \in 1..Len(toServer) : toServer[i].conn \in Nat
    BY <1>3 DEF ServerMessages
  <2>4. \A i \in 1..Len(toServer') : toServer'[i].conn <= conn'
    BY <1>1, <1>2, <2>1, <2>2, <2>3 DEF LoopBusyInv
  <2>5. caller'.conn <= conn' /\ conn' > 0
    BY <1>1, <1>2, <1>4, <2>1 DEF LoopBusyInv, ServerMessages
  <2>6. QED
    BY <1>1, <1>4, <2>1, <2>4, <2>5 DEF LoopBusyInv, AtRest
<1>10. CASE ReceiveMessage
  BY <1>1, <1>4, <1>10, ReceiveEffect DEF LoopBusyInv, AtRest
<1>11. CASE Serve
  <2>1. /\ AtRest /\ toServer # <<>> /\ toServer' = Tail(toServer)
        /\ Served \in ServerMessages
        /\ UNCHANGED <<clientVars, deferred>>
        /\ \/ /\ UNCHANGED <<caller, loop>>
           \/ /\ Served.type = "execute"
              /\ caller' = Served /\ loop' = "seeded"
    BY <1>1, <1>11, ServeEffect
  <2>2. toClient' = toClient \/ connected
    BY <1>1, <1>11, ServeEffect DEF Transmit
  <2>3. /\ Len(toServer') = Len(toServer) - 1 /\ Len(toServer) >= 1
        /\ \A i \in 1..Len(toServer') : toServer'[i] = toServer[i + 1]
        /\ Served = toServer[1]
    BY <1>1, <2>1, ServerQueueTaken
  <2>4. (\A i \in 1..Len(toServer') : toServer'[i].conn <= conn) /\ Served.conn <= conn
    BY <1>1, <1>2, <2>3 DEF LoopBusyInv
  <2>5. Served.type = "execute" => Served # NoCall
    BY DEF NoCall
  <2>6. QED
    BY <1>1, <2>1, <2>2, <2>4, <2>5 DEF LoopBusyInv, AtRest, clientVars
<1>12. CASE Starting
  BY <1>1, <1>12, StartingEffect DEF LoopBusyInv, AtRest, clientVars
<1>13. CASE Reply
  <2>1. /\ caller' = NoCall /\ loop = "idle" /\ UNCHANGED <<clientVars, toServer, backend>>
        /\ toClient' = toClient \/ connected
    BY <1>13 DEF Reply, Transmit
  <2>2. NoCall.conn <= conn
    BY <1>2 DEF NoCall
  <2>3. QED
    BY <1>1, <2>1, <2>2 DEF LoopBusyInv, AtRest, clientVars, backend, vars, sessionVars
<1>14. CASE Flush
  <2>1. /\ UNCHANGED <<clientVars, toServer, caller, backend>>
        /\ toClient' = toClient \/ connected
    BY <1>14 DEF Flush, Transmit
  <2>2. QED
    BY <1>1, <2>1 DEF LoopBusyInv, AtRest, clientVars, backend, vars, sessionVars
<1>15. CASE WorkerSync
  BY <1>1, <1>15, WorkerEffect DEF LoopBusyInv, AtRest, clientVars
<1>16. CASE UNCHANGED syncVars
  BY <1>1, <1>16 DEF LoopBusyInv, AtRest, syncVars, wireVars, backend, vars, sessionVars
<1>17. QED
  BY <1>5, <1>6, <1>7, <1>8, <1>9, <1>10, <1>11, <1>12, <1>13, <1>14, <1>15, <1>16,
     Steps

LEMMA OrderStep == SyncInv /\ [NextSync]_syncVars => OrderInv'
<1> SUFFICES ASSUME SyncInv, [NextSync]_syncVars PROVE OrderInv'
  OBVIOUS
<1>1. IInv /\ WireTypeOK /\ LoopBusyInv /\ OrderInv
  BY DEF SyncInv
<1>2. /\ requestId \in Nat /\ caller \in ServerMessages
      /\ Len(toServer) \in Nat /\ Len(toClient) \in Nat
  BY <1>1, LenProperties DEF WireTypeOK
<1>3. /\ \A i \in 1..Len(toServer) : toServer[i] \in ServerMessages
      /\ \A i \in 1..Len(toClient) : toClient[i] \in ClientMessages
  BY <1>1, ElementOfSeq DEF WireTypeOK
<1>4. /\ \A i \in 1..Len(toServer) : toServer[i] \in Calls => toServer[i].id \in Nat
      /\ \A i \in 1..Len(toClient) : toClient[i] \in Replies => toClient[i].id \in Nat
      /\ caller.id \in Nat
  BY <1>2, <1>3, Kinds DEF ServerMessages, Calls
<1>5. UNCHANGED serverVars => UNCHANGED caller
  BY DEF serverVars
<1>6. ASSUME NEW m \in Calls, m.id = requestId + 1, toServer' = Append(toServer, m),
             requestId' = requestId + 1, UNCHANGED <<toClient, caller>>
      PROVE  OrderInv'
  <2>1. /\ Len(toServer') = Len(toServer) + 1
        /\ \A i \in 1..Len(toServer) : toServer'[i] = toServer[i]
        /\ toServer'[Len(toServer) + 1] = m
    BY <1>1, <1>6, ServerQueue, CallsAreMessages
  <2>2. \A i \in 1..Len(toServer') : toServer'[i] \in Calls =>
          /\ toServer'[i].id <= requestId'
          /\ ~AtRest' => caller'.id < toServer'[i].id
          /\ \A j \in 1..Len(toServer') : toServer'[j] \in Calls /\ i < j =>
               toServer'[i].id < toServer'[j].id
    BY <1>1, <1>2, <1>4, <1>6, <2>1 DEF OrderInv, AtRest
  <2>3. ~AtRest' => caller'.id <= requestId'
    BY <1>1, <1>2, <1>4, <1>6 DEF OrderInv, AtRest
  <2>4. \A i \in 1..Len(toClient') : toClient'[i] \in Replies =>
          /\ toClient'[i].id <= requestId'
          /\ ~AtRest' => toClient'[i].id < caller'.id
          /\ \A j \in 1..Len(toServer') : toServer'[j] \in Calls =>
               toClient'[i].id < toServer'[j].id
          /\ \A j \in 1..Len(toClient') : toClient'[j] \in Replies /\ i < j =>
               toClient'[i].id < toClient'[j].id
    BY <1>1, <1>2, <1>4, <1>6, <2>1 DEF OrderInv, AtRest
  <2>5. QED
    BY <2>2, <2>3, <2>4 DEF OrderInv
<1>7. ASSUME NEW m \in ClientMessages, toClient' = Append(toClient, m), m \notin Replies,
             UNCHANGED <<requestId, toServer, caller>>
      PROVE  OrderInv'
  <2>1. /\ Len(toClient') = Len(toClient) + 1
        /\ \A i \in 1..Len(toClient) : toClient'[i] = toClient[i]
        /\ toClient'[Len(toClient) + 1] = m
    BY <1>1, <1>7, ClientQueue
  <2>2. QED
    BY <1>1, <1>2, <1>7, <2>1 DEF OrderInv, AtRest
<1>8. ASSUME UNCHANGED <<requestId, toServer, toClient, caller>> PROVE OrderInv'
  BY <1>1, <1>8 DEF OrderInv, AtRest
<1>9. CASE \E bps \in SUBSET Nodes : Run(bps)
  BY <1>1, <1>5, <1>6, <1>9, RunEffect
<1>10. CASE Stop \/ Resume
  <2>1. UNCHANGED <<toClient, caller, requestId>>
    BY <1>1, <1>5, <1>10, NotifyEffect
  <2>2. ASSUME NEW m \in ServerMessages \ Calls, toServer' = Append(toServer, m)
        PROVE  OrderInv'
    <3>1. /\ Len(toServer') = Len(toServer) + 1
          /\ \A i \in 1..Len(toServer) : toServer'[i] = toServer[i]
          /\ toServer'[Len(toServer) + 1] = m
      BY <1>1, <2>2, ServerQueue
    <3>2. QED
      BY <1>1, <1>2, <2>1, <2>2, <3>1 DEF OrderInv, AtRest
  <2>3. QED
    BY <1>1, <1>8, <1>10, <2>1, <2>2, NotifyEffect
<1>11. CASE \E p \in pending : Timeout(p)
  BY <1>1, <1>5, <1>8, <1>11, TimeoutEffect
<1>12. CASE Disconnect
  <2>1. /\ Len(toServer') \in Nat /\ Len(toServer') <= Len(toServer)
        /\ \A i \in 1..Len(toServer') : toServer'[i] = toServer[i]
        /\ toClient' = <<>> /\ UNCHANGED <<caller, requestId>>
    BY <1>1, <1>5, <1>12, DisconnectEffect, LenProperties
  <2>2. Len(toClient') = 0
    BY <2>1, EmptySeq
  <2>3. \A i \in 1..Len(toServer') : i \in 1..Len(toServer) /\ toServer'[i] = toServer[i]
    BY <1>2, <2>1
  <2>4. \A i \in 1..Len(toServer') : toServer'[i] \in Calls =>
          /\ toServer'[i].id <= requestId
          /\ ~AtRest => caller.id < toServer'[i].id
          /\ \A j \in 1..Len(toServer') : toServer'[j] \in Calls /\ i < j =>
               toServer'[i].id < toServer'[j].id
    BY <1>1, <2>3 DEF OrderInv
  <2>5. ~AtRest => caller.id <= requestId
    BY <1>1 DEF OrderInv
  <2>6. QED
    BY <2>1, <2>2, <2>4, <2>5 DEF OrderInv, AtRest
<1>13. CASE Reconnect
  BY <1>1, <1>5, <1>6, <1>13, ReconnectEffect
<1>14. CASE ReceiveMessage
  <2>1. toClient # <<>> /\ toClient' = Tail(toClient) /\ UNCHANGED <<toServer, caller, requestId>>
    BY <1>1, <1>5, <1>14, ReceiveEffect
  <2>2. /\ Len(toClient') = Len(toClient) - 1
        /\ \A i \in 1..Len(toClient') : toClient'[i] = toClient[i + 1]
    BY <1>1, <2>1, ClientQueueTaken
  <2>3. QED
    BY <1>1, <1>2, <2>1, <2>2 DEF OrderInv, AtRest
<1>15. CASE Serve
  <2>1. /\ AtRest /\ toServer # <<>> /\ toServer' = Tail(toServer)
        /\ Served \in ServerMessages
        /\ UNCHANGED requestId
        /\ \/ /\ UNCHANGED <<toClient, caller>>
           \/ /\ Served.type = "execute"
              /\ caller' = Served
              /\ UNCHANGED toClient
           \/ /\ Served.type = "state"
              /\ Transmit(Snapshot(Served.id), Served.conn)
              /\ UNCHANGED caller
    BY <1>1, <1>15, ServeEffect DEF clientVars
  <2>2. /\ Len(toServer') = Len(toServer) - 1
        /\ \A i \in 1..Len(toServer') : toServer'[i] = toServer[i + 1]
        /\ Served = toServer[1] /\ 1 \in 1..Len(toServer)
    BY <1>1, <2>1, ServerQueueTaken
  <2>3. CASE UNCHANGED <<toClient, caller>>
    BY <1>1, <1>2, <2>1, <2>2, <2>3 DEF OrderInv, AtRest
  <2>4. CASE Served.type = "execute" /\ caller' = Served /\ UNCHANGED toClient
    <3>1. Served \in Calls
      BY <2>1, <2>4 DEF Calls
    <3>2. QED
      BY <1>1, <1>2, <1>4, <2>1, <2>2, <2>4, <3>1 DEF OrderInv, AtRest
  <2>5. CASE Served.type = "state" /\ Transmit(Snapshot(Served.id), Served.conn)
             /\ UNCHANGED caller
    <3>1. Served \in Calls /\ Served.id \in Nat
      BY <2>1, <2>5 DEF Calls, ServerMessages
    <3>2. Snapshot(Served.id) \in Replies /\ Snapshot(Served.id) \in ClientMessages
      BY <1>1, <3>1, MessageTypes, EventsAreMessages
    <3>3. Snapshot(Served.id).id = Served.id
      BY DEF Snapshot
    <3>4. CASE toClient' = Append(toClient, Snapshot(Served.id))
      <4>1. /\ Len(toClient') = Len(toClient) + 1
            /\ \A i \in 1..Len(toClient) : toClient'[i] = toClient[i]
            /\ toClient'[Len(toClient) + 1] = Snapshot(Served.id)
        BY <1>1, <3>2, <3>4, ClientQueue
      <4>2. AtRest'
        BY <2>1, <2>5 DEF AtRest
      <4>3. \A i \in 1..Len(toServer') : toServer'[i] \in Calls =>
              /\ toServer'[i].id <= requestId'
              /\ Served.id < toServer'[i].id
              /\ \A j \in 1..Len(toServer') : toServer'[j] \in Calls /\ i < j =>
                   toServer'[i].id < toServer'[j].id
        BY <1>1, <1>2, <2>1, <2>2, <3>1 DEF OrderInv
      <4>4. \A i \in 1..Len(toClient) : toClient[i] \in Replies =>
              /\ toClient[i].id <= requestId'
              /\ toClient[i].id < Served.id
              /\ \A j \in 1..Len(toServer') : toServer'[j] \in Calls =>
                   toClient[i].id < toServer'[j].id
              /\ \A j \in 1..Len(toClient) : toClient[j] \in Replies /\ i < j =>
                   toClient[i].id < toClient[j].id
        BY <1>1, <1>2, <2>1, <2>2, <3>1 DEF OrderInv
      <4>5. Served.id <= requestId'
        BY <1>1, <2>1, <2>2, <3>1 DEF OrderInv
      <4>6. \A i \in 1..Len(toClient') : toClient'[i] \in Replies =>
              /\ toClient'[i].id <= requestId'
              /\ \A j \in 1..Len(toServer') : toServer'[j] \in Calls =>
                   toClient'[i].id < toServer'[j].id
              /\ \A j \in 1..Len(toClient') : toClient'[j] \in Replies /\ i < j =>
                   toClient'[i].id < toClient'[j].id
        BY <1>2, <3>3, <4>1, <4>3, <4>4, <4>5
      <4>7. QED
        BY <4>2, <4>3, <4>6 DEF OrderInv
    <3>5. CASE toClient' = toClient
      BY <1>1, <1>2, <2>1, <2>2, <2>5, <3>5 DEF OrderInv, AtRest
    <3>6. QED
      BY <1>1, <2>5, <3>2, <3>4, <3>5, TransmitEffect
  <2>6. QED
    BY <2>1, <2>3, <2>4, <2>5
<1>16. CASE Starting
  BY <1>1, <1>8, <1>16, StartingEffect DEF clientVars
<1>17. CASE Reply
  <2>1. /\ ~AtRest /\ caller' = NoCall /\ AtRest'
        /\ UNCHANGED <<requestId, toServer>>
        /\ Transmit(Started, caller.conn)
    BY <1>17 DEF Reply, AtRest, clientVars
  <2>2. Started \in Replies /\ Started \in ClientMessages /\ Started.id = caller.id
    BY <1>1, MessageTypes, EventsAreMessages DEF Started
  <2>3. CASE toClient' = Append(toClient, Started)
    <3>1. /\ Len(toClient') = Len(toClient) + 1
          /\ \A i \in 1..Len(toClient) : toClient'[i] = toClient[i]
          /\ toClient'[Len(toClient) + 1] = Started
      BY <1>1, <2>2, <2>3, ClientQueue
    <3>2. \A i \in 1..Len(toClient) : toClient[i] \in Replies =>
            /\ toClient[i].id <= requestId
            /\ toClient[i].id < caller.id
            /\ \A j \in 1..Len(toServer) : toServer[j] \in Calls =>
                 toClient[i].id < toServer[j].id
            /\ \A j \in 1..Len(toClient) : toClient[j] \in Replies /\ i < j =>
                 toClient[i].id < toClient[j].id
      BY <1>1, <2>1 DEF OrderInv
    <3>3. /\ caller.id <= requestId
          /\ \A j \in 1..Len(toServer) : toServer[j] \in Calls => caller.id < toServer[j].id
      BY <1>1, <2>1 DEF OrderInv
    <3>4. \A i \in 1..Len(toClient') : toClient'[i] \in Replies =>
            /\ toClient'[i].id <= requestId'
            /\ \A j \in 1..Len(toServer') : toServer'[j] \in Calls =>
                 toClient'[i].id < toServer'[j].id
            /\ \A j \in 1..Len(toClient') : toClient'[j] \in Replies /\ i < j =>
                 toClient'[i].id < toClient'[j].id
      <4>1. \A i \in 1..Len(toClient') :
              \/ i \in 1..Len(toClient) /\ toClient'[i] = toClient[i]
              \/ i = Len(toClient') /\ toClient'[i] = Started
        BY <1>2, <3>1
      <4>2. \A i, j \in 1..Len(toClient') : i < j => i \in 1..Len(toClient)
        BY <1>2, <3>1
      <4>3. \A i \in 1..Len(toClient') : toClient'[i] \in Replies =>
              /\ toClient'[i].id <= requestId
              /\ \A j \in 1..Len(toServer) : toServer[j] \in Calls =>
                   toClient'[i].id < toServer[j].id
        BY <2>2, <3>2, <3>3, <4>1
      <4>4. \A i, j \in 1..Len(toClient') :
              toClient'[i] \in Replies /\ toClient'[j] \in Replies /\ i < j =>
              toClient'[i].id < toClient'[j].id
        BY <2>2, <3>2, <4>1, <4>2
      <4>5. QED
        BY <2>1, <4>3, <4>4
    <3>5. QED
      BY <1>1, <2>1, <3>4 DEF OrderInv
  <2>4. CASE toClient' = toClient
    BY <1>1, <2>1, <2>4 DEF OrderInv
  <2>5. QED
    BY <1>1, <2>1, <2>2, <2>3, <2>4, TransmitEffect
<1>18. CASE Flush
  <2>1. /\ Head(deferred) \in Events /\ Transmit(Head(deferred), conn)
        /\ UNCHANGED <<requestId, toServer, caller>>
    BY <1>1, <1>18, Taken DEF Flush, clientVars, WireTypeOK
  <2>2. Head(deferred) \in ClientMessages /\ Head(deferred) \notin Replies
    BY <2>1, EventsAreMessages, Kinds
  <2>3. QED
    BY <1>1, <1>7, <1>8, <2>1, <2>2, TransmitEffect
<1>19. CASE WorkerSync
  BY <1>1, <1>8, <1>19, WorkerEffect DEF clientVars
<1>20. CASE UNCHANGED syncVars
  BY <1>8, <1>20 DEF syncVars, wireVars
<1>21. QED
  BY <1>9, <1>10, <1>11, <1>12, <1>13, <1>14, <1>15, <1>16, <1>17, <1>18, <1>19,
     <1>20, Steps

\* the client waits for the answer after the step
Awaited(id, method) == [id |-> id, method |-> method] \in pending'

LEMMA WaitStep == SyncInv /\ [NextSync]_syncVars => WaitInv'
<1> SUFFICES ASSUME SyncInv, [NextSync]_syncVars, connected', InTime' PROVE WaitInv'
  BY DEF WaitInv
<1>1. IInv /\ WireTypeOK /\ LoopBusyInv /\ OrderInv /\ WaitInv
  BY DEF SyncInv
<1>2. /\ requestId \in Nat /\ conn \in Nat /\ caller \in ServerMessages
      /\ Len(toServer) \in Nat /\ Len(toClient) \in Nat
  BY <1>1, LenProperties DEF WireTypeOK
<1>3. /\ \A i \in 1..Len(toServer) : toServer[i] \in ServerMessages
      /\ \A i \in 1..Len(toClient) : toClient[i] \in ClientMessages
  BY <1>1, ElementOfSeq DEF WireTypeOK
<1>4. /\ \A i \in 1..Len(toServer) : toServer[i].id \in Nat /\ toServer[i].conn \in Nat
      /\ \A i \in 1..Len(toClient) : toClient[i] \in Replies => toClient[i].id \in Nat
      /\ \A i \in 1..Len(toClient) :
           toClient[i] \in Replies <=> toClient[i].type \in {"started", "snapshot"}
      /\ caller.id \in Nat /\ caller.conn \in Nat
  BY <1>2, <1>3, Kinds DEF ServerMessages
<1>5. UNCHANGED serverVars => UNCHANGED caller
  BY DEF serverVars
<1>6. ASSUME UNCHANGED <<toServer, toClient, caller, pending, conn>>, connected, InTime
      PROVE  WaitInv'
  BY <1>1, <1>6 DEF WaitInv, AtRest, Waits, Awaited
<1>7. ASSUME NEW m \in ClientMessages, toClient' = Append(toClient, m), m \notin Replies,
             UNCHANGED <<toServer, caller, pending, conn>>, connected, InTime
      PROVE  WaitInv'
  <2>1. /\ Len(toClient') = Len(toClient) + 1
        /\ \A i \in 1..Len(toClient) : toClient'[i] = toClient[i]
        /\ toClient'[Len(toClient) + 1] = m
    BY <1>1, <1>7, ClientQueue
  <2>2. m.type \notin {"started", "snapshot"}
    BY <1>7, Kinds
  <2>3. QED
    BY <1>1, <1>2, <1>7, <2>1, <2>2 DEF WaitInv, AtRest, Waits, Awaited
<1>9. CASE \E bps \in SUBSET Nodes : Run(bps)
  <2>1. PICK m \in Calls :
           /\ toServer' = Append(toServer, m)
           /\ pending' = pending \union {[id |-> m.id, method |-> m.type]}
           /\ connected
           /\ UNCHANGED <<connected, conn, toClient, timeouts, serverVars>>
    BY <1>1, <1>9, RunEffect
  <2>2. /\ Len(toServer') = Len(toServer) + 1
        /\ \A i \in 1..Len(toServer) : toServer'[i] = toServer[i]
        /\ toServer'[Len(toServer) + 1] = m
    BY <1>1, <2>1, ServerQueue, CallsAreMessages
  <2>3. InTime
    BY <2>1 DEF InTime
  <2>4. \A id, t : Waits(id, t) => Awaited(id, t)
    BY <2>1 DEF Waits, Awaited
  <2>5. Awaited(m.id, m.type)
    BY <2>1 DEF Waits, Awaited
  <2>6. \A i \in 1..Len(toServer') :
         toServer'[i] \in Calls /\ toServer'[i].conn = conn' =>
         Awaited(toServer'[i].id, toServer'[i].type)
    BY <1>1, <1>2, <2>1, <2>2, <2>3, <2>4, <2>5 DEF WaitInv
  <2>7. ~AtRest' /\ caller'.conn = conn' => Awaited(caller'.id, "execute")
    BY <1>1, <1>5, <2>1, <2>3, <2>4 DEF WaitInv, AtRest
  <2>8. \A i \in 1..Len(toClient') :
         /\ toClient'[i].type = "started" => Awaited(toClient'[i].id, "execute")
         /\ toClient'[i].type = "snapshot" => Awaited(toClient'[i].id, "state")
    BY <1>1, <2>1, <2>3, <2>4 DEF WaitInv
  <2>9. QED
    BY <2>6, <2>7, <2>8 DEF WaitInv, Waits, Awaited
<1>10. CASE Stop \/ Resume
  <2>1. UNCHANGED <<connected, conn, toClient, caller, pending, timeouts>>
    BY <1>1, <1>5, <1>10, NotifyEffect
  <2>2. connected /\ InTime
    BY <2>1 DEF InTime
  <2>3. ASSUME NEW m \in ServerMessages \ Calls, toServer' = Append(toServer, m)
        PROVE  WaitInv'
    <3>1. /\ Len(toServer') = Len(toServer) + 1
          /\ \A i \in 1..Len(toServer) : toServer'[i] = toServer[i]
          /\ toServer'[Len(toServer) + 1] = m
      BY <1>1, <2>3, ServerQueue
    <3>2. \A i \in 1..Len(toServer') :
           toServer'[i] \in Calls /\ toServer'[i].conn = conn =>
           Waits(toServer'[i].id, toServer'[i].type)
      BY <1>1, <1>2, <2>2, <2>3, <3>1 DEF WaitInv
    <3>3. /\ ~AtRest /\ caller.conn = conn => Waits(caller.id, "execute")
          /\ \A i \in 1..Len(toClient) :
               /\ toClient[i].type = "started" => Waits(toClient[i].id, "execute")
               /\ toClient[i].type = "snapshot" => Waits(toClient[i].id, "state")
      BY <1>1, <2>2 DEF WaitInv
    <3>4. QED
      BY <2>1, <3>2, <3>3 DEF WaitInv, AtRest, Waits
  <2>4. QED
    BY <1>1, <1>6, <1>10, <2>1, <2>2, <2>3, NotifyEffect
<1>11. CASE \E p \in pending : Timeout(p)
  BY <1>1, <1>11, TimeoutEffect
<1>12. CASE Disconnect
  BY <1>1, <1>12, DisconnectEffect
<1>13. CASE Reconnect
  <2>1. PICK m \in Calls :
           /\ toServer' = Append(toServer, m)
           /\ pending' = pending \union {[id |-> m.id, method |-> m.type]}
           /\ ~connected /\ conn' = conn + 1
           /\ UNCHANGED <<toClient, serverVars>>
    BY <1>1, <1>13, ReconnectEffect
  <2>2. /\ Len(toServer') = Len(toServer) + 1
        /\ \A i \in 1..Len(toServer) : toServer'[i] = toServer[i]
        /\ toServer'[Len(toServer) + 1] = m
    BY <1>1, <2>1, ServerQueue, CallsAreMessages
  <2>3. Awaited(m.id, m.type)
    BY <2>1 DEF Waits, Awaited
  <2>4. \A i \in 1..Len(toServer) : toServer'[i].conn # conn'
    BY <1>1, <1>2, <1>4, <2>1, <2>2 DEF LoopBusyInv
  <2>5. \A i \in 1..Len(toServer') :
         toServer'[i] \in Calls /\ toServer'[i].conn = conn' =>
         Awaited(toServer'[i].id, toServer'[i].type)
    BY <1>2, <2>2, <2>3, <2>4
  <2>6. caller'.conn # conn'
    BY <1>1, <1>2, <1>4, <1>5, <2>1 DEF LoopBusyInv
  <2>7. Len(toClient') = 0
    BY <1>1, <2>1, EmptySeq DEF LoopBusyInv
  <2>8. QED
    BY <2>5, <2>6, <2>7 DEF WaitInv, Waits, Awaited
<1>14. CASE ReceiveMessage
  <2>1. /\ toClient # <<>> /\ toClient' = Tail(toClient)
        /\ UNCHANGED <<connected, conn, timeouts, toServer, caller, requestId>>
        /\ pending' = IF Head1 \in Replies
                         THEN {p \in pending : p.id # Head1.id} ELSE pending
    BY <1>1, <1>5, <1>14, ReceiveEffect
  <2>2. /\ Len(toClient') = Len(toClient) - 1
        /\ \A i \in 1..Len(toClient') : toClient'[i] = toClient[i + 1]
        /\ Head1 = toClient[1] /\ 1 \in 1..Len(toClient)
    BY <1>1, <2>1, ClientQueueTaken
  <2>3. connected /\ InTime
    BY <2>1 DEF InTime
  <2>4. \A id, t : Waits(id, t) /\ (Head1 \in Replies => id # Head1.id) => Awaited(id, t)
    BY <2>1 DEF Waits, Awaited
  <2>5. \A i \in 1..Len(toServer') :
         toServer'[i] \in Calls /\ toServer'[i].conn = conn' =>
         Awaited(toServer'[i].id, toServer'[i].type)
    <3>1. \A i \in 1..Len(toServer) : toServer[i] \in Calls /\ Head1 \in Replies =>
            toServer[i].id # Head1.id
      BY <1>1, <1>2, <1>4, <2>2 DEF OrderInv
    <3>2. QED
      BY <1>1, <2>1, <2>3, <2>4, <3>1 DEF WaitInv
  <2>6. ~AtRest' /\ caller'.conn = conn' => Awaited(caller'.id, "execute")
    <3>1. ~AtRest /\ Head1 \in Replies => caller.id # Head1.id
      BY <1>1, <1>2, <1>4, <2>2 DEF OrderInv
    <3>2. QED
      BY <1>1, <2>1, <2>3, <2>4, <3>1 DEF WaitInv, AtRest
  <2>7. \A i \in 1..Len(toClient') :
         /\ toClient'[i].type = "started" => Awaited(toClient'[i].id, "execute")
         /\ toClient'[i].type = "snapshot" => Awaited(toClient'[i].id, "state")
    <3> SUFFICES ASSUME NEW i \in 1..Len(toClient')
                 PROVE /\ toClient'[i].type = "started" => Awaited(toClient'[i].id, "execute")
                       /\ toClient'[i].type = "snapshot" => Awaited(toClient'[i].id, "state")
      OBVIOUS
    <3>1. toClient'[i] = toClient[i + 1] /\ i + 1 \in 1..Len(toClient) /\ 1 < i + 1
      BY <1>2, <2>2
    <3>2. toClient[i + 1] \in Replies /\ Head1 \in Replies => toClient[i + 1].id # Head1.id
      BY <1>1, <1>2, <1>4, <2>2, <3>1 DEF OrderInv
    <3>3. QED
      BY <1>1, <1>4, <2>3, <2>4, <3>1, <3>2 DEF WaitInv
  <2>8. QED
    BY <2>5, <2>6, <2>7 DEF WaitInv, Waits, Awaited
<1>15. CASE Serve
  <2>1. /\ AtRest /\ toServer # <<>> /\ toServer' = Tail(toServer)
        /\ Served \in ServerMessages
        /\ UNCHANGED <<pending, conn, connected, timeouts>>
        /\ \/ /\ UNCHANGED <<toClient, caller>>
           \/ /\ Served.type = "execute"
              /\ caller' = Served
              /\ UNCHANGED toClient
           \/ /\ Served.type = "state"
              /\ Transmit(Snapshot(Served.id), Served.conn)
              /\ UNCHANGED caller
    BY <1>1, <1>15, ServeEffect DEF clientVars, bounds
  <2>2. /\ Len(toServer') = Len(toServer) - 1
        /\ \A i \in 1..Len(toServer') : toServer'[i] = toServer[i + 1]
        /\ Served = toServer[1] /\ 1 \in 1..Len(toServer)
    BY <1>1, <2>1, ServerQueueTaken
  <2>3. connected /\ InTime
    BY <2>1 DEF InTime
  <2>4. \A id, t : Waits(id, t) <=> Awaited(id, t)
    BY <2>1 DEF Waits, Awaited
  <2>5. \A i \in 1..Len(toServer') :
         toServer'[i] \in Calls /\ toServer'[i].conn = conn' =>
         Awaited(toServer'[i].id, toServer'[i].type)
    BY <1>1, <1>2, <2>1, <2>2, <2>3, <2>4 DEF WaitInv
  <2>6. \A i \in 1..Len(toClient) :
         /\ toClient[i].type = "started" => Awaited(toClient[i].id, "execute")
         /\ toClient[i].type = "snapshot" => Awaited(toClient[i].id, "state")
    BY <1>1, <2>3, <2>4 DEF WaitInv
  <2>7. Served \in Calls /\ Served.conn = conn => Awaited(Served.id, Served.type)
    BY <1>1, <2>2, <2>3, <2>4 DEF WaitInv
  <2>8. CASE UNCHANGED <<toClient, caller>>
    BY <2>1, <2>5, <2>6, <2>8 DEF WaitInv, Waits, Awaited, AtRest
  <2>9. CASE Served.type = "execute" /\ caller' = Served /\ UNCHANGED toClient
    <3>1. Served \in Calls
      BY <2>1, <2>9 DEF Calls
    <3>2. QED
      BY <2>1, <2>5, <2>6, <2>7, <2>9, <3>1 DEF WaitInv, Waits, Awaited, AtRest
  <2>10. CASE Served.type = "state" /\ Transmit(Snapshot(Served.id), Served.conn)
             /\ UNCHANGED caller
    <3>1. Served \in Calls /\ Served.id \in Nat
      BY <2>1, <2>10 DEF Calls, ServerMessages
    <3>2. Snapshot(Served.id) \in ClientMessages
      BY <1>1, <3>1, MessageTypes, EventsAreMessages
    <3>3. Snapshot(Served.id).id = Served.id /\ Snapshot(Served.id).type = "snapshot"
      BY DEF Snapshot
    <3>4. CASE toClient' = Append(toClient, Snapshot(Served.id)) /\ Served.conn = conn
      <4>1. /\ Len(toClient') = Len(toClient) + 1
            /\ \A i \in 1..Len(toClient) : toClient'[i] = toClient[i]
            /\ toClient'[Len(toClient) + 1] = Snapshot(Served.id)
        BY <1>1, <3>2, <3>4, ClientQueue
      <4>2. Awaited(Served.id, "state")
        BY <2>7, <2>10, <3>1, <3>4
      <4>3. \A i \in 1..Len(toClient') :
             /\ toClient'[i].type = "started" => Awaited(toClient'[i].id, "execute")
             /\ toClient'[i].type = "snapshot" => Awaited(toClient'[i].id, "state")
        BY <1>2, <2>6, <3>3, <4>1, <4>2
      <4>4. QED
        BY <2>1, <2>5, <2>10, <4>3 DEF WaitInv, Waits, Awaited, AtRest
    <3>5. CASE toClient' = toClient
      BY <2>1, <2>5, <2>6, <2>10, <3>5 DEF WaitInv, Waits, Awaited, AtRest
    <3>6. QED
      BY <1>1, <2>3, <2>10, <3>2, <3>4, <3>5, TransmitEffect
  <2>11. QED
    BY <2>1, <2>8, <2>9, <2>10
<1>16. CASE Starting
  <2>1. UNCHANGED <<clientVars, toServer, toClient, caller>>
    BY <1>1, <1>16, StartingEffect
  <2>2. QED
    BY <1>6, <2>1 DEF clientVars, bounds, InTime
<1>17. CASE Reply
  <2>1. /\ ~AtRest /\ AtRest'
        /\ UNCHANGED <<pending, conn, connected, timeouts, toServer>>
        /\ Transmit(Started, caller.conn)
    BY <1>17 DEF Reply, AtRest, clientVars, bounds
  <2>2. Started \in ClientMessages /\ Started.id = caller.id /\ Started.type = "started"
    BY <1>1, MessageTypes, EventsAreMessages DEF Started
  <2>3. connected /\ InTime
    BY <2>1 DEF InTime
  <2>4. CASE toClient' = Append(toClient, Started) /\ caller.conn = conn
    <3>1. /\ Len(toClient') = Len(toClient) + 1
          /\ \A i \in 1..Len(toClient) : toClient'[i] = toClient[i]
          /\ toClient'[Len(toClient) + 1] = Started
      BY <1>1, <2>2, <2>4, ClientQueue
    <3>2. Waits(caller.id, "execute")
      BY <1>1, <2>1, <2>3, <2>4 DEF WaitInv
    <3>3. QED
      BY <1>1, <1>2, <2>1, <2>2, <2>3, <3>1, <3>2 DEF WaitInv, Waits, Awaited
  <2>5. CASE toClient' = toClient
    BY <1>1, <2>1, <2>3, <2>5 DEF WaitInv, Waits, Awaited
  <2>6. QED
    BY <1>1, <2>1, <2>2, <2>3, <2>4, <2>5, TransmitEffect
<1>18. CASE Flush
  <2>1. /\ Head(deferred) \in Events /\ Transmit(Head(deferred), conn)
        /\ UNCHANGED <<toServer, caller, pending, conn, connected, timeouts>>
    BY <1>1, <1>18, Taken DEF Flush, clientVars, bounds, WireTypeOK
  <2>2. Head(deferred) \in ClientMessages /\ Head(deferred) \notin Replies
    BY <2>1, EventsAreMessages, Kinds
  <2>3. connected /\ InTime
    BY <2>1 DEF InTime
  <2>4. QED
    BY <1>1, <1>6, <1>7, <2>1, <2>2, <2>3, TransmitEffect
<1>19. CASE WorkerSync
  <2>1. UNCHANGED <<clientVars, toServer, toClient, caller>>
    BY <1>1, <1>19, WorkerEffect
  <2>2. QED
    BY <1>6, <2>1 DEF clientVars, bounds, InTime
<1>20. CASE UNCHANGED syncVars
  BY <1>6, <1>20 DEF syncVars, wireVars, bounds, InTime
<1>21. QED
  BY <1>9, <1>10, <1>11, <1>12, <1>13, <1>14, <1>15, <1>16, <1>17, <1>18, <1>19,
     <1>20, Steps

LEMMA RunOrderStep == SyncInv /\ [NextSync]_syncVars => RunOrderInv'
<1> SUFFICES ASSUME SyncInv, [NextSync]_syncVars PROVE RunOrderInv'
  OBVIOUS
<1>1. IInv /\ WireTypeOK /\ LoopBusyInv /\ RunOrderInv
  BY DEF SyncInv
<1>2. /\ currentRunId \in Nat /\ current_run_id \in Nat /\ last_run_id = current_run_id
      /\ Len(toClient) \in Nat /\ Len(deferred) \in Nat
  BY <1>1, LenProperties DEF WireTypeOK, IInv, TypeOK, RunIdInv
<1>3. /\ \A i \in 1..Len(toClient) : toClient[i] \in ClientMessages /\ toClient[i].run \in Nat
      /\ \A i \in 1..Len(deferred) : deferred[i] \in ClientMessages /\ deferred[i].run \in Nat
  BY <1>1, ElementOfSeq, EventsAreMessages, Kinds DEF WireTypeOK
<1>5. UNCHANGED serverVars => UNCHANGED <<deferred, current_run_id>>
  BY DEF serverVars, backend, vars, snapVars
<1>6. ASSUME UNCHANGED <<toClient, deferred, currentRunId>>,
             current_run_id' \in {current_run_id, current_run_id + 1}
      PROVE  RunOrderInv'
  BY <1>1, <1>2, <1>3, <1>6 DEF RunOrderInv
<1>7. ASSUME NEW m \in ClientMessages, toClient' = Append(toClient, m),
             m.run <= current_run_id,
             m \in Replies => m.run = current_run_id,
             \/ deferred' = deferred
             \/ deferred # <<>> /\ deferred' = Tail(deferred),
             UNCHANGED <<currentRunId, current_run_id>>
      PROVE  RunOrderInv'
  <2>1. /\ Len(toClient') = Len(toClient) + 1
        /\ \A i \in 1..Len(toClient) : toClient'[i] = toClient[i]
        /\ toClient'[Len(toClient) + 1] = m
    BY <1>1, <1>7, ClientQueue
  <2>2. \A i \in 1..Len(deferred') : deferred'[i].run <= current_run_id
    <3>1. CASE deferred' = deferred
      BY <1>1, <3>1 DEF RunOrderInv
    <3>2. CASE deferred # <<>> /\ deferred' = Tail(deferred)
      <4>1. /\ Len(deferred') = Len(deferred) - 1
            /\ \A i \in 1..Len(deferred') : deferred'[i] = deferred[i + 1]
        BY <1>1, <3>2, Taken DEF WireTypeOK
      <4>2. \A i \in 1..Len(deferred') : i + 1 \in 1..Len(deferred)
        BY <1>2, <4>1
      <4>3. QED
        BY <1>1, <4>1, <4>2 DEF RunOrderInv
    <3>3. QED
      BY <1>7, <3>1, <3>2
  <2>3. \A i \in 1..Len(toClient') : toClient'[i].run <= current_run_id
    BY <1>1, <1>2, <1>7, <2>1 DEF RunOrderInv
  <2>4. \A i \in 1..Len(toClient') : toClient'[i] \in Replies => currentRunId <= toClient'[i].run
    BY <1>1, <1>2, <1>7, <2>1 DEF RunOrderInv
  <2>5. \A i, j \in 1..Len(toClient') :
          toClient'[i] \in Replies /\ toClient'[j] \in Replies /\ i < j =>
          toClient'[i].run <= toClient'[j].run
    <3> SUFFICES ASSUME NEW i \in 1..Len(toClient'), NEW j \in 1..Len(toClient'),
                        toClient'[i] \in Replies, toClient'[j] \in Replies, i < j
                 PROVE  toClient'[i].run <= toClient'[j].run
      OBVIOUS
    <3>1. i \in 1..Len(toClient) /\ toClient'[i] = toClient[i]
      BY <1>2, <2>1
    <3>2. CASE j \in 1..Len(toClient)
      BY <1>1, <2>1, <3>1, <3>2 DEF RunOrderInv
    <3>3. CASE j = Len(toClient) + 1
      BY <1>1, <1>7, <2>1, <3>1, <3>3 DEF RunOrderInv
    <3>4. QED
      BY <1>2, <2>1, <3>2, <3>3
  <2>6. QED
    BY <1>1, <1>7, <2>2, <2>3, <2>4, <2>5 DEF RunOrderInv
<1>8. CASE \/ \E bps \in SUBSET Nodes : Run(bps)
           \/ Stop \/ Resume \/ Reconnect
           \/ \E p \in pending : Timeout(p)
  <2>1. UNCHANGED <<toClient, deferred, currentRunId, current_run_id>>
    BY <1>1, <1>5, <1>8, RunEffect, NotifyEffect, ReconnectEffect, TimeoutEffect DEF storeVars
  <2>2. QED
    BY <1>6, <2>1
<1>9. CASE Disconnect
  <2>1. toClient' = <<>> /\ UNCHANGED <<deferred, currentRunId, current_run_id>>
    BY <1>1, <1>5, <1>9, DisconnectEffect
  <2>2. Len(toClient') = 0
    BY <2>1, EmptySeq
  <2>3. QED
    BY <1>1, <2>1, <2>2 DEF RunOrderInv
<1>10. CASE ReceiveMessage
  <2>1. /\ toClient # <<>> /\ toClient' = Tail(toClient)
        /\ UNCHANGED <<deferred, current_run_id>>
        /\ currentRunId' = IF Answered THEN Head1.run ELSE currentRunId
    BY <1>1, <1>5, <1>10, ReceiveEffect
  <2>2. /\ Len(toClient') = Len(toClient) - 1
        /\ \A i \in 1..Len(toClient') : toClient'[i] = toClient[i + 1]
        /\ Head1 = toClient[1] /\ 1 \in 1..Len(toClient)
    BY <1>1, <2>1, ClientQueueTaken
  <2>3. Answered => Head1 \in Replies
    BY <1>3, <2>2, Kinds DEF Answered
  <2>4. currentRunId' <= current_run_id
    BY <1>1, <2>1, <2>2 DEF RunOrderInv
  <2>5. \A i \in 1..Len(toClient') :
          /\ toClient'[i].run <= current_run_id
          /\ toClient'[i] \in Replies => currentRunId' <= toClient'[i].run
    BY <1>1, <1>2, <2>1, <2>2, <2>3 DEF RunOrderInv
  <2>6. \A i, j \in 1..Len(toClient') :
          toClient'[i] \in Replies /\ toClient'[j] \in Replies /\ i < j =>
          toClient'[i].run <= toClient'[j].run
    <3>1. \A i \in 1..Len(toClient') : i + 1 \in 1..Len(toClient)
      BY <1>2, <2>2
    <3>2. \A i, j \in 1..Len(toClient') : i < j => i + 1 < j + 1
      BY <1>2, <2>2
    <3>3. QED
      BY <1>1, <2>2, <3>1, <3>2 DEF RunOrderInv
  <2>7. QED
    BY <1>1, <2>1, <2>4, <2>5, <2>6 DEF RunOrderInv
<1>11. CASE Serve
  <2>1. /\ Served \in ServerMessages
        /\ UNCHANGED <<deferred, currentRunId, current_run_id>>
        /\ toClient' = toClient \/ Transmit(Snapshot(Served.id), Served.conn)
    BY <1>1, <1>11, ServeEffect DEF clientVars, storeVars
  <2>2. Snapshot(Served.id) \in ClientMessages /\ Snapshot(Served.id).run = current_run_id
    BY <1>1, <2>1, MessageTypes, EventsAreMessages DEF ServerMessages, Snapshot
  <2>3. QED
    BY <1>1, <1>2, <1>6, <1>7, <2>1, <2>2, TransmitEffect
<1>12. CASE Starting
  <2>1. /\ UNCHANGED <<toClient, deferred, currentRunId>>
        /\ current_run_id' \in {current_run_id, current_run_id + 1}
    BY <1>1, <1>12, StartingEffect DEF clientVars, storeVars
  <2>2. QED
    BY <1>6, <2>1
<1>13. CASE Reply
  <2>1. /\ UNCHANGED <<deferred, currentRunId, current_run_id>>
        /\ Transmit(Started, caller.conn)
    BY <1>13 DEF Reply, clientVars, storeVars, backend, vars, snapVars
  <2>2. Started \in ClientMessages /\ Started.run = current_run_id
    BY <1>1, <1>2, MessageTypes, EventsAreMessages DEF Started
  <2>3. QED
    BY <1>1, <1>2, <1>6, <1>7, <2>1, <2>2, TransmitEffect
<1>14. CASE Flush
  <2>1. /\ deferred # <<>> /\ deferred' = Tail(deferred)
        /\ Transmit(Head(deferred), conn)
        /\ UNCHANGED <<currentRunId, current_run_id>>
    BY <1>14 DEF Flush, clientVars, storeVars, backend, vars, snapVars
  <2>2. /\ Head(deferred) = deferred[1] /\ 1 \in 1..Len(deferred)
        /\ Head(deferred) \in ClientMessages
    BY <1>1, <1>3, <2>1, Taken DEF WireTypeOK
  <2>3. Head(deferred).run <= current_run_id
    BY <1>1, <2>2 DEF RunOrderInv
  <2>4. Head(deferred) \notin Replies
    BY <1>1, <2>1, <2>2, Taken, Kinds DEF WireTypeOK
  <2>5. CASE toClient' = toClient
    BY <1>1, <1>2, <2>1, <2>5, Taken DEF RunOrderInv, WireTypeOK
  <2>6. QED
    BY <1>1, <1>7, <2>1, <2>2, <2>3, <2>4, <2>5, TransmitEffect
<1>15. CASE WorkerSync
  <2>1. UNCHANGED <<toClient, currentRunId, current_run_id>>
    BY <1>1, <1>15, WorkerEffect DEF clientVars, storeVars
  <2>2. \/ deferred' = deferred
        \/ \E e \in Events : e.run = current_run_id /\ deferred' = Append(deferred, e)
    <3>1. /\ \A n \in Nodes, s \in Statuses : Status(n, s).run = current_run_id
          /\ \A n \in Nodes : Paused(n).run = current_run_id
          /\ \A bad \in SUBSET Nodes : Invalid(bad).run = current_run_id
          /\ Completed.run = current_run_id
      BY DEF Status, Paused, Invalid, Completed
    <3>2. QED
      BY <1>1, <1>15, <3>1, WorkerEffect, MessageTypes
  <2>3. \A i \in 1..Len(deferred') : deferred'[i].run <= current_run_id
    <3>1. ASSUME NEW e \in Events, e.run = current_run_id, deferred' = Append(deferred, e)
          PROVE  \A i \in 1..Len(deferred') : deferred'[i].run <= current_run_id
      <4>1. /\ Len(deferred') = Len(deferred) + 1
            /\ \A i \in 1..Len(deferred) : deferred'[i] = deferred[i]
            /\ deferred'[Len(deferred) + 1] = e
        BY <1>1, <3>1, Appended DEF WireTypeOK
      <4>2. QED
        BY <1>1, <1>2, <3>1, <4>1 DEF RunOrderInv
    <3>2. QED
      BY <1>1, <2>2, <3>1 DEF RunOrderInv
  <2>4. QED
    BY <1>1, <2>1, <2>3 DEF RunOrderInv
<1>16. CASE UNCHANGED syncVars
  BY <1>6, <1>16 DEF syncVars, wireVars, storeVars, backend, vars, snapVars
<1>17. QED
  BY <1>8, <1>9, <1>10, <1>11, <1>12, <1>13, <1>14, <1>15, <1>16, Steps

LEMMA LostReplyStep == SyncInv /\ [NextSync]_syncVars => LostReplyInv'
<1> SUFFICES ASSUME SyncInv, [NextSync]_syncVars, connected' PROVE LostReplyInv'
  BY DEF LostReplyInv
<1>1. IInv /\ WireTypeOK /\ LoopBusyInv /\ LostReplyInv
  BY DEF SyncInv
<1>2. conn \in Nat /\ Len(toServer) \in Nat
  BY <1>1, LenProperties DEF WireTypeOK
<1>5. UNCHANGED serverVars => UNCHANGED caller
  BY DEF serverVars
<1>6. ASSUME UNCHANGED <<toServer, caller, conn, connected>>
      PROVE  LostReplyInv'
  BY <1>1, <1>6 DEF LostReplyInv, AtRest, StateAsked
<1>7. ASSUME NEW m \in ServerMessages, toServer' = Append(toServer, m),
             m.type = "execute" => m.conn = conn,
             UNCHANGED <<caller, conn, connected>>
      PROVE  LostReplyInv'
  <2>1. /\ Len(toServer') = Len(toServer) + 1
        /\ \A i \in 1..Len(toServer) : toServer'[i] = toServer[i]
        /\ toServer'[Len(toServer) + 1] = m
    BY <1>1, <1>7, ServerQueue
  <2>2. \A i \in 1..Len(toServer') :
         toServer'[i].type = "execute" /\ toServer'[i].conn # conn =>
         \E j \in 1..Len(toServer') :
           i < j /\ toServer'[j].type = "state" /\ toServer'[j].conn = conn
    BY <1>1, <1>2, <1>7, <2>1 DEF LostReplyInv
  <2>3. StateAsked => StateAsked'
    BY <1>2, <1>7, <2>1 DEF StateAsked
  <2>4. QED
    BY <1>1, <1>7, <2>2, <2>3 DEF LostReplyInv, AtRest
<1>8. CASE \E bps \in SUBSET Nodes : Run(bps)
  BY <1>1, <1>5, <1>7, <1>8, RunEffect, CallsAreMessages
<1>9. CASE Stop \/ Resume
  <2>1. UNCHANGED <<caller, conn, connected>>
    BY <1>1, <1>5, <1>9, NotifyEffect
  <2>2. \/ toServer' = toServer
        \/ \E m \in ServerMessages : m.type # "execute" /\ toServer' = Append(toServer, m)
    BY <1>1, <1>9, NotifyEffect
  <2>3. QED
    BY <1>6, <1>7, <2>1, <2>2
<1>10. CASE \E p \in pending : Timeout(p)
  BY <1>1, <1>5, <1>6, <1>10, TimeoutEffect
<1>11. CASE Disconnect
  BY <1>1, <1>11, DisconnectEffect
<1>12. CASE Reconnect
  <2>1. PICK m \in Calls :
           /\ m.type = "state" /\ m.conn = conn'
           /\ toServer' = Append(toServer, m)
    BY <1>1, <1>12, ReconnectEffect
  <2>2. /\ Len(toServer') = Len(toServer) + 1
        /\ toServer'[Len(toServer) + 1] = m
    BY <1>1, <2>1, ServerQueue, CallsAreMessages
  <2>3. StateAsked'
    BY <1>2, <2>1, <2>2 DEF StateAsked
  <2>4. \A i \in 1..Len(toServer') : toServer'[i].type = "execute" => i < Len(toServer')
    BY <1>2, <2>1, <2>2
  <2>5. QED
    BY <1>2, <2>1, <2>2, <2>3, <2>4 DEF LostReplyInv
<1>13. CASE ReceiveMessage
  BY <1>1, <1>5, <1>6, <1>13, ReceiveEffect
<1>14. CASE Serve
  <2>1. /\ AtRest /\ toServer # <<>> /\ toServer' = Tail(toServer)
        /\ UNCHANGED <<conn, connected>>
        /\ \/ UNCHANGED caller
           \/ Served.type = "execute" /\ caller' = Served
    BY <1>1, <1>14, ServeEffect DEF clientVars
  <2>2. /\ Len(toServer') = Len(toServer) - 1
        /\ \A i \in 1..Len(toServer') : toServer'[i] = toServer[i + 1]
        /\ Served = toServer[1] /\ 1 \in 1..Len(toServer)
    BY <1>1, <2>1, ServerQueueTaken
  <2>3. \A j \in 2..Len(toServer) : j - 1 \in 1..Len(toServer') /\ toServer'[j - 1] = toServer[j]
    BY <1>2, <2>2
  <2>4. ASSUME NEW i \in 1..Len(toServer'),
               toServer'[i].type = "execute", toServer'[i].conn # conn
        PROVE  \E j \in 1..Len(toServer') :
                 i < j /\ toServer'[j].type = "state" /\ toServer'[j].conn = conn
    <3>1. i + 1 \in 1..Len(toServer) /\ toServer[i + 1] = toServer'[i]
      BY <1>2, <2>2
    <3>2. PICK j \in 1..Len(toServer) :
            i + 1 < j /\ toServer[j].type = "state" /\ toServer[j].conn = conn
      BY <1>1, <2>1, <2>4, <3>1 DEF LostReplyInv
    <3>3. j \in 2..Len(toServer) /\ i < j - 1
      BY <3>2
    <3>4. QED
      BY <2>3, <3>2, <3>3
  <2>5. ASSUME Served.type = "execute", Served.conn # conn
        PROVE  StateAsked'
    <3>1. PICK j \in 1..Len(toServer) :
            1 < j /\ toServer[j].type = "state" /\ toServer[j].conn = conn
      BY <1>1, <2>1, <2>2, <2>5 DEF LostReplyInv
    <3>2. j \in 2..Len(toServer)
      BY <3>1
    <3>3. QED
      BY <2>1, <2>3, <3>1, <3>2 DEF StateAsked
  <2>6. ~AtRest' => Served.type = "execute" /\ caller' = Served
    BY <2>1 DEF AtRest
  <2>7. QED
    BY <2>1, <2>4, <2>5, <2>6 DEF LostReplyInv
<1>15. CASE Starting
  BY <1>1, <1>6, <1>15, StartingEffect DEF clientVars
<1>16. CASE Reply
  <2>1. AtRest' /\ UNCHANGED <<toServer, conn, connected>>
    BY <1>16 DEF Reply, AtRest, clientVars
  <2>2. QED
    BY <1>1, <2>1 DEF LostReplyInv
<1>17. CASE Flush
  BY <1>6, <1>17 DEF Flush, clientVars
<1>18. CASE WorkerSync
  BY <1>1, <1>6, <1>18, WorkerEffect DEF clientVars
<1>19. CASE UNCHANGED syncVars
  BY <1>6, <1>19 DEF syncVars, wireVars
<1>20. QED
  BY <1>8, <1>9, <1>10, <1>11, <1>12, <1>13, <1>14, <1>15, <1>16, <1>17, <1>18, <1>19,
     Steps

(* What is asked stays asked until it is served. *)
LEMMA AskedAppended ==
  ASSUME WireTypeOK, NEW m \in ServerMessages, toServer' = Append(toServer, m),
         conn' = conn, StateAsked
  PROVE  StateAsked'
<1>1. /\ Len(toServer) \in Nat /\ Len(toServer') = Len(toServer) + 1
      /\ \A i \in 1..Len(toServer) : toServer'[i] = toServer[i]
  BY ServerQueue
<1>2. QED
  BY <1>1 DEF StateAsked

LEMMA AskedTaken ==
  ASSUME WireTypeOK, toServer # <<>>, toServer' = Tail(toServer), conn' = conn,
         StateAsked, ~(Served.type = "state" /\ Served.conn = conn)
  PROVE  StateAsked'
<1>1. /\ Len(toServer) \in Nat /\ Len(toServer') = Len(toServer) - 1
      /\ \A i \in 1..Len(toServer') : toServer'[i] = toServer[i + 1]
      /\ Served = toServer[1]
  BY ServerQueueTaken
<1>2. PICK i \in 1..Len(toServer) : toServer[i].type = "state" /\ toServer[i].conn = conn
  BY DEF StateAsked
<1>3. i - 1 \in 1..Len(toServer') /\ toServer'[i - 1] = toServer[i]
  BY <1>1, <1>2
<1>4. QED
  BY <1>2, <1>3 DEF StateAsked

(* A new connection has asked. *)
LEMMA AskedAnew == ASSUME WireTypeOK, Reconnect PROVE StateAsked'
<1>1. PICK m \in Calls : /\ m.type = "state" /\ m.conn = conn'
                         /\ toServer' = Append(toServer, m)
  BY ReconnectEffect
<1>2. /\ Len(toServer) \in Nat /\ Len(toServer') = Len(toServer) + 1
      /\ toServer'[Len(toServer) + 1] = m
  BY <1>1, ServerQueue, CallsAreMessages
<1>3. QED
  BY <1>1, <1>2 DEF StateAsked

(* What the user sends leaves it asked. *)
LEMMA AskedThroughPress ==
  ASSUME WireTypeOK, StateAsked, (\E bps \in SUBSET Nodes : Run(bps)) \/ Stop \/ Resume
  PROVE  StateAsked'
<1>1. CASE \E bps \in SUBSET Nodes : Run(bps)
  BY <1>1, RunEffect, AskedAppended, CallsAreMessages
<1>2. CASE Stop \/ Resume
  <2>1. conn' = conn /\ \/ toServer' = toServer
                        \/ \E m \in ServerMessages : toServer' = Append(toServer, m)
    BY <1>2, NotifyEffect
  <2>2. QED
    BY <2>1, AskedAppended DEF StateAsked
<1>3. QED
  BY <1>1, <1>2

(* Until the snapshot is sent. *)
LEMMA AskedThroughServe ==
  ASSUME IInv, WireTypeOK, connected, Serve
  PROVE  \/ /\ StateAsked => StateAsked'
            /\ UNCHANGED toClient
         \/ /\ Served.id \in Nat
            /\ Snapshot(Served.id) \in ClientMessages
            /\ toClient' = Append(toClient, Snapshot(Served.id))
            /\ UNCHANGED caller
<1>1. /\ toServer # <<>> /\ toServer' = Tail(toServer) /\ Served \in ServerMessages
      /\ conn' = conn
      /\ \/ Served.type \in {"stop", "continue", "step", "execute"} /\ UNCHANGED toClient
         \/ /\ Served.type = "state" /\ UNCHANGED caller
            /\ Transmit(Snapshot(Served.id), Served.conn)
  BY ServeEffect DEF clientVars
<1>2. Served.id \in Nat
  BY <1>1 DEF ServerMessages
<1>3. Snapshot(Served.id) \in ClientMessages
  BY <1>2, MessageTypes, EventsAreMessages
<1>4. CASE Served.type = "state" /\ Served.conn = conn
  BY <1>1, <1>2, <1>3, <1>4, TransmitEffect
<1>5. CASE ~(Served.type = "state" /\ Served.conn = conn)
  BY <1>1, <1>3, <1>5, AskedTaken, TransmitEffect
<1>6. QED
  BY <1>4, <1>5

(* The client keeps the present run's id, and takes it from a reply. *)
LEMMA RunLearned ==
  ASSUME SyncInv, ReceiveMessage, connected, InTime,
         \/ currentRunId = current_run_id
         \/ Head1 \in Replies /\ Head1.run = current_run_id
  PROVE  currentRunId' = current_run_id
<1>1. WireTypeOK /\ WaitInv /\ RunOrderInv /\ IInv
  BY DEF SyncInv
<1>2. /\ toClient # <<>> /\ toClient' = Tail(toClient)
      /\ currentRunId' = IF Answered THEN Head1.run ELSE currentRunId
  BY <1>1, ReceiveEffect
<1>3. Head1 = toClient[1] /\ 1 \in 1..Len(toClient) /\ Head1 \in ClientMessages
  BY <1>1, <1>2, ClientQueueTaken
<1>4. Head1 \in Replies => Answered
  BY <1>1, <1>3, Kinds DEF WaitInv, Answered
<1>5. Answered => Head1 \in Replies
  BY <1>3, Kinds DEF Answered
<1>6. Head1 \in Replies => currentRunId <= Head1.run /\ Head1.run <= current_run_id
  BY <1>1, <1>3 DEF RunOrderInv
<1>7. currentRunId \in Nat /\ current_run_id \in Nat /\ Head1.run \in Nat
  BY <1>1, <1>3, Kinds DEF WireTypeOK, IInv, TypeOK
<1>8. QED
  BY <1>2, <1>4, <1>5, <1>6, <1>7

LEMMA NamedStep == SyncInv /\ [NextSync]_syncVars => NamedInv'
<1> SUFFICES ASSUME SyncInv, [NextSync]_syncVars, connected', InTime' PROVE NamedInv'
  BY DEF NamedInv
<1>1. IInv /\ WireTypeOK /\ LoopBusyInv /\ LostReplyInv /\ NamedInv
  BY DEF SyncInv
<1>2. Len(toClient) \in Nat /\ last_run_id = current_run_id
  BY <1>1, LenProperties DEF WireTypeOK, IInv, RunIdInv
<1>5. UNCHANGED serverVars => UNCHANGED <<caller, current_run_id>>
  BY DEF serverVars, backend, vars, snapVars
<1>6. ASSUME UNCHANGED <<toClient, caller, conn, currentRunId, current_run_id>>,
             connected, InTime, StateAsked => StateAsked'
      PROVE  NamedInv'
  BY <1>1, <1>6 DEF NamedInv, AtRest
<1>7. ASSUME NEW m \in ClientMessages, toClient' = Append(toClient, m),
             UNCHANGED <<caller, conn, currentRunId, current_run_id>>,
             connected, InTime, StateAsked => StateAsked'
      PROVE  NamedInv'
  <2>1. /\ Len(toClient') = Len(toClient) + 1
        /\ \A i \in 1..Len(toClient) : toClient'[i] = toClient[i]
    BY <1>1, <1>7, ClientQueue
  <2>2. QED
    BY <1>1, <1>2, <1>7, <2>1 DEF NamedInv, AtRest
<1>8. ASSUME NEW m \in ClientMessages, toClient' = Append(toClient, m), m \in Replies,
             m.run = current_run_id, UNCHANGED current_run_id
      PROVE  NamedInv'
  <2>1. Len(toClient') = Len(toClient) + 1 /\ toClient'[Len(toClient) + 1] = m
    BY <1>1, <1>8, ClientQueue
  <2>2. QED
    BY <1>2, <1>8, <2>1 DEF NamedInv
<1>9. CASE (\E bps \in SUBSET Nodes : Run(bps)) \/ Stop \/ Resume
  <2>1. UNCHANGED <<toClient, caller, conn, currentRunId, current_run_id, connected, timeouts>>
    BY <1>1, <1>5, <1>9, RunEffect, NotifyEffect
  <2>2. QED
    BY <1>1, <1>6, <1>9, <2>1, AskedThroughPress DEF InTime
<1>10. CASE \E p \in pending : Timeout(p)
  BY <1>1, <1>10, TimeoutEffect
<1>11. CASE Disconnect
  BY <1>1, <1>11, DisconnectEffect
<1>12. CASE Reconnect
  BY <1>1, <1>12, AskedAnew DEF NamedInv
<1>13. CASE ReceiveMessage
  <2>1. /\ toClient # <<>> /\ toClient' = Tail(toClient)
        /\ UNCHANGED <<connected, conn, timeouts, toServer, caller, current_run_id>>
    BY <1>1, <1>5, <1>13, ReceiveEffect
  <2>2. /\ Len(toClient') = Len(toClient) - 1
        /\ \A i \in 1..Len(toClient') : toClient'[i] = toClient[i + 1]
        /\ Head1 = toClient[1]
    BY <1>1, <2>1, ClientQueueTaken
  <2>3. connected /\ InTime /\ (StateAsked => StateAsked') /\ (AtRest' <=> AtRest)
    BY <2>1 DEF InTime, StateAsked, AtRest
  <2>4. CASE currentRunId = current_run_id
    BY <1>13, <2>1, <2>3, <2>4, RunLearned DEF NamedInv
  <2>5. ASSUME NEW j \in 1..Len(toClient), toClient[j] \in Replies,
               toClient[j].run = current_run_id
        PROVE  NamedInv'
    <3>1. CASE j = 1
      BY <1>13, <2>1, <2>2, <2>3, <2>5, <3>1, RunLearned DEF NamedInv
    <3>2. CASE j > 1
      <4>1. j - 1 \in 1..Len(toClient') /\ toClient'[j - 1] = toClient[j]
        BY <1>2, <2>2, <2>5, <3>2
      <4>2. QED
        BY <2>1, <2>5, <4>1 DEF NamedInv
    <3>3. QED
      BY <3>1, <3>2
  <2>6. QED
    BY <1>1, <2>1, <2>3, <2>4, <2>5 DEF NamedInv
<1>14. CASE Serve
  <2>1. /\ UNCHANGED <<connected, conn, timeouts, currentRunId, current_run_id>>
        /\ AtRest
    BY <1>1, <1>14, ServeEffect DEF clientVars, storeVars, bounds
  <2>2. connected /\ InTime
    BY <2>1 DEF InTime
  <2>3. CASE (StateAsked => StateAsked') /\ UNCHANGED toClient
    BY <1>1, <2>1, <2>2, <2>3 DEF NamedInv
  <2>4. CASE /\ Served.id \in Nat /\ Snapshot(Served.id) \in ClientMessages
             /\ toClient' = Append(toClient, Snapshot(Served.id))
    <3>1. Snapshot(Served.id) \in Replies /\ Snapshot(Served.id).run = current_run_id
      BY <1>1, <2>4, MessageTypes DEF Snapshot
    <3>2. QED
      BY <1>8, <2>1, <2>4, <3>1
  <2>5. QED
    BY <1>1, <1>14, <2>2, <2>3, <2>4, AskedThroughServe
<1>15. CASE Starting
  <2>1. ~AtRest' /\ UNCHANGED <<connected, conn, toServer, caller>>
    BY <1>1, <1>15, StartingEffect DEF clientVars, AtRest
  <2>2. CASE caller.conn = conn
    BY <2>1, <2>2 DEF NamedInv
  <2>3. CASE caller.conn # conn
    BY <1>1, <2>1, <2>3 DEF LostReplyInv, NamedInv, StateAsked, AtRest
  <2>4. QED
    BY <2>2, <2>3
<1>16. CASE Reply
  <2>1. /\ ~AtRest /\ Transmit(Started, caller.conn)
        /\ UNCHANGED <<connected, conn, toServer, current_run_id>>
    BY <1>16 DEF Reply, clientVars, backend, vars, snapVars
  <2>2. CASE caller.conn = conn
    <3>1. Started \in ClientMessages /\ Started \in Replies /\ Started.run = current_run_id
      BY <1>1, <1>2, MessageTypes, EventsAreMessages DEF Started
    <3>2. QED
      BY <1>1, <1>8, <2>1, <2>2, <3>1, TransmitEffect
  <2>3. CASE caller.conn # conn
    BY <1>1, <2>1, <2>3 DEF LostReplyInv, NamedInv, StateAsked
  <2>4. QED
    BY <2>2, <2>3
<1>17. CASE Flush
  <2>1. /\ deferred # <<>> /\ Transmit(Head(deferred), conn)
        /\ UNCHANGED <<caller, conn, currentRunId, current_run_id, connected, timeouts,
                       toServer>>
    BY <1>17 DEF Flush, clientVars, storeVars, bounds, backend, vars, snapVars
  <2>2. Head(deferred) \in ClientMessages
    BY <1>1, <2>1, Taken, EventsAreMessages DEF WireTypeOK
  <2>3. connected /\ InTime /\ (StateAsked => StateAsked')
    BY <2>1 DEF InTime, StateAsked
  <2>4. QED
    BY <1>1, <1>7, <2>1, <2>2, <2>3, TransmitEffect
<1>18. CASE WorkerSync
  <2>1. UNCHANGED <<toClient, caller, conn, currentRunId, current_run_id, connected, timeouts,
                    toServer>>
    BY <1>1, <1>18, WorkerEffect DEF clientVars, storeVars, bounds
  <2>2. QED
    BY <1>6, <2>1 DEF InTime, StateAsked
<1>19. CASE UNCHANGED syncVars
  BY <1>6, <1>19 DEF syncVars, wireVars, storeVars, bounds, backend, vars, snapVars, InTime,
     StateAsked
<1>20. QED
  BY <1>9, <1>10, <1>11, <1>12, <1>13, <1>14, <1>15, <1>16, <1>17, <1>18, <1>19, Steps

LEMMA FreshStep == SyncInv /\ [NextSync]_syncVars => FreshInv'
<1> SUFFICES ASSUME SyncInv, [NextSync]_syncVars, connected', InTime' PROVE FreshInv'
  BY DEF FreshInv
<1>1. /\ IInv /\ WireTypeOK /\ LoopBusyInv /\ LostReplyInv /\ NamedInv /\ RunOrderInv
      /\ FreshInv
  BY DEF SyncInv
<1>2. Len(toClient) \in Nat /\ last_run_id = current_run_id /\ current_run_id \in Nat
  BY <1>1, LenProperties DEF WireTypeOK, IInv, RunIdInv, TypeOK
<1>3. \A i \in 1..Len(toClient) : toClient[i] \in ClientMessages /\ toClient[i].run \in Nat
  BY <1>1, ElementOfSeq, Kinds DEF WireTypeOK
<1>5. UNCHANGED serverVars => UNCHANGED <<caller, current_run_id>>
  BY DEF serverVars, backend, vars, snapVars
<1>6. ASSUME UNCHANGED <<toClient, currentRunId, current_run_id>>,
             connected, InTime, StateAsked => StateAsked'
      PROVE  FreshInv'
  BY <1>1, <1>6 DEF FreshInv
<1>7. ASSUME NEW m \in ClientMessages, toClient' = Append(toClient, m),
             UNCHANGED <<currentRunId, current_run_id>>,
             connected, InTime, StateAsked => StateAsked',
             \/ m \notin Filtered
             \/ m.run # current_run_id
             \/ StateAsked
             \/ currentRunId = current_run_id
             \/ \E j \in 1..Len(toClient) :
                  toClient[j] \in Replies /\ toClient[j].run = current_run_id
      PROVE  FreshInv'
  <2>1. /\ Len(toClient') = Len(toClient) + 1
        /\ \A i \in 1..Len(toClient) : toClient'[i] = toClient[i]
        /\ toClient'[Len(toClient) + 1] = m
    BY <1>1, <1>7, ClientQueue
  <2> SUFFICES ASSUME NEW i \in 1..Len(toClient'), toClient'[i] \in Filtered,
                      toClient'[i].run = current_run_id
               PROVE  \/ StateAsked'
                      \/ currentRunId = current_run_id
                      \/ \E j \in 1..Len(toClient') : j < i /\ toClient'[j] \in Replies
                           /\ toClient'[j].run = current_run_id
                      \/ \E j \in 1..Len(toClient') : i < j /\ toClient'[j].type = "snapshot"
    BY <1>7 DEF FreshInv
  <2>2. CASE i \in 1..Len(toClient)
    BY <1>1, <1>2, <1>7, <2>1, <2>2 DEF FreshInv
  <2>3. CASE i = Len(toClient) + 1
    BY <1>2, <1>7, <2>1, <2>3
  <2>4. QED
    BY <1>2, <2>1, <2>2, <2>3
<1>9. CASE (\E bps \in SUBSET Nodes : Run(bps)) \/ Stop \/ Resume
  <2>1. UNCHANGED <<toClient, currentRunId, current_run_id, connected, timeouts>>
    BY <1>1, <1>5, <1>9, RunEffect, NotifyEffect
  <2>2. QED
    BY <1>1, <1>6, <1>9, <2>1, AskedThroughPress DEF InTime
<1>10. CASE \E p \in pending : Timeout(p)
  BY <1>1, <1>10, TimeoutEffect
<1>11. CASE Disconnect
  BY <1>1, <1>11, DisconnectEffect
<1>12. CASE Reconnect
  BY <1>1, <1>12, AskedAnew DEF FreshInv
<1>13. CASE ReceiveMessage
  <2>1. /\ toClient # <<>> /\ toClient' = Tail(toClient)
        /\ UNCHANGED <<connected, conn, timeouts, toServer, current_run_id>>
    BY <1>1, <1>5, <1>13, ReceiveEffect
  <2>2. /\ Len(toClient') = Len(toClient) - 1
        /\ \A i \in 1..Len(toClient') : toClient'[i] = toClient[i + 1]
        /\ Head1 = toClient[1]
    BY <1>1, <2>1, ClientQueueTaken
  <2>3. connected /\ InTime /\ (StateAsked => StateAsked')
    BY <2>1 DEF InTime, StateAsked
  <2>4. \A j \in 2..Len(toClient) : j - 1 \in 1..Len(toClient') /\ toClient'[j - 1] = toClient[j]
    BY <1>2, <2>2
  <2> SUFFICES ASSUME NEW i \in 1..Len(toClient'), toClient'[i] \in Filtered,
                      toClient'[i].run = current_run_id
               PROVE  \/ StateAsked'
                      \/ currentRunId' = current_run_id
                      \/ \E j \in 1..Len(toClient') : j < i /\ toClient'[j] \in Replies
                           /\ toClient'[j].run = current_run_id
                      \/ \E j \in 1..Len(toClient') : i < j /\ toClient'[j].type = "snapshot"
    BY <2>1 DEF FreshInv
  <2>5. i + 1 \in 1..Len(toClient) /\ toClient[i + 1] = toClient'[i]
    BY <1>2, <2>2
  <2>6. CASE currentRunId = current_run_id
    BY <1>13, <2>3, <2>6, RunLearned
  <2>7. ASSUME NEW j \in 1..Len(toClient), j < i + 1, toClient[j] \in Replies,
               toClient[j].run = current_run_id
        PROVE  \/ currentRunId' = current_run_id
               \/ \E k \in 1..Len(toClient') : k < i /\ toClient'[k] \in Replies
                    /\ toClient'[k].run = current_run_id
    <3>1. CASE j = 1
      BY <1>13, <2>2, <2>3, <2>7, <3>1, RunLearned
    <3>2. CASE j \in 2..Len(toClient)
      BY <2>4, <2>7, <3>2
    <3>3. QED
      BY <2>7, <3>1, <3>2
  <2>8. ASSUME NEW j \in 1..Len(toClient), i + 1 < j, toClient[j].type = "snapshot"
        PROVE  \E k \in 1..Len(toClient') : i < k /\ toClient'[k].type = "snapshot"
    <3>1. j \in 2..Len(toClient) /\ i < j - 1
      BY <2>8
    <3>2. QED
      BY <2>4, <2>8, <3>1
  <2>9. QED
    BY <1>1, <2>3, <2>5, <2>6, <2>7, <2>8 DEF FreshInv
<1>14. CASE Serve
  <2>1. UNCHANGED <<connected, conn, timeouts, currentRunId, current_run_id>>
    BY <1>1, <1>14, ServeEffect DEF clientVars, storeVars, bounds
  <2>2. connected /\ InTime
    BY <2>1 DEF InTime
  <2>3. CASE (StateAsked => StateAsked') /\ UNCHANGED toClient
    BY <1>6, <2>1, <2>2, <2>3
  <2>4. CASE /\ Served.id \in Nat /\ Snapshot(Served.id) \in ClientMessages
             /\ toClient' = Append(toClient, Snapshot(Served.id))
    <3>1. /\ Len(toClient') = Len(toClient) + 1
          /\ toClient'[Len(toClient) + 1] = Snapshot(Served.id)
      BY <1>1, <2>4, ClientQueue
    <3>2. Snapshot(Served.id).type = "snapshot" /\ Snapshot(Served.id) \notin Filtered
      BY DEF Snapshot, Filtered
    <3>3. \A i \in 1..Len(toClient') : toClient'[i] \in Filtered => i < Len(toClient')
      BY <1>2, <3>1, <3>2
    <3>4. Len(toClient') \in 1..Len(toClient') /\ toClient'[Len(toClient')].type = "snapshot"
      BY <1>2, <3>1, <3>2
    <3>5. QED
      BY <3>3, <3>4 DEF FreshInv
  <2>5. QED
    BY <1>1, <1>14, <2>2, <2>3, <2>4, AskedThroughServe
<1>15. CASE Starting
  <2>1. /\ UNCHANGED <<connected, timeouts, toServer, conn, toClient, currentRunId>>
        /\ current_run_id' \in {current_run_id, current_run_id + 1}
    BY <1>1, <1>15, StartingEffect DEF clientVars, storeVars, bounds
  <2>2. CASE current_run_id' = current_run_id
    BY <1>6, <2>1, <2>2 DEF InTime, StateAsked
  <2>3. CASE current_run_id' = current_run_id + 1
    <3>1. \A i \in 1..Len(toClient) : toClient[i].run # current_run_id + 1
      BY <1>1, <1>2, <1>3 DEF RunOrderInv
    <3>2. QED
      BY <2>1, <2>3, <3>1 DEF FreshInv
  <2>4. QED
    BY <2>1, <2>2, <2>3
<1>16. CASE Reply
  <2>1. /\ Transmit(Started, caller.conn)
        /\ UNCHANGED <<connected, timeouts, conn, toServer, currentRunId, current_run_id>>
    BY <1>16 DEF Reply, clientVars, storeVars, bounds, backend, vars, snapVars
  <2>2. Started \in ClientMessages /\ Started \notin Filtered
    BY <1>1, MessageTypes, EventsAreMessages DEF Started, Filtered
  <2>3. connected /\ InTime /\ (StateAsked => StateAsked')
    BY <2>1 DEF InTime, StateAsked
  <2>4. QED
    BY <1>1, <1>6, <1>7, <2>1, <2>2, <2>3, TransmitEffect
<1>17. CASE Flush
  <2>1. /\ deferred # <<>> /\ Transmit(Head(deferred), conn) /\ AtRest
        /\ UNCHANGED <<conn, currentRunId, current_run_id, connected, timeouts, toServer>>
    BY <1>17 DEF Flush, clientVars, storeVars, bounds, backend, vars, snapVars
  <2>2. Head(deferred) \in ClientMessages
    BY <1>1, <2>1, Taken, EventsAreMessages DEF WireTypeOK
  <2>3. connected /\ InTime /\ (StateAsked => StateAsked')
    BY <2>1 DEF InTime, StateAsked
  <2>4. \/ StateAsked
        \/ currentRunId = current_run_id
        \/ \E j \in 1..Len(toClient) :
             toClient[j] \in Replies /\ toClient[j].run = current_run_id
    BY <1>1, <2>1, <2>3 DEF NamedInv
  <2>5. QED
    BY <1>1, <1>6, <1>7, <2>1, <2>2, <2>3, <2>4, TransmitEffect
<1>18. CASE WorkerSync
  <2>1. UNCHANGED <<toClient, conn, currentRunId, current_run_id, connected, timeouts, toServer>>
    BY <1>1, <1>18, WorkerEffect DEF clientVars, storeVars, bounds
  <2>2. QED
    BY <1>6, <2>1 DEF InTime, StateAsked
<1>19. CASE UNCHANGED syncVars
  BY <1>6, <1>19 DEF syncVars, wireVars, storeVars, bounds, backend, vars, snapVars, InTime,
     StateAsked
<1>20. QED
  BY <1>9, <1>10, <1>11, <1>12, <1>13, <1>14, <1>15, <1>16, <1>17, <1>18, <1>19, Steps

LEMMA VisitedStep == SyncInv /\ [NextSync]_syncVars => VisitedInv'
<1> SUFFICES ASSUME SyncInv, [NextSync]_syncVars PROVE VisitedInv'
  OBVIOUS
<1>1. IInv /\ WireTypeOK /\ LoopBusyInv /\ RunOrderInv /\ VisitedInv
  BY DEF SyncInv
<1>2. /\ Len(toClient) \in Nat /\ Len(deferred) \in Nat /\ current_run_id \in Nat
      /\ node_statuses \in [Nodes -> Statuses]
  BY <1>1, LenProperties DEF WireTypeOK, IInv, TypeOK
<1>3. /\ \A i \in 1..Len(toClient) : toClient[i] \in ClientMessages /\ toClient[i].run \in Nat
      /\ \A i \in 1..Len(deferred) : deferred[i] \in ClientMessages /\ deferred[i].run \in Nat
  BY <1>1, ElementOfSeq, Kinds, EventsAreMessages DEF WireTypeOK
<1>4. /\ \A i \in 1..Len(toClient) : toClient[i] \in Filtered => toClient[i].node \in Nodes
      /\ \A i \in 1..Len(deferred) : deferred[i] \in Filtered => deferred[i].node \in Nodes
  BY <1>3, Kinds DEF Filtered
<1>5. UNCHANGED serverVars => UNCHANGED <<deferred, current_run_id, node_statuses>>
  BY DEF serverVars, backend, vars, snapVars
<1>6. ASSUME UNCHANGED <<toClient, deferred, current_run_id, node_statuses>>
      PROVE  VisitedInv'
  BY <1>1, <1>6 DEF VisitedInv
<1>7. ASSUME NEW m \in ClientMessages, toClient' = Append(toClient, m),
             UNCHANGED <<deferred, current_run_id, node_statuses>>,
             m \notin Filtered,
             m.type = "snapshot" => m.statuses = node_statuses
      PROVE  VisitedInv'
  <2>1. /\ Len(toClient') = Len(toClient) + 1
        /\ \A i \in 1..Len(toClient) : toClient'[i] = toClient[i]
        /\ toClient'[Len(toClient) + 1] = m
    BY <1>1, <1>7, ClientQueue
  <2>2. QED
    BY <1>1, <1>2, <1>7, <2>1 DEF VisitedInv
<1>8. CASE \/ \E bps \in SUBSET Nodes : Run(bps)
           \/ Stop \/ Resume \/ Reconnect
           \/ \E p \in pending : Timeout(p)
  <2>1. UNCHANGED <<toClient, deferred, current_run_id, node_statuses>>
    BY <1>1, <1>5, <1>8, RunEffect, NotifyEffect, ReconnectEffect, TimeoutEffect
  <2>2. QED
    BY <1>6, <2>1
<1>9. CASE Disconnect
  <2>1. toClient' = <<>> /\ UNCHANGED <<deferred, current_run_id, node_statuses>>
    BY <1>1, <1>5, <1>9, DisconnectEffect
  <2>2. Len(toClient') = 0
    BY <2>1, EmptySeq
  <2>3. QED
    BY <1>1, <2>1, <2>2 DEF VisitedInv
<1>10. CASE ReceiveMessage
  <2>1. /\ toClient # <<>> /\ toClient' = Tail(toClient)
        /\ UNCHANGED <<deferred, current_run_id, node_statuses>>
    BY <1>1, <1>5, <1>10, ReceiveEffect
  <2>2. /\ Len(toClient') = Len(toClient) - 1
        /\ \A i \in 1..Len(toClient') : toClient'[i] = toClient[i + 1]
    BY <1>1, <2>1, ClientQueueTaken
  <2>3. QED
    BY <1>1, <1>2, <2>1, <2>2 DEF VisitedInv
<1>11. CASE Serve
  <2>1. /\ Served \in ServerMessages
        /\ UNCHANGED <<deferred, current_run_id, node_statuses>>
        /\ toClient' = toClient \/ Transmit(Snapshot(Served.id), Served.conn)
    BY <1>1, <1>11, ServeEffect
  <2>2. /\ Snapshot(Served.id) \in ClientMessages
        /\ Snapshot(Served.id).statuses = node_statuses
        /\ Snapshot(Served.id) \notin Filtered
    BY <1>1, <2>1, MessageTypes, EventsAreMessages DEF ServerMessages, Snapshot, Filtered
  <2>3. QED
    BY <1>1, <1>6, <1>7, <2>1, <2>2, TransmitEffect
<1>12. CASE Starting
  <2>1. /\ UNCHANGED <<toClient, deferred>>
        /\ \/ UNCHANGED <<current_run_id, node_statuses>>
           \/ current_run_id' = current_run_id + 1
    BY <1>1, <1>12, StartingEffect
  <2>2. /\ \A i \in 1..Len(toClient) : toClient[i].run # current_run_id + 1
        /\ \A i \in 1..Len(deferred) : deferred[i].run # current_run_id + 1
    BY <1>1, <1>2, <1>3 DEF RunOrderInv
  <2>3. QED
    BY <1>6, <2>1, <2>2 DEF VisitedInv
<1>13. CASE Reply
  <2>1. /\ UNCHANGED <<deferred, current_run_id, node_statuses>>
        /\ Transmit(Started, caller.conn)
    BY <1>13 DEF Reply, backend, vars, snapVars
  <2>2. Started \in ClientMessages /\ Started \notin Filtered /\ Started.type # "snapshot"
    BY <1>1, MessageTypes, EventsAreMessages DEF Started, Filtered
  <2>3. QED
    BY <1>1, <1>6, <1>7, <2>1, <2>2, TransmitEffect
<1>14. CASE Flush
  <2>1. /\ deferred # <<>> /\ deferred' = Tail(deferred)
        /\ Transmit(Head(deferred), conn)
        /\ UNCHANGED <<current_run_id, node_statuses>>
    BY <1>14 DEF Flush, backend, vars, snapVars
  <2>2. /\ Head(deferred) = deferred[1] /\ 1 \in 1..Len(deferred)
        /\ Head(deferred) \in ClientMessages
        /\ Len(deferred') = Len(deferred) - 1
        /\ \A i \in 1..Len(deferred') : deferred'[i] = deferred[i + 1]
    BY <1>1, <1>3, <2>1, Taken DEF WireTypeOK
  <2>3. \A i \in 1..Len(deferred') :
          deferred'[i] \in Filtered /\ deferred'[i].run = current_run_id =>
          node_statuses[deferred'[i].node] # "none"
    BY <1>1, <1>2, <2>2 DEF VisitedInv
  <2>4. Head(deferred).type # "snapshot"
    BY <1>1, <2>1, Taken DEF WireTypeOK, Events
  <2>5. CASE toClient' = toClient
    BY <1>1, <2>1, <2>3, <2>5 DEF VisitedInv
  <2>6. CASE toClient' = Append(toClient, Head(deferred))
    <3>1. /\ Len(toClient') = Len(toClient) + 1
          /\ \A i \in 1..Len(toClient) : toClient'[i] = toClient[i]
          /\ toClient'[Len(toClient) + 1] = Head(deferred)
      BY <1>1, <2>2, <2>6, ClientQueue
    <3>2. Head(deferred) \in Filtered /\ Head(deferred).run = current_run_id =>
            node_statuses[Head(deferred).node] # "none"
      BY <1>1, <2>2 DEF VisitedInv
    <3>3. ASSUME NEW i \in 1..Len(toClient'), toClient'[i] \in Filtered,
                 toClient'[i].run = current_run_id
          PROVE  /\ node_statuses[toClient'[i].node] # "none"
                 /\ \A j \in 1..Len(toClient') : i < j /\ toClient'[j].type = "snapshot" =>
                      toClient'[j].statuses[toClient'[i].node] # "none"
      <4>1. CASE i \in 1..Len(toClient)
        <5>1. toClient'[i] = toClient[i]
          BY <3>1, <4>1
        <5>2. /\ node_statuses[toClient[i].node] # "none"
              /\ \A j \in 1..Len(toClient) : i < j /\ toClient[j].type = "snapshot" =>
                   toClient[j].statuses[toClient[i].node] # "none"
          BY <1>1, <3>3, <4>1, <5>1 DEF VisitedInv
        <5>3. \A j \in 1..Len(toClient') : toClient'[j].type = "snapshot" =>
                j \in 1..Len(toClient) /\ toClient'[j] = toClient[j]
          BY <1>2, <2>4, <3>1
        <5>4. QED
          BY <5>1, <5>2, <5>3
      <4>2. CASE i = Len(toClient) + 1
        BY <1>2, <3>1, <3>2, <3>3, <4>2
      <4>3. QED
        BY <1>2, <3>1, <3>3, <4>1, <4>2
    <3>4. QED
      BY <2>1, <2>3, <3>3 DEF VisitedInv
  <2>7. QED
    BY <1>1, <2>1, <2>2, <2>5, <2>6, TransmitEffect
<1>15. CASE WorkerSync
  <2>1. UNCHANGED <<toClient, current_run_id>>
    BY <1>1, <1>15, WorkerEffect
  <2>2. /\ \A n \in Nodes : node_statuses[n] # "none" => node_statuses'[n] # "none"
        /\ \/ deferred' = deferred
           \/ \E e \in Events :
                /\ deferred' = Append(deferred, e)
                /\ e \in Filtered => node_statuses'[e.node] # "none"
    <3>1. /\ \A n \in Nodes, s \in Statuses : Status(n, s).node = n
          /\ \A n \in Nodes : Paused(n).node = n
          /\ \A bad \in SUBSET Nodes : Invalid(bad) \notin Filtered
          /\ Completed \notin Filtered
      BY DEF Status, Paused, Invalid, Completed, Filtered
    <3>2. CASE UNCHANGED <<deferred, node_statuses>>
      BY <3>2
    <3>3. ASSUME NEW bad \in SUBSET Nodes, deferred' = Append(deferred, Invalid(bad)),
                 UNCHANGED node_statuses
          PROVE  <2>2!1 /\ <2>2!2
      BY <1>1, <3>1, <3>3, MessageTypes
    <3>4. ASSUME NEW s \in Statuses \ {"none"}, node \in Nodes,
                 deferred' = Append(deferred, Status(node, s)),
                 node_statuses' = [node_statuses EXCEPT ![node] = s]
          PROVE  <2>2!1 /\ <2>2!2
      <4>1. Status(node, s) \in Events /\ Status(node, s).node = node
        BY <1>1, <3>1, <3>4, MessageTypes
      <4>2. node_statuses'[node] # "none" /\ <2>2!1
        BY <1>2, <3>4
      <4>3. QED
        BY <3>4, <4>1, <4>2
    <3>5. ASSUME node \in Nodes, deferred' = Append(deferred, Paused(node)),
                 node_statuses' = [node_statuses EXCEPT ![node] = "paused"]
          PROVE  <2>2!1 /\ <2>2!2
      <4>1. Paused(node) \in Events /\ Paused(node).node = node
        BY <1>1, <3>1, <3>5, MessageTypes
      <4>2. node_statuses'[node] # "none" /\ <2>2!1
        BY <1>2, <3>5
      <4>3. QED
        BY <3>5, <4>1, <4>2
    <3>6. ASSUME deferred' = Append(deferred, Completed), UNCHANGED node_statuses
          PROVE  <2>2!1 /\ <2>2!2
      BY <1>1, <3>1, <3>6, MessageTypes
    <3>7. QED
      BY <1>1, <1>15, <3>2, <3>3, <3>4, <3>5, <3>6, WorkerEffect
  <2>3. \A i \in 1..Len(deferred') :
          deferred'[i] \in Filtered /\ deferred'[i].run = current_run_id =>
          node_statuses'[deferred'[i].node] # "none"
    <3>1. CASE deferred' = deferred
      BY <1>1, <1>4, <2>2, <3>1 DEF VisitedInv
    <3>2. ASSUME NEW e \in Events, deferred' = Append(deferred, e),
                 e \in Filtered => node_statuses'[e.node] # "none"
          PROVE  <2>3!:
      <4>1. /\ Len(deferred') = Len(deferred) + 1
            /\ \A i \in 1..Len(deferred) : deferred'[i] = deferred[i]
            /\ deferred'[Len(deferred) + 1] = e
        BY <1>1, <3>2, Appended DEF WireTypeOK
      <4>2. QED
        BY <1>1, <1>2, <1>4, <2>2, <3>2, <4>1 DEF VisitedInv
    <3>3. QED
      BY <2>2, <3>1, <3>2
  <2>4. \A i \in 1..Len(toClient) : toClient[i] \in Filtered /\ toClient[i].run = current_run_id =>
          node_statuses'[toClient[i].node] # "none"
    BY <1>1, <1>4, <2>2 DEF VisitedInv
  <2>5. QED
    BY <1>1, <2>1, <2>3, <2>4 DEF VisitedInv
<1>16. CASE UNCHANGED syncVars
  BY <1>6, <1>16 DEF syncVars, wireVars, backend, vars, snapVars
<1>17. QED
  BY <1>8, <1>9, <1>10, <1>11, <1>12, <1>13, <1>14, <1>15, <1>16, Steps

(* What a receipt makes of a node on the canvas. *)
LEMMA ShownEffect ==
  ASSUME WireTypeOK, ReceiveMessage, NEW n \in Nodes
  PROVE  /\ Head1 \notin Speaks(n) => shown'[n] = shown[n]
         /\ Head1 \in Filtered /\ Head1.node = n /\ isFreshEvent(Head1) =>
              shown'[n] = IF Head1.type = "status" THEN Head1.status ELSE "paused"
         /\ Head1.type = "snapshot" /\ Head1.statuses[n] # "none"
              /\ Waits(Head1.id, "state") => shown'[n] = Head1.statuses[n]
<1>1. Head1 \in ClientMessages /\ shown \in [Nodes -> Statuses]
  BY ReceiveEffect DEF WireTypeOK
<1>2. CASE OnStatus(Head1)
  BY <1>1, <1>2, Kinds DEF OnStatus, Speaks, Filtered
<1>3. CASE OnPaused(Head1)
  BY <1>1, <1>3, Kinds DEF OnPaused, Speaks, Filtered
<1>4. CASE OnInvalid(Head1)
  BY <1>1, <1>4 DEF OnInvalid, Speaks, Filtered
<1>5. CASE OnComplete(Head1) \/ OnStarted(Head1)
  BY <1>1, <1>5 DEF OnComplete, OnStarted, Speaks, Filtered
<1>6. CASE OnSnapshot(Head1)
  BY <1>1, <1>6, Kinds DEF OnSnapshot, Speaks, Filtered
<1>7. QED
  BY <1>2, <1>3, <1>4, <1>5, <1>6 DEF ReceiveMessage, Head1

(* An event of the present run is let through, or told again. *)
LEMMA LetThrough ==
  ASSUME SyncInv, ReceiveMessage, connected, InTime,
         Head1 \in Filtered, Head1.run = current_run_id
  PROVE  \/ isFreshEvent(Head1)
         \/ StateAsked
         \/ \E j \in 1..Len(toClient') :
              /\ toClient'[j] \in ClientMessages
              /\ toClient'[j].type = "snapshot"
              /\ toClient'[j].statuses[Head1.node] # "none"
<1>1. IInv /\ WireTypeOK /\ FreshInv /\ VisitedInv
  BY DEF SyncInv
<1>2. toClient # <<>> /\ toClient' = Tail(toClient)
  BY <1>1, ReceiveEffect
<1>3. /\ Len(toClient) \in Nat /\ Len(toClient) >= 1
      /\ Len(toClient') = Len(toClient) - 1
      /\ \A i \in 1..Len(toClient') : toClient'[i] = toClient[i + 1]
      /\ Head1 = toClient[1]
  BY <1>1, <1>2, ClientQueueTaken
<1>4. \A i \in 1..Len(toClient) : toClient[i] \in ClientMessages
  BY <1>1, ElementOfSeq DEF WireTypeOK
<1>5. \/ StateAsked
      \/ currentRunId = current_run_id
      \/ \E j \in 1..Len(toClient) : j < 1
      \/ \E j \in 1..Len(toClient) : 1 < j /\ toClient[j].type = "snapshot"
  BY <1>1, <1>3 DEF FreshInv
<1>6. ASSUME NEW j \in 1..Len(toClient), 1 < j, toClient[j].type = "snapshot"
      PROVE  \E k \in 1..Len(toClient') :
               /\ toClient'[k] \in ClientMessages
               /\ toClient'[k].type = "snapshot"
               /\ toClient'[k].statuses[Head1.node] # "none"
  <2>1. toClient[j].statuses[Head1.node] # "none"
    BY <1>1, <1>3, <1>6 DEF VisitedInv
  <2>2. j - 1 \in 1..Len(toClient') /\ toClient'[j - 1] = toClient[j]
    BY <1>3, <1>6
  <2>3. QED
    BY <1>4, <1>6, <2>1, <2>2
<1>7. QED
  BY <1>5, <1>6 DEF isFreshEvent

LEMMA CanvasStep == SyncInv /\ [NextSync]_syncVars => CanvasInv'
<1> SUFFICES ASSUME SyncInv, [NextSync]_syncVars, NEW n \in Nodes,
                    node_statuses'[n] # "none"
             PROVE  CanvasOf(n)'
  BY DEF CanvasInv
<1>1. IInv /\ WireTypeOK /\ LoopBusyInv /\ WaitInv /\ CanvasInv
  BY DEF SyncInv
<1>2. /\ node_statuses \in [Nodes -> Statuses]
      /\ deferred \in Seq(Events) /\ toClient \in Seq(ClientMessages)
      /\ deferred \in Seq(ClientMessages)
  BY <1>1, EventsAreMessages, SeqMonotonic DEF WireTypeOK, IInv, TypeOK
<1>3. node_statuses'[n] = node_statuses[n] => CanvasOf(n)
  BY <1>1 DEF CanvasInv
<1>4. current_run_id' = current_run_id /\ node_statuses'[n] = node_statuses[n] =>
        Tells(n)' = Tells(n)
  BY DEF Tells, Speaks
<1>5. UNCHANGED serverVars => UNCHANGED <<deferred, current_run_id, node_statuses>>
  BY DEF serverVars, backend, vars, snapVars
<1>6. ASSUME UNCHANGED <<deferred, current_run_id, node_statuses>>,
             ~connected' \/ ~InTime' \/ StateAsked'
      PROVE  CanvasOf(n)'
  <2>1. CanvasOf(n) /\ Tells(n)' = Tells(n)
    BY <1>3, <1>4, <1>6
  <2>2. QED
    BY <1>6, <2>1 DEF CanvasOf, Speaks
<1>7. ASSUME UNCHANGED <<deferred, toClient, shown, current_run_id, node_statuses>>,
             connected' => connected, InTime' => InTime,
             connected /\ StateAsked => StateAsked'
      PROVE  CanvasOf(n)'
  <2>1. CanvasOf(n) /\ Tells(n)' = Tells(n)
    BY <1>3, <1>4, <1>7
  <2>2. QED
    BY <1>7, <2>1 DEF CanvasOf, Speaks
<1>8. ASSUME NEW m \in ClientMessages, toClient' = Append(toClient, m),
             UNCHANGED <<deferred, shown, current_run_id, node_statuses>>,
             connected, InTime,
             m \in Tells(n) \/ (m \notin Speaks(n) /\ (StateAsked => StateAsked'))
      PROVE  CanvasOf(n)'
  <2>1. CanvasOf(n) /\ Tells(n)' = Tells(n)
    BY <1>3, <1>4, <1>8
  <2>2. None(toClient', Speaks(n)) <=> None(toClient, Speaks(n)) /\ m \notin Speaks(n)
    BY <1>2, <1>8, NoneAppended
  <2>3. m \in Tells(n) => m \in Speaks(n)
    BY DEF Tells
  <2>4. m \in Tells(n) \/ LastIs(toClient, Speaks(n), Tells(n)) =>
          LastIs(toClient', Speaks(n), Tells(n))
    BY <1>2, <1>8, <2>3, LastAppended
  <2>5. QED
    BY <1>8, <2>1, <2>2, <2>3, <2>4 DEF CanvasOf, Speaks
<1>9. ASSUME NEW e \in Events, deferred' = Append(deferred, e),
             UNCHANGED <<toClient, shown, current_run_id, connected, timeouts, toServer, conn>>,
             \/ e \in Speaks(n) /\ e \in Tells(n)'
             \/ e \notin Speaks(n) /\ node_statuses'[n] = node_statuses[n]
      PROVE  CanvasOf(n)'
  <2>1. e \in ClientMessages
    BY EventsAreMessages
  <2>2. None(deferred', Speaks(n)) <=> None(deferred, Speaks(n)) /\ e \notin Speaks(n)
    BY <1>2, <1>9, <2>1, NoneAppended
  <2>3. CASE e \in Speaks(n) /\ e \in Tells(n)'
    <3>1. LastIs(deferred', Speaks(n), Tells(n)')
      BY <1>2, <1>9, <2>1, <2>3, LastAppended
    <3>2. QED
      BY <2>2, <2>3, <3>1 DEF CanvasOf, Speaks
  <2>4. CASE e \notin Speaks(n) /\ node_statuses'[n] = node_statuses[n]
    <3>1. CanvasOf(n) /\ Tells(n)' = Tells(n)
      BY <1>3, <1>4, <1>9, <2>4
    <3>2. LastIs(deferred', Speaks(n), Tells(n))
      BY <1>2, <1>9, <2>1, <2>4, <3>1, LastAppended DEF CanvasOf
    <3>3. (InTime' <=> InTime) /\ (StateAsked' <=> StateAsked)
      BY <1>9 DEF InTime, StateAsked
    <3>4. QED
      BY <1>9, <2>2, <2>4, <3>1, <3>2, <3>3 DEF CanvasOf, Speaks
  <2>5. QED
    BY <1>9, <2>3, <2>4
<1>10. CASE (\E bps \in SUBSET Nodes : Run(bps)) \/ Stop \/ Resume
  <2>1. UNCHANGED <<toClient, deferred, shown, current_run_id, node_statuses, connected,
                    timeouts>>
    BY <1>1, <1>5, <1>10, RunEffect, NotifyEffect
  <2>2. QED
    BY <1>1, <1>7, <1>10, <2>1, AskedThroughPress DEF InTime
<1>11. CASE \E p \in pending : Timeout(p)
  BY <1>1, <1>5, <1>6, <1>11, TimeoutEffect
<1>12. CASE Disconnect
  BY <1>1, <1>5, <1>6, <1>12, DisconnectEffect
<1>13. CASE Reconnect
  BY <1>1, <1>5, <1>6, <1>13, ReconnectEffect, AskedAnew
<1>14. CASE ReceiveMessage
  <2>1. /\ toClient # <<>> /\ toClient' = Tail(toClient)
        /\ UNCHANGED <<connected, conn, timeouts, toServer, deferred, current_run_id,
                       node_statuses>>
        /\ Head1 \in ClientMessages
    BY <1>1, <1>5, <1>14, ReceiveEffect
  <2>2. (InTime' <=> InTime) /\ (StateAsked' <=> StateAsked)
    BY <2>1 DEF InTime, StateAsked
  <2>3. CanvasOf(n) /\ Tells(n)' = Tells(n)
    BY <1>3, <1>4, <2>1
  <2>4. ASSUME connected, InTime, None(deferred, Speaks(n)), ~StateAsked,
               None(toClient', Speaks(n))
        PROVE  shown'[n] = node_statuses[n]
    <3>1. /\ LastIs(toClient, Speaks(n), Tells(n))
          /\ None(toClient, Speaks(n)) => shown[n] = node_statuses[n]
      BY <2>3, <2>4 DEF CanvasOf
    <3>2. CASE Head1 \notin Speaks(n)
      <4>1. None(toClient, Speaks(n))
        BY <1>2, <2>1, <2>4, <3>1, <3>2, LastTaken DEF Head1
      <4>2. QED
        BY <1>1, <1>14, <3>1, <3>2, <4>1, ShownEffect
    <3>3. CASE Head1 \in Speaks(n)
      <4>1. Head1 \in Tells(n)
        BY <1>2, <2>1, <2>4, <3>1, <3>3, LastTaken DEF Head1
      <4>2. CASE Head1.type = "snapshot"
        <5>1. Waits(Head1.id, "state")
          BY <1>1, <2>1, <2>4, <4>2, ClientQueueTaken DEF WaitInv
        <5>2. Head1.statuses[n] # "none" /\ Head1.statuses[n] = node_statuses[n]
          BY <4>1, <4>2 DEF Tells, Speaks
        <5>3. QED
          BY <1>1, <1>14, <4>2, <5>1, <5>2, ShownEffect
      <4>3. CASE Head1.type # "snapshot"
        <5>1. /\ Head1 \in Filtered /\ Head1.node = n /\ Head1.run = current_run_id
              /\ node_statuses[n] = IF Head1.type = "status" THEN Head1.status ELSE "paused"
          BY <4>1, <4>3 DEF Tells, Speaks, Filtered
        <5>2. ~\E j \in 1..Len(toClient') :
                 /\ toClient'[j] \in ClientMessages
                 /\ toClient'[j].type = "snapshot"
                 /\ toClient'[j].statuses[n] # "none"
          BY <2>4 DEF None, Speaks
        <5>3. isFreshEvent(Head1)
          BY <1>14, <2>4, <5>1, <5>2, LetThrough
        <5>4. QED
          BY <1>1, <1>14, <5>1, <5>3, ShownEffect
      <4>4. QED
        BY <4>2, <4>3
    <3>4. QED
      BY <3>2, <3>3
  <2>5. LastIs(toClient, Speaks(n), Tells(n)) => LastIs(toClient', Speaks(n), Tells(n))
    BY <1>2, <2>1, LastTaken
  <2>6. QED
    BY <2>1, <2>2, <2>3, <2>4, <2>5 DEF CanvasOf, Speaks
<1>15. CASE Serve
  <2>1. UNCHANGED <<connected, timeouts, shown, deferred, current_run_id, node_statuses>>
    BY <1>1, <1>15, ServeEffect DEF clientVars, storeVars, bounds
  <2>2. CASE connected /\ InTime
    <3>1. CASE (StateAsked => StateAsked') /\ UNCHANGED toClient
      BY <1>7, <2>1, <2>2, <3>1
    <3>2. CASE /\ Snapshot(Served.id) \in ClientMessages
               /\ toClient' = Append(toClient, Snapshot(Served.id))
      <4>1. Snapshot(Served.id) \in Tells(n)
        BY <2>1, <3>2 DEF Tells, Speaks, Snapshot
      <4>2. QED
        BY <1>8, <2>1, <2>2, <3>2, <4>1
    <3>3. QED
      BY <1>1, <1>15, <2>2, <3>1, <3>2, AskedThroughServe
  <2>3. CASE ~(connected /\ InTime)
    BY <1>6, <2>1, <2>3 DEF InTime
  <2>4. QED
    BY <2>2, <2>3
<1>16. CASE Starting
  <2>1. UNCHANGED <<toClient, deferred, shown, connected, timeouts, toServer, conn>>
    BY <1>1, <1>16, StartingEffect DEF clientVars, storeVars, bounds
  <2>2. UNCHANGED <<current_run_id, node_statuses>>
    BY <1>1, <1>16, StartingEffect DEF NoStatus
  <2>3. QED
    BY <1>7, <2>1, <2>2 DEF InTime, StateAsked
<1>17. CASE Reply
  <2>1. /\ Transmit(Started, caller.conn)
        /\ UNCHANGED <<connected, timeouts, conn, toServer, shown, deferred, current_run_id,
                       node_statuses>>
    BY <1>17 DEF Reply, clientVars, storeVars, bounds, backend, vars, snapVars
  <2>2. Started \in ClientMessages /\ Started \notin Speaks(n)
    BY <1>1, MessageTypes, EventsAreMessages DEF Started, Speaks
  <2>3. (InTime' <=> InTime) /\ (StateAsked' <=> StateAsked)
    BY <2>1 DEF InTime, StateAsked
  <2>4. CASE toClient' = toClient
    BY <1>7, <2>1, <2>3, <2>4
  <2>5. CASE connected /\ toClient' = Append(toClient, Started)
    BY <1>6, <1>8, <2>1, <2>2, <2>3, <2>5
  <2>6. QED
    BY <1>1, <2>1, <2>2, <2>4, <2>5, TransmitEffect
<1>18. CASE Flush
  <2>1. /\ deferred # <<>> /\ deferred' = Tail(deferred) /\ Transmit(Head(deferred), conn)
        /\ UNCHANGED <<conn, shown, current_run_id, node_statuses, connected, timeouts,
                       toServer>>
    BY <1>18 DEF Flush, clientVars, storeVars, bounds, backend, vars, snapVars
  <2>2. Head(deferred) \in ClientMessages
    BY <1>2, <2>1, Taken
  <2>3. CanvasOf(n) /\ Tells(n)' = Tells(n)
    BY <1>3, <1>4, <2>1
  <2>4. /\ LastIs(deferred', Speaks(n), Tells(n))
        /\ None(deferred', Speaks(n)) =>
             \/ Head(deferred) \in Speaks(n) /\ Head(deferred) \in Tells(n)
             \/ Head(deferred) \notin Speaks(n) /\ None(deferred, Speaks(n))
    BY <1>2, <2>1, <2>3, LastTaken DEF CanvasOf
  <2>5. (InTime' <=> InTime) /\ (StateAsked' <=> StateAsked)
    BY <2>1 DEF InTime, StateAsked
  <2>6. ASSUME connected, InTime, None(deferred', Speaks(n)), ~StateAsked
        PROVE  /\ LastIs(toClient', Speaks(n), Tells(n))
               /\ None(toClient', Speaks(n)) => shown[n] = node_statuses[n]
    <3>1. toClient' = Append(toClient, Head(deferred))
      BY <1>1, <2>1, <2>2, <2>6, TransmitEffect
    <3>2. None(toClient', Speaks(n)) <=>
            None(toClient, Speaks(n)) /\ Head(deferred) \notin Speaks(n)
      BY <1>2, <2>2, <3>1, NoneAppended
    <3>3. CASE Head(deferred) \in Speaks(n) /\ Head(deferred) \in Tells(n)
      BY <1>2, <2>2, <3>1, <3>2, <3>3, LastAppended
    <3>4. CASE Head(deferred) \notin Speaks(n) /\ None(deferred, Speaks(n))
      <4>1. /\ LastIs(toClient, Speaks(n), Tells(n))
            /\ None(toClient, Speaks(n)) => shown[n] = node_statuses[n]
        BY <2>3, <2>6, <3>4 DEF CanvasOf
      <4>2. LastIs(toClient', Speaks(n), Tells(n))
        BY <1>2, <2>2, <3>1, <3>4, <4>1, LastAppended
      <4>3. QED
        BY <3>2, <4>1, <4>2
    <3>5. QED
      BY <2>4, <2>6, <3>3, <3>4
  <2>7. QED
    BY <2>1, <2>3, <2>4, <2>5, <2>6 DEF CanvasOf, Speaks
<1>19. CASE WorkerSync
  <2>1. UNCHANGED <<toClient, shown, current_run_id, connected, timeouts, toServer, conn>>
    BY <1>1, <1>19, WorkerEffect DEF clientVars, storeVars, bounds
  <2>2. CASE UNCHANGED <<deferred, node_statuses>>
    BY <1>7, <2>1, <2>2 DEF InTime, StateAsked
  <2>3. CASE node_statuses = NoStatus /\ UNCHANGED node_statuses
    BY <2>3 DEF NoStatus
  <2>4. ASSUME NEW s \in Statuses \ {"none"}, node \in Nodes,
               deferred' = Append(deferred, Status(node, s)),
               node_statuses' = [node_statuses EXCEPT ![node] = s]
        PROVE  CanvasOf(n)'
    <3>1. Status(node, s) \in Events /\ Status(node, s) \in ClientMessages
      BY <1>1, <2>4, MessageTypes, EventsAreMessages
    <3>2. CASE n = node
      <4>1. Status(node, s) \in Speaks(n)
        BY <3>1, <3>2 DEF Speaks, Status
      <4>2. Status(node, s) \in Tells(n)'
        BY <1>2, <2>1, <2>4, <3>2, <4>1 DEF Tells, Status, Speaks
      <4>3. QED
        BY <1>9, <2>1, <2>4, <3>1, <4>1, <4>2
    <3>3. CASE n # node
      <4>1. Status(node, s) \notin Speaks(n) /\ node_statuses'[n] = node_statuses[n]
        BY <1>2, <2>4, <3>3 DEF Speaks, Status
      <4>2. QED
        BY <1>9, <2>1, <2>4, <3>1, <4>1
    <3>4. QED
      BY <3>2, <3>3
  <2>5. ASSUME node \in Nodes, deferred' = Append(deferred, Paused(node)),
               node_statuses' = [node_statuses EXCEPT ![node] = "paused"]
        PROVE  CanvasOf(n)'
    <3>1. Paused(node) \in Events /\ Paused(node) \in ClientMessages
      BY <1>1, <2>5, MessageTypes, EventsAreMessages
    <3>2. CASE n = node
      <4>1. Paused(node) \in Speaks(n)
        BY <3>1, <3>2 DEF Speaks, Paused
      <4>2. Paused(node) \in Tells(n)'
        BY <1>2, <2>1, <2>5, <3>2, <4>1 DEF Tells, Paused, Speaks
      <4>3. QED
        BY <1>9, <2>1, <2>5, <3>1, <4>1, <4>2
    <3>3. CASE n # node
      <4>1. Paused(node) \notin Speaks(n) /\ node_statuses'[n] = node_statuses[n]
        BY <1>2, <2>5, <3>3 DEF Speaks, Paused
      <4>2. QED
        BY <1>9, <2>1, <2>5, <3>1, <4>1
    <3>4. QED
      BY <3>2, <3>3
  <2>6. CASE deferred' = Append(deferred, Completed) /\ UNCHANGED node_statuses
    <3>1. Completed \in Events /\ Completed \notin Speaks(n)
      BY <1>1, MessageTypes DEF Completed, Speaks
    <3>2. QED
      BY <1>9, <2>1, <2>6, <3>1
  <2>7. QED
    BY <1>1, <1>19, <2>2, <2>3, <2>4, <2>5, <2>6, WorkerEffect
<1>20. CASE UNCHANGED syncVars
  BY <1>7, <1>20 DEF syncVars, wireVars, storeVars, bounds, backend, vars, snapVars, InTime,
     StateAsked
<1>21. QED
  BY <1>10, <1>11, <1>12, <1>13, <1>14, <1>15, <1>16, <1>17, <1>18, <1>19, <1>20, Steps

(* What a receipt makes of the pause on display. *)
LEMMA PauseEffect ==
  ASSUME WireTypeOK, ReceiveMessage
  PROVE  /\ Head1 \notin SpeaksOfPause => UNCHANGED pausedAtNodeId
         /\ Head1.type = "paused" /\ isFreshEvent(Head1) => pausedAtNodeId' = Head1.node
         /\ Head1.type = "snapshot" /\ Waits(Head1.id, "state") =>
              pausedAtNodeId' = Head1.paused_at
<1>1. Head1 \in ClientMessages
  BY ReceiveEffect
<1>2. CASE OnStatus(Head1) \/ OnInvalid(Head1) \/ OnComplete(Head1) \/ OnStarted(Head1)
  BY <1>2 DEF OnStatus, OnInvalid, OnComplete, OnStarted
<1>3. CASE OnPaused(Head1)
  BY <1>1, <1>3 DEF OnPaused, SpeaksOfPause
<1>4. CASE OnSnapshot(Head1)
  BY <1>1, <1>4 DEF OnSnapshot, SpeaksOfPause
<1>5. QED
  BY <1>2, <1>3, <1>4 DEF ReceiveMessage, Head1

(* A resume on its way is on its way until it is served. *)
LEMMA ResumeAppended ==
  ASSUME WireTypeOK, NEW m \in ServerMessages, toServer' = Append(toServer, m),
         ResumeAsked \/ m.type \in {"continue", "step"}
  PROVE  ResumeAsked'
<1>1. /\ Len(toServer) \in Nat /\ Len(toServer') = Len(toServer) + 1
      /\ \A i \in 1..Len(toServer) : toServer'[i] = toServer[i]
      /\ toServer'[Len(toServer) + 1] = m
  BY ServerQueue
<1>2. CASE ResumeAsked
  BY <1>1, <1>2 DEF ResumeAsked
<1>3. CASE m.type \in {"continue", "step"}
  <2>1. Len(toServer) + 1 \in 1..Len(toServer')
    BY <1>1
  <2>2. QED
    BY <1>1, <1>3, <2>1 DEF ResumeAsked
<1>4. QED
  BY <1>2, <1>3

LEMMA ResumeTaken ==
  ASSUME WireTypeOK, toServer # <<>>, toServer' = Tail(toServer), ResumeAsked,
         Served.type \notin {"continue", "step"}
  PROVE  ResumeAsked'
<1>1. /\ Len(toServer) \in Nat /\ Len(toServer') = Len(toServer) - 1
      /\ \A i \in 1..Len(toServer') : toServer'[i] = toServer[i + 1]
      /\ Served = toServer[1]
  BY ServerQueueTaken
<1>2. PICK i \in 1..Len(toServer) : toServer[i].type \in {"continue", "step"}
  BY DEF ResumeAsked
<1>3. i - 1 \in 1..Len(toServer') /\ toServer'[i - 1] = toServer[i]
  BY <1>1, <1>2
<1>4. QED
  BY <1>2, <1>3 DEF ResumeAsked

LEMMA PauseShownStep == SyncInv /\ [NextSync]_syncVars => PauseShownInv'
<1> SUFFICES ASSUME SyncInv, [NextSync]_syncVars, Held' PROVE PauseTold'
  BY DEF PauseShownInv
<1> DEFINE S == SpeaksOfPause
           T == TellsPause
<1>1. IInv /\ WireTypeOK /\ LoopBusyInv /\ WaitInv /\ PauseShownInv
  BY DEF SyncInv
<1>2. /\ deferred \in Seq(Events) /\ toClient \in Seq(ClientMessages)
      /\ deferred \in Seq(ClientMessages)
  BY <1>1, EventsAreMessages, SeqMonotonic DEF WireTypeOK
<1>3. Held => PauseTold
  BY <1>1 DEF PauseShownInv
<1>4. S' = S /\ (UNCHANGED <<current_run_id, paused_at>> => T' = T)
  BY DEF TellsPause, SpeaksOfPause
<1>5. UNCHANGED serverVars =>
        UNCHANGED <<deferred, current_run_id, paused_at>> /\ (Held' => Held)
  BY DEF serverVars, backend, vars, snapVars, debugVars, workerVars, Held, Released
<1> HIDE DEF S, T
<1>6. ASSUME Held, UNCHANGED <<deferred, current_run_id, paused_at>>,
             ~connected' \/ ~InTime' \/ StateAsked' \/ ResumeAsked'
      PROVE  PauseTold'
  <2>1. LastIs(deferred, S, T) /\ S' = S /\ T' = T
    BY <1>3, <1>4, <1>6 DEF PauseTold, S, T
  <2>2. QED
    BY <1>6, <2>1 DEF PauseTold, S, T
<1>7. ASSUME Held, UNCHANGED <<deferred, toClient, pausedAtNodeId, current_run_id, paused_at>>,
             connected' => connected, InTime' => InTime,
             connected /\ StateAsked => StateAsked', ResumeAsked => ResumeAsked'
      PROVE  PauseTold'
  <2>1. PauseTold /\ S' = S /\ T' = T
    BY <1>3, <1>4, <1>7
  <2>2. QED
    BY <1>7, <2>1 DEF PauseTold, S, T
<1>8. ASSUME Held, NEW m \in ClientMessages, toClient' = Append(toClient, m),
             UNCHANGED <<deferred, pausedAtNodeId, current_run_id, paused_at>>,
             connected, InTime,
             \/ m \in S /\ m \in T
             \/ m \notin S /\ (StateAsked => StateAsked') /\ (ResumeAsked => ResumeAsked')
      PROVE  PauseTold'
  <2>1. PauseTold /\ S' = S /\ T' = T
    BY <1>3, <1>4, <1>8
  <2>2. None(toClient', S) <=> None(toClient, S) /\ m \notin S
    BY <1>2, <1>8, NoneAppended
  <2>3. (m \in S /\ m \in T) \/ (m \notin S /\ LastIs(toClient, S, T)) => LastIs(toClient', S, T)
    BY <1>2, <1>8, LastAppended
  <2>4. QED
    BY <1>8, <2>1, <2>2, <2>3 DEF PauseTold, S, T
<1>9. CASE \E bps \in SUBSET Nodes : Run(bps)
  <2>1. /\ UNCHANGED <<toClient, deferred, pausedAtNodeId, current_run_id, paused_at,
                       connected, timeouts>>
        /\ Held
        /\ \E m \in Calls : toServer' = Append(toServer, m)
    BY <1>1, <1>5, <1>9, RunEffect
  <2>2. ResumeAsked => ResumeAsked'
    BY <1>1, <2>1, ResumeAppended, CallsAreMessages
  <2>3. QED
    BY <1>1, <1>7, <1>9, <2>1, <2>2, AskedThroughPress DEF InTime
<1>10. CASE Stop \/ Resume
  <2>1. UNCHANGED <<toClient, deferred, current_run_id, paused_at, connected, timeouts>> /\ Held
    BY <1>1, <1>5, <1>10, NotifyEffect
  <2>2. CASE ~connected
    BY <1>6, <2>1, <2>2
  <2>3. CASE toServer' = toServer /\ UNCHANGED pausedAtNodeId
    BY <1>1, <1>7, <1>10, <2>1, <2>3, AskedThroughPress DEF InTime, ResumeAsked
  <2>4. ASSUME NEW m \in ServerMessages, m.type \in {"stop", "continue", "step"},
               toServer' = Append(toServer, m),
               m.type = "stop" => UNCHANGED pausedAtNodeId
        PROVE  PauseTold'
    <3>1. CASE m.type \in {"continue", "step"}
      BY <1>1, <1>6, <2>1, <2>4, <3>1, ResumeAppended
    <3>2. CASE m.type = "stop"
      BY <1>1, <1>7, <1>10, <2>1, <2>4, <3>2, AskedThroughPress, ResumeAppended DEF InTime
    <3>3. QED
      BY <2>4, <3>1, <3>2
  <2>5. QED
    BY <1>1, <1>10, <2>2, <2>3, <2>4, NotifyEffect
<1>11. CASE \E p \in pending : Timeout(p)
  BY <1>1, <1>5, <1>6, <1>11, TimeoutEffect
<1>12. CASE Disconnect
  BY <1>1, <1>5, <1>6, <1>12, DisconnectEffect
<1>13. CASE Reconnect
  BY <1>1, <1>5, <1>6, <1>13, ReconnectEffect, AskedAnew
<1>14. CASE ReceiveMessage
  <2>1. /\ toClient # <<>> /\ toClient' = Tail(toClient)
        /\ UNCHANGED <<connected, conn, timeouts, toServer, deferred, current_run_id,
                       paused_at>>
        /\ Head1 \in ClientMessages /\ Held
    BY <1>1, <1>5, <1>14, ReceiveEffect
  <2>2. (InTime' <=> InTime) /\ (StateAsked' <=> StateAsked) /\ (ResumeAsked' <=> ResumeAsked)
    BY <2>1 DEF InTime, StateAsked, ResumeAsked
  <2>3. PauseTold /\ S' = S /\ T' = T
    BY <1>3, <1>4, <2>1
  <2>4. ASSUME connected, InTime, None(deferred, S), ~StateAsked, ~ResumeAsked,
               None(toClient', S)
        PROVE  pausedAtNodeId' = paused_at
    <3>1. /\ LastIs(toClient, S, T)
          /\ None(toClient, S) => pausedAtNodeId = paused_at
      BY <2>3, <2>4 DEF PauseTold, S, T
    <3>2. CASE Head1 \notin S
      <4>1. None(toClient, S)
        BY <1>2, <2>1, <2>4, <3>1, <3>2, LastTaken DEF Head1
      <4>2. QED
        BY <1>1, <1>14, <3>1, <3>2, <4>1, PauseEffect DEF S
    <3>3. CASE Head1 \in S
      <4>1. Head1 \in T
        BY <1>2, <2>1, <2>4, <3>1, <3>3, LastTaken DEF Head1
      <4>2. CASE Head1.type = "snapshot"
        <5>1. Waits(Head1.id, "state")
          BY <1>1, <2>1, <2>4, <4>2, ClientQueueTaken DEF WaitInv
        <5>2. QED
          BY <1>1, <1>14, <4>1, <4>2, <5>1, PauseEffect DEF T, TellsPause
      <4>3. CASE Head1.type # "snapshot"
        <5>1. /\ Head1.type = "paused" /\ Head1 \in Filtered /\ Head1.run = current_run_id
              /\ Head1.node = paused_at
          BY <2>1, <4>1, <4>3 DEF T, TellsPause, SpeaksOfPause, Filtered
        <5>2. ~\E j \in 1..Len(toClient') :
                 /\ toClient'[j] \in ClientMessages
                 /\ toClient'[j].type = "snapshot"
          BY <2>4 DEF None, S, SpeaksOfPause
        <5>3. isFreshEvent(Head1)
          BY <1>14, <2>4, <5>1, <5>2, LetThrough
        <5>4. QED
          BY <1>1, <1>14, <5>1, <5>3, PauseEffect
      <4>4. QED
        BY <4>2, <4>3
    <3>4. QED
      BY <3>2, <3>3
  <2>5. LastIs(toClient, S, T) => LastIs(toClient', S, T)
    BY <1>2, <2>1, LastTaken
  <2>6. QED
    BY <2>1, <2>2, <2>3, <2>4, <2>5 DEF PauseTold, S, T
<1>15. CASE Serve
  <2>1. /\ UNCHANGED <<connected, timeouts, pausedAtNodeId, deferred, current_run_id, paused_at>>
        /\ toServer # <<>> /\ toServer' = Tail(toServer)
        /\ Held /\ Served.type \notin {"continue", "step"}
    BY <1>1, <1>15, ServeEffect DEF clientVars, storeVars, bounds
  <2>2. ResumeAsked => ResumeAsked'
    BY <1>1, <2>1, ResumeTaken
  <2>3. CASE connected /\ InTime
    <3>1. CASE (StateAsked => StateAsked') /\ UNCHANGED toClient
      BY <1>7, <2>1, <2>2, <2>3, <3>1
    <3>2. CASE /\ Snapshot(Served.id) \in ClientMessages
               /\ toClient' = Append(toClient, Snapshot(Served.id))
      <4>1. Snapshot(Served.id) \in S /\ Snapshot(Served.id) \in T
        BY <3>2 DEF S, T, TellsPause, SpeaksOfPause, Snapshot
      <4>2. QED
        BY <1>8, <2>1, <2>3, <3>2, <4>1
    <3>3. QED
      BY <1>1, <1>15, <2>3, <3>1, <3>2, AskedThroughServe
  <2>4. CASE ~(connected /\ InTime)
    BY <1>6, <2>1, <2>4 DEF InTime
  <2>5. QED
    BY <2>3, <2>4
<1>16. CASE Starting
  <2>1. UNCHANGED <<toClient, deferred, pausedAtNodeId, connected, timeouts, toServer, conn>>
    BY <1>1, <1>16, StartingEffect DEF clientVars, storeVars, bounds
  <2>2. UNCHANGED <<current_run_id, paused_at>> /\ Held
    BY <1>1, <1>16, StartingEffect
  <2>3. QED
    BY <1>7, <2>1, <2>2 DEF InTime, StateAsked, ResumeAsked
<1>17. CASE Reply
  <2>1. /\ Transmit(Started, caller.conn)
        /\ UNCHANGED <<connected, timeouts, conn, toServer, pausedAtNodeId, deferred,
                       current_run_id, paused_at>>
        /\ Held
    BY <1>17 DEF Reply, clientVars, storeVars, bounds, backend, vars, snapVars, debugVars,
       workerVars, Held, Released
  <2>2. Started \in ClientMessages /\ Started \notin S
    BY <1>1, MessageTypes, EventsAreMessages DEF Started, S, SpeaksOfPause
  <2>3. (InTime' <=> InTime) /\ (StateAsked' <=> StateAsked) /\ (ResumeAsked' <=> ResumeAsked)
    BY <2>1 DEF InTime, StateAsked, ResumeAsked
  <2>4. CASE toClient' = toClient
    BY <1>7, <2>1, <2>3, <2>4
  <2>5. CASE connected /\ toClient' = Append(toClient, Started)
    BY <1>6, <1>8, <2>1, <2>2, <2>3, <2>5
  <2>6. QED
    BY <1>1, <2>1, <2>2, <2>4, <2>5, TransmitEffect
<1>18. CASE Flush
  <2>1. /\ deferred # <<>> /\ deferred' = Tail(deferred) /\ Transmit(Head(deferred), conn)
        /\ UNCHANGED <<conn, pausedAtNodeId, current_run_id, paused_at, connected, timeouts,
                       toServer>>
        /\ Held
    BY <1>18 DEF Flush, clientVars, storeVars, bounds, backend, vars, snapVars, debugVars,
       workerVars, Held, Released
  <2>2. Head(deferred) \in ClientMessages
    BY <1>2, <2>1, Taken
  <2>3. PauseTold /\ S' = S /\ T' = T
    BY <1>3, <1>4, <2>1
  <2>4. /\ LastIs(deferred', S, T)
        /\ None(deferred', S) =>
             \/ Head(deferred) \in S /\ Head(deferred) \in T
             \/ Head(deferred) \notin S /\ None(deferred, S)
    BY <1>2, <2>1, <2>3, LastTaken DEF PauseTold, S, T
  <2>5. (InTime' <=> InTime) /\ (StateAsked' <=> StateAsked) /\ (ResumeAsked' <=> ResumeAsked)
    BY <2>1 DEF InTime, StateAsked, ResumeAsked
  <2>6. ASSUME connected, InTime, None(deferred', S), ~StateAsked, ~ResumeAsked
        PROVE  /\ LastIs(toClient', S, T)
               /\ None(toClient', S) => pausedAtNodeId = paused_at
    <3>1. toClient' = Append(toClient, Head(deferred))
      BY <1>1, <2>1, <2>2, <2>6, TransmitEffect
    <3>2. None(toClient', S) <=> None(toClient, S) /\ Head(deferred) \notin S
      BY <1>2, <2>2, <3>1, NoneAppended
    <3>3. CASE Head(deferred) \in S /\ Head(deferred) \in T
      BY <1>2, <2>2, <3>1, <3>2, <3>3, LastAppended
    <3>4. CASE Head(deferred) \notin S /\ None(deferred, S)
      <4>1. /\ LastIs(toClient, S, T)
            /\ None(toClient, S) => pausedAtNodeId = paused_at
        BY <2>3, <2>6, <3>4 DEF PauseTold, S, T
      <4>2. LastIs(toClient', S, T)
        BY <1>2, <2>2, <3>1, <3>4, <4>1, LastAppended
      <4>3. QED
        BY <3>2, <4>1, <4>2
    <3>5. QED
      BY <2>4, <2>6, <3>3, <3>4
  <2>7. QED
    BY <2>1, <2>3, <2>4, <2>5, <2>6 DEF PauseTold, S, T
<1>19. CASE WorkerSync
  <2>1. UNCHANGED <<toClient, pausedAtNodeId, current_run_id, connected, timeouts, toServer, conn>>
    BY <1>1, <1>19, WorkerEffect DEF clientVars, storeVars, bounds
  <2>2. CASE UNCHANGED deferred /\ Held /\ paused_at' = paused_at
    BY <1>7, <2>1, <2>2 DEF InTime, StateAsked, ResumeAsked
  <2>3. CASE node \in Nodes /\ deferred' = Append(deferred, Paused(node)) /\ paused_at' = node
    <3>1. Paused(node) \in ClientMessages
      BY <1>1, <2>3, MessageTypes, EventsAreMessages
    <3>2. Paused(node) \in S
      BY <3>1 DEF S, SpeaksOfPause, Paused
    <3>3. Paused(node) \in T'
      BY <2>1, <2>3, <3>2 DEF S, T, TellsPause, SpeaksOfPause, Paused
    <3>4. LastIs(deferred', S, T')
      BY <1>2, <2>3, <3>1, <3>2, <3>3, LastAppended
    <3>5. ~None(deferred', S)
      BY <1>2, <2>3, <3>1, <3>2, NoneAppended
    <3>6. QED
      BY <1>4, <3>4, <3>5 DEF PauseTold, S, T
  <2>4. QED
    BY <1>1, <1>19, <2>2, <2>3, WorkerEffect
<1>20. CASE UNCHANGED syncVars
  <2>1. Held
    BY <1>20 DEF syncVars, backend, vars, debugVars, workerVars, Held, Released
  <2>2. QED
    BY <1>7, <1>20, <2>1 DEF syncVars, wireVars, storeVars, bounds, backend, vars, snapVars,
       InTime, StateAsked, ResumeAsked
<1>21. QED
  BY <1>9, <1>10, <1>11, <1>12, <1>13, <1>14, <1>15, <1>16, <1>17, <1>18, <1>19, <1>20, Steps

(* A kind of message in a queue. *)
LEMMA HasAppended ==
  ASSUME NEW M, NEW q \in Seq(M), NEW m \in M, NEW type,
         Has(q, type) \/ m.type = type
  PROVE  Has(Append(q, m), type)
<1> DEFINE r == Append(q, m)
<1>1. /\ Len(q) \in Nat /\ Len(r) = Len(q) + 1 /\ r[Len(q) + 1] = m
      /\ \A i \in 1..Len(q) : r[i] = q[i]
  BY Appended
<1>2. Len(q) + 1 \in 1..Len(r) /\ \A i \in 1..Len(q) : i \in 1..Len(r)
  BY <1>1
<1> HIDE DEF r
<1>3. Has(r, type)
  BY <1>1, <1>2 DEF Has
<1>4. QED
  BY <1>3 DEF r

LEMMA HasTaken ==
  ASSUME NEW M, NEW q \in Seq(M), q # <<>>, NEW type, Has(q, type)
  PROVE  Has(Tail(q), type) \/ Head(q).type = type
<1> DEFINE r == Tail(q)
<1>1. /\ Len(q) \in Nat /\ Len(r) = Len(q) - 1 /\ Head(q) = q[1]
      /\ \A i \in 1..Len(r) : r[i] = q[i + 1]
  BY Taken
<1> HIDE DEF r
<1>2. PICK i \in 1..Len(q) : q[i].type = type
  BY DEF Has
<1>3. CASE i = 1
  BY <1>1, <1>2, <1>3
<1>4. CASE i > 1
  <2>1. i - 1 \in 1..Len(r) /\ r[i - 1] = q[i]
    BY <1>1, <1>4
  <2>2. Has(r, type)
    BY <1>2, <2>1 DEF Has
  <2>3. QED
    BY <2>2 DEF r
<1>5. QED
  BY <1>3, <1>4

LEMMA CompletesStep == SyncInv /\ [NextSync]_syncVars => CompletesInv'
<1> SUFFICES ASSUME SyncInv, [NextSync]_syncVars PROVE CompletesInv'
  OBVIOUS
<1>1. IInv /\ WireTypeOK /\ LoopBusyInv /\ CompletesInv
  BY DEF SyncInv
<1>2. /\ deferred \in Seq(Events) /\ toClient \in Seq(ClientMessages)
      /\ toServer \in Seq(ServerMessages) /\ conn \in Nat
  BY <1>1 DEF WireTypeOK
<1>3. UNCHANGED serverVars =>
        UNCHANGED <<deferred, caller, loop>> /\ (Alive' <=> Alive)
  BY DEF serverVars, backend, vars, sessionVars, workerVars, Alive
<1>4. ASSUME UNCHANGED <<deferred, caller, loop>>, Alive => Alive',
             conn' = 1 /\ connected' /\ isRunning' =>
               conn = 1 /\ connected /\ isRunning,
             Has(toServer, "execute") => Has(toServer, "execute")',
             Has(toClient, "complete") =>
               Has(toClient, "complete")' \/ ~isRunning'
      PROVE  CompletesInv'
  BY <1>1, <1>4 DEF CompletesInv, AtRest
<1>5. CASE \E bps \in SUBSET Nodes : Run(bps)
  <2>1. UNCHANGED <<deferred, caller, loop>> /\ (Alive' <=> Alive)
    BY <1>1, <1>3, <1>5, RunEffect
  <2>2. PICK m \in ServerMessages : m.type = "execute" /\ toServer' = Append(toServer, m)
    BY <1>1, <1>5, RunEffect, CallsAreMessages
  <2>3. Has(toServer', "execute")
    BY <1>2, <2>2, HasAppended
  <2>4. QED
    BY <1>1, <2>1, <2>3 DEF CompletesInv, AtRest
<1>6. CASE Stop \/ Resume
  <2>1. /\ UNCHANGED <<connected, conn, toClient, deferred, caller, loop>>
        /\ Alive' <=> Alive
        /\ isRunning' => isRunning
        /\ \/ toServer' = toServer
           \/ \E m \in ServerMessages : toServer' = Append(toServer, m)
    BY <1>1, <1>3, <1>6, NotifyEffect
  <2>2. Has(toServer, "execute") => Has(toServer', "execute")
    BY <1>2, <2>1, HasAppended
  <2>3. QED
    BY <1>4, <2>1, <2>2
<1>7. CASE \E p \in pending : Timeout(p)
  BY <1>1, <1>3, <1>4, <1>7, TimeoutEffect
<1>8. CASE Disconnect
  BY <1>1, <1>3, <1>8, DisconnectEffect DEF CompletesInv, AtRest
<1>9. CASE Reconnect
  <2>1. /\ conn' = conn + 1 /\ conn > 0
        /\ UNCHANGED <<deferred, caller, loop>> /\ (Alive' <=> Alive)
    BY <1>1, <1>3, <1>9, ReconnectEffect DEF LoopBusyInv
  <2>2. conn' # 1
    BY <1>2, <2>1
  <2>3. QED
    BY <1>1, <2>1, <2>2 DEF CompletesInv, AtRest
<1>10. CASE ReceiveMessage
  <2>1. /\ toClient # <<>> /\ toClient' = Tail(toClient)
        /\ UNCHANGED <<connected, conn, toServer, deferred, caller, loop>>
        /\ Alive' <=> Alive
        /\ isRunning' => isRunning
        /\ Head1.type = "complete" => ~isRunning'
    BY <1>1, <1>3, <1>10, ReceiveEffect
  <2>2. Has(toClient, "complete") => Has(toClient', "complete") \/ ~isRunning'
    BY <1>2, <2>1, HasTaken DEF Head1
  <2>3. QED
    BY <1>4, <2>1, <2>2
<1>11. CASE Serve
  <2>1. /\ AtRest /\ toServer # <<>> /\ toServer' = Tail(toServer)
        /\ UNCHANGED <<connected, conn, isRunning, deferred>>
        /\ Alive' <=> Alive
        /\ Served \in ServerMessages
    BY <1>1, <1>11, ServeEffect DEF clientVars, storeVars, Alive
  <2>2. CASE Served.type = "execute"
    <3>1. caller' = Served /\ loop' = "seeded"
      BY <1>1, <1>11, <2>2, ServeEffect
    <3>2. ~AtRest'
      BY <2>2, <3>1 DEF AtRest, NoCall
    <3>3. QED
      BY <3>1, <3>2 DEF CompletesInv
  <2>3. CASE Served.type # "execute"
    <3>1. UNCHANGED <<caller, loop>>
          /\ (toClient' = toClient \/ Transmit(Snapshot(Served.id), Served.conn))
      BY <1>1, <1>11, <2>3, ServeEffect
    <3>2. Snapshot(Served.id) \in ClientMessages
      BY <1>1, <2>1, MessageTypes, EventsAreMessages DEF ServerMessages
    <3>3. Has(toClient, "complete") => Has(toClient', "complete")
      <4>1. toClient' \in {toClient, Append(toClient, Snapshot(Served.id))}
        BY <1>1, <3>1, <3>2, TransmitEffect
      <4>2. QED
        BY <1>2, <3>2, <4>1, HasAppended
    <3>4. Has(toServer, "execute") => Has(toServer', "execute")
      BY <1>2, <2>1, <2>3, HasTaken DEF Served
    <3>5. QED
      BY <1>4, <2>1, <3>1, <3>3, <3>4
  <2>4. QED
    BY <2>2, <2>3
<1>12. CASE Starting
  <2>1. ~AtRest' /\ (loop' = "idle" => Alive')
    BY <1>1, <1>12, StartingEffect DEF AtRest
  <2>2. QED
    BY <2>1 DEF CompletesInv
<1>13. CASE Reply
  <2>1. /\ loop = "idle" /\ ~AtRest /\ AtRest'
        /\ UNCHANGED deferred /\ (Alive' <=> Alive)
    BY <1>13 DEF Reply, AtRest, backend, vars, workerVars, Alive
  <2>2. QED
    BY <1>1, <2>1 DEF CompletesInv
<1>14. CASE Flush
  <2>1. /\ AtRest /\ AtRest'
        /\ deferred # <<>> /\ deferred' = Tail(deferred) /\ Transmit(Head(deferred), conn)
        /\ UNCHANGED <<connected, conn, isRunning, toServer>> /\ (Alive' <=> Alive)
    BY <1>14 DEF Flush, AtRest, clientVars, storeVars, backend, vars, workerVars, Alive
  <2>2. Head(deferred) \in ClientMessages
    BY <1>2, <2>1, Taken, EventsAreMessages
  <2>3. ASSUME connected
        PROVE  Has(deferred, "complete") \/ Has(toClient, "complete") =>
                 Has(deferred', "complete") \/ Has(toClient', "complete")
    <3>1. toClient' = Append(toClient, Head(deferred))
      BY <1>1, <2>1, <2>2, <2>3, TransmitEffect
    <3>2. Has(toClient, "complete") \/ Head(deferred).type = "complete" =>
            Has(toClient', "complete")
      BY <1>2, <2>2, <3>1, HasAppended
    <3>3. Has(deferred, "complete") =>
            Has(deferred', "complete") \/ Head(deferred).type = "complete"
      BY <1>2, <2>1, HasTaken
    <3>4. QED
      BY <3>2, <3>3
  <2>4. QED
    BY <1>1, <2>1, <2>3 DEF CompletesInv
<1>15. CASE WorkerSync
  <2>1. UNCHANGED <<connected, conn, isRunning, toServer, toClient, caller, loop>>
    BY <1>1, <1>15, WorkerEffect DEF clientVars, storeVars
  <2>2. CASE Alive'
    BY <2>2 DEF CompletesInv
  <2>3. CASE deferred' = Append(deferred, Completed)
    <3>1. Completed \in Events /\ Completed.type = "complete"
      BY <1>1, MessageTypes DEF Completed
    <3>2. Has(deferred', "complete")
      BY <1>2, <2>3, <3>1, HasAppended
    <3>3. QED
      BY <3>2 DEF CompletesInv
  <2>4. QED
    BY <1>1, <1>15, <2>2, <2>3, WorkerEffect
<1>16. CASE UNCHANGED syncVars
  BY <1>4, <1>16 DEF syncVars, wireVars, storeVars, backend, vars, sessionVars, workerVars,
     Alive
<1>17. QED
  BY <1>5, <1>6, <1>7, <1>8, <1>9, <1>10, <1>11, <1>12, <1>13, <1>14, <1>15, <1>16, Steps

-----------------------------------------------------------------------------
(* The theorems.                                                           *)

LEMMA SyncInit == InitSync => SyncInv
<1> SUFFICES ASSUME InitSync PROVE SyncInv
  OBVIOUS
<1> USE DEF InitSync
<1>1. IInv
  BY InitInv
<1>2. toServer = <<>> /\ toClient = <<>> /\ deferred = <<>> /\ Len(<<>>) = 0
  BY EmptySeq
<1>3. AtRest /\ wpc = "none" /\ loop = "idle"
  BY DEF AtRest, Init
<1>4. WireTypeOK
  BY EmptySeq DEF WireTypeOK, NoCall, ServerMessages, NoStatus, Statuses
<1>5. LoopBusyInv
  BY <1>2, <1>3 DEF LoopBusyInv, NoCall
<1>6. OrderInv /\ WaitInv /\ LostReplyInv
  BY <1>2, <1>3 DEF OrderInv, WaitInv, LostReplyInv
<1>7. current_run_id = 0 /\ node_statuses = NoStatus
  BY DEF Init
<1>8. RunOrderInv
  BY <1>2, <1>7 DEF RunOrderInv
<1>9. NamedInv /\ FreshInv /\ VisitedInv
  BY <1>2, <1>7 DEF NamedInv, FreshInv, VisitedInv
<1>10. CanvasInv
  BY <1>7 DEF CanvasInv, NoStatus
<1>11. PauseShownInv
  BY <1>3 DEF PauseShownInv, Held
<1>12. CompletesInv
  BY <1>3 DEF CompletesInv
<1>13. QED
  BY <1>1, <1>4, <1>5, <1>6, <1>8, <1>9, <1>10, <1>11, <1>12 DEF SyncInv

LEMMA SyncStep == SyncInv /\ [NextSync]_syncVars => SyncInv'
<1> SUFFICES ASSUME SyncInv, [NextSync]_syncVars PROVE SyncInv'
  OBVIOUS
<1>1. IInv'
  BY BackendStep, StepInv DEF SyncInv
<1>2. QED
  BY <1>1, TypeStep, LoopBusyStep, OrderStep, WaitStep, RunOrderStep, LostReplyStep,
     NamedStep, FreshStep, VisitedStep, CanvasStep, PauseShownStep, CompletesStep
  DEF SyncInv

(* What every state of client, wire and backend satisfies.                 *)
THEOREM SyncInvariance == SpecSync => []SyncInv
  BY SyncInit, SyncStep, PTL DEF SpecSync

(* Once everything sent has arrived the canvas shows what the executor     *)
(* knows of each visited node, after any number of runs and outages.       *)
(* (WorkflowRunner.ts 107-111, 172-207, 218-229; run_session.cpp 54-72)    *)
THEOREM CanvasConverges == SpecSync => []CanvasAgrees
<1>1. SyncInv => CanvasAgrees
  <2> SUFFICES ASSUME SyncInv, Quiet, InTime, NEW n \in Nodes, node_statuses[n] # "none"
               PROVE  shown[n] = node_statuses[n]
    BY DEF CanvasAgrees
  <2>1. /\ Len(deferred) = 0 /\ Len(toClient) = 0 /\ Len(toServer) = 0
        /\ connected
    BY EmptySeq DEF Quiet
  <2>2. ~StateAsked /\ None(deferred, Speaks(n)) /\ None(toClient, Speaks(n))
    BY <2>1 DEF StateAsked, None
  <2>3. QED
    BY <2>1, <2>2 DEF SyncInv, CanvasInv, CanvasOf
<1>2. QED
  BY SyncInvariance, <1>1, PTL

(* A worker that waits for a resume has a client that offers one.          *)
(* (WorkflowRunner.ts 279-304, useWorkflowActions.ts 108-120)              *)
THEOREM PauseReachesTheClient == SpecSync => []PausedIsShown
<1>1. SyncInv => PausedIsShown
  <2> SUFFICES ASSUME SyncInv, Quiet, InTime, wpc = "waiting", ~Released
               PROVE  pausedAtNodeId = paused_at
    BY DEF PausedIsShown
  <2>1. /\ Len(deferred) = 0 /\ Len(toClient) = 0 /\ Len(toServer) = 0
        /\ connected
    BY EmptySeq DEF Quiet
  <2>2. /\ ~StateAsked /\ ~ResumeAsked
        /\ None(deferred, SpeaksOfPause) /\ None(toClient, SpeaksOfPause)
    BY <2>1 DEF StateAsked, ResumeAsked, None
  <2>3. QED
    BY <2>1, <2>2 DEF SyncInv, PauseShownInv, PauseTold, Held
<1>2. QED
  BY SyncInvariance, <1>1, PTL

(* Without an outage the end of a run frees RUN again, whatever ended it.  *)
(* (executor.cpp 176-180, 324-329; WorkflowRunner.ts 306-314)              *)
THEOREM EndReachesTheClient == SpecSync => []IdleIsShownOnline
<1>1. SyncInv => IdleIsShownOnline
  <2> SUFFICES ASSUME SyncInv, conn = 1, Quiet, wpc \in {"none", "ended"}
               PROVE  ~isRunning
    BY DEF IdleIsShownOnline, IdleIsShown
  <2>1. /\ Len(deferred) = 0 /\ Len(toClient) = 0 /\ Len(toServer) = 0
        /\ connected /\ AtRest /\ ~Alive
    BY EmptySeq DEF Quiet, Alive
  <2>2. /\ ~Has(toServer, "execute") /\ ~Has(deferred, "complete")
        /\ ~Has(toClient, "complete")
    BY <2>1 DEF Has
  <2>3. QED
    BY <2>1, <2>2 DEF SyncInv, CompletesInv
<1>2. QED
  BY SyncInvariance, <1>1, PTL

(* An event the filter drops is of an earlier run, unless a snapshot is    *)
(* still to come.  (run_session.cpp 60-82, ws_server.cpp 53-59, 90-112,    *)
(* WorkflowRunner.ts 172-207)                                              *)
THEOREM DropsAreSafe == SpecSync => []NothingFreshIsDropped
<1>1. SyncInv => NothingFreshIsDropped
  <2> SUFFICES ASSUME SyncInv, InTime, ~SnapshotToCome, toClient # <<>>,
                      Head(toClient).type \in {"status", "paused"},
                      ~isFreshEvent(Head(toClient))
               PROVE  Head(toClient).run < current_run_id
    BY DEF NothingFreshIsDropped, DroppedIsSuperseded
  <2>1. IInv /\ WireTypeOK /\ LoopBusyInv /\ RunOrderInv /\ FreshInv
    BY DEF SyncInv
  <2>2. /\ Len(toClient) \in Nat /\ Len(toClient) >= 1 /\ Head(toClient) = toClient[1]
        /\ Head(toClient) \in ClientMessages
    BY <2>1, Taken DEF WireTypeOK
  <2>3. Head(toClient).run \in Nat /\ current_run_id \in Nat
    BY <2>1, <2>2, Kinds DEF IInv, TypeOK
  <2>4. Head(toClient).run <= current_run_id
    BY <2>1, <2>2 DEF RunOrderInv
  <2>5. connected /\ Head(toClient) \in Filtered
    BY <2>1, <2>2 DEF LoopBusyInv, Filtered
  <2>6. Head(toClient).run # current_run_id
    <3>1. ~StateAsked /\ \A j \in 1..Len(toClient) : toClient[j].type # "snapshot"
      BY DEF SnapshotToCome
    <3>2. SUFFICES ASSUME Head(toClient).run = current_run_id PROVE FALSE
      OBVIOUS
    <3>3. \/ currentRunId = current_run_id
          \/ \E j \in 1..Len(toClient) : j < 1
      BY <2>1, <2>2, <2>5, <3>1, <3>2 DEF FreshInv
    <3>4. QED
      BY <2>2, <3>2, <3>3 DEF isFreshEvent
  <2>7. QED
    BY <2>3, <2>4, <2>6
<1>2. QED
  BY SyncInvariance, <1>1, PTL

-----------------------------------------------------------------------------
(* The backend that clients, sockets and outages act on is the one of      *)
(* RunControl: nothing they do, in whatever order, takes it elsewhere, so  *)
(* that whatever is proved of RunControl holds of the whole.               *)
(* (main.cpp 301-379, 480-489)                                             *)
THEOREM BackendIsRunControl == SpecSync => Spec
<1>1. InitSync => Init
  BY DEF InitSync
<1>2. SyncInv /\ [NextSync]_syncVars => [Next]_vars
  BY BackendStep DEF SyncInv
<1>3. QED
  BY <1>1, <1>2, SyncInvariance, PTL DEF SpecSync, Spec

(* What RunService promises, a client of the whole may count on; and its   *)
(* resume is not lost either.  (debug_controller.cpp 15-44)                *)
THEOREM WholeKeepsService == SpecSync => ImplementsService /\ ResumeIsNotLost
BY BackendIsRunControl, Implements, ResumeSafe
=============================================================================
