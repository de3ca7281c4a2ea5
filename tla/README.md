# Workflow UI: specification, model checking and proofs

A user draws a graph of nodes in a browser (`frontend/`); a C++ backend
(`backend/`) executes it on a worker thread and streams events over a WebSocket.
This directory specifies how a run is controlled, what it does with the graph,
what the browser gets to see of it, and the editor in which the graph is drawn.

```
tlc -config RunControlMC.cfg RunControl.tla   # any pair of PROJECT.json "runs"
tlapm RunControlProofs.tla                    # any *Proofs module; minutes each
```

## The system

| part | state | operations | interacts with |
|---|---|---|---|
| `DebugController` | breakpoints, resume epoch and its snapshot, `stopped_`, `stepping_` | stop, resume, step_over, begin_pause, wait_for_resume, reset, breakpoint edits | called by the loop and by the worker |
| `RunSession` | worker thread, `last_run_id_` | start (stop and join the old run, then spawn), shutdown | the loop blocks in its join |
| `Executor` | run id, statuses and pause (a snapshot under a mutex); `port_data_`, `dead_ports_`, `failed_nodes_` | execute, validate_graph, snapshot_state, destructor | the worker is inside it; `workflow.state` reads it |
| `WorkflowGraph` | nodes and edges in their order | topological_sort, inputs_for | |
| node handlers | none | execute: read inputs, write ports, mark a port dead, throw | the inference engine |
| inference engine | the table of nets | init_net, destroy_net, execute | |
| server and dispatcher | socket, deferred events | handle a message, reply, broadcast (defer to the loop) | every client |
| `WsClient` | socket, pending calls, timers, back-off, subscribers | connect, disconnect, call, notify, receive, close, reconnect | the panels, the runner |
| `WorkflowRunner` | id of the active run | node.status, debug.paused, workflow.complete, reconcile | stores |
| actions, console | none | run, stop, continue, step, copy, paste, delete, undo | stores, `WsClient` |
| workflow store | nodes, edges, cache by id, selection, id counter, undo history | edits, drags, import, undo, redo | canvas, panels, runner |
| debug store | breakpoints, pause, log | toggles | canvas, console |
| properties panel | none of its own; dialogs, vendor schema cache, thumbnails | edit a configuration, browse for a file | store, `WsClient` |
| model inspector | the drawer and the calls it made | open, close, inspect | `WsClient` |
| canvas | the gesture, the cache of styles, the cyclic edges | connect, drag, select | store |

What makes it hard: the loop and the worker share flags that one of them resets;
the loop can block on the worker; events are deferred while replies are not;
a browser identifies a run by an id that comes in a reply that may be late or
lost; an outage loses events; failure and branch pruning spread through the
graph in whatever order it is visited; every panel asks the server and cannot
take a question back, so that answers come for what is no longer on show; the
history writes past a cache; and the client has tables and rules of its own for
what the server decides. PROJECT.json lists the hazards, each at its line, with
the properties that watch it, or why none does.

What makes each part correct:

* run control: a run at a time, its events under its own id; a stop ends it;
  a resume releases the pause it was given for and no other;
* executor: a node is skipped exactly when nothing can reach it, and for the
  reason given; nothing of an earlier run is read; nets do not leak;
* client: when the messages have arrived, canvas, pause and RUN button show
  what the backend is doing; a call is settled once, and in the end; a lost
  connection comes back;
* store: the cache is what is on the canvas, ids are not given out twice, edges
  join nodes, the history is what the user made;
* panels: what is shown is of what is selected, now, and of the server that is
  connected; what a run uses is shown; what the canvas lets the user draw, the
  server takes.

## Modules

| module | models | role |
|---|---|---|
| `RunService` | what a client may rely on about a run | abstract specification |
| `RunControl` | `DebugController`, `RunSession`, the control of `Executor::execute` | detailed specification, refines `RunService` |
| `RunControlProofs` | | proofs |
| `GraphRun` | ports, pruning, failures and nets over successive runs of one executor | |
| `GraphRunMC`, `GraphRunProofs` | | all small graphs; proofs |
| `RunSync` | server loop, socket, `WsClient`, `WorkflowRunner`, actions, composed with `RunControl` | |
| `RunSyncMC`, `RunSyncProofs` | | instance with symmetric nodes; proofs |
| `CallPromise` | what `WsClient.call` promises its callers | abstract specification |
| `WsClient` | `WsClient.ts`: sockets, calls, timers, back-off, subscribers | detailed specification, refines `CallPromise` |
| `WsClientProofs` | | proofs |
| `EditHistory` | what undo and redo promise | abstract specification |
| `WorkflowStore` | `workflowStore.ts` with zundo's history | detailed specification, refines `EditHistory` |
| `WorkflowStoreMC`, `WorkflowStoreProofs` | | instance, with a view; proofs |
| `Inspector` | `useModelInspect`, the drawer's effect | one of the parts of `PanelsMC` |
| `Previews`, `PreviewsProofs` | `useImagePreview`, the runs that write the image and what of their events arrives | part; proofs |
| `VendorSchema` | the vendor schema cache and its panel | part |
| `Manifest`, `Handlers` | the client's table of nodes; the server's ports and the keys its handlers read | constants |
| `NodeConfig` | the properties panel as an editor, against `Handlers` | part |
| `Connecting` | drawing edges, against `validate_graph` | part |
| `NodeClasses` | the cache of a node's className | part |
| `CycleSearch`, `CycleSearchProofs` | `findCyclicEdges`, against the server's verdict | part; proofs |
| `PanelsMC` | the parts above, one per behaviour | instance |
| `PanelsProofs` | | proofs about the other parts |

### RunControl

Two processes. The loop (`loop`) handles one message at a time; `workflow.execute`
is split where `RunSession::start` waits or publishes (Execute, StopPrevious or
NoPrevious, Join, BeginRun, Spawn). The worker (`wpc`) is `Executor::execute`,
split wherever it touches what the loop also touches: the run id test (Enter),
`debug_.reset()` (Reset), the stop polls (Break, StopAfterPause,
StopAfterNode), the two reads of `should_pause` (CheckStepping,
CheckBreakpoint), `begin_pause`, the pause event, the wait, and each
`notify_status`. The run id is the number of the run; ids never repeat in a
process. `cancelled` is history: a stop was handled while the worker was alive.

Left to other modules: which nodes are unreachable (any node may be skipped), in
which order nodes come (any), the events themselves. `RunService` has no
threads, flags or epochs; `Phase` maps the worker's position to its phases, and
its `halted` is the stop flag once `debug_.reset()` is behind the worker: before
it a stop is not promised to have an effect, which is exactly the defect
`RunControlLostStop` shows.

### GraphRun

One action per visit of a node, the only thread that touches the ports being the
worker. A graph is a kind per node and a list of edges. Handlers alike in the
ports they declare, the inputs they cannot do without and whether they may throw
are one kind; there are ten:

| kind | handlers | inputs, required | output | may throw otherwise |
|---|---|---|---|---|
| `createNet` | createNet | none | a net | yes |
| `input` | inputImage, inputTensor | none | data | yes |
| `task` | postprocess, segmentationMask | 1, required | data | yes |
| `join` | inference, benchmark, annotateImage, drawBoxes, composite | 2, required | data | yes |
| `overlay` | tensorToImage | 2, the tensor required, the image to draw on not | data | yes |
| `condition` | condition | 1, optional | forwards to one of two ports, the other dies | no |
| `debug` | debug | 1, optional | forwards | no |
| `saveImage` | saveImage | 1, required | none | yes |
| `saveText` | saveText | 1, optional | none | yes |
| `output` | output | 1, optional | none | no |

What the kinds leave out is data: two handlers of one kind compute different
things and throw for different reasons, and a value of a type a handler refuses is
one of the reasons. An input is missing when its handle resolves to nothing, being
unconnected, fed by a pruned or failed node, or forwarded as nothing. A value is a
net, data tagged with the run that computed it, or nothing. Ready lets a node come
after the sources of its edges, which is what Kahn's algorithm guarantees of its
order; the proofs and runs thus cover every order it may return. Which of the nodes
that may throw for reasons of their own do, and which branch is taken, are free
choices made when the run starts.

### RunSync

`RunControl` with a client. Loop and worker steps are those of `RunControl`,
conjoined with what they send: a worker's event goes to `deferred`, the loop
moves it to the socket between two handlers (Flush), a handler's reply goes out
when the handler ends - for `workflow.execute` after the worker was created
(Reply), so that the worker may already be sending. Both directions of the
socket are queues. Disconnect loses what is on its way to the client and any
suffix of what is on its way to the server; Reconnect asks for `workflow.state`.
The client's handlers follow `WorkflowRunner.ts`, the user's actions
`useWorkflowActions.ts` and `useKeyboardShortcuts.ts`. A timeout may strike any pending
call at any time. The run a `complete` or `validation_failed` belongs to is kept
in the model as history only: the code sends these without id, and no handler of
the client looks at it.

### WsClient

Several sockets, each with the handlers `connect()` gave it, the calls the server
has yet to answer and the answers on their way. A socket the client closes
reports that in a later event, by when `connect()` may have made another; a
socket that fails to open reports a close only. The url may be one `WebSocket`
refuses. `CallPromise` knows a call's outcome and what the server answered, and
nothing of sockets; `outcome` and `answer` map to it. The length of the back-off
is left out, its counter is capped at `AttemptCap`. The app never calls
`disconnect()`; it is public and modelled.

### WorkflowStore

A node is an object with an identity, a stamp that each write makes anew, since
the subscriber that repairs `nodesById` compares one object (line 309). What is
authored of a node is one value and what a run leaves on it another: the history
keeps the first only. zundo is external: a wrapped `set()` that saves the state
before a write, if it tracks and the partialized state differs; `undo()` and
`redo()` write the snapshot's own objects past the mutators. The Delete key
writes twice, edges and then nodes, so that undo after it takes two steps. The
view of `WorkflowStoreMC` forgets the names of stamps, of which there are enough
that a write always finds three no object has (`StampAssumption`): the program
never runs out of objects.

`EditHistory` has no stacks, snapshots or cache, only a line of versions and the
one on the canvas: an edit goes on from there and drops what was to be redone,
undo and redo move along, and while something is dragged an edit replaces the
present version. `Timeline` maps the two stacks and the canvas to that line,
`Len(past) + 1` to the place in it. Nothing a run writes is authored, so it maps
to a step that does nothing. `ImplementsHistory` adds that an undo is an undo
there and a redo a redo.

### The panels

`PanelsMC` puts the parts that share nothing but the store beside each other;
a behaviour exercises one. The pattern of `Inspector`, `Previews` and
`VendorSchema` is the same: React runs an effect when what it depends on has
changed, the effect asks the server, the answer comes whenever it does, and a
sequence number, a flag of the closure or an epoch tells whether it is still
wanted. `VendorSchema` takes from `WsClient` that calls are rejected when a socket
closes: with it the epoch test never finds a stale answer. `Manifest` and
`Handlers` are the two tables, port by port and key by key; `NodeConfig` and
`Connecting` let the user do what the first allows and compare with the second.
The drawer opens only for a `config.vendor` of `ncnn`, which no field of the panel
sets: an imported workflow does. `CycleSearch` is the iterative search, with its
explicit stack and every order of edges; `Ring` and `ServerRefuses` are what a
cycle is and when Kahn's algorithm leaves nodes over.

`NodeConfig` compares one way: a setting the handler reads is one the panel shows,
with the value it runs with. The converse is false of the code: the panel shows a
tensorToImage's width and height also with an overlay, and overlayOpacity without
one, where the handler ignores them (core_handlers.cpp 517-542). A number or text
that was never set counts as "" on both sides; what a handler makes of "" is a
default of its own, which the panel does not show.

`Previews` follows one node from the worker to the thumbnail. The worker skips the
node or runs its handler, which writes the file and then reports; each status it
notifies goes into the snapshot and is deferred to the loop, a stop may suppress
the last one, and nothing of this touches what the client shows: `run()` resets no
status, so a node stays `done` from the run before until an event of the new run
gets through. An outage is one step, told from its end: what was on its way to the
client is lost, with any first part of what is deferred, and `workflow.state` is
asked for. The client filters by run id; a reply or a snapshot may be ignored, as
one whose call timed out is. An answer of the server is not tied to a connection. Left
out: `paused` and the errors of `validation_failed`, which a node shows as one more
status other than `done`; other nodes that write the same file. `seen` is history:
the run that last made the client show the node otherwise than done.

## Runs

| run | bounds | shows |
|---|---|---|
| `RunControlMC` | 2 nodes, 2 runs, commands up to epoch 2 | refinement of `RunService`; event tags, snapshot, pause; no resume lost; only a hold blocks a run, a stop ends it, the join returns; the inductive invariant |
| `GraphRunMC` | 3 nodes, the ten kinds spread over them (`AnyKind`), lists of up to 3 edges, 1 run | skipping, blame, verdicts; the inductive invariant |
| `GraphRunAgain` | 3 nodes in 4 combinations of kinds, 2 edges, 2 runs | freshness and nets across runs |
| `RunSyncMC` | 2 nodes, 3 user messages, 1 connection | canvas, pause, RUN and filter agree with the backend |
| `RunSyncReconnect` | 1 node, 2 user messages, 2 connections, 1 timeout | canvas, pause and filter after an outage |
| `WsClientMC` | 3 sockets, 2 calls, the server goes or comes back twice, 2 `connect()` | refinement of `CallPromise`, one connection, every call settles, the client comes back; the inductive invariant |
| `WorkflowStoreMC` | ids up to 5, 2 nodes at a time, 2 values, history of 2, 3 authored writes | cache, ids, edges; refinement of `EditHistory` |
| `PanelsMC` | 2 models and 4 calls; 2 nodes, 2 keys and 1 dialog; 2 files up to symmetry, the first effect and 3 more, 2 runs, 1 outage; 3 servers; every pair of types; all graphs of 3 nodes | the nine properties of the panels |

Each of these checks at least one interleaving of every pair of actions that
share a variable: two runs are what it takes for a run to supersede another, two
nodes for a pause to be followed by another, epoch 2 for two commands and the
stop of `start()` in one behaviour, three edges for a node with a dead, a
failed and a live source. Three effects more than the first show a node done, at
work in the next run and done again; two runs and an outage make every case of an
event that is late, filtered or lost. In `RunSyncMC` no call times out: what
`IdleIsShownOnline` says of the run a timed-out execute leaves behind is covered by
the theorem `EndReachesTheClient`, and `RunSyncReconnect`, with a timeout, checks the
canvas and the pause. `OneConnection` speaks of sessions that do not overlap; for the
calls of sockets that do, there is `KeepsPromise`. Three messages of the user are
run, stop, run (a run superseded with its events on their way) or run, resume,
resume. Three sockets are a closing one, its successor and one more; two calls are
one that is settled while another waits. A history of two drops its oldest entry in three writes, and
three writes with any undo and redo between restore every kind of snapshot. The
graphs of three nodes, loops included, have two cycles through one node, which
is where the search errs. Deadlock is not checked: with the bounds used up, or no
client acting, the system stops.

Runs that show a disagreement between the code and what it says of itself:

| run | property | the code |
|---|---|---|
| `RunControlStuckJoin` | `JoinNeverStuck` | a stop before `debug_.reset()` is erased; `start()` then joins a worker that waits for the loop |
| `RunSyncOutage` | `IdleIsShown` | a lost complete leaves `isRunning` set |
| `WorkflowStoreDrag` | `DragIsOneEntry` | a drag makes no entry in the history, and undo takes back the edit before it |
| `PanelsCycles` | `UnmarkedLieOnNone` | an edge of a second cycle through a finished node stays unmarked |

PROJECT.json quotes the lines on both sides. The properties that hold are stated
next to these without the case that breaks them: `IdleIsShownOnline` while there
is no outage, `NothingFreshIsDropped` while no call timed out and no snapshot is
to come, `ImplementsHistory` in which a drag leaves no version behind, and
`WarnedIffRefused`, by which the search misses edges but never a graph. Below,
`SavedIsOnDisk` has its counterpart in `PreviewIsOfThePath`, which asks that the
client has seen the node otherwise than done in the run that wrote the file.

Seven more configurations each find a counterexample of the same kind, and are
kept to be run by hand:

| configuration, module | property | the code |
|---|---|---|
| `RunControlLostStop`, `RunControl` | `CancelIsObserved` | the erased stop itself: the run goes through all its nodes |
| `GraphRunMissing`, `GraphRunMC` | `FailureNeverShowsAsMissing` | a node with one failed input runs and misses it |
| `RunSyncTimeout`, `RunSync` | `DroppedIsSuperseded` | after a timed-out execute the new run's events are dropped |
| `RunSyncSuperseded`, `RunSync` | `SupersededIsDropped` | workflow-level events carry no run id |
| `WsClientFresh`, `WsClient` | `FreshIsNoReconnect` | a `connect()` after `disconnect()` may fire the reconnect handlers |
| `PanelsInspect`, `PanelsMC` | `InspectErrorKeepsCode` | `WsClient` rejects with an Error, which has no code |
| `PanelsStale`, `PanelsMC` | `SavedIsOnDisk` | `run()` resets no status: if no event of a run but the last gets through (an outage, a timed-out execute), a saved image goes from done to done, the effect does not run again, and the thumbnail stays that of the earlier run, which PropertiesPanel.tsx 378-381 means to avoid |

Smaller divergences were seen while modelling and have no run: a pause
event names the first edge into a handle while its value comes from the first
edge whose port holds something (executor.cpp 247-256); ports are said to be kept
for a fast re-run (304-305) and are cleared by it (166); stop() leaves the pause
on display (useWorkflowActions.ts 102-106); the RUN button of the console calls
run(), which returns during a pause, though its title offers to resume
(ConsolePanel.tsx 80-83); an invalid port hovered on the way to a valid one still
raises the toast (App.tsx 167-174); and a server error for the vendor schema
empties the panel until a reconnect (PropertiesPanel.tsx 104-113).

### Fairness

`RunControl!Fairness` is weak fairness of the worker and of the loop's handler:
the operating system schedules both threads, and a node's handler is assumed to
return. Nothing is assumed of clients, so a held run may stay held:
`OnlyAHoldBlocks` says that this is the only way a run does not end. `StopEndsRun`
and `JoinReturns` are stated for a stop that came after `debug_.reset()`; for the
other see `RunControlStuckJoin` and `RunControlLostStop`. `WsClient!Fairness` is
weak fairness of the reconnect timer, of each call's timer and of the events of
each socket, all of which the browser delivers; the program owes no call, the
server no answer and nobody a reachable server: `ComesBack` asks for one that is
reachable for good. The other runs check safety and assume no fairness.

## Proofs

The eight `*Proofs` modules prove, for any set of nodes and any bounds, every
safety property the passing runs check on instances, action properties and the
three refinements included. They rest on the named assumptions of the modules:
`NodesAssumption` and `BoundsAssumption`; `GraphsAssumption` (every graph is
acyclic and its edges join declared ports); both `ClientAssumption`s (bounds are
numbers, and there are as many runs and epochs as messages, so that the server
never stops for a bound); `StoreAssumption` (a saved file's edges join its nodes,
and the history has room for two entries, as deleting a selection makes two: the
code keeps 50); `StampAssumption` (new objects never run out);
`EdgeAssumption`; `SchemaAssumption`. TLC evaluates them in the runs.

* `RunControl`. `IInv` is inductive. Its parts beyond types: `LoopInv` (no
  worker while `start()` creates one), `RunIdInv` (the session's, the
  executor's and the worker's ids agree except between BeginRun and Spawn: this
  is what makes the tag of an event right), `EpochInv`, `NodeInv`, `StatusInv`
  and `PauseInv` (the snapshot speaks of nodes the worker has visited).
  `EventsTagged`, `SnapshotCoherent` and `PauseCoherent` follow from it;
  `ResumeSafe` needs that no step takes an epoch back, and that the stop flag is
  only cleared in Reset, before any pause. `Implements` takes each action to the
  step of `RunService` it is, or to none.
* `GraphRun`. `VerdictStands` says of a node that ended well that it still has the
  inputs its handler requires, and of one that failed that it would fail still.
  `SkipIffUnreachable` is not inductive as it stands: it speaks of
  statuses, the code of `dead_ports_`. `DeadInv` ties the two together (a port of
  a visited node that delivers nothing is dead, and a port it wrote is not), `PortInv`
  says that only the one port a handler writes is ever written, `FailInv` ties
  `failed_nodes_` to statuses and attributions, `VisitInv` says that sources come
  first. A visit changes no verdict passed earlier because it writes only ports
  of a node that feeds no visited node (`VisitKeeps`, `HandleKeeps`,
  `VisitJudges`).
* `RunSync`. Its properties speak of a client with nothing on its way; `SyncInv`
  says of any state what the messages on their way will make of the client.
  `OrderInv` and `WaitInv`: calls are served and answered in the order of their
  ids, and the client still waits for the answers unless one timed out.
  `RunOrderInv`: replies name runs in their order and no message is of a run yet to
  come.
  `NamedInv` and `FreshInv`: either the client knows the present run by its id,
  or a reply or snapshot that names it comes before any event it would have to
  let through, so that its filter drops nothing but the past; what an outage or a
  lost reply takes is covered by the `workflow.state` the reconnect asked for.
  `CanvasInv` and `PauseShownInv`: the last message on its way that speaks of a
  node (or of the pause) tells what the executor knows, and if there is none the
  canvas shows it; a batch of deferred events, a snapshot taken in the middle of
  a run and the client's own reset when RUN is pressed each keep that.
  `CompletesInv`: over one connection the end of a run is on its way while the
  client believes in it. `BackendIsRunControl` projects the whole to
  `RunControl`, whose theorems, its refinement of `RunService` among them, thus
  hold with a client and a network around it (`WholeKeepsService`).
* `WsClient`. `CallInv` says that a call is pending, its timer set and its
  promise waiting at the same times, `AnswerInv` that an answer on its way was
  given and each call asked on one socket. From these, `Promise`: every step is
  one of `CallPromise`, the close of a socket rejecting any number of calls at
  once. `Connection` is inductive by itself.
* `CycleSearch`. `GrayInv` and `PathInv` make the stack a path of the gray nodes;
  `BackEdgeClosesRing` turns it and a back edge into a ring, hence `Marked`.
  `Warned` rests on `DoneInv`: while nothing is marked, edges out of black nodes
  lead to black nodes, so the node that turns black last has no black node
  before it, and no set of black nodes is what Kahn's algorithm leaves over. No
  finiteness is needed.
* `WorkflowStore`. `StoreInv` says of the canvas and of every snapshot that its
  edges join its nodes and that the counter has passed its ids; each write saves
  a graph that was good (`GoodRecord`), and undo and redo only exchange them.
  `ObjectInv` adds identities: no two snapshots share one, and none with the
  canvas. That is what makes the subscriber's test of a single node enough: after
  an undo the first node of the canvas is an object the old cache cannot hold
  (`StaleIsSeen`), which gives `CacheIsTrue`. A history that shared objects with
  the canvas would break it, and the mutant of `Partialize` does. For the
  refinement of `EditHistory`, `LineBack` and `LineForth` say that moving an entry
  from one stack to the other with the canvas in between leaves the line as it
  was, `RecordAdds` what a saved state does to it at the limit and below, and
  `StepKinds` sorts the steps into a write, a deletion, an undo or redo, and what
  leaves the graph alone. Two records of one deletion at the limit lose two
  versions, one below it lose one: `EditTwice`.
* `Inspector`, `Previews`, `VendorSchema`. In each the invariant says which
  answer may still be taken and that it is for what is on show: the call with
  the latest number is for what the effect last ran for; the call of the effect
  in force is for the present path; the one fetch on its way is of this epoch.
* `Previews`, besides: the file may be written while the client shows the node
  done, so the invariant of the hook rests on one about what is on its way.
  `OrderInv`: the runs named by what comes never go back, but that an event
  deferred before a run was named may be sent after its name. `SeenInv`: no run
  before `seen` is named any more, and the events of one are past or filtered.
  `DoneInv`: nothing says that the latest run is done with the node before it is.
  So a client that shows the node done, and has seen it at work in the latest run,
  shows it done in that run, and its file will not be written again
  (`MessageTaken`); a write under a thumbnail on show is of a run the client has
  not seen yet (`SaveKeepsHook`).
* `NodeClasses`, `NodeConfig`, `Connecting`. `ClassInv` says that the cache has an
  entry for every node, with the key and the class of what is so now; the key has
  all the class is computed from, so that an entry whose key is the same may stay
  (`RenderKeeps`). `ConfigInv` says that only what the fields of a type can set is
  set, also in what a closure that awaits a dialog will write. The rest is about
  the two tables: `ReadIsShown` goes type by type through what a handler reads and
  what the panel shows of it, `PortsAgree` through the ports; `ConnectInv` says
  that each edge is one of a connection the canvas found valid. The tables are
  those of the code and no parameter: what is general here is the set of nodes,
  the number of edits and the order of answers.

Only model-checked: what is stated under fairness (`OnlyAHoldBlocks`,
`StopEndsRun`, `JoinReturns`, `ComesBack`, `EveryCallSettles`), since the provers
have no rule for ENABLED; and the violations, which are counterexamples.

## Not modelled

Numerics of images, tensors and inference; the parser of model files; condition
expressions (a condition goes either way); wording, logs and their cap, toasts
and their timers; rendering and layout; path and origin checks (pure string
functions set up once); the error codes of the dispatcher; the list of errors
`validate_graph` builds; the desktop shell. In `RunSync`: several clients,
editing the graph or its breakpoints during a run, shutdown of the server. The
store and a run are composed only in what a run writes (`updateNodeStatus`): an
import during a run, after which events meet another graph, is not.

## Plan

Done: `RunControl`, `GraphRun`, `RunSync`, `WsClient`, `WorkflowStore` and the
panels, with the proofs above. What would be next:

1. `Validation`: `validate_graph` pass by pass with the steps of Kahn's algorithm
   and the errors it lists.
2. `RunSync` with `WorkflowStore` in place of its fixed graph: import, undo and
   breakpoints edited during a run.
3. The pure algorithms of the handlers: condition expressions, non-maximum
   suppression, top-k, the blob counts of a model.

Theorems to come: `RunSync`'s calls as those of `CallPromise`, so that the two
models of the client meet; the verdict of `GraphRun` as a refinement of a run that
knows only which nodes can be reached; and what the counterexamples show stated
positively (a stop that comes after `debug_.reset()` is observed).
