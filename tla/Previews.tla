------------------------------ MODULE Previews ------------------------------
(***************************************************************************)
(* Thumbnails: the hook useImagePreview, as the properties panel and the   *)
(* input node use it.                                                      *)
(*                                                                         *)
(* The hook waits for the path to settle, asks the server for the image    *)
(* and shows what comes back.  When the path or `enabled' changes, React   *)
(* runs the effect's cleanup and the effect: what an earlier effect asked  *)
(* for is then ignored, though it cannot be called back.  The change comes *)
(* from a zustand store: React renders it, and runs the effects, before    *)
(* the next event.                                                         *)
(*                                                                         *)
(* A worker writes the file the save node names while the client still     *)
(* waits for the event that says so; of what the worker broadcasts an      *)
(* outage loses some, and the rest may be of a run the client no longer    *)
(* looks at (RunSync has the whole of this, Previews what it makes of one  *)
(* node; no other node writes its files).  The server reads a file when it *)
(* is asked, and its answers come in any order (WsClient: every call is    *)
(* settled).                                                               *)
(***************************************************************************)
EXTENDS Naturals, Sequences

CONSTANTS
  Files,      \* paths of images
  NoFile,     \* no path, or no thumbnail
  MaxEffects, \* bound: times the effect runs
  MaxRuns,    \* bound: runs
  MaxOutages  \* bound: connections lost

VARIABLES
  \* the client: the kind of node, "inputImage" or "saveImage", what is set and
  \* shown of it, WorkflowRunner's currentRunId (0 for null)
  previewOf, filePath, status, currentRunId,
  seen,        \* history: the run that last showed it otherwise than done
  \* the server: of each file the run that wrote it last, the runs started,
  \* how far the worker is with the node, the node's entry in node_statuses_
  onDisk, runs, worker, entry,
  \* between them: outages so far, whether workflow.state is to be answered,
  \* events deferred to the loop, messages to the client
  outages, asked, broadcasts, incoming,
  effect,      \* the effect in force, and what it was run with
  debounce,    \* debounceRef: the path the timer will ask for
  resetDue,    \* the timer that clears the state is set
  previewCalls,
  preview, loading, previewError

nodeVars == <<previewOf, filePath, status, currentRunId, seen>>
serverVars == <<onDisk, runs, worker, entry>>
linkVars == <<outages, asked, broadcasts, incoming>>
hookVars == <<effect, debounce, resetDue, previewCalls, preview, loading,
              previewError>>
previewVars == <<nodeVars, serverVars, linkVars, hookVars>>

NoImage == [file |-> NoFile, run |-> 0]

\* PropertiesImagePreview
Enabled == previewOf = "inputImage" \/ status = "done"

\* what the effect depends on
Deps == [path |-> filePath, enabled |-> Enabled]

\* the panel is opened on a node no run has come to; its effect has run
PreviewInit ==
  /\ previewOf \in {"inputImage", "saveImage"}
  /\ filePath \in Files \union {NoFile}
  /\ status = "idle" /\ currentRunId = 0 /\ seen = 0
  /\ onDisk = [f \in Files |-> 0]
  /\ runs = 0 /\ worker = "ended" /\ entry = "none"
  /\ outages = 0 /\ asked = FALSE
  /\ broadcasts = <<>> /\ incoming = <<>>
  /\ effect = [no |-> 0, deps |-> Deps]
  /\ debounce = (IF Enabled THEN filePath ELSE NoFile)
  /\ resetDue = (debounce = NoFile)
  /\ previewCalls = {}
  /\ preview = NoImage /\ loading = FALSE /\ previewError = FALSE

-----------------------------------------------------------------------------
(* The server: a run goes over the node.  Nothing of an input image        *)
(* depends on that.                                                        *)

Message(type, r, s) == [type |-> type, run |-> r, status |-> s]

\* a reply, or what was deferred
Transmit(m) == incoming' = Append(incoming, m)

\* RunSession::start(): the worker before is joined, the reply goes out; no
\* status is touched on the client's side
RunStarts ==
  /\ previewOf = "saveImage"
  /\ runs < MaxRuns
  /\ worker \in {"away", "ended"}
  /\ runs' = runs + 1 /\ worker' = "away" /\ entry' = "none"
  /\ Transmit(Message("started", runs', "none"))
  /\ UNCHANGED <<nodeVars, onDisk, outages, asked, broadcasts, hookVars>>

\* notify_status()
Notify(s) ==
  /\ entry' = s
  /\ broadcasts' = Append(broadcasts, Message("status", runs, s))
  /\ UNCHANGED <<nodeVars, onDisk, runs, outages, asked, incoming, hookVars>>

\* the run comes to the node: skips it, or runs its handler
NodeSkipped == worker = "away" /\ worker' = "ended" /\ Notify("skipped")
NodeRuns    == worker = "away" /\ worker' = "running" /\ Notify("running")

\* the handler writes where the run was started to, by now perhaps edited
NodeSaves ==
  /\ worker = "running"
  /\ worker' = "saved"
  /\ \E f \in Files : onDisk' = [onDisk EXCEPT ![f] = runs]
  /\ UNCHANGED <<nodeVars, runs, entry, linkVars, hookVars>>

NodeEnds(s) ==
  /\ worker \in IF s = "done" THEN {"saved"} ELSE {"running", "saved"}
  /\ worker' = "ended"
  /\ Notify(s)

\* a stop seen after the handler: the status is not sent
NodeSuppressed ==
  /\ worker \in {"running", "saved"}
  /\ worker' = "ended"
  /\ UNCHANGED <<nodeVars, onDisk, runs, entry, linkVars, hookVars>>

-----------------------------------------------------------------------------
(* The connection.                                                         *)

PublishEvent ==
  /\ broadcasts # <<>>
  /\ broadcasts' = Tail(broadcasts)
  /\ Transmit(Head(broadcasts))
  /\ UNCHANGED <<nodeVars, serverVars, outages, asked, hookVars>>

\* the socket closes and opens again.  What was sent to it or published in
\* between is gone; reconcileFromSnapshot() asks for workflow.state.  The
\* outage is told from its end: until then nothing reaches the client.
Reconnects ==
  /\ outages < MaxOutages
  /\ outages' = outages + 1
  /\ incoming' = <<>>
  /\ \E k \in 0..Len(broadcasts) :
       broadcasts' = SubSeq(broadcasts, k + 1, Len(broadcasts))
  /\ asked' = TRUE
  /\ UNCHANGED <<nodeVars, serverVars, hookVars>>

AnswersState ==
  /\ asked /\ asked' = FALSE
  /\ Transmit(Message("snapshot", runs, entry))
  /\ UNCHANGED <<nodeVars, serverVars, outages, broadcasts, hookVars>>

-----------------------------------------------------------------------------
(* The client: the path is edited, a message is taken in.                  *)

\* when what the effect depends on has changed: the cleanup of the effect in
\* force, and the effect
PreviewEffect ==
  IF Deps' = effect.deps
  THEN UNCHANGED hookVars
  ELSE /\ effect.no < MaxEffects
       /\ effect' = [no |-> effect.no + 1, deps |-> Deps']
       /\ IF Enabled' /\ filePath' # NoFile
          THEN debounce' = filePath' /\ resetDue' = FALSE
          ELSE debounce' = NoFile /\ resetDue' = TRUE
       /\ UNCHANGED <<previewCalls, preview, loading, previewError>>

EditPath(f) ==
  /\ f # filePath
  /\ filePath' = f
  /\ UNCHANGED <<previewOf, status, currentRunId, seen, serverVars, linkVars>>
  /\ PreviewEffect

\* what the panel reads: the status in the store
updateNodeStatus(m) ==
  /\ status' = m.status
  /\ seen' = IF m.status = "done" THEN seen ELSE m.run

\* an event, if it is of the run the client knows; a reply, unless the client
\* gave up on it (its call timed out)
TakesIn ==
  /\ incoming # <<>>
  /\ incoming' = Tail(incoming)
  /\ LET m == Head(incoming) IN
       \/ /\ m.type = "status"
          /\ IF currentRunId \in {0, m.run}
             THEN updateNodeStatus(m)
             ELSE UNCHANGED <<status, seen>>
          /\ UNCHANGED currentRunId
       \/ /\ m.type # "status"
          /\ currentRunId' = m.run
          /\ IF m.status = "none"
             THEN UNCHANGED <<status, seen>>
             ELSE updateNodeStatus(m)
       \/ m.type # "status" /\ UNCHANGED <<status, seen, currentRunId>>
  /\ UNCHANGED <<previewOf, filePath, serverVars, outages, asked, broadcasts>>
  /\ PreviewEffect

-----------------------------------------------------------------------------
(* The hook.                                                               *)

ResetTimer ==
  /\ resetDue
  /\ resetDue' = FALSE
  /\ preview' = NoImage /\ previewError' = FALSE /\ loading' = FALSE
  /\ UNCHANGED <<nodeVars, serverVars, linkVars, effect, debounce, previewCalls>>

DebounceTimer ==
  /\ debounce # NoFile
  /\ debounce' = NoFile
  /\ loading' = TRUE /\ previewError' = FALSE
  /\ previewCalls' = previewCalls \union
       {[effect |-> effect.no, file |-> debounce, read |-> FALSE, run |-> 0]}
  /\ UNCHANGED <<nodeVars, serverVars, linkVars, effect, resetDue, preview>>

\* the server reads the file
ServerReads(c) ==
  /\ ~c.read
  /\ previewCalls' = (previewCalls \ {c}) \union
       {[c EXCEPT !.read = TRUE, !.run = onDisk[c.file]]}
  /\ UNCHANGED <<nodeVars, serverVars, linkVars, effect, debounce, resetDue,
                 preview, loading, previewError>>

\* MUTANT of Cancelled: the cleanup cancels the timer and no call
Cancelled_not(c) == c.effect > effect.no

Cancelled(c) == c.effect # effect.no

\* then, catch and finally
PreviewAnswer(c, ok) ==
  /\ ok => c.read
  /\ previewCalls' = previewCalls \ {c}
  /\ IF Cancelled(c)
     THEN UNCHANGED <<preview, loading, previewError>>
     ELSE /\ preview' = IF ok THEN [file |-> c.file, run |-> c.run] ELSE NoImage
          /\ previewError' = ~ok
          /\ loading' = FALSE
  /\ UNCHANGED <<nodeVars, serverVars, linkVars, effect, debounce, resetDue>>

Server ==
  \/ RunStarts \/ NodeSkipped \/ NodeRuns \/ NodeSaves
  \/ (\E s \in {"done", "error"} : NodeEnds(s))
  \/ NodeSuppressed

Connection == PublishEvent \/ Reconnects \/ AnswersState

PreviewNext ==
  \/ Server \/ Connection
  \/ (\E f \in Files \union {NoFile} : EditPath(f)) \/ TakesIn
  \/ ResetTimer \/ DebounceTimer
  \/ \E c \in previewCalls :
       ServerReads(c) \/ (\E ok \in BOOLEAN : PreviewAnswer(c, ok))

PreviewSpec == PreviewInit /\ [][PreviewNext]_previewVars

-----------------------------------------------------------------------------
(* Properties.                                                             *)

\* nothing is due: no timer is set, no call of this effect is on its way
PreviewAtRest ==
  /\ debounce = NoFile /\ ~resetDue
  /\ \A c \in previewCalls : c.effect # effect.no

(* At rest there is no spinner, and the thumbnail is of the node's path: a *)
(* slower answer for an earlier path never replaces it, and with no path,  *)
(* or before the image is saved, there is none.  A saved image is shown as *)
(* the last run to write it left it, if the client has seen the node other *)
(* than done in that run: whatever events an outage or the filter took and *)
(* however early the file was written, seeing the node run and then done   *)
(* is enough.  (useImagePreview.ts 39-79, PropertiesPanel.tsx 378-386,     *)
(* executor.cpp 286-308)                                                   *)
PreviewIsOfThePath ==
  PreviewAtRest =>
    /\ ~loading
    /\ IF Enabled /\ filePath # NoFile
       THEN \/ previewError /\ preview = NoImage
            \/ /\ ~previewError /\ preview.file = filePath
               /\ previewOf = "saveImage" /\ seen >= onDisk[filePath]
                    => preview.run = onDisk[filePath]
       ELSE preview = NoImage /\ ~previewError

\* everything sent has arrived, and no worker is going
ServerAtRest ==
  /\ ~asked /\ broadcasts = <<>> /\ incoming = <<>>
  /\ worker = "ended"

(* PropertiesPanel.tsx 378-383: before a run has saved the image, the file *)
(* of an earlier run is stale and showing it would be misleading.          *)
SavedIsOnDisk ==
  /\ PreviewAtRest /\ ServerAtRest
  /\ previewOf = "saveImage" /\ preview # NoImage
  => preview.run = onDisk[preview.file]
=============================================================================
