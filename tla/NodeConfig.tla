----------------------------- MODULE NodeConfig -----------------------------
(***************************************************************************)
(* The properties panel as an editor of configurations, and what a run     *)
(* makes of them.                                                          *)
(*                                                                         *)
(* The panel edits the node that is selected, with two exceptions: Browse  *)
(* opens a file dialog and goes on when that is answered, by when another  *)
(* node may be selected and the configuration edited.  handleConfigChange  *)
(* of the render the button was pressed in is what it then calls: it knows *)
(* that render's node and configuration.                                   *)
(*                                                                         *)
(* A new node has an empty configuration.  Those of files written by hand  *)
(* are left out, and so are undo and redo, which WorkflowStore models.     *)
(***************************************************************************)
EXTENDS Manifest, Handlers, Naturals, FiniteSets

CONSTANTS
  ConfigNodes,
  NotSelected,
  MaxKeys,     \* bound: values configurations hold in all
  MaxDialogs   \* bound: file dialogs open at a time

VARIABLES
  nodeKind,      \* the type of each node
  config,
  panelNode,     \* the node that is selected
  dialogs        \* open file dialogs, with the closure that awaits each

configVars == <<nodeKind, config, panelNode, dialogs>>

\* bound: the nodes are of one type
NodeConfigInit ==
  /\ \E t \in ManifestTypes : nodeKind = [n \in ConfigNodes |-> t]
  /\ config = [n \in ConfigNodes |-> [k \in {} |-> ""]]
  /\ panelNode = NotSelected
  /\ dialogs = {}

-----------------------------------------------------------------------------
(* What is shown.                                                          *)

\* config_schema of NcnnEngine
VendorFields ==
  [paramPath |-> Path, modelPath |-> Path, inputName |-> Text,
   outputName |-> Text, numThreads |-> Number, inputW |-> Number,
   inputH |-> Number, inputC |-> Number,
   emptyWeights |-> Field("bool", "false", {}, Always)]

\* FallbackNcnnConfig, while there is no schema
FallbackFields ==
  [paramPath |-> Path, modelPath |-> Path,
   emptyWeights |-> Field("bool", "false", {}, Always),
   inputName |-> Text, outputName |-> Text,
   inputW |-> Text, inputH |-> Text, inputC |-> Text, numThreads |-> Text]

\* MUTANT of showIf: the predicate knows no default
showIf_strict(c, when) == when = Always \/ get_config(c, when.key) = when.is

showIf(c, when) ==
  \/ when = Always
  \/ (IF when.key \in DOMAIN c THEN c[when.key] ELSE when.default) = when.is

\* SchemaSection
VisibleFields(c, fields) ==
  [k \in {k \in DOMAIN fields : showIf(c, fields[k].showIf)} |-> fields[k]]

\* GenericConfigEditor
GenericFields(c) == [k \in DOMAIN c |-> Text]

\* PropertiesContent; whether there is a schema is up to VendorSchema
PanelFields(t, c, hasSchema) ==
  LET entry == NODE_MANIFEST[t] IN
  CASE entry.vendorSchema /\ hasSchema  -> VendorFields
    [] entry.vendorSchema /\ ~hasSchema -> FallbackFields
    [] ~entry.vendorSchema /\ entry.configFields # NoFields ->
         VisibleFields(c, entry.configFields)
    [] OTHER -> GenericFields(c)

\* FieldRenderer, VendorField: the value of a control
Displayed(c, k, field) ==
  IF k \in DOMAIN c THEN c[k] ELSE field.defaultValue

-----------------------------------------------------------------------------
(* What the user does.                                                     *)

KeysHeld(cs) == Cardinality({nk \in ConfigNodes \X UNION {DOMAIN cs[n] :
                                                   n \in ConfigNodes} :
                             nk[2] \in DOMAIN cs[nk[1]]})

With(c, k, v) ==
  [j \in DOMAIN c \union {k} |-> IF j = k THEN v ELSE c[j]]

\* what can be put in a control
Inputs(field) ==
  CASE field.kind = "select" -> field.options
    [] field.kind = "bool"   -> {"true", "false"}
    [] OTHER                 -> {"", "typed"}

SelectPanelNode(n) ==
  /\ panelNode' = n
  /\ UNCHANGED <<nodeKind, config, dialogs>>

\* MUTANT of handleConfigChange: it edits the node that is selected by now
handleConfigChange_now(n, c, k, v) ==
  config' = IF panelNode = NotSelected THEN config
            ELSE [config EXCEPT ![panelNode] = With(c, k, v)]

\* of the render of node n with configuration c
handleConfigChange(n, c, k, v) ==
  config' = [config EXCEPT ![n] = With(c, k, v)]

Edit(k, field) ==
  /\ \E v \in Inputs(field) :
       handleConfigChange(panelNode, config[panelNode], k, v)
  /\ KeysHeld(config') <= MaxKeys
  /\ UNCHANGED <<nodeKind, panelNode, dialogs>>

Browse(k, field) ==
  /\ Cardinality(dialogs) < MaxDialogs
  /\ field.kind = "filepath"
  /\ dialogs' = dialogs \union
       {[node |-> panelNode, config |-> config[panelNode], key |-> k]}
  /\ UNCHANGED <<nodeKind, config, panelNode>>

\* a path is picked, or the dialog given up
Picked(d, path) ==
  /\ dialogs' = dialogs \ {d}
  /\ IF path = "" THEN UNCHANGED config
     ELSE handleConfigChange(d.node, d.config, d.key, path)
  /\ KeysHeld(config') <= MaxKeys
  /\ UNCHANGED <<nodeKind, panelNode>>

UsePanel ==
  /\ panelNode # NotSelected
  /\ \E hasSchema \in BOOLEAN :
       LET fields == PanelFields(nodeKind[panelNode], config[panelNode],
                                 hasSchema) IN
       \E k \in DOMAIN fields : Edit(k, fields[k]) \/ Browse(k, fields[k])

NodeConfigNext ==
  \/ \E n \in ConfigNodes \union {NotSelected} : SelectPanelNode(n)
  \/ UsePanel
  \/ \E d \in dialogs, path \in {"", "picked"} : Picked(d, path)

NodeConfigSpec == NodeConfigInit /\ [][NodeConfigNext]_configVars

-----------------------------------------------------------------------------
(* Properties.                                                             *)

(* Every key the handler of a node would read in a run, with an image      *)
(* coming in or not, is on show while the node is selected, with the value *)
(* the handler would use: no setting is at work that the panel hides, and  *)
(* none is at work other than it is shown.  The two tables are kept in     *)
(* step by hand.  What is never set is "" on both sides; a setting that is  *)
(* shown may go unread.  (manifest.tsx, core_handlers.cpp)                 *)
UsedIsShown ==
  \A n \in ConfigNodes, overlay, hasSchema \in BOOLEAN :
    LET c == config[n]
        fields == PanelFields(nodeKind[n], c, hasSchema) IN
    \A k \in Reads(nodeKind[n], c, overlay) :
      k \in DOMAIN fields
        /\ Displayed(c, k, fields[k]) = Uses(nodeKind[n], c, k)

(* An edit changes the node the panel shows; the answer to a file dialog   *)
(* only the node whose Browse was pressed, whichever is selected by then.  *)
(* (PropertiesPanel.tsx 235-237, 582-587)                                  *)
PickLandsOnItsNode ==
  [][\A n \in ConfigNodes :
       config'[n] # config[n] =>
         IF dialogs' = dialogs THEN n = panelNode
                               ELSE \E d \in dialogs \ dialogs' : d.node = n
    ]_configVars
=============================================================================
