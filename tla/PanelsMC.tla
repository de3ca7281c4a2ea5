------------------------------ MODULE PanelsMC ------------------------------
(***************************************************************************)
(* The parts of the editor that share nothing but the store: each behaviour *)
(* exercises one of them, `part', while the others stay as they begin.  So *)
(* one run checks them all, without the product of their states.           *)
(***************************************************************************)
EXTENDS Inspector, NodeConfig, Previews, VendorSchema, Connecting, NodeClasses,
        CycleSearch, TLC

\* every edge there may be among the nodes, loops included
MCEdges == [source : GraphNodes, target : GraphNodes]

MCStyledTypes == {"inputImage", "debug", "unknown"}

\* nothing tells one file from another
FilesSymmetry == Permutations(Files)

VARIABLE part

Parts == {"inspector", "config", "previews", "schema", "connect", "style",
          "cycles"}

Init ==
  /\ part \in Parts
  /\ InspectorInit /\ (part # "inspector" => request = None)
  /\ NodeConfigInit
  /\ part # "config" => nodeKind = [n \in ConfigNodes |-> "debug"]
  /\ PreviewInit
  /\ part # "previews" => previewOf = "inputImage" /\ filePath = NoFile
  /\ SchemaInit
  /\ ConnectInit
  /\ part # "connect" => canvasType = [n \in CanvasNodes |-> "debug"]
  /\ StyleInit
  /\ SearchInit /\ (part # "cycles" => graph = {})

Next ==
  \/ /\ part = "inspector" /\ InspectorNext
     /\ UNCHANGED <<part, configVars, previewVars, schemaVars, connectVars,
                    styleVars, searchVars>>
  \/ /\ part = "config" /\ NodeConfigNext
     /\ UNCHANGED <<part, inspectorVars, previewVars, schemaVars, connectVars,
                    styleVars, searchVars>>
  \/ /\ part = "previews" /\ PreviewNext
     /\ UNCHANGED <<part, inspectorVars, configVars, schemaVars, connectVars,
                    styleVars, searchVars>>
  \/ /\ part = "schema" /\ SchemaNext
     /\ UNCHANGED <<part, inspectorVars, configVars, previewVars, connectVars,
                    styleVars, searchVars>>
  \/ /\ part = "connect" /\ ConnectNext
     /\ UNCHANGED <<part, inspectorVars, configVars, previewVars, schemaVars,
                    styleVars, searchVars>>
  \/ /\ part = "style" /\ StyleNext
     /\ UNCHANGED <<part, inspectorVars, configVars, previewVars, schemaVars,
                    connectVars, searchVars>>
  \/ /\ part = "cycles" /\ SearchNext
     /\ UNCHANGED <<part, inspectorVars, configVars, previewVars, schemaVars,
                    connectVars, styleVars>>

vars == <<part, inspectorVars, configVars, previewVars, schemaVars,
          connectVars, styleVars, searchVars>>

Spec == Init /\ [][Next]_vars
=============================================================================
