------------------------------ MODULE Handlers ------------------------------
(***************************************************************************)
(* What the server's node handlers expect of a graph: the ports each type  *)
(* of node has, and the keys of a node's configuration its handler reads.  *)
(* A configuration is a function from the keys it has to their values.     *)
(***************************************************************************)
HandlerPort(id, direction, type) ==
  [id |-> id, direction |-> direction, dataType |-> type]

Takes(id, type) == HandlerPort(id, "target", type)
Gives(id, type) == HandlerPort(id, "source", type)

InputPortDefs ==
  [inputImage  |-> {Gives("image_data", "image")},
   inputTensor |-> {Gives("tensor_data", "tensor")}]

InferencePortDefs ==
  [createNet   |-> {Gives("net_handle", "net")},
   inference   |-> {Takes("net_handle", "net"), Takes("input_data", "tensor"),
                    Gives("output_data", "tensor")},
   benchmark   |-> {Takes("net_handle", "net"), Takes("input_data", "tensor"),
                    Gives("benchmark_result", "generic")},
   postprocess |-> {Takes("input_data", "tensor"),
                    Gives("output_data", "tensor")}]

OutputPortDefs ==
  [saveText         |-> {Takes("data", "generic")},
   saveImage        |-> {Takes("image_data", "image")},
   output           |-> {Takes("data", "generic")},
   debug            |-> {Takes("data_in", "generic"),
                         Gives("data_out", "generic")}]

ImagePortDefs ==
  [tensorToImage    |-> {Takes("input_data", "tensor"),
                         Takes("original_image", "image"),
                         Gives("image_data", "image")},
   annotateImage    |-> {Takes("image_data", "image"),
                         Takes("topk_data", "tensor"),
                         Gives("output_data", "image")},
   drawBoxes        |-> {Takes("image_data", "image"),
                         Takes("boxes_data", "tensor"),
                         Gives("output_data", "image")},
   segmentationMask |-> {Takes("input_data", "tensor"),
                         Gives("mask_data", "image")},
   composite        |-> {Takes("foreground", "image"),
                         Takes("background", "image"),
                         Gives("output_data", "image")}]

ConditionPortDefs ==
  {Takes("input_data", "tensor"), Gives("true_branch", "branch"),
   Gives("false_branch", "branch")}

port_defs(t) ==
  CASE t \in DOMAIN InputPortDefs     -> InputPortDefs[t]
    [] t \in DOMAIN InferencePortDefs -> InferencePortDefs[t]
    [] t \in DOMAIN OutputPortDefs    -> OutputPortDefs[t]
    [] t \in DOMAIN ImagePortDefs     -> ImagePortDefs[t]
    [] t = "condition"                -> ConditionPortDefs

-----------------------------------------------------------------------------
(* Configurations.                                                         *)

get_config(c, k) == IF k \in DOMAIN c THEN c[k] ELSE ""

OrDefault(value, default) == IF value = "" THEN default ELSE value

op(c)        == OrDefault(get_config(c, "op"), "nms")
fillMode(c)  == IF get_config(c, "fillMode") = "auto" THEN "auto" ELSE "manual"
colormap(c)  == OrDefault(get_config(c, "colormap"), "viridis")
normalize(c) == OrDefault(get_config(c, "normalize"), "auto")
normalizedCoords(c) == get_config(c, "normalizedCoords") \in {"true", "1"}
emptyWeights(c)     == get_config(c, "emptyWeights") \in {"true", "1"}

NetKeys ==
  {"modelPath", "paramPath", "inputName", "outputName", "numThreads",
   "inputW", "inputH", "inputC", "emptyWeights"}

\* the keys a handler reads that always reads the same ones
PlainKeys ==
  [inputImage       |-> {"filePath"},
   saveText         |-> {"filePath"},
   saveImage        |-> {"filePath"},
   benchmark        |-> {"duration"},
   annotateImage    |-> {"maxLines", "fontScale", "labelsPath"},
   drawBoxes        |-> {"confidenceThreshold", "lineWidth", "fontScale",
                         "maxBoxes", "normalizedCoords", "labelsPath"},
   segmentationMask |-> {"width", "height"},
   composite        |-> {"opacity"},
   condition        |-> {"expression"},
   createNet        |-> NetKeys,
   inference        |-> {}, output |-> {}, debug |-> {}]

InputTensorKeys(c) ==
  {"fillMode"} \union (IF fillMode(c) = "auto" THEN {"shape", "fillValue"}
                                               ELSE {"tensorText"})

PostprocessKeys(c) ==
  {"op"} \union (CASE op(c) = "nms"  -> {"iouThreshold"}
                   [] op(c) = "topk" -> {"k"}
                   [] OTHER          -> {})

\* the size is read unless an original image comes in and gives it
TensorToImageKeys(overlay) ==
  {"overlayOpacity", "colormap", "normalize"}
    \union (IF overlay THEN {} ELSE {"width", "height"})

Reads(t, c, overlay) ==
  CASE t = "inputTensor"   -> InputTensorKeys(c)
    [] t = "postprocess"   -> PostprocessKeys(c)
    [] t = "tensorToImage" -> TensorToImageKeys(overlay)
    [] OTHER               -> PlainKeys[t]

\* what a handler makes of a key it reads; for a number or a text that is not
\* set it has a value of its own
Uses(t, c, k) ==
  CASE t = "inputTensor" /\ k = "fillMode"       -> fillMode(c)
    [] t = "postprocess" /\ k = "op"             -> op(c)
    [] t = "tensorToImage" /\ k = "colormap"     -> colormap(c)
    [] t = "tensorToImage" /\ k = "normalize"    -> normalize(c)
    [] t = "drawBoxes" /\ k = "normalizedCoords" ->
         IF normalizedCoords(c) THEN "true" ELSE "false"
    [] t = "createNet" /\ k = "emptyWeights"     ->
         IF emptyWeights(c) THEN "true" ELSE "false"
    [] OTHER -> get_config(c, k)
=============================================================================
