------------------------------ MODULE Manifest ------------------------------
(***************************************************************************)
(* NODE_MANIFEST: for each type of node its category, the ports its card   *)
(* has on the canvas and the fields of its configuration.  The canvas, the *)
(* palette and the properties panel are all driven by this table; the      *)
(* server has a table of its own (Handlers).                               *)
(*                                                                         *)
(* Of a field, what it shows while the configuration has no value for it   *)
(* and when it is shown at all; not its label, hint, step and limits.      *)
(***************************************************************************)
In(id, type)  == [id |-> id, direction |-> "target", dataType |-> type]
Out(id, type) == [id |-> id, direction |-> "source", dataType |-> type]

\* showIf compares the value of a key, or the default the predicate gives it
Always == [key |-> "", default |-> "", is |-> ""]
When(key, default, is) == [key |-> key, default |-> default, is |-> is]

Field(kind, default, options, showIf) ==
  [kind |-> kind, defaultValue |-> default, options |-> options,
   showIf |-> showIf]

Text   == Field("text", "", {}, Always)
Number == Field("number", "", {}, Always)
Path   == Field("filepath", "", {}, Always)
Select(default, options) == Field("select", default, options, Always)
Shown(field, showIf) ==
  Field(field.kind, field.defaultValue, field.options, showIf)

NoFields == [k \in {} |-> Text]

Entry(category, ports, fields) ==
  [category |-> category, ports |-> ports, configFields |-> fields,
   vendorSchema |-> FALSE]

\* of a node that is configured by the schema of its engine
VendorEntry(category, ports) ==
  [category |-> category, ports |-> ports, configFields |-> NoFields,
   vendorSchema |-> TRUE]

PathField == [filePath |-> Path]

InputTensorFields ==
  [fillMode   |-> Select("manual", {"manual", "auto"}),
   tensorText |-> Shown(Text, When("fillMode", "manual", "manual")),
   shape      |-> Shown(Text, When("fillMode", "", "auto")),
   fillValue  |-> Shown(Number, When("fillMode", "", "auto"))]

BenchmarkFields == [duration |-> Number]

PostprocessFields ==
  [op           |-> Select("nms", {"nms", "topk"}),
   iouThreshold |-> Shown(Number, When("op", "nms", "nms")),
   k            |-> Shown(Number, When("op", "", "topk"))]

TensorToImageFields ==
  [width          |-> Shown(Number, When("original_image", "", "")),
   height         |-> Shown(Number, When("original_image", "", "")),
   colormap       |-> Select("viridis", {"viridis", "gray"}),
   normalize      |-> Select("auto", {"auto", "none"}),
   overlayOpacity |-> Number]

AnnotateImageFields ==
  [labelsPath |-> Path, maxLines |-> Number, fontScale |-> Number]

DrawBoxesFields ==
  [confidenceThreshold |-> Number, lineWidth |-> Number,
   fontScale |-> Number, maxBoxes |-> Number,
   normalizedCoords |-> Select("false", {"false", "true"}),
   labelsPath |-> Path]

MaskFields == [width |-> Number, height |-> Number]

CompositeFields == [opacity |-> Number]

ConditionFields == [expression |-> Text]

-----------------------------------------------------------------------------
InputNodes ==
  [inputImage  |-> Entry("input", {Out("image_data", "image")}, PathField),
   inputTensor |-> Entry("input", {Out("tensor_data", "tensor")},
                         InputTensorFields)]

InferenceNodes ==
  [createNet |-> VendorEntry("inference", {Out("net_handle", "net")}),
   inference |-> Entry("inference",
     {In("net_handle", "net"), In("input_data", "tensor"),
      Out("output_data", "tensor")}, NoFields),
   benchmark |-> Entry("inference",
     {In("net_handle", "net"), In("input_data", "tensor"),
      Out("benchmark_result", "generic")}, BenchmarkFields),
   postprocess |-> Entry("inference",
     {In("input_data", "tensor"), Out("output_data", "tensor")},
     PostprocessFields)]

SaveNodes ==
  [saveText  |-> Entry("output", {In("data", "generic")}, PathField),
   saveImage |-> Entry("output", {In("image_data", "image")}, PathField)]

RenderNodes ==
  [tensorToImage |-> Entry("output",
     {In("input_data", "tensor"), In("original_image", "image"),
      Out("image_data", "image")}, TensorToImageFields),
   annotateImage |-> Entry("output",
     {In("image_data", "image"), In("topk_data", "tensor"),
      Out("output_data", "image")}, AnnotateImageFields)]

DrawNodes ==
  [drawBoxes |-> Entry("output",
     {In("image_data", "image"), In("boxes_data", "tensor"),
      Out("output_data", "image")}, DrawBoxesFields),
   segmentationMask |-> Entry("output",
     {In("input_data", "tensor"), Out("mask_data", "image")}, MaskFields),
   composite |-> Entry("output",
     {In("foreground", "image"), In("background", "image"),
      Out("output_data", "image")}, CompositeFields)]

ControlNodes ==
  [condition |-> Entry("control",
     {In("input_data", "tensor"), Out("true_branch", "branch"),
      Out("false_branch", "branch")}, ConditionFields),
   output |-> Entry("output", {In("data", "generic")}, NoFields),
   debug  |-> Entry("debug",
     {In("data_in", "generic"), Out("data_out", "generic")}, NoFields)]

Tables ==
  {InputNodes, InferenceNodes, SaveNodes, RenderNodes, DrawNodes, ControlNodes}

ManifestTypes == UNION {DOMAIN table : table \in Tables}

NODE_MANIFEST ==
  [t \in ManifestTypes |->
     CASE t \in DOMAIN InputNodes     -> InputNodes[t]
       [] t \in DOMAIN InferenceNodes -> InferenceNodes[t]
       [] t \in DOMAIN SaveNodes      -> SaveNodes[t]
       [] t \in DOMAIN RenderNodes    -> RenderNodes[t]
       [] t \in DOMAIN DrawNodes      -> DrawNodes[t]
       [] t \in DOMAIN ControlNodes   -> ControlNodes[t]]
=============================================================================
