---------------------------- MODULE PanelsProofs ----------------------------
(***************************************************************************)
(* Proofs about the parts of the editor that share nothing but the store:  *)
(* the inspector's drawer, the vendor's schema, the styling of nodes, the  *)
(* panel that edits configurations and the canvas on which edges are       *)
(* drawn.  Each is proved of its own specification, for any values of its  *)
(* constants.  (The thumbnails are in PreviewsProofs.)                     *)
(***************************************************************************)
EXTENDS Inspector, NodeConfig, VendorSchema, Connecting, NodeClasses, TLAPS

-----------------------------------------------------------------------------
(* Inspector: an open drawer at rest shows the model of the selected node. *)

\* each call has a number of its own, up to that of the latest
CallsInv ==
  /\ inspectSeq \in Nat
  /\ \A c \in inspectCalls : c.seq \in 0..inspectSeq
  /\ \A c, d \in inspectCalls : c.seq = d.seq => c = d

Shows(r) ==
  \/ inspectError # NoError /\ inspectError.of = r
  \/ inspectError = NoError /\ inspectGraph = r

\* the call that may still be taken is for what the effect last ran for, and
\* until it is answered there is no error
DrawerInv ==
  /\ \A c \in inspectCalls : c.seq = inspectSeq => inspectLoading
  /\ inspectLoading => inspectError = NoError
  /\ ranFor.open /\ ranFor.request # None =>
       /\ \A c \in inspectCalls : c.seq = inspectSeq => c.of = ranFor.request
       /\ inspectLoading \/ Shows(ranFor.request)

InspectorInv == CallsInv /\ DrawerInv

(* A drawer that is not open has asked for nothing. *)
LEMMA InspectorInitInv == InspectorInit => InspectorInv
  BY DEF InspectorInit, InspectorInv, CallsInv, DrawerInv, Rendered

(* Every step keeps the invariant. *)
LEMMA InspectorStep ==
  InspectorInv /\ [InspectorNext]_inspectorVars => InspectorInv'
<1> SUFFICES ASSUME InspectorInv, [InspectorNext]_inspectorVars
             PROVE  InspectorInv'
  OBVIOUS
<1>0. CallsInv /\ DrawerInv
  BY DEF InspectorInv
<1>1. ASSUME UNCHANGED <<ranFor, inspectSeq, inspectCalls, inspectGraph,
                         inspectLoading, inspectError>>
      PROVE  InspectorInv'
  BY <1>0, <1>1 DEF InspectorInv, CallsInv, DrawerInv, Shows
<1>2. ASSUME NEW r, AskFor(r) PROVE InspectorInv'
  BY <1>1, <1>2 DEF AskFor
<1>3. ASSUME NEW l, SelectLayer(l) PROVE InspectorInv'
  BY <1>1, <1>3 DEF SelectLayer
<1>4. CASE OpenInspector \/ CloseInspector
  BY <1>1, <1>4 DEF OpenInspector, CloseInspector
<1>5. CASE UnmountInspector
  BY <1>5 DEF UnmountInspector, InspectorInv, CallsInv, DrawerInv
<1>6. CASE DrawerEffect
  <2>1. CASE inspectorOpen /\ request # None /\ inspect(request)
    <3>1. /\ inspectSeq' = inspectSeq + 1
          /\ inspectCalls' = inspectCalls \union
               {[seq |-> inspectSeq + 1, of |-> request]}
          /\ inspectLoading' /\ inspectError' = NoError
          /\ ranFor' = [open |-> inspectorOpen, request |-> request]
      BY <1>6, <2>1 DEF DrawerEffect, inspect, Rendered
    <3>2. \A c \in inspectCalls : c.seq # inspectSeq + 1
      BY <1>0 DEF CallsInv
    <3>3. CallsInv'
      <4>1. inspectSeq' \in Nat /\ \A c \in inspectCalls' : c.seq \in 0..inspectSeq'
        BY <1>0, <3>1 DEF CallsInv
      <4>2. \A c, d \in inspectCalls' : c.seq = d.seq => c = d
        BY <1>0, <3>1, <3>2 DEF CallsInv
      <4>3. QED
        BY <4>1, <4>2 DEF CallsInv
    <3>4. DrawerInv'
      BY <3>1, <3>2 DEF DrawerInv
    <3>5. QED
      BY <3>3, <3>4 DEF InspectorInv
  <2>2. CASE ~inspectorOpen /\ reset
    <3>1. /\ inspectSeq' = inspectSeq + 1 /\ inspectCalls' = inspectCalls
          /\ inspectError' = NoError /\ ~inspectLoading'
          /\ ~ranFor'.open
      BY <1>6, <2>2 DEF DrawerEffect, reset, Rendered
    <3>2. CallsInv' /\ \A c \in inspectCalls : c.seq # inspectSeq'
      BY <1>0, <3>1 DEF CallsInv
    <3>3. QED
      BY <3>1, <3>2 DEF InspectorInv, DrawerInv
  <2>3. CASE /\ request = None
             /\ UNCHANGED <<inspectSeq, inspectCalls, inspectGraph,
                            inspectLoading, inspectError, selectedLayer>>
    <3>1. ranFor'.request = None
      BY <1>6, <2>3 DEF DrawerEffect, Rendered
    <3>2. QED
      BY <1>0, <2>3, <3>1 DEF InspectorInv, CallsInv, DrawerInv
  <2>4. QED
    BY <1>6, <2>1, <2>2, <2>3 DEF DrawerEffect
<1>7. ASSUME NEW c \in inspectCalls, NEW kind \in {"graph", "server", "transport"},
             InspectAnswer(c, kind)
      PROVE  InspectorInv'
  <2>1. /\ inspectCalls' = inspectCalls \ {c}
        /\ UNCHANGED <<ranFor, inspectSeq>>
    BY <1>7 DEF InspectAnswer
  <2>2. CallsInv'
    BY <1>0, <2>1 DEF CallsInv
  <2>3. CASE c.seq # inspectSeq
    <3>1. UNCHANGED <<inspectGraph, inspectLoading, inspectError>>
      BY <1>7, <2>3 DEF InspectAnswer
    <3>2. QED
      BY <1>0, <2>1, <2>2, <3>1 DEF InspectorInv, DrawerInv, Shows
  <2>4. CASE c.seq = inspectSeq
    <3>1. ~inspectLoading' /\ \A d \in inspectCalls' : d.seq # inspectSeq'
      BY <1>0, <1>7, <2>1, <2>4 DEF InspectAnswer, CallsInv
    <3>2. ASSUME ranFor.open, ranFor.request # None
          PROVE  Shows(ranFor.request)'
      <4>1. c.of = ranFor.request /\ inspectError = NoError
        BY <1>0, <2>4, <3>2 DEF DrawerInv
      <4>2. CASE kind = "graph"
        BY <1>7, <2>1, <2>4, <4>1, <4>2 DEF InspectAnswer, Shows
      <4>3. CASE kind # "graph"
        <5>1. inspectError'.of = c.of /\ inspectError'.from = kind
          BY <1>7, <2>4, <4>3 DEF InspectAnswer
        <5>2. NoError.from # kind
          BY DEF NoError, None
        <5>3. QED
          BY <2>1, <4>1, <5>1, <5>2 DEF Shows
      <4>4. QED
        BY <4>2, <4>3
    <3>3. QED
      BY <2>1, <2>2, <3>1, <3>2 DEF InspectorInv, DrawerInv
  <2>5. QED
    BY <2>3, <2>4
<1>8. CASE UNCHANGED inspectorVars
  BY <1>1, <1>8 DEF inspectorVars
<1>9. QED
  BY <1>2, <1>3, <1>4, <1>5, <1>6, <1>7, <1>8 DEF InspectorNext, InspectAnswers

(* An open drawer at rest shows what was asked for the selected node,      *)
(* whatever order answers came in.  (useModelInspect.ts 21-25)             *)
THEOREM ShowsSelected == InspectorSpec => []InspectorShowsSelected
<1>1. InspectorInv => InspectorShowsSelected
  BY DEF InspectorInv, DrawerInv, InspectorShowsSelected, AtRestInspector,
         Rendered, Shows
<1>2. QED
  BY InspectorInitInv, InspectorStep, <1>1, PTL DEF InspectorSpec

-----------------------------------------------------------------------------
(* VendorSchema: what is cached or shown is of the server now connected,   *)
(* or the last to be.                                                      *)

\* the one fetch there may be on its way
Latest == [no |-> schemaPromise, launchedAt |-> schemaEpoch]

LinkInv ==
  /\ link \in {"never", "open", "closed"}
  /\ server \in 0..MaxServers
  /\ link = "never" <=> server = 0
  /\ link # "open" => fetches = {}

FetchInv ==
  /\ lastFetch \in Nat /\ schemaPromise \in Nat /\ schemaEpoch \in Nat
  /\ fetches \subseteq {Latest}
  /\ fetches # {} => schemaPromise # NoFetch /\ cachedSchema = NoSchema
  /\ schemaPromise # NoFetch /\ cachedSchema = NoSchema => fetches # {}

SchemaShownInv ==
  /\ cachedSchema \in {NoSchema, Fallback, server}
  /\ awaited # {} =>
       mounted /\ awaited = {schemaPromise} /\ fetches # {} /\ schema = NoSchema
  /\ awaited = {} =>
       IF mounted THEN schema = cachedSchema /\ schema # NoSchema
                  ELSE schema = NoSchema

SchemaInv == LinkInv /\ FetchInv /\ SchemaShownInv

(* At first nothing is fetched or shown. *)
LEMMA SchemaInitInv == SchemaInit => SchemaInv
  BY SchemaAssumption
     DEF SchemaInit, SchemaInv, LinkInv, FetchInv, SchemaShownInv, NoSchema, NoFetch

(* However the fetch ends, its result is cached, and shown if awaited. *)
LEMMA ResolveLatest ==
  ASSUME SchemaInv, fetches # {}, NEW result \in {server, Fallback},
         Resolve(fetches, result),
         UNCHANGED <<server, schemaPromise, schemaEpoch, lastFetch, mounted>>
  PROVE  /\ fetches' = {} /\ FetchInv' /\ SchemaShownInv'
<1>1. fetches = {Latest} /\ schemaPromise # NoFetch /\ cachedSchema = NoSchema
  BY DEF SchemaInv, FetchInv
<1>2. server # 0 /\ result # NoSchema /\ link = "open"
  BY SchemaAssumption DEF SchemaInv, LinkInv, NoSchema, Fallback
<1>3. fetches' = {} /\ cachedSchema' = result
  BY <1>1 DEF Resolve, Latest
<1>4. CASE awaited = {}
  <2>1. awaited' = {} /\ schema' = schema /\ ~mounted
    BY <1>1, <1>4 DEF Resolve, SchemaInv, SchemaShownInv
  <2>2. QED
    BY <1>2, <1>3, <1>4, <2>1 DEF SchemaInv, FetchInv, SchemaShownInv
<1>5. CASE awaited # {}
  <2>1. awaited = {schemaPromise} /\ mounted
    BY <1>5 DEF SchemaInv, SchemaShownInv
  <2>2. {f \in fetches : f.no \in awaited} = {Latest}
    BY <1>1, <2>1 DEF Latest
  <2>3. awaited' = {} /\ schema' = result
    <3> DEFINE told == {f \in fetches : f.no \in awaited}
    <3>1. awaited' = awaited \ {f.no : f \in told}
      BY DEF Resolve
    <3>2. told # {} /\ \E f \in told : f.launchedAt = schemaEpoch
      <4>1. Latest.launchedAt = schemaEpoch
        BY DEF Latest
      <4>2. QED
        BY <2>2, <4>1
    <3>3. schema' = CASE told = {} -> schema
                      [] \E f \in told : f.launchedAt = schemaEpoch \/ result = Fallback
                           -> result
                      [] OTHER -> IF cachedSchema # NoSchema THEN cachedSchema
                                  ELSE result
      BY DEF Resolve
    <3>4. \A f \in told : f.no = schemaPromise
      BY <2>2 DEF Latest
    <3> HIDE DEF told
    <3>5. QED
      BY <2>1, <3>1, <3>2, <3>3, <3>4
  <2>4. QED
    BY <1>2, <1>3, <2>1, <2>3 DEF SchemaInv, FetchInv, SchemaShownInv
<1>6. QED
  BY <1>3, <1>4, <1>5

(* Every step keeps the invariant. *)
LEMMA SchemaStep == SchemaInv /\ [SchemaNext]_schemaVars => SchemaInv'
<1> SUFFICES ASSUME SchemaInv, [SchemaNext]_schemaVars PROVE SchemaInv'
  OBVIOUS
<1> USE SchemaAssumption
<1>0. LinkInv /\ FetchInv /\ SchemaShownInv
  BY DEF SchemaInv
<1>1. CASE MountSchema
  <2>1. /\ UNCHANGED <<link, server, schemaEpoch>> /\ mounted' /\ ~mounted
        /\ awaited = {}
    BY <1>0, <1>1 DEF MountSchema, SchemaShownInv
  <2>2. CASE cachedSchema # NoSchema
    <3>1. /\ schema' = cachedSchema
          /\ UNCHANGED <<cachedSchema, schemaPromise, lastFetch, fetches, awaited>>
      BY <1>1, <2>2 DEF MountSchema
    <3>2. QED
      BY <1>0, <2>1, <2>2, <3>1
         DEF SchemaInv, LinkInv, FetchInv, SchemaShownInv, Latest
  <2>3. CASE cachedSchema = NoSchema
    <3>1. FetchAndShow
      BY <1>1, <2>3 DEF MountSchema
    <3>2. CASE schemaPromise # NoFetch
      <4>1. /\ awaited' = {schemaPromise} /\ schema' = NoSchema
            /\ UNCHANGED <<cachedSchema, schemaPromise, lastFetch, fetches>>
        BY <2>1, <3>1, <3>2 DEF FetchAndShow
      <4>2. fetches # {}
        BY <1>0, <2>3, <3>2 DEF FetchInv
      <4>3. QED
        BY <1>0, <2>1, <4>1, <4>2
           DEF SchemaInv, LinkInv, FetchInv, SchemaShownInv, Latest
    <3>3. CASE schemaPromise = NoFetch /\ link = "open"
      <4>1. fetches = {}
        BY <1>0, <3>3 DEF FetchInv
      <4>2. /\ lastFetch' = lastFetch + 1 /\ schemaPromise' = lastFetch + 1
            /\ fetches' = {[no |-> lastFetch + 1, launchedAt |-> schemaEpoch]}
            /\ awaited' = {lastFetch + 1} /\ schema' = NoSchema
            /\ UNCHANGED cachedSchema
        BY <2>1, <3>1, <3>3, <4>1 DEF FetchAndShow
      <4>3. LinkInv'
        BY <1>0, <2>1, <3>3 DEF LinkInv
      <4>4. FetchInv'
        BY <1>0, <2>1, <2>3, <4>2 DEF FetchInv, Latest, NoFetch
      <4>5. SchemaShownInv'
        BY <1>0, <2>1, <4>2 DEF SchemaShownInv
      <4>6. QED
        BY <4>3, <4>4, <4>5 DEF SchemaInv
    <3>4. CASE schemaPromise = NoFetch /\ link # "open"
      <4>1. /\ lastFetch' = lastFetch + 1 /\ schemaPromise' = lastFetch + 1
            /\ cachedSchema' = Fallback /\ schema' = Fallback
            /\ UNCHANGED <<fetches, awaited>>
        BY <3>1, <3>4 DEF FetchAndShow
      <4>2. fetches = {} /\ Fallback # NoSchema
        BY <1>0, <3>4 DEF LinkInv, Fallback, NoSchema
      <4>3. QED
        BY <1>0, <2>1, <4>1, <4>2 DEF SchemaInv, LinkInv, FetchInv, SchemaShownInv
    <3>5. QED
      BY <3>2, <3>3, <3>4
  <2>4. QED
    BY <2>2, <2>3
<1>2. CASE UnmountSchema
  BY <1>0, <1>2 DEF UnmountSchema, SchemaInv, LinkInv, FetchInv, SchemaShownInv, Latest
<1>3. ASSUME NEW f \in fetches, SchemaAnswered(f) \/ SchemaFails(f)
      PROVE  SchemaInv'
  <2>1. fetches = {f}
    BY <1>0 DEF FetchInv
  <2>2. PICK result \in {server, Fallback} : Resolve(fetches, result)
    BY <1>3, <2>1 DEF SchemaAnswered, SchemaFails
  <2>3. UNCHANGED <<link, server, schemaPromise, schemaEpoch, lastFetch, mounted>>
    BY <1>3 DEF SchemaAnswered, SchemaFails
  <2>4. QED
    BY <1>0, <2>1, <2>2, <2>3, ResolveLatest DEF SchemaInv, LinkInv
<1>4. CASE FirstOpen
  <2>1. fetches = {} /\ server = 0 /\ MaxServers \in Nat
    BY <1>0, <1>4 DEF FirstOpen, LinkInv
  <2>2. QED
    BY <1>0, <1>4, <2>1
       DEF FirstOpen, SchemaInv, LinkInv, FetchInv, SchemaShownInv, Latest, NoSchema
<1>5. CASE LinkCloses
  <2>1. UNCHANGED <<server, schemaPromise, schemaEpoch, lastFetch, mounted>>
        /\ link = "open" /\ link' = "closed"
    BY <1>5 DEF LinkCloses
  <2>2. CASE fetches = {}
    BY <1>0, <1>5, <2>1, <2>2
       DEF LinkCloses, SchemaInv, LinkInv, FetchInv, SchemaShownInv, Latest
  <2>3. CASE fetches # {}
    <3>1. Resolve(fetches, Fallback)
      BY <1>5, <2>3 DEF LinkCloses
    <3>2. QED
      BY <1>0, <2>1, <2>3, <3>1, ResolveLatest DEF SchemaInv, LinkInv
  <2>4. QED
    BY <2>2, <2>3
<1>6. CASE Reopen
  <2>1. /\ link = "closed" /\ link' = "open" /\ server' = server + 1
        /\ server < MaxServers /\ schemaEpoch' = schemaEpoch + 1
        /\ cachedSchema' = NoSchema /\ mounted' = mounted /\ Refetch
    BY <1>6 DEF Reopen
  <2>2. fetches = {} /\ awaited = {}
    BY <1>0, <2>1 DEF LinkInv, SchemaShownInv
  <2>3. LinkInv'
    BY <1>0, <2>1 DEF LinkInv
  <2>4. CASE mounted
    <3>1. /\ schema' = NoSchema /\ lastFetch' = lastFetch + 1
          /\ schemaPromise' = lastFetch + 1
          /\ fetches' = {[no |-> lastFetch + 1, launchedAt |-> schemaEpoch + 1]}
          /\ awaited' = {lastFetch + 1}
      BY <2>1, <2>2, <2>4 DEF Refetch
    <3>2. FetchInv'
      BY <1>0, <2>1, <3>1 DEF FetchInv, Latest, NoFetch
    <3>3. SchemaShownInv'
      BY <2>1, <2>4, <3>1 DEF SchemaShownInv
    <3>4. QED
      BY <2>3, <3>2, <3>3 DEF SchemaInv
  <2>5. CASE ~mounted
    <3>1. /\ schemaPromise' = NoFetch
          /\ UNCHANGED <<lastFetch, fetches, awaited, schema>>
      BY <2>1, <2>5 DEF Refetch
    <3>2. QED
      BY <1>0, <2>1, <2>2, <2>3, <2>5, <3>1
         DEF SchemaInv, FetchInv, SchemaShownInv, NoFetch
  <2>6. QED
    BY <2>4, <2>5
<1>7. CASE UNCHANGED schemaVars
  BY <1>0, <1>7 DEF schemaVars, SchemaInv, LinkInv, FetchInv, SchemaShownInv, Latest
<1>8. QED
  BY <1>1, <1>2, <1>3, <1>4, <1>5, <1>6, <1>7 DEF SchemaNext

(* No schema survives a reconnect, no late answer brings one back, and a   *)
(* panel that shows none waits for one.  (PropertiesPanel.tsx 54-59,       *)
(* 68-86)                                                                  *)
THEOREM SchemaStaysCurrent == SchemaSpec => []SchemaIsCurrent
<1>1. SchemaInv => SchemaIsCurrent
  BY DEF SchemaInv, FetchInv, SchemaShownInv, SchemaIsCurrent, Latest
<1>2. QED
  BY SchemaInitInv, SchemaStep, <1>1, PTL DEF SchemaSpec

-----------------------------------------------------------------------------
(* NodeClasses: each node is rendered with the class of what is so now.    *)

\* every node has an entry, made of what is so now
ClassInv ==
  /\ DOMAIN classCache = DOMAIN styled
  /\ \A n \in DOMAIN styled :
       /\ classCache[n].key = Key(n, styled, selectedId, breakpoints)
       /\ classCache[n].className =
            ClassName(CategoryClass(styled[n].kind), styled[n].status,
                      n = selectedId, Badge(n, breakpoints))

(* The key has all that the class is computed from: an entry may be kept   *)
(* when its key is the same.                                               *)
LEMMA RenderKeeps == ASSUME ClassInv, Render PROVE ClassInv'
<1>1. CASE UNCHANGED <<styled, selectedId, breakpoints>>
  <2>1. classCache' = classCache
    BY <1>1 DEF Render
  <2>2. QED
    BY <1>1, <2>1 DEF ClassInv, Key, Badge
<1>2. CASE ~UNCHANGED <<styled, selectedId, breakpoints>>
  <2>1. classCache' = Cached(styled', selectedId', breakpoints')
    BY <1>2 DEF Render
  <2>2. DOMAIN classCache' = DOMAIN styled'
    BY <2>1 DEF Cached
  <2> SUFFICES ASSUME NEW n \in DOMAIN styled'
               PROVE  /\ classCache'[n].key
                            = Key(n, styled', selectedId', breakpoints')
                      /\ classCache'[n].className =
                           ClassName(CategoryClass(styled'[n].kind),
                                     styled'[n].status, n = selectedId',
                                     Badge(n, breakpoints'))
    BY <2>2 DEF ClassInv, Key, Badge
  <2>3. CASE n \in DOMAIN classCache
             /\ classCache[n].key = Key(n, styled', selectedId', breakpoints')
    <3>1. classCache'[n] = classCache[n]
      BY <2>1, <2>3 DEF Cached
    <3>2. /\ Key(n, styled, selectedId, breakpoints)
               = Key(n, styled', selectedId', breakpoints')
          /\ classCache[n].className =
               ClassName(CategoryClass(styled[n].kind), styled[n].status,
                         n = selectedId, Badge(n, breakpoints))
      BY <2>3 DEF ClassInv
    <3>3. /\ CategoryClass(styled[n].kind) = CategoryClass(styled'[n].kind)
          /\ styled[n].status = styled'[n].status
          /\ (n = selectedId) = (n = selectedId')
          /\ Badge(n, breakpoints) = Badge(n, breakpoints')
      BY <3>2 DEF Key
    <3>4. QED
      BY <2>3, <3>1, <3>2, <3>3
  <2>4. CASE ~(n \in DOMAIN classCache
               /\ classCache[n].key = Key(n, styled', selectedId', breakpoints'))
    BY <2>1, <2>4 DEF Cached
  <2>5. QED
    BY <2>3, <2>4
<1>3. QED
  BY <1>1, <1>2

(* What a node is rendered with is what it would be computed as now,       *)
(* however long the cache has been in use.  (App.tsx 312-355)              *)
THEOREM ClassStaysCurrent == StyleSpec => []ClassIsCurrent
<1>1. StyleInit => ClassInv
  BY DEF StyleInit, ClassInv, Empty
<1>2. ClassInv /\ [StyleNext]_styleVars => ClassInv'
  <2>1. StyleNext => Render
    BY DEF StyleNext, PutNode, TakeNode, SetStatus, SelectStyled, addBreakpoint,
           removeBreakpoint, toggleBreakpoint
  <2>2. ClassInv /\ UNCHANGED styleVars => ClassInv'
    BY DEF styleVars, ClassInv, Key, Badge
  <2>3. QED
    BY <2>1, <2>2, RenderKeeps
<1>3. ClassInv => ClassIsCurrent
  BY DEF ClassInv, ClassIsCurrent
<1>4. QED
  BY <1>1, <1>2, <1>3, PTL DEF StyleSpec

-----------------------------------------------------------------------------
(* The tables of the manifest and of the server's handlers.                *)

(* The types of node in each table of the manifest.                        *)
LEMMA TableDomains ==
  /\ DOMAIN InputNodes = {"inputImage", "inputTensor"}
  /\ DOMAIN InferenceNodes
       = {"createNet", "inference", "benchmark", "postprocess"}
  /\ DOMAIN SaveNodes = {"saveText", "saveImage"}
  /\ DOMAIN RenderNodes = {"tensorToImage", "annotateImage"}
  /\ DOMAIN DrawNodes = {"drawBoxes", "segmentationMask", "composite"}
  /\ DOMAIN ControlNodes = {"condition", "output", "debug"}
BY DEF InputNodes, InferenceNodes, SaveNodes, RenderNodes, DrawNodes,
       ControlNodes

(* The manifest has the entries of its tables, which share no type.        *)
LEMMA Entries ==
  /\ ManifestTypes =
       DOMAIN InputNodes \union DOMAIN InferenceNodes \union DOMAIN SaveNodes
         \union DOMAIN RenderNodes \union DOMAIN DrawNodes
         \union DOMAIN ControlNodes
  /\ \A t \in DOMAIN InputNodes : NODE_MANIFEST[t] = InputNodes[t]
  /\ \A t \in DOMAIN InferenceNodes : NODE_MANIFEST[t] = InferenceNodes[t]
  /\ \A t \in DOMAIN SaveNodes : NODE_MANIFEST[t] = SaveNodes[t]
  /\ \A t \in DOMAIN RenderNodes : NODE_MANIFEST[t] = RenderNodes[t]
  /\ \A t \in DOMAIN DrawNodes : NODE_MANIFEST[t] = DrawNodes[t]
  /\ \A t \in DOMAIN ControlNodes : NODE_MANIFEST[t] = ControlNodes[t]
<1>1. ManifestTypes =
        DOMAIN InputNodes \union DOMAIN InferenceNodes \union DOMAIN SaveNodes
          \union DOMAIN RenderNodes \union DOMAIN DrawNodes
          \union DOMAIN ControlNodes
  BY DEF ManifestTypes, Tables
<1>2. QED
  BY <1>1, TableDomains DEF NODE_MANIFEST

(* The server's table has those of its handlers.                           *)
LEMMA PortTables ==
  /\ DOMAIN InputPortDefs = {"inputImage", "inputTensor"}
  /\ DOMAIN InferencePortDefs
       = {"createNet", "inference", "benchmark", "postprocess"}
  /\ DOMAIN OutputPortDefs = {"saveText", "saveImage", "output", "debug"}
  /\ DOMAIN ImagePortDefs
       = {"tensorToImage", "annotateImage", "drawBoxes", "segmentationMask",
          "composite"}
  /\ \A t \in DOMAIN InputPortDefs : port_defs(t) = InputPortDefs[t]
  /\ \A t \in DOMAIN InferencePortDefs : port_defs(t) = InferencePortDefs[t]
  /\ \A t \in DOMAIN OutputPortDefs : port_defs(t) = OutputPortDefs[t]
  /\ \A t \in DOMAIN ImagePortDefs : port_defs(t) = ImagePortDefs[t]
  /\ port_defs("condition") = ConditionPortDefs
<1>1. /\ DOMAIN InputPortDefs = {"inputImage", "inputTensor"}
      /\ DOMAIN InferencePortDefs
           = {"createNet", "inference", "benchmark", "postprocess"}
      /\ DOMAIN OutputPortDefs = {"saveText", "saveImage", "output", "debug"}
      /\ DOMAIN ImagePortDefs
           = {"tensorToImage", "annotateImage", "drawBoxes", "segmentationMask",
              "composite"}
  BY DEF InputPortDefs, InferencePortDefs, OutputPortDefs, ImagePortDefs
<1>2. \A t \in DOMAIN InputPortDefs : port_defs(t) = InputPortDefs[t]
  BY <1>1, Zenon DEF port_defs
<1>3. \A t \in DOMAIN InferencePortDefs : port_defs(t) = InferencePortDefs[t]
  BY <1>1, Zenon DEF port_defs
<1>4. \A t \in DOMAIN OutputPortDefs : port_defs(t) = OutputPortDefs[t]
  BY <1>1, Zenon DEF port_defs
<1>5. \A t \in DOMAIN ImagePortDefs : port_defs(t) = ImagePortDefs[t]
  BY <1>1, Zenon DEF port_defs
<1>6. port_defs("condition") = ConditionPortDefs
  BY <1>1, Zenon DEF port_defs
<1>7. QED
  BY <1>1, <1>2, <1>3, <1>4, <1>5, <1>6

(* Both sides describe a port alike.                                       *)
LEMMA SamePort ==
  \A i, type : In(i, type) = Takes(i, type) /\ Out(i, type) = Gives(i, type)
BY DEF In, Out, Takes, Gives, HandlerPort

(* Every type of node has, on the canvas, the ports its handler has.       *)
(* (manifest.tsx, core_handlers.cpp)                                       *)
LEMMA PortsAgree ==
  ASSUME NEW t \in ManifestTypes PROVE NODE_MANIFEST[t].ports = port_defs(t)
<1>1. \A s \in DOMAIN InputNodes : InputNodes[s].ports = InputPortDefs[s]
  BY SamePort DEF InputNodes, InputPortDefs, Entry
<1>2. \A s \in DOMAIN InferenceNodes :
        InferenceNodes[s].ports = InferencePortDefs[s]
  <2>1. InferenceNodes["createNet"].ports = InferencePortDefs["createNet"]
    BY SamePort DEF InferenceNodes, InferencePortDefs, VendorEntry
  <2>2. InferenceNodes["inference"].ports = InferencePortDefs["inference"]
    BY SamePort DEF InferenceNodes, InferencePortDefs, Entry
  <2>3. InferenceNodes["benchmark"].ports = InferencePortDefs["benchmark"]
    BY SamePort DEF InferenceNodes, InferencePortDefs, Entry
  <2>4. InferenceNodes["postprocess"].ports = InferencePortDefs["postprocess"]
    BY SamePort DEF InferenceNodes, InferencePortDefs, Entry
  <2>5. QED
    BY <2>1, <2>2, <2>3, <2>4, TableDomains
<1>3. \A s \in DOMAIN SaveNodes : SaveNodes[s].ports = OutputPortDefs[s]
  BY SamePort DEF SaveNodes, OutputPortDefs, Entry
<1>4. \A s \in DOMAIN RenderNodes : RenderNodes[s].ports = ImagePortDefs[s]
  BY SamePort DEF RenderNodes, ImagePortDefs, Entry
<1>5. \A s \in DOMAIN DrawNodes : DrawNodes[s].ports = ImagePortDefs[s]
  <2>1. DrawNodes["drawBoxes"].ports = ImagePortDefs["drawBoxes"]
    BY SamePort DEF DrawNodes, ImagePortDefs, Entry
  <2>2. DrawNodes["segmentationMask"].ports = ImagePortDefs["segmentationMask"]
    BY SamePort DEF DrawNodes, ImagePortDefs, Entry
  <2>3. DrawNodes["composite"].ports = ImagePortDefs["composite"]
    BY SamePort DEF DrawNodes, ImagePortDefs, Entry
  <2>4. QED
    BY <2>1, <2>2, <2>3, TableDomains
<1>6. \A s \in DOMAIN ControlNodes :
        ControlNodes[s].ports = IF s = "condition" THEN ConditionPortDefs
                                                   ELSE OutputPortDefs[s]
  BY SamePort DEF ControlNodes, OutputPortDefs, ConditionPortDefs, Entry
<1>7. QED
  BY <1>1, <1>2, <1>3, <1>4, <1>5, <1>6, TableDomains, Entries, PortTables

(* The fields of each type, and the one type without any of its own.       *)
LEMMA FieldsOf ==
  /\ \A t \in ManifestTypes : NODE_MANIFEST[t].vendorSchema <=> t = "createNet"
  /\ \A t \in {"inputImage", "saveText", "saveImage"} :
       t \in ManifestTypes /\ NODE_MANIFEST[t].configFields = PathField
  /\ \A t \in {"createNet", "inference", "output", "debug"} :
       t \in ManifestTypes /\ NODE_MANIFEST[t].configFields = NoFields
  /\ NODE_MANIFEST["inputTensor"].configFields = InputTensorFields
  /\ NODE_MANIFEST["benchmark"].configFields = BenchmarkFields
  /\ NODE_MANIFEST["postprocess"].configFields = PostprocessFields
  /\ NODE_MANIFEST["tensorToImage"].configFields = TensorToImageFields
  /\ NODE_MANIFEST["annotateImage"].configFields = AnnotateImageFields
  /\ NODE_MANIFEST["drawBoxes"].configFields = DrawBoxesFields
  /\ NODE_MANIFEST["segmentationMask"].configFields = MaskFields
  /\ NODE_MANIFEST["composite"].configFields = CompositeFields
  /\ NODE_MANIFEST["condition"].configFields = ConditionFields
<1>1. /\ \A t \in DOMAIN InputNodes : ~InputNodes[t].vendorSchema
      /\ InputNodes["inputImage"].configFields = PathField
      /\ InputNodes["inputTensor"].configFields = InputTensorFields
  BY DEF InputNodes, Entry
<1>2. /\ \A t \in DOMAIN InferenceNodes :
           InferenceNodes[t].vendorSchema <=> t = "createNet"
      /\ InferenceNodes["createNet"].configFields = NoFields
      /\ InferenceNodes["inference"].configFields = NoFields
      /\ InferenceNodes["benchmark"].configFields = BenchmarkFields
      /\ InferenceNodes["postprocess"].configFields = PostprocessFields
  BY DEF InferenceNodes, Entry, VendorEntry
<1>3. \A t \in DOMAIN SaveNodes :
        ~SaveNodes[t].vendorSchema /\ SaveNodes[t].configFields = PathField
  BY DEF SaveNodes, Entry
<1>4. /\ \A t \in DOMAIN RenderNodes : ~RenderNodes[t].vendorSchema
      /\ RenderNodes["tensorToImage"].configFields = TensorToImageFields
      /\ RenderNodes["annotateImage"].configFields = AnnotateImageFields
  BY DEF RenderNodes, Entry
<1>5. /\ \A t \in DOMAIN DrawNodes : ~DrawNodes[t].vendorSchema
      /\ DrawNodes["drawBoxes"].configFields = DrawBoxesFields
      /\ DrawNodes["segmentationMask"].configFields = MaskFields
      /\ DrawNodes["composite"].configFields = CompositeFields
  BY DEF DrawNodes, Entry
<1>6. /\ \A t \in DOMAIN ControlNodes : ~ControlNodes[t].vendorSchema
      /\ ControlNodes["condition"].configFields = ConditionFields
      /\ ControlNodes["output"].configFields = NoFields
      /\ ControlNodes["debug"].configFields = NoFields
  BY DEF ControlNodes, Entry
<1>7. QED
  BY <1>1, <1>2, <1>3, <1>4, <1>5, <1>6, TableDomains, Entries

-----------------------------------------------------------------------------
(* NodeConfig: what may be set, and where an edit lands.                   *)

\* what may be set in the configuration of a node of a type
Settable(t) ==
  IF t = "createNet" THEN VendorFields ELSE NODE_MANIFEST[t].configFields

Fits(field, v) ==
  /\ field.kind = "select" => v \in field.options
  /\ field.kind = "bool" => v \in {"true", "false"}

WellSet(t, c) ==
  \A k \in DOMAIN c : k \in DOMAIN Settable(t) /\ Fits(Settable(t)[k], c[k])

\* also of what a closure that awaits a dialog knows and will set
ConfigInv ==
  /\ nodeKind \in [ConfigNodes -> ManifestTypes]
  /\ DOMAIN config = ConfigNodes
  /\ panelNode \in ConfigNodes \union {NotSelected}
  /\ \A n \in ConfigNodes : WellSet(nodeKind[n], config[n])
  /\ \A d \in dialogs :
       /\ d.node \in ConfigNodes
       /\ WellSet(nodeKind[d.node], d.config)
       /\ d.key \in DOMAIN Settable(nodeKind[d.node])
       /\ Settable(nodeKind[d.node])[d.key].kind = "filepath"

(* A field of the manifest is on show when its condition holds, as it is.  *)
LEMMA ListedField ==
  ASSUME NEW t \in ManifestTypes, t # "createNet", NEW c, NEW has \in BOOLEAN,
         NEW k \in DOMAIN NODE_MANIFEST[t].configFields
  PROVE  /\ k \in DOMAIN PanelFields(t, c, has)
              <=> showIf(c, NODE_MANIFEST[t].configFields[k].showIf)
         /\ k \in DOMAIN PanelFields(t, c, has) =>
              PanelFields(t, c, has)[k] = NODE_MANIFEST[t].configFields[k]
<1>1. ~NODE_MANIFEST[t].vendorSchema
  BY FieldsOf
<1>2. NODE_MANIFEST[t].configFields # NoFields
  BY DEF NoFields
<1>3. PanelFields(t, c, has) = VisibleFields(c, NODE_MANIFEST[t].configFields)
  BY <1>1, <1>2 DEF PanelFields
<1>4. QED
  BY <1>3 DEF VisibleFields

(* With a schema or without, the panel of a net has a control for each key *)
(* its handler reads ...                                                   *)
LEMMA NetDomains ==
  DOMAIN VendorFields = NetKeys /\ DOMAIN FallbackFields = NetKeys
BY DEF VendorFields, FallbackFields, NetKeys

(* ... of a kind and a default that agree.                                 *)
LEMMA VendorField ==
  \A k \in NetKeys :
    /\ VendorFields[k].kind \in {"filepath", "text", "number", "bool"}
    /\ VendorFields[k].kind = "bool" <=> k = "emptyWeights"
    /\ FallbackFields[k].kind \in {"filepath", "text", "bool"}
    /\ FallbackFields[k].kind = "bool" <=> k = "emptyWeights"
    /\ FallbackFields[k].kind = "filepath" => VendorFields[k].kind = "filepath"
    /\ VendorFields[k].defaultValue = IF k = "emptyWeights" THEN "false" ELSE ""
    /\ FallbackFields[k].defaultValue = IF k = "emptyWeights" THEN "false" ELSE ""
<1> DEFINE bool == Field("bool", "false", {}, Always)
<1>1. \A k \in NetKeys \ {"emptyWeights"} :
        \/ FallbackFields[k] = Path /\ VendorFields[k] = Path
        \/ FallbackFields[k] = Text /\ VendorFields[k] \in {Text, Number}
  BY DEF VendorFields, FallbackFields, NetKeys
<1>2. VendorFields["emptyWeights"] = bool /\ FallbackFields["emptyWeights"] = bool
  BY DEF VendorFields, FallbackFields
<1>3. /\ Path.kind = "filepath" /\ Path.defaultValue = ""
      /\ Text.kind = "text" /\ Text.defaultValue = ""
      /\ Number.kind = "number" /\ Number.defaultValue = ""
      /\ bool.kind = "bool" /\ bool.defaultValue = "false"
  BY DEF Path, Text, Number, Field
<1> HIDE DEF bool
<1>4. QED
  BY <1>1, <1>2, <1>3

(* Which of the two tables it is depends on the schema.                    *)
LEMMA NetField ==
  ASSUME NEW c, NEW has \in BOOLEAN
  PROVE  PanelFields("createNet", c, has)
           = IF has THEN VendorFields ELSE FallbackFields
BY FieldsOf DEF PanelFields

(* What can be put in a control fits the key it sets.                      *)
LEMMA OfferedFits ==
  ASSUME NEW t \in ManifestTypes, NEW c, WellSet(t, c), NEW has \in BOOLEAN,
         NEW k \in DOMAIN PanelFields(t, c, has)
  PROVE  LET f == PanelFields(t, c, has)[k] IN
         /\ k \in DOMAIN Settable(t)
         /\ \A v \in Inputs(f) : Fits(Settable(t)[k], v)
         /\ f.kind = "filepath" => Settable(t)[k].kind = "filepath"
<1> DEFINE f == PanelFields(t, c, has)[k]
           Suits(g) == /\ \A v \in Inputs(f) : Fits(g, v)
                       /\ f.kind = "filepath" => g.kind = "filepath"
<1>1. CASE t = "createNet"
  <2>1. Settable(t) = VendorFields /\ k \in NetKeys
        /\ f \in {VendorFields[k], FallbackFields[k]}
    <3>1. PanelFields(t, c, has) \in {VendorFields, FallbackFields}
      BY <1>1, NetField
    <3>2. k \in NetKeys
      BY <3>1, NetDomains
    <3>3. QED
      BY <1>1, <3>1, <3>2 DEF Settable
  <2>2. Suits(VendorFields[k])
    <3> HIDE DEF f
    <3>1. /\ f.kind \in {"filepath", "text", "number", "bool"}
          /\ f.kind = "bool" <=> k = "emptyWeights"
          /\ f.kind = "filepath" => VendorFields[k].kind = "filepath"
      <4>1. k \in NetKeys
        BY <2>1
      <4>2. /\ VendorFields[k].kind \in {"filepath", "text", "number", "bool"}
            /\ VendorFields[k].kind = "bool" <=> k = "emptyWeights"
        BY <4>1, VendorField
      <4>3. /\ FallbackFields[k].kind \in {"filepath", "text", "bool"}
            /\ FallbackFields[k].kind = "bool" <=> k = "emptyWeights"
            /\ FallbackFields[k].kind = "filepath" =>
                 VendorFields[k].kind = "filepath"
        BY <4>1, VendorField
      <4>4. CASE f = VendorFields[k]
        BY <4>2, <4>4
      <4>5. CASE f = FallbackFields[k]
        BY <4>3, <4>5
      <4>6. QED
        BY <2>1, <4>4, <4>5
    <3>2. /\ VendorFields[k].kind # "select"
          /\ VendorFields[k].kind = "bool" <=> f.kind = "bool"
      BY <2>1, <3>1, VendorField
    <3>3. Inputs(f) = IF f.kind = "bool" THEN {"true", "false"} ELSE {"", "typed"}
      BY <3>1 DEF Inputs
    <3>4. QED
      BY <3>1, <3>2, <3>3 DEF Fits
  <2>3. QED
    BY <2>1, <2>2, NetDomains
<1>2. CASE t # "createNet" /\ NODE_MANIFEST[t].configFields # NoFields
  <2>1. k \in DOMAIN Settable(t) /\ f = Settable(t)[k]
    BY <1>2, FieldsOf DEF Settable, PanelFields, VisibleFields
  <2> HIDE DEF f
  <2>2. Suits(f)
    BY DEF Inputs, Fits
  <2>3. QED
    BY <2>1, <2>2 DEF f
<1>3. CASE t # "createNet" /\ NODE_MANIFEST[t].configFields = NoFields
  <2>1. DOMAIN Settable(t) = {}
    BY <1>3 DEF Settable, NoFields
  <2>2. PanelFields(t, c, has) = GenericFields(c)
    BY <1>3, FieldsOf DEF PanelFields
  <2>3. FALSE
    BY <2>1, <2>2 DEF GenericFields, WellSet
  <2>4. QED
    BY <2>3
<1>4. QED
  BY <1>1, <1>2, <1>3

(* Setting what fits leaves a configuration as it should be.               *)
LEMMA WellSetWith ==
  ASSUME NEW t, NEW c, WellSet(t, c), NEW k \in DOMAIN Settable(t), NEW v,
         Fits(Settable(t)[k], v)
  PROVE  WellSet(t, With(c, k, v))
BY DEF WellSet, With

(* Configurations begin empty.                                             *)
LEMMA ConfigInitInv == NodeConfigInit => ConfigInv
<1> SUFFICES ASSUME NodeConfigInit PROVE ConfigInv
  OBVIOUS
<1>1. PICK t \in ManifestTypes : nodeKind = [n \in ConfigNodes |-> t]
  BY DEF NodeConfigInit
<1>2. \A n \in ConfigNodes : DOMAIN config[n] = {}
  BY DEF NodeConfigInit
<1>3. QED
  BY <1>1, <1>2 DEF NodeConfigInit, ConfigInv, WellSet

(* Every step keeps the invariant.                                         *)
LEMMA ConfigStep == ConfigInv /\ [NodeConfigNext]_configVars => ConfigInv'
<1> SUFFICES ASSUME ConfigInv, [NodeConfigNext]_configVars PROVE ConfigInv'
  OBVIOUS
<1>1. ASSUME NEW n \in ConfigNodes \union {NotSelected}, SelectPanelNode(n)
      PROVE  ConfigInv'
  BY <1>1 DEF SelectPanelNode, ConfigInv
<1>2. ASSUME NEW n \in ConfigNodes, NEW c, NEW k, NEW v,
             handleConfigChange(n, c, k, v), WellSet(nodeKind[n], c),
             k \in DOMAIN Settable(nodeKind[n]), Fits(Settable(nodeKind[n])[k], v)
      PROVE  /\ DOMAIN config' = ConfigNodes
             /\ \A m \in ConfigNodes : WellSet(nodeKind[m], config'[m])
  BY <1>2, WellSetWith DEF handleConfigChange, ConfigInv
<1>3. CASE UsePanel
  <2> DEFINE fields(has) ==
               PanelFields(nodeKind[panelNode], config[panelNode], has)
  <2>1. panelNode \in ConfigNodes /\ nodeKind[panelNode] \in ManifestTypes
        /\ WellSet(nodeKind[panelNode], config[panelNode])
    BY <1>3 DEF UsePanel, ConfigInv
  <2>2. PICK has \in BOOLEAN : \E k \in DOMAIN fields(has) :
          Edit(k, fields(has)[k]) \/ Browse(k, fields(has)[k])
    BY <1>3 DEF UsePanel
  <2>3. PICK k \in DOMAIN fields(has) :
          Edit(k, fields(has)[k]) \/ Browse(k, fields(has)[k])
    BY <2>2
  <2>4. /\ k \in DOMAIN Settable(nodeKind[panelNode])
        /\ \A v \in Inputs(fields(has)[k]) :
             Fits(Settable(nodeKind[panelNode])[k], v)
        /\ fields(has)[k].kind = "filepath" =>
             Settable(nodeKind[panelNode])[k].kind = "filepath"
    BY <2>1, OfferedFits
  <2> HIDE DEF fields
  <2>5. CASE Edit(k, fields(has)[k])
    <3>1. PICK v \in Inputs(fields(has)[k]) :
            handleConfigChange(panelNode, config[panelNode], k, v)
      BY <2>5 DEF Edit
    <3>2. /\ DOMAIN config' = ConfigNodes
          /\ \A m \in ConfigNodes : WellSet(nodeKind[m], config'[m])
      BY <1>2, <2>1, <2>4, <3>1
    <3>3. UNCHANGED <<nodeKind, panelNode, dialogs>>
      BY <2>5 DEF Edit
    <3>4. QED
      BY <3>2, <3>3 DEF ConfigInv
  <2>6. CASE Browse(k, fields(has)[k])
    <3> DEFINE d == [node |-> panelNode, config |-> config[panelNode], key |-> k]
    <3>1. /\ dialogs' = dialogs \union {d}
          /\ UNCHANGED <<nodeKind, config, panelNode>>
          /\ fields(has)[k].kind = "filepath"
      BY <2>6 DEF Browse
    <3>2. d.node = panelNode /\ d.config = config[panelNode] /\ d.key = k
      OBVIOUS
    <3> HIDE DEF d
    <3>3. QED
      BY <2>1, <2>4, <3>1, <3>2 DEF ConfigInv
  <2>7. QED
    BY <2>3, <2>5, <2>6
<1>4. ASSUME NEW d \in dialogs, NEW path \in {"", "picked"}, Picked(d, path)
      PROVE  ConfigInv'
  <2>1. /\ dialogs' = dialogs \ {d} /\ UNCHANGED <<nodeKind, panelNode>>
        /\ \/ UNCHANGED config
           \/ handleConfigChange(d.node, d.config, d.key, path)
    BY <1>4 DEF Picked
  <2>2. Fits(Settable(nodeKind[d.node])[d.key], path)
    BY DEF ConfigInv, Fits
  <2>3. /\ DOMAIN config' = ConfigNodes
        /\ \A m \in ConfigNodes : WellSet(nodeKind[m], config'[m])
    <3>1. CASE UNCHANGED config
      BY <3>1 DEF ConfigInv
    <3>2. CASE handleConfigChange(d.node, d.config, d.key, path)
      BY <1>2, <2>2, <3>2 DEF ConfigInv
    <3>3. QED
      BY <2>1, <3>1, <3>2
  <2>4. QED
    BY <2>1, <2>3 DEF ConfigInv
<1>5. CASE UNCHANGED configVars
  BY <1>5 DEF configVars, ConfigInv
<1>6. QED
  BY <1>1, <1>3, <1>4, <1>5 DEF NodeConfigNext

(* Nothing is ever set in a configuration but keys its type of node has,   *)
(* each to a value its control offers.  (PropertiesPanel.tsx 235-237)      *)
THEOREM ConfigInvariance == NodeConfigSpec => []ConfigInv
BY ConfigInitInv, ConfigStep, PTL DEF NodeConfigSpec

(* An edit or a picked path changes no node but the one it was made for.   *)
(* (PropertiesPanel.tsx 235-237, 582-587)                                  *)
THEOREM PicksLand == NodeConfigSpec => PickLandsOnItsNode
<1>1. ASSUME ConfigInv, [NodeConfigNext]_configVars, NEW n \in ConfigNodes,
             config'[n] # config[n]
      PROVE  IF dialogs' = dialogs THEN n = panelNode
                                   ELSE \E d \in dialogs \ dialogs' : d.node = n
  <2>1. ASSUME NEW m \in ConfigNodes, NEW c, NEW k, NEW v,
               handleConfigChange(m, c, k, v)
        PROVE  n = m
    BY <1>1, <2>1 DEF handleConfigChange, ConfigInv
  <2>2. CASE UsePanel
    <3>1. panelNode \in ConfigNodes
      BY <1>1, <2>2 DEF UsePanel, ConfigInv
    <3>2. PICK k, f : Edit(k, f) \/ Browse(k, f)
      BY <2>2 DEF UsePanel
    <3>3. QED
      BY <1>1, <2>1, <3>1, <3>2 DEF Edit, Browse
  <2>3. ASSUME NEW d \in dialogs, NEW path, Picked(d, path)
        PROVE  d \in dialogs \ dialogs' /\ d.node = n
    BY <1>1, <2>1, <2>3 DEF Picked, ConfigInv
  <2>4. QED
    BY <1>1, <2>2, <2>3 DEF NodeConfigNext, SelectPanelNode, configVars
<1>2. ConfigInv /\ [NodeConfigNext]_configVars =>
        [\A n \in ConfigNodes :
           config'[n] # config[n] =>
             IF dialogs' = dialogs THEN n = panelNode
                                   ELSE \E d \in dialogs \ dialogs' : d.node = n
        ]_configVars
  BY <1>1
<1>3. QED
  BY ConfigInvariance, <1>2, PTL DEF NodeConfigSpec, PickLandsOnItsNode

-----------------------------------------------------------------------------
(* NodeConfig: what is read is on show.                                    *)

\* a key that is on show with the value the handler uses
ShownRight(t, c, has, k) ==
  /\ k \in DOMAIN PanelFields(t, c, has)
  /\ Displayed(c, k, PanelFields(t, c, has)[k]) = Uses(t, c, k)

(* The ways to write a field.                                              *)
LEMMA Abbreviations ==
  /\ Text = Field("text", "", {}, Always)
  /\ Number = Field("number", "", {}, Always)
  /\ \A when : Shown(Text, when) = Field("text", "", {}, when)
  /\ \A when : Shown(Number, when) = Field("number", "", {}, when)
  /\ \A d, options : Select(d, options) = Field("select", d, options, Always)
<1>1. Text = Field("text", "", {}, Always) /\ Number = Field("number", "", {}, Always)
  BY DEF Text, Number
<1>2. \A when : Shown(Text, when) = Field("text", "", {}, when)
  BY DEF Shown, Text, Field
<1>3. \A when : Shown(Number, when) = Field("number", "", {}, when)
  BY DEF Shown, Number, Field
<1>4. QED
  BY <1>1, <1>2, <1>3 DEF Select

(* A plain field has no default and is always shown.                       *)
LEMMA PlainFields ==
  \A field \in {Path, Text, Number} :
    field.kind \notin {"select", "bool"} /\ field.defaultValue = ""
      /\ field.showIf = Always
<1>1. Path.kind = "filepath" /\ Path.defaultValue = "" /\ Path.showIf = Always
  BY DEF Path, Field
<1>2. Text.kind = "text" /\ Text.defaultValue = "" /\ Text.showIf = Always
  BY DEF Text, Field
<1>3. Number.kind = "number" /\ Number.defaultValue = "" /\ Number.showIf = Always
  BY DEF Number, Field
<1>4. QED
  BY <1>1, <1>2, <1>3

(* A plain field shows what its handler uses, if that makes nothing of it. *)
LEMMA PlainShown ==
  ASSUME NEW t \in ManifestTypes, t # "createNet", NEW c, NEW has \in BOOLEAN,
         NEW k \in DOMAIN NODE_MANIFEST[t].configFields,
         NODE_MANIFEST[t].configFields[k] \in {Path, Text, Number},
         Uses(t, c, k) = get_config(c, k)
  PROVE  ShownRight(t, c, has, k)
<1> DEFINE f == NODE_MANIFEST[t].configFields[k]
<1>1. f.defaultValue = "" /\ f.showIf = Always
  BY PlainFields
<1>2. k \in DOMAIN PanelFields(t, c, has) /\ PanelFields(t, c, has)[k] = f
  <2>1. showIf(c, f.showIf)
    BY <1>1 DEF showIf
  <2>2. QED
    BY <2>1, ListedField
<1> HIDE DEF f
<1>3. QED
  BY <1>1, <1>2 DEF ShownRight, Displayed, get_config

(* A field that has a default of its own, or is not always shown, is right *)
(* if it is shown by now and the handler has the same default.             *)
LEMMA OtherShown ==
  ASSUME NEW t \in ManifestTypes, t # "createNet", NEW c, NEW has \in BOOLEAN,
         NEW k \in DOMAIN NODE_MANIFEST[t].configFields, NEW kind, NEW default,
         NEW options, NEW when,
         NODE_MANIFEST[t].configFields[k] = Field(kind, default, options, when),
         showIf(c, when),
         (IF k \in DOMAIN c THEN c[k] ELSE default) = Uses(t, c, k)
  PROVE  ShownRight(t, c, has, k)
<1> DEFINE f == NODE_MANIFEST[t].configFields[k]
<1>1. f.defaultValue = default /\ f.showIf = when
  BY DEF Field
<1>2. k \in DOMAIN PanelFields(t, c, has) /\ PanelFields(t, c, has)[k] = f
  BY <1>1, ListedField
<1> HIDE DEF f
<1>3. QED
  BY <1>1, <1>2 DEF ShownRight, Displayed

(* What is set by a menu is one of its options.                            *)
LEMMA SelectFits ==
  ASSUME NEW t, NEW c, WellSet(t, c), NEW k \in DOMAIN c, NEW default,
         NEW options, Settable(t)[k] = Select(default, options)
  PROVE  c[k] \in options
<1>1. Settable(t)[k].kind = "select" /\ Settable(t)[k].options = options
  BY DEF Select, Field
<1>2. QED
  BY <1>1 DEF WellSet, Fits

(* A filled tensor: its mode decides, on both sides, what else is set.     *)
LEMMA InputTensorShown ==
  ASSUME NEW c, WellSet("inputTensor", c), NEW has \in BOOLEAN,
         NEW k \in InputTensorKeys(c)
  PROVE  ShownRight("inputTensor", c, has, k)
<1> DEFINE F == NODE_MANIFEST["inputTensor"].configFields
<1>1. "inputTensor" \in ManifestTypes /\ "inputTensor" # "createNet"
  BY TableDomains, Entries
<1>2. F = InputTensorFields /\ Settable("inputTensor") = InputTensorFields
  BY FieldsOf DEF Settable
<1>3. /\ DOMAIN InputTensorFields = {"fillMode", "tensorText", "shape", "fillValue"}
      /\ InputTensorFields["fillMode"] = Select("manual", {"manual", "auto"})
      /\ InputTensorFields["tensorText"] = Shown(Text, When("fillMode", "manual", "manual"))
      /\ InputTensorFields["shape"] = Shown(Text, When("fillMode", "", "auto"))
      /\ InputTensorFields["fillValue"] = Shown(Number, When("fillMode", "", "auto"))
  BY DEF InputTensorFields
<1>4. /\ DOMAIN F = {"fillMode", "tensorText", "shape", "fillValue"}
      /\ F["fillMode"] = Field("select", "manual", {"manual", "auto"}, Always)
      /\ F["tensorText"] = Field("text", "", {}, When("fillMode", "manual", "manual"))
      /\ F["shape"] = Field("text", "", {}, When("fillMode", "", "auto"))
      /\ F["fillValue"] = Field("number", "", {}, When("fillMode", "", "auto"))
  BY <1>2, <1>3, Abbreviations
<1>5. "fillMode" \in DOMAIN c => c["fillMode"] \in {"manual", "auto"}
  <2>1. Settable("inputTensor")["fillMode"] = Select("manual", {"manual", "auto"})
    BY <1>2, <1>3
  <2>2. QED
    BY <2>1, SelectFits
<1> HIDE DEF F
<1>6. CASE k = "fillMode"
  <2>1. (IF k \in DOMAIN c THEN c[k] ELSE "manual") = Uses("inputTensor", c, k)
    BY <1>5, <1>6 DEF Uses, fillMode, get_config
  <2>2. showIf(c, Always)
    BY DEF showIf
  <2>3. QED
    BY <1>1, <1>4, <1>6, <2>1, <2>2, OtherShown DEF F
<1>7. CASE k \in {"shape", "fillValue"}
  <2>1. fillMode(c) = "auto"
    BY <1>7 DEF InputTensorKeys
  <2>2. showIf(c, When("fillMode", "", "auto"))
    BY <2>1 DEF showIf, When, fillMode, get_config
  <2>3. (IF k \in DOMAIN c THEN c[k] ELSE "") = Uses("inputTensor", c, k)
    BY <1>7 DEF Uses, get_config
  <2>4. QED
    BY <1>1, <1>4, <1>7, <2>2, <2>3, OtherShown DEF F
<1>8. CASE k = "tensorText"
  <2>1. fillMode(c) = "manual"
    BY <1>8 DEF InputTensorKeys, fillMode
  <2>2. showIf(c, When("fillMode", "manual", "manual"))
    BY <1>5, <2>1 DEF showIf, When, fillMode, get_config
  <2>3. (IF k \in DOMAIN c THEN c[k] ELSE "") = Uses("inputTensor", c, k)
    BY <1>8 DEF Uses, get_config
  <2>4. QED
    BY <1>1, <1>4, <1>8, <2>2, <2>3, OtherShown DEF F
<1>9. QED
  BY <1>6, <1>7, <1>8 DEF InputTensorKeys

(* A postprocessing node: its operation decides.                           *)
LEMMA PostprocessShown ==
  ASSUME NEW c, WellSet("postprocess", c), NEW has \in BOOLEAN,
         NEW k \in PostprocessKeys(c)
  PROVE  ShownRight("postprocess", c, has, k)
<1> DEFINE F == NODE_MANIFEST["postprocess"].configFields
<1>1. "postprocess" \in ManifestTypes /\ "postprocess" # "createNet"
  BY TableDomains, Entries
<1>2. F = PostprocessFields /\ Settable("postprocess") = PostprocessFields
  BY FieldsOf DEF Settable
<1>3. /\ DOMAIN PostprocessFields = {"op", "iouThreshold", "k"}
      /\ PostprocessFields["op"] = Select("nms", {"nms", "topk"})
      /\ PostprocessFields["iouThreshold"] = Shown(Number, When("op", "nms", "nms"))
      /\ PostprocessFields["k"] = Shown(Number, When("op", "", "topk"))
  BY DEF PostprocessFields
<1>4. /\ DOMAIN F = {"op", "iouThreshold", "k"}
      /\ F["op"] = Field("select", "nms", {"nms", "topk"}, Always)
      /\ F["iouThreshold"] = Field("number", "", {}, When("op", "nms", "nms"))
      /\ F["k"] = Field("number", "", {}, When("op", "", "topk"))
  BY <1>2, <1>3, Abbreviations
<1>5. "op" \in DOMAIN c => c["op"] \in {"nms", "topk"}
  <2>1. Settable("postprocess")["op"] = Select("nms", {"nms", "topk"})
    BY <1>2, <1>3
  <2>2. QED
    BY <2>1, SelectFits
<1>6. op(c) = (IF "op" \in DOMAIN c THEN c["op"] ELSE "nms")
  BY <1>5 DEF op, OrDefault, get_config
<1> HIDE DEF F
<1>7. CASE k = "op"
  <2>1. (IF k \in DOMAIN c THEN c[k] ELSE "nms") = Uses("postprocess", c, k)
    BY <1>6, <1>7 DEF Uses
  <2>2. showIf(c, Always)
    BY DEF showIf
  <2>3. QED
    BY <1>1, <1>4, <1>7, <2>1, <2>2, OtherShown DEF F
<1>8. CASE k = "iouThreshold"
  <2>1. op(c) = "nms"
    BY <1>8 DEF PostprocessKeys
  <2>2. showIf(c, When("op", "nms", "nms"))
    BY <1>6, <2>1 DEF showIf, When
  <2>3. (IF k \in DOMAIN c THEN c[k] ELSE "") = Uses("postprocess", c, k)
    BY <1>8 DEF Uses, get_config
  <2>4. QED
    BY <1>1, <1>4, <1>8, <2>2, <2>3, OtherShown DEF F
<1>9. CASE k = "k"
  <2>1. op(c) = "topk"
    BY <1>9 DEF PostprocessKeys
  <2>2. showIf(c, When("op", "", "topk"))
    BY <1>6, <2>1 DEF showIf, When
  <2>3. (IF k \in DOMAIN c THEN c[k] ELSE "") = Uses("postprocess", c, k)
    BY <1>9 DEF Uses, get_config
  <2>4. QED
    BY <1>1, <1>4, <1>9, <2>2, <2>3, OtherShown DEF F
<1>10. QED
  BY <1>7, <1>8, <1>9 DEF PostprocessKeys

(* An image of a tensor: its size is shown also when it is not read.       *)
LEMMA TensorToImageShown ==
  ASSUME NEW c, WellSet("tensorToImage", c), NEW has \in BOOLEAN,
         NEW overlay \in BOOLEAN, NEW k \in TensorToImageKeys(overlay)
  PROVE  ShownRight("tensorToImage", c, has, k)
<1> DEFINE F == NODE_MANIFEST["tensorToImage"].configFields
<1>1. "tensorToImage" \in ManifestTypes /\ "tensorToImage" # "createNet"
  BY TableDomains, Entries
<1>2. F = TensorToImageFields /\ Settable("tensorToImage") = TensorToImageFields
  BY FieldsOf DEF Settable
<1>3. /\ DOMAIN TensorToImageFields = {"width", "height", "colormap", "normalize", "overlayOpacity"}
      /\ TensorToImageFields["width"] = Shown(Number, When("original_image", "", ""))
      /\ TensorToImageFields["height"] = Shown(Number, When("original_image", "", ""))
      /\ TensorToImageFields["colormap"] = Select("viridis", {"viridis", "gray"})
      /\ TensorToImageFields["normalize"] = Select("auto", {"auto", "none"})
      /\ TensorToImageFields["overlayOpacity"] = Number
  BY DEF TensorToImageFields
<1>4. /\ DOMAIN F = {"width", "height", "colormap", "normalize", "overlayOpacity"}
      /\ F["width"] = Field("number", "", {}, When("original_image", "", ""))
      /\ F["height"] = Field("number", "", {}, When("original_image", "", ""))
      /\ F["colormap"] = Field("select", "viridis", {"viridis", "gray"}, Always)
      /\ F["normalize"] = Field("select", "auto", {"auto", "none"}, Always)
      /\ F["overlayOpacity"] = Number
  BY <1>2, <1>3, Abbreviations
<1>5. /\ "original_image" \notin DOMAIN c
      /\ "colormap" \in DOMAIN c => c["colormap"] \in {"viridis", "gray"}
      /\ "normalize" \in DOMAIN c => c["normalize"] \in {"auto", "none"}
  <2>1. "original_image" \notin DOMAIN c
    <3>1. "original_image" \notin DOMAIN Settable("tensorToImage")
      <4>1. DOMAIN Settable("tensorToImage")
              = {"width", "height", "colormap", "normalize", "overlayOpacity"}
        BY <1>2, <1>3
      <4>2. QED
        BY <4>1
    <3>2. QED
      BY <3>1 DEF WellSet
  <2>2. /\ Settable("tensorToImage")["colormap"] = Select("viridis", {"viridis", "gray"})
        /\ Settable("tensorToImage")["normalize"] = Select("auto", {"auto", "none"})
    BY <1>2, <1>3
  <2>3. "colormap" \in DOMAIN c => c["colormap"] \in {"viridis", "gray"}
    BY <2>2, SelectFits
  <2>4. "normalize" \in DOMAIN c => c["normalize"] \in {"auto", "none"}
    BY <2>2, SelectFits
  <2>5. QED
    BY <2>1, <2>3, <2>4
<1> HIDE DEF F
<1>6. CASE k \in {"width", "height"}
  <2>1. showIf(c, When("original_image", "", ""))
    BY <1>5 DEF showIf, When
  <2>2. (IF k \in DOMAIN c THEN c[k] ELSE "") = Uses("tensorToImage", c, k)
    BY <1>6 DEF Uses, get_config
  <2>3. QED
    BY <1>1, <1>4, <1>6, <2>1, <2>2, OtherShown DEF F
<1>7. showIf(c, Always)
  BY DEF showIf
<1>8. CASE k = "colormap"
  <2>1. (IF k \in DOMAIN c THEN c[k] ELSE "viridis") = Uses("tensorToImage", c, k)
    BY <1>5, <1>8 DEF Uses, colormap, OrDefault, get_config
  <2>2. QED
    BY <1>1, <1>4, <1>7, <1>8, <2>1, OtherShown DEF F
<1>9. CASE k = "normalize"
  <2>1. (IF k \in DOMAIN c THEN c[k] ELSE "auto") = Uses("tensorToImage", c, k)
    BY <1>5, <1>9 DEF Uses, normalize, OrDefault, get_config
  <2>2. QED
    BY <1>1, <1>4, <1>7, <1>9, <2>1, OtherShown DEF F
<1>10. CASE k = "overlayOpacity"
  <2>1. Uses("tensorToImage", c, k) = get_config(c, k)
    BY <1>10 DEF Uses
  <2>2. QED
    BY <1>1, <1>4, <1>10, <2>1, PlainShown DEF F
<1>11. QED
  BY <1>6, <1>8, <1>9, <1>10 DEF TensorToImageKeys

(* The drawing of boxes: plain fields, and one menu.                       *)
LEMMA DrawBoxesShown ==
  ASSUME NEW c, WellSet("drawBoxes", c), NEW has \in BOOLEAN,
         NEW k \in PlainKeys["drawBoxes"]
  PROVE  ShownRight("drawBoxes", c, has, k)
<1> DEFINE F == NODE_MANIFEST["drawBoxes"].configFields
<1>0. "drawBoxes" \in ManifestTypes /\ "drawBoxes" # "createNet"
  BY TableDomains, Entries
<1>1. F = DrawBoxesFields /\ Settable("drawBoxes") = DrawBoxesFields
  BY FieldsOf DEF Settable
<1>2. /\ DOMAIN DrawBoxesFields = PlainKeys["drawBoxes"]
      /\ DrawBoxesFields["normalizedCoords"] = Select("false", {"false", "true"})
      /\ \A j \in DOMAIN DrawBoxesFields \ {"normalizedCoords"} :
           DrawBoxesFields[j] \in {Path, Number}
  BY DEF DrawBoxesFields, PlainKeys
<1> HIDE DEF F
<1>3. CASE k # "normalizedCoords"
  <2>1. Uses("drawBoxes", c, k) = get_config(c, k)
    BY <1>3 DEF Uses
  <2>2. k \in DOMAIN F /\ F[k] \in {Path, Text, Number}
    BY <1>1, <1>2, <1>3
  <2>3. QED
    BY <1>0, <2>1, <2>2, PlainShown DEF F
<1>4. CASE k = "normalizedCoords"
  <2>1. Settable("drawBoxes")["normalizedCoords"] = Select("false", {"false", "true"})
    BY <1>1, <1>2
  <2>2. k \in DOMAIN c => c[k] \in {"false", "true"}
    BY <1>4, <2>1, SelectFits
  <2>3. (IF k \in DOMAIN c THEN c[k] ELSE "false") = Uses("drawBoxes", c, k)
    BY <1>4, <2>2 DEF Uses, normalizedCoords, get_config
  <2>4. k \in DOMAIN F /\ F[k] = Field("select", "false", {"false", "true"}, Always)
    BY <1>1, <1>2, <1>4, Abbreviations
  <2>5. showIf(c, Always)
    BY DEF showIf
  <2>6. QED
    BY <1>0, <2>3, <2>4, <2>5, OtherShown DEF F
<1>5. QED
  BY <1>3, <1>4

(* A net: the fields of its engine, or those shown while they are unknown. *)
LEMMA NetShown ==
  ASSUME NEW c, WellSet("createNet", c), NEW has \in BOOLEAN, NEW k \in NetKeys
  PROVE  ShownRight("createNet", c, has, k)
<1> DEFINE fields == PanelFields("createNet", c, has)
<1>1. fields \in {VendorFields, FallbackFields}
  BY NetField
<1> HIDE DEF fields
<1>2. k \in DOMAIN fields
      /\ fields[k].defaultValue = IF k = "emptyWeights" THEN "false" ELSE ""
  <2>1. CASE fields = VendorFields
    <3>1. VendorFields[k].defaultValue = IF k = "emptyWeights" THEN "false" ELSE ""
      BY VendorField
    <3>2. QED
      BY <2>1, <3>1, NetDomains
  <2>2. CASE fields = FallbackFields
    <3>1. FallbackFields[k].defaultValue = IF k = "emptyWeights" THEN "false" ELSE ""
      BY VendorField
    <3>2. QED
      BY <2>2, <3>1, NetDomains
  <2>3. QED
    BY <1>1, <2>1, <2>2
<1>4. CASE k = "emptyWeights"
  <2>1. k \in DOMAIN c => c[k] \in {"true", "false"}
    <3>1. VendorFields["emptyWeights"].kind = "bool"
      BY <1>4, VendorField
    <3>2. QED
      BY <1>4, <3>1 DEF WellSet, Fits, Settable
  <2>2. Uses("createNet", c, k) = IF k \in DOMAIN c THEN c[k] ELSE "false"
    BY <1>4, <2>1 DEF Uses, emptyWeights, get_config
  <2>3. Displayed(c, k, fields[k]) = IF k \in DOMAIN c THEN c[k] ELSE "false"
    BY <1>2, <1>4 DEF Displayed
  <2>4. QED
    BY <1>2, <2>2, <2>3 DEF ShownRight, fields
<1>5. CASE k # "emptyWeights"
  <2>1. Uses("createNet", c, k) = IF k \in DOMAIN c THEN c[k] ELSE ""
    BY <1>5 DEF Uses, get_config
  <2>2. Displayed(c, k, fields[k]) = IF k \in DOMAIN c THEN c[k] ELSE ""
    <3>1. fields[k].defaultValue = ""
      BY <1>2, <1>5
    <3>2. QED
      BY <3>1 DEF Displayed
  <2>3. QED
    BY <1>2, <2>1, <2>2 DEF ShownRight, fields
<1>6. QED
  BY <1>4, <1>5

\* the types of node whose fields have no default and are always shown
PlainTypes ==
  {"inputImage", "saveText", "saveImage", "benchmark", "annotateImage",
   "segmentationMask", "composite", "condition", "inference", "output", "debug"}

(* Of those types, every key the handler reads has a plain field.          *)
LEMMA PlainTables ==
  ASSUME NEW t \in PlainTypes
  PROVE  /\ t \in ManifestTypes /\ t # "createNet"
         /\ \A k \in PlainKeys[t] :
              /\ k \in DOMAIN NODE_MANIFEST[t].configFields
              /\ NODE_MANIFEST[t].configFields[k] \in {Path, Text, Number}
<1>1. t \in ManifestTypes /\ t # "createNet"
  BY TableDomains, Entries DEF PlainTypes
<1>2. \A k \in {"filePath"} : k \in DOMAIN PathField /\ PathField[k] = Path
  BY DEF PathField
<1>3. \A k \in {"duration"} : k \in DOMAIN BenchmarkFields /\ BenchmarkFields[k] = Number
  BY DEF BenchmarkFields
<1>4. \A k \in {"maxLines", "fontScale", "labelsPath"} :
        k \in DOMAIN AnnotateImageFields /\ AnnotateImageFields[k] \in {Path, Number}
  BY DEF AnnotateImageFields
<1>5. \A k \in {"width", "height"} : k \in DOMAIN MaskFields /\ MaskFields[k] = Number
  BY DEF MaskFields
<1>6. \A k \in {"opacity"} : k \in DOMAIN CompositeFields /\ CompositeFields[k] = Number
  BY DEF CompositeFields
<1>7. \A k \in {"expression"} : k \in DOMAIN ConditionFields /\ ConditionFields[k] = Text
  BY DEF ConditionFields
<1>8. /\ \A s \in {"inputImage", "saveText", "saveImage"} : PlainKeys[s] = {"filePath"}
      /\ PlainKeys["benchmark"] = {"duration"}
      /\ PlainKeys["annotateImage"] = {"maxLines", "fontScale", "labelsPath"}
      /\ PlainKeys["segmentationMask"] = {"width", "height"}
      /\ PlainKeys["composite"] = {"opacity"}
      /\ PlainKeys["condition"] = {"expression"}
      /\ \A s \in {"inference", "output", "debug"} : PlainKeys[s] = {}
  BY DEF PlainKeys
<1>9. \A k \in PlainKeys[t] :
        /\ k \in DOMAIN NODE_MANIFEST[t].configFields
        /\ NODE_MANIFEST[t].configFields[k] \in {Path, Text, Number}
  <2>1. CASE t \in {"inputImage", "saveText", "saveImage"}
    BY <1>2, <1>8, <2>1, FieldsOf
  <2>2. CASE t = "benchmark"
    BY <1>3, <1>8, <2>2, FieldsOf
  <2>3. CASE t = "annotateImage"
    BY <1>4, <1>8, <2>3, FieldsOf
  <2>4. CASE t = "segmentationMask"
    BY <1>5, <1>8, <2>4, FieldsOf
  <2>5. CASE t = "composite"
    BY <1>6, <1>8, <2>5, FieldsOf
  <2>6. CASE t = "condition"
    BY <1>7, <1>8, <2>6, FieldsOf
  <2>7. CASE t \in {"inference", "output", "debug"}
    BY <1>8, <2>7
  <2>8. QED
    BY <2>1, <2>2, <2>3, <2>4, <2>5, <2>6, <2>7 DEF PlainTypes
<1>10. QED
  BY <1>1, <1>9

(* So it is for every type of node.                                        *)
LEMMA ReadIsShown ==
  ASSUME NEW t \in ManifestTypes, NEW c, WellSet(t, c), NEW has \in BOOLEAN,
         NEW overlay \in BOOLEAN, NEW k \in Reads(t, c, overlay)
  PROVE  ShownRight(t, c, has, k)
<1>1. t \in PlainTypes \union {"inputTensor", "postprocess", "tensorToImage",
                               "drawBoxes", "createNet"}
  BY TableDomains, Entries DEF PlainTypes
<1>2. CASE t = "inputTensor"
  BY <1>2, InputTensorShown DEF Reads
<1>3. CASE t = "postprocess"
  BY <1>3, PostprocessShown DEF Reads
<1>4. CASE t = "tensorToImage"
  BY <1>4, TensorToImageShown DEF Reads
<1>5. CASE t = "drawBoxes"
  BY <1>5, DrawBoxesShown DEF Reads
<1>6. CASE t = "createNet"
  <2>1. PlainKeys["createNet"] = NetKeys
    BY DEF PlainKeys
  <2>2. QED
    BY <1>6, <2>1, NetShown DEF Reads
<1>7. CASE t \in PlainTypes
  <2>1. t \notin {"inputTensor", "postprocess", "tensorToImage", "drawBoxes", "createNet"}
    BY <1>7 DEF PlainTypes
  <2>2. Reads(t, c, overlay) = PlainKeys[t] /\ Uses(t, c, k) = get_config(c, k)
    BY <2>1 DEF Reads, Uses
  <2>3. QED
    BY <1>7, <2>2, PlainTables, PlainShown
<1>8. QED
  BY <1>1, <1>2, <1>3, <1>4, <1>5, <1>6, <1>7

(* No setting is at work that the panel hides, or other than it is shown.  *)
(* (manifest.tsx, core_handlers.cpp)                                       *)
THEOREM SettingsShown == NodeConfigSpec => []UsedIsShown
<1>1. ConfigInv => UsedIsShown
  <2> SUFFICES ASSUME ConfigInv, NEW n \in ConfigNodes, NEW overlay \in BOOLEAN,
                      NEW has \in BOOLEAN,
                      NEW k \in Reads(nodeKind[n], config[n], overlay)
               PROVE  ShownRight(nodeKind[n], config[n], has, k)
    BY DEF UsedIsShown, ShownRight
  <2>1. QED
    BY ReadIsShown DEF ConfigInv
<1>2. QED
  BY ConfigInvariance, <1>1, PTL

-----------------------------------------------------------------------------
(* Connecting: what is drawn on the canvas the server accepts.             *)

\* the edge of a connection the canvas found valid
DrawnBetween(s, t, e) ==
  /\ s \in HandlesOf("source") /\ t \in HandlesOf("target")
  /\ validateConnection(s, t)
  /\ e = EdgeOf(s, t)

ConnectInv ==
  /\ canvasType \in [CanvasNodes -> ManifestTypes]
  /\ dragged \subseteq HandlesOf("source")
  /\ over \subseteq HandlesOf("target")
  /\ \A e \in edges : \E s, t : DrawnBetween(s, t, e)

(* Every step keeps the invariant.                                         *)
LEMMA ConnectStep == ConnectInv /\ [ConnectNext]_connectVars => ConnectInv'
<1> SUFFICES ASSUME ConnectInv, [ConnectNext]_connectVars PROVE ConnectInv'
  OBVIOUS
<1>1. canvasType' = canvasType
  BY DEF ConnectNext, onConnectStart, HoverHandle, DropConnection, DismissToast,
         DeleteEdge, connectVars
<1>2. /\ \A d : HandlesOf(d)' = HandlesOf(d)
      /\ \A s, t, e : DrawnBetween(s, t, e)' = DrawnBetween(s, t, e)
  BY <1>1 DEF HandlesOf, DrawnBetween, validateConnection
<1>3. ASSUME edges' \subseteq edges, dragged' \subseteq HandlesOf("source"),
             over' \subseteq HandlesOf("target")
      PROVE  ConnectInv'
  BY <1>1, <1>2, <1>3 DEF ConnectInv
<1>4. ASSUME NEW s \in HandlesOf("source"), onConnectStart(s) PROVE ConnectInv'
  BY <1>3, <1>4 DEF onConnectStart, ConnectInv
<1>5. ASSUME NEW ts, ts \subseteq HandlesOf("target"), HoverHandle(ts)
      PROVE  ConnectInv'
  BY <1>3, <1>5 DEF HoverHandle, ConnectInv
<1>6. CASE DropConnection
  <2>1. ASSUME NEW e \in edges' PROVE \E s, t : DrawnBetween(s, t, e)
    <3>1. CASE e \in edges
      BY <3>1 DEF ConnectInv
    <3>2. CASE e \notin edges
      <4>1. PICK st \in dragged \X over :
              validateConnection(st[1], st[2]) /\ e = EdgeOf(st[1], st[2])
        BY <1>6, <2>1, <3>2 DEF DropConnection
      <4>2. st[1] \in HandlesOf("source") /\ st[2] \in HandlesOf("target")
        BY DEF ConnectInv
      <4>3. QED
        BY <4>1, <4>2 DEF DrawnBetween
    <3>3. QED
      BY <3>1, <3>2
  <2>2. dragged' = {} /\ over' = {}
    BY <1>6 DEF DropConnection
  <2>3. QED
    BY <1>1, <1>2, <2>1, <2>2 DEF ConnectInv
<1>7. CASE DismissToast
  BY <1>3, <1>7 DEF DismissToast, ConnectInv
<1>8. ASSUME NEW e \in edges, DeleteEdge(e) PROVE ConnectInv'
  BY <1>3, <1>8 DEF DeleteEdge, ConnectInv
<1>9. CASE UNCHANGED connectVars
  BY <1>3, <1>9 DEF connectVars, ConnectInv
<1>10. QED
  BY <1>4, <1>5, <1>6, <1>7, <1>8, <1>9 DEF ConnectNext

(* What the canvas lets join, the server does.                             *)
LEMMA CompatibleThere ==
  ASSUME NEW st, NEW tt, areTypesCompatible(st, tt) PROVE compatible(st, tt)
BY DEF areTypesCompatible, compatible

(* The server refuses no edge that was drawn.                              *)
(* (portSchema.ts 67-101, executor.cpp 590-603)                            *)
THEOREM DrawnEdgesAccepted == ConnectSpec => []DrawnIsAccepted
<1>1. ConnectInit => ConnectInv
  BY DEF ConnectInit, ConnectInv
<1>2. ConnectInv => DrawnIsAccepted
  <2> SUFFICES ASSUME ConnectInv, NEW e \in edges PROVE ServerAccepts(e)
    BY DEF DrawnIsAccepted
  <2>1. PICK s, t : DrawnBetween(s, t, e)
    BY DEF ConnectInv
  <2>2. ASSUME NEW d, NEW h \in HandlesOf(d)
        PROVE  /\ h.node \in CanvasNodes
               /\ \E p \in port_defs(canvasType[h.node]) :
                    /\ p.direction = d /\ p.id = h.port
                    /\ p \in getPort(canvasType[h.node], h.port)
    <3>1. PICK n \in CanvasNodes : \E p \in NODE_MANIFEST[canvasType[n]].ports :
            p.direction = d /\ h = [node |-> n, port |-> p.id]
      BY <2>2 DEF HandlesOf
    <3>2. NODE_MANIFEST[canvasType[n]].ports = port_defs(canvasType[n])
      BY PortsAgree DEF ConnectInv
    <3>3. QED
      BY <3>1, <3>2 DEF getPort
  <2>3. PICK p \in port_defs(canvasType[s.node]) :
          /\ p.direction = "source" /\ p.id = s.port
          /\ p \in getPort(canvasType[s.node], s.port)
    BY <2>1, <2>2 DEF DrawnBetween
  <2>4. PICK q \in port_defs(canvasType[t.node]) :
          /\ q.direction = "target" /\ q.id = t.port
          /\ q \in getPort(canvasType[t.node], t.port)
    BY <2>1, <2>2 DEF DrawnBetween
  <2>5. compatible(p.dataType, q.dataType)
    BY <2>1, <2>3, <2>4, CompatibleThere DEF DrawnBetween, validateConnection
  <2>6. /\ e.source = s.node /\ e.sourceHandle = s.port
        /\ e.target = t.node /\ e.targetHandle = t.port
    BY <2>1 DEF DrawnBetween, EdgeOf
  <2>7. QED
    BY <2>3, <2>4, <2>5, <2>6 DEF ServerAccepts
<1>3. QED
  BY <1>1, <1>2, ConnectStep, PTL DEF ConnectSpec
=============================================================================
