---------------------------- MODULE NodeClasses -----------------------------
(***************************************************************************)
(* How the canvas styles a node: a className computed from its category,   *)
(* its status, the selection and its breakpoint, kept in a cache under a   *)
(* key of those, and looked up at each rendering.                          *)
(*                                                                         *)
(* React renders after each change of nodes, selectedNodeId or breakpoints *)
(* and only then; the change and the rendering are one action.             *)
(***************************************************************************)
EXTENDS Manifest, TLC

CONSTANTS
  StyledIds,      \* ids of nodes: the generated ones, and those of files
  StyledTypes,    \* types of nodes, some no manifest knows
  NoneSelected

Statuses == {"idle", "running", "paused", "done", "error"}

VARIABLES
  styled,        \* nodes: the type and status of each that is there
  selectedId,
  breakpoints,   \* of some nodes, whether the breakpoint is enabled
  classCache     \* styledNodeCacheRef

styleVars == <<styled, selectedId, breakpoints, classCache>>

NodeStyles == [kind : StyledTypes, status : Statuses]

Empty == [n \in {} |-> ""]

StyleInit ==
  /\ styled = Empty /\ selectedId = NoneSelected
  /\ breakpoints = Empty /\ classCache = Empty

-----------------------------------------------------------------------------
(* The rendering.                                                          *)

\* CATEGORY_VISUALS and nodeCategory: the CSS class of a type's category, one
\* for each
CategoryClass(t) ==
  IF t \in ManifestTypes THEN NODE_MANIFEST[t].category ELSE ""

\* computeNodeClassName, the set of its tokens
ClassName(category, status, selected, bp) ==
  {category} \union (IF selected THEN {"selected"} ELSE {})
    \union (IF status = "running" THEN {"node-running"} ELSE {})
    \union (IF status = "paused" THEN {"node-paused"} ELSE {})
    \union CASE bp = "a" -> {"node-bp-armed"}
             [] bp = "d" -> {"node-bp-disabled"}
             [] bp = "n" -> {}

\* the badge of a breakpoint: armed, disabled, none
Badge(n, bps) ==
  IF n \notin DOMAIN bps THEN "n" ELSE IF bps[n] THEN "a" ELSE "d"

\* MUTANT of Key: it leaves out the breakpoint
Key_noBadge(n, nodes, selected, bps) ==
  <<CategoryClass(nodes[n].kind), nodes[n].status, n = selected>>

Key(n, nodes, selected, bps) ==
  <<CategoryClass(nodes[n].kind), nodes[n].status, n = selected,
    Badge(n, bps)>>

\* an entry whose key is the same is kept, one of a node that is gone dropped
Cached(nodes, selected, bps) ==
  [n \in DOMAIN nodes |->
     IF n \in DOMAIN classCache
          /\ classCache[n].key = Key(n, nodes, selected, bps)
     THEN classCache[n]
     ELSE [key |-> Key(n, nodes, selected, bps),
           className |-> ClassName(CategoryClass(nodes[n].kind),
                                   nodes[n].status, n = selected,
                                   Badge(n, bps))]]

\* the memo: with the same three inputs nothing is computed
Render ==
  classCache' =
    IF <<styled, selectedId, breakpoints>>' = <<styled, selectedId, breakpoints>>
    THEN classCache ELSE Cached(styled', selectedId', breakpoints')

-----------------------------------------------------------------------------
(* What changes.                                                           *)

\* a node comes from the palette, a copy, a file or undo, perhaps under the id
\* of one that was there
PutNode(n, s) ==
  /\ styled' = (n :> s) @@ styled
  /\ UNCHANGED <<selectedId, breakpoints>>
  /\ Render

\* with its breakpoint: nothing takes that away
TakeNode(n) ==
  /\ styled' = [m \in DOMAIN styled \ {n} |-> styled[m]]
  /\ selectedId' = IF selectedId = n THEN NoneSelected ELSE selectedId
  /\ UNCHANGED breakpoints
  /\ Render

SetStatus(n, s) ==
  /\ styled' = [styled EXCEPT ![n].status = s]
  /\ UNCHANGED <<selectedId, breakpoints>>
  /\ Render

SelectStyled(n) ==
  /\ selectedId' = n
  /\ UNCHANGED <<styled, breakpoints>>
  /\ Render

addBreakpoint(n) ==
  /\ n \notin DOMAIN breakpoints
  /\ breakpoints' = (n :> TRUE) @@ breakpoints
  /\ UNCHANGED <<styled, selectedId>>
  /\ Render

removeBreakpoint(n) ==
  /\ n \in DOMAIN breakpoints
  /\ breakpoints' = [m \in DOMAIN breakpoints \ {n} |-> breakpoints[m]]
  /\ UNCHANGED <<styled, selectedId>>
  /\ Render

\* toggleBreakpoint of the store; the app offers add and remove only
toggleBreakpoint(n) ==
  /\ n \in DOMAIN breakpoints
  /\ breakpoints' = [breakpoints EXCEPT ![n] = ~@]
  /\ UNCHANGED <<styled, selectedId>>
  /\ Render

StyleNext ==
  \/ \E n \in StyledIds, s \in NodeStyles : PutNode(n, s)
  \/ \E n \in DOMAIN styled :
       \/ TakeNode(n) \/ SelectStyled(n)
       \/ addBreakpoint(n) \/ removeBreakpoint(n) \/ toggleBreakpoint(n)
       \/ \E s \in Statuses : SetStatus(n, s)
  \/ SelectStyled(NoneSelected)

StyleSpec == StyleInit /\ [][StyleNext]_styleVars

-----------------------------------------------------------------------------
(* Properties.                                                             *)

(* The class a node is rendered with is the one computed from what is so   *)
(* now: no entry of the cache outlives what it was computed from, also     *)
(* when an id comes back as another node.  (App.tsx 312-355; nodeClassName *)
(* 5-12 fears "the cache key and the resulting className" drift apart)     *)
ClassIsCurrent ==
  /\ DOMAIN classCache = DOMAIN styled
  /\ \A n \in DOMAIN styled :
       classCache[n].className =
         ClassName(CategoryClass(styled[n].kind), styled[n].status,
                   n = selectedId, Badge(n, breakpoints))
=============================================================================
