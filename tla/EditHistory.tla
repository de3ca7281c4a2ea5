---------------------------- MODULE EditHistory ----------------------------
(***************************************************************************)
(* What undo and redo promise, with no store, cache, snapshots or stacks:  *)
(* a line of versions and the one that is on the canvas.  An edit goes on  *)
(* from there, drops what was to be redone and keeps what came before, as  *)
(* far as there is room; undo and redo move along the line and change none *)
(* of it; while the history is held an edit replaces the present version.  *)
(* What is not authored - a run, a selection - is not in it at all.        *)
(*                                                                         *)
(* WorkflowStore implements this specification.                            *)
(***************************************************************************)
EXTENDS Naturals, Sequences

CONSTANT Limit  \* versions kept besides the present one

VARIABLES
  line,  \* the versions, the oldest first
  at,    \* which of them is on the canvas
  held   \* edits leave no version behind

vars == <<line, at, held>>

Init ==
  /\ Len(line) = 1
  /\ at = 1
  /\ held = FALSE

\* n edits in one go; the oldest versions make room
Edit(n) ==
  LET whole == at + n
      room  == IF whole > Limit + 1 THEN Limit + 1 ELSE whole
      lost  == whole - room
  IN
  /\ ~held /\ UNCHANGED held
  /\ at' = room
  /\ Len(line') = room
  /\ \A k \in 1..(room - n) : line'[k] = line[k + lost]
  /\ line'[room] # line[at]

Replace ==
  /\ held /\ UNCHANGED <<at, held>>
  /\ Len(line') = Len(line)
  /\ \A k \in 1..Len(line) : k # at => line'[k] = line[k]

Undo ==
  /\ at > 1
  /\ at' = at - 1
  /\ UNCHANGED <<line, held>>

Redo ==
  /\ at < Len(line)
  /\ at' = at + 1
  /\ UNCHANGED <<line, held>>

Hold ==
  /\ held' = ~held
  /\ UNCHANGED <<line, at>>

Next == (\E n \in {1, 2} : Edit(n)) \/ Replace \/ Undo \/ Redo \/ Hold

Spec == Init /\ [][Next]_vars
=============================================================================
