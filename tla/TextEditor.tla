----------------------------- MODULE TextEditor -----------------------------
(***************************************************************************)
(* What a text buffer promises: a text with a cursor in it, as the text to *)
(* the left and the text to the right of the cursor.  Typing adds on the   *)
(* left, erasing takes away the end of the left part, moving the cursor    *)
(* never changes the text.                                                 *)
(***************************************************************************)
EXTENDS Integers, Sequences

CONSTANT Texts  \* what one key press types

VARIABLES left, right

editorVars == <<left, right>>

TEInit == left = << >> /\ right = << >>

Type ==
  /\ \E t \in Texts : left' = left \o t
  /\ UNCHANGED right

Erase ==
  /\ \E k \in 0 .. Len(left) : left' = SubSeq(left, 1, k)
  /\ UNCHANGED right

Move == left' \o right' = left \o right

Clear == left' = << >> /\ right' = << >>

TENext == Type \/ Erase \/ Move \/ Clear

TESpec == TEInit /\ [][TENext]_editorVars
=============================================================================
