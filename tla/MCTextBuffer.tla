---------------------------- MODULE MCTextBuffer ----------------------------
(* Instances of TextBuffer for TLC: a letter, the line feed of Return, the *)
(* carriage return of the keypad's Enter, and the combining acute accent   *)
(* (two bytes in UTF-8).                                                   *)
EXTENDS TextBuffer

Letter         == 97
CarriageReturn == 13
AccentLead     == 204
AccentTail     == 129

KeyTexts ==
  { <<Letter>>, <<NewLine>>, <<CarriageReturn>>, <<AccentLead, AccentTail>> }

TailBytes == {AccentTail}

\* The rules of libgrapheme for these bytes.
GraphemeJoins(a, b) ==
  \/ b = AccentTail
  \/ b = AccentLead /\ a \notin {NewLine, CarriageReturn}
  \/ a = CarriageReturn /\ b = NewLine
=============================================================================
