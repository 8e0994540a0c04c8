----------------------------- MODULE MCKeyboard -----------------------------
(* An instance of Keyboard for TLC: two keys that repeat and one, such as  *)
(* Shift, that does not.  The highest rate is beyond a billion.            *)
EXTENDS Keyboard

CONSTANTS a, b, shift

AllKeys       == {a, b, shift}
TypingKeys    == {a, b}
SomeRates     == {0, 25, 2000000000}
DelaysAndZero == {0, 600}
=============================================================================
