------------------------------- MODULE Editing -------------------------------
(***************************************************************************)
(* What one edit does to a text, whatever the position of the cursor, and  *)
(* how the words of a text are counted.  TextBuffer.tla models the byte    *)
(* array behind these edits and is shown to perform exactly them; App.tla  *)
(* uses them for the document and for the prompt, whose cursors it leaves  *)
(* out.  A character is its code, as in the C source.                      *)
(***************************************************************************)
EXTENDS Integers, Sequences, FiniteSets

NewLine == 10
Space   == 32

(* isspace() in the C locale: \t \n \v \f \r and the space. *)
IsSpace(c) == c \in (9 .. 13) \cup {Space}

(* The texts that anvi_text_buffer_insert can turn s into: t lands at the  *)
(* cursor and both sides of it are kept.                                   *)
Inserted(s, t) ==
  { SubSeq(s, 1, i) \o t \o SubSeq(s, i + 1, Len(s)) : i \in 0 .. Len(s) }

(* The texts that anvi_text_buffer_backspace can turn s into: one grapheme *)
(* that ends at the cursor disappears, or nothing does.                    *)
Erased(s) ==
  { SubSeq(s, 1, c[1]) \o SubSeq(s, c[2] + 1, Len(s)) :
      c \in { p \in (0 .. Len(s)) \X (0 .. Len(s)) : p[1] <= p[2] } }

(* The positions at which a word starts. *)
WordStarts(s) ==
  { i \in 1 .. Len(s) : ~IsSpace(s[i]) /\ (i = 1 \/ IsSpace(s[i - 1])) }

(* A reference definition of anvi_text_buffer_word_count. *)
WordCount(s) == Cardinality(WordStarts(s))
=============================================================================
