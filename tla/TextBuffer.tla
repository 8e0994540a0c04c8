----------------------------- MODULE TextBuffer -----------------------------
(***************************************************************************)
(* src/src/text_buffer.c byte by byte: an array of fixed size, the length  *)
(* of the text and the position of the cursor, both in bytes.              *)
(*                                                                         *)
(* Graphemes come from libgrapheme, which looks at the text from a given   *)
(* position on.  Here a relation on neighbouring bytes stands for its      *)
(* rules: Joins(a, b) when there is no break between a byte a and a byte b *)
(* that follows it (the bytes of one character, CR before LF, a combining  *)
(* mark).                                                                  *)
(***************************************************************************)
EXTENDS Editing, SequencesExt

CONSTANTS
  TextBufferSize,  \* TEXT_BUFFER_SIZE of text_buffer.h
  Texts,           \* what one key press can type: non-empty sequences of bytes
  Continuation,    \* the bytes that do not begin a character
  Joins(_, _)      \* no grapheme ends between these two bytes

Byte == 0 .. 255
NUL  == 0

ASSUME TextBufferAssumption ==
  /\ TextBufferSize \in Nat \ {0}
  /\ \A t \in Texts : t \in Seq(Byte \ {NUL})

VARIABLES
  data,          \* tb->data, from index 0
  length_bytes,  \* tb->length_bytes
  cursor_bytes,  \* tb->cursor_bytes
  overrun        \* has a write gone past the end of tb->data?

bufferVars == <<data, length_bytes, cursor_bytes>>
vars == <<bufferVars, overrun>>

(* Stands for what malloc leaves in a byte that nothing was written to. *)
Junk  == -1
Index == 0 .. TextBufferSize - 1

(* The text: the first length_bytes bytes. *)
Text == [i \in 1 .. length_bytes |-> data[i - 1]]

-----------------------------------------------------------------------------
(* memmove and memcpy inside the array. *)
Memmove(d, to, from, n) ==
  [i \in Index |-> IF i \in to .. to + n - 1 THEN d[from + i - to] ELSE d[i]]

Memcpy(d, to, t) ==
  [i \in Index |-> IF i \in to .. to + Len(t) - 1 THEN t[i - to + 1] ELSE d[i]]

(* grapheme_next_character_break_utf8 walks to the next of these. *)
Boundaries(s) ==
  {0, Len(s)} \cup { i \in 1 .. Len(s) - 1 : ~Joins(s[i], s[i + 1]) }

(* The number of bytes from position p to the next boundary; 0 at the end. *)
NextCharacterBreak(s, p) ==
  IF p = Len(s) THEN 0
  ELSE CHOOSE n \in 1 .. Len(s) - p :
         /\ p + n \in Boundaries(s)
         /\ \A m \in 1 .. n - 1 : p + m \notin Boundaries(s)

(* Slip: the length counts one byte too many. *)
FindLengthOffByOne(s, p) ==
  IF p \in Boundaries(s) \ {0}
  THEN CHOOSE n \in 1 .. p + 1 :
         /\ n > 1 /\ p - n + 1 \in Boundaries(s)
         /\ \A m \in 1 .. n - 2 : p - m \notin Boundaries(s)
  ELSE 0

(* find_length_of_grapheme_to_left_of_cursor walks over the graphemes from *)
(* the start of the text until one ends at p; if none does it returns 0.   *)
FindLengthOfGraphemeToLeft(s, p) ==
  IF p \in Boundaries(s) \ {0}
  THEN CHOOSE n \in 1 .. p :
         /\ p - n \in Boundaries(s)
         /\ \A m \in 1 .. n - 1 : p - m \notin Boundaries(s)
  ELSE 0

(* Slip: the loop forgets that it is inside a word. *)
WordCountLoopWithoutMemory(s) ==
  FoldLeft(LAMBDA acc, c : IF IsSpace(c) THEN acc ELSE acc + 1, 0, s)

(* anvi_text_buffer_word_count: what it knows after n turns of its loop,   *)
(* one for each byte.                                                      *)
WordCountLoop(s) ==
  LET after[n \in 0 .. Len(s)] ==
        IF n = 0 THEN [amount |-> 0, inside_word |-> FALSE]
        ELSE [ amount      |-> IF IsSpace(s[n]) \/ after[n - 1].inside_word
                               THEN after[n - 1].amount ELSE after[n - 1].amount + 1,
               inside_word |-> ~IsSpace(s[n]) ]
  IN  after[Len(s)].amount

-----------------------------------------------------------------------------
(* anvi_text_buffer_allocate_and_initialise: only the first byte is set. *)
Init ==
  /\ data = [i \in Index |-> IF i = 0 THEN NUL ELSE Junk]
  /\ length_bytes = 0
  /\ cursor_bytes = 0
  /\ overrun = FALSE

(* Slip: the cursor keeps its place. *)
ResetKeepingCursor ==
  /\ ~overrun
  /\ data' = [i \in Index |-> IF i < length_bytes THEN NUL ELSE data[i]]
  /\ length_bytes' = 0
  /\ UNCHANGED <<cursor_bytes, overrun>>

(* anvi_text_buffer_reset *)
Reset ==
  /\ ~overrun
  /\ data' = [i \in Index |-> IF i < length_bytes THEN NUL ELSE data[i]]
  /\ length_bytes' = 0
  /\ cursor_bytes' = 0
  /\ UNCHANGED overrun

(* Slip: memmove leaves the final NUL behind. *)
InsertWithoutNul(t) ==
  /\ ~overrun
  /\ length_bytes + Len(t) < TextBufferSize
  /\ data' = Memcpy(Memmove(data, cursor_bytes + Len(t), cursor_bytes,
                            length_bytes - cursor_bytes),
                    cursor_bytes, t)
  /\ length_bytes' = length_bytes + Len(t)
  /\ cursor_bytes' = cursor_bytes + Len(t)
  /\ UNCHANGED overrun

(* Slip: the text to the right of the cursor is not moved. *)
InsertOverwriting(t) ==
  /\ ~overrun
  /\ length_bytes + Len(t) < TextBufferSize
  /\ data' = [Memcpy(data, cursor_bytes, t) EXCEPT ![length_bytes + Len(t)] = NUL]
  /\ length_bytes' = length_bytes + Len(t)
  /\ cursor_bytes' = cursor_bytes + Len(t)
  /\ UNCHANGED overrun

(* anvi_text_buffer_insert, when the text and its NUL fit. *)
Insert(t) ==
  /\ ~overrun
  /\ length_bytes + Len(t) < TextBufferSize
  /\ data' = Memcpy(Memmove(data, cursor_bytes + Len(t), cursor_bytes,
                            length_bytes - cursor_bytes + 1),
                    cursor_bytes, t)
  /\ length_bytes' = length_bytes + Len(t)
  /\ cursor_bytes' = cursor_bytes + Len(t)
  /\ UNCHANGED overrun

(* The same call when they do not: there is no check, so it writes past    *)
(* the array.  Nothing is known of the program from here on.               *)
InsertOverruns(t) ==
  /\ ~overrun
  /\ length_bytes + Len(t) >= TextBufferSize
  /\ overrun' = TRUE
  /\ UNCHANGED bufferVars

(* anvi_text_buffer_backspace; with the cursor inside a grapheme the       *)
(* length found is 0 and the text stays as it is.                          *)
Backspace ==
  LET dec == FindLengthOfGraphemeToLeft(Text, cursor_bytes) IN
  /\ ~overrun
  /\ cursor_bytes # 0
  /\ cursor_bytes <= length_bytes
  /\ data' = Memmove(data, cursor_bytes - dec, cursor_bytes,
                     length_bytes - cursor_bytes + 1)
  /\ length_bytes' = length_bytes - dec
  /\ cursor_bytes' = cursor_bytes - dec
  /\ UNCHANGED overrun

(* anvi_text_buffer_left_arrow; it fails where no grapheme ends. *)
LeftArrow ==
  /\ ~overrun
  /\ cursor_bytes' = cursor_bytes - FindLengthOfGraphemeToLeft(Text, cursor_bytes)
  /\ UNCHANGED <<data, length_bytes, overrun>>

(* anvi_text_buffer_right_arrow *)
RightArrow ==
  LET advance == NextCharacterBreak(Text, cursor_bytes) IN
  /\ ~overrun
  /\ cursor_bytes + advance <= length_bytes
  /\ cursor_bytes' = cursor_bytes + advance
  /\ UNCHANGED <<data, length_bytes, overrun>>

(* Where Pango puts the cursor in the line above or below: at the start of *)
(* a character or the end of the text.  Without a layout, or such a line,  *)
(* the cursor stays, which is one of these positions too.                  *)
VerticalTargets ==
  { i \in 0 .. length_bytes : i = length_bytes \/ data[i] \notin Continuation }

(* move_cursor_vertically, in the document only. *)
MoveCursorVertically ==
  /\ ~overrun
  /\ cursor_bytes' \in VerticalTargets
  /\ UNCHANGED <<data, length_bytes, overrun>>

AnyInsert == \E t \in Texts : Insert(t) \/ InsertOverruns(t)

(* The prompts are reset and have no vertical movement. *)
PromptNext   == Reset \/ AnyInsert \/ Backspace \/ LeftArrow \/ RightArrow
Next         == PromptNext \/ MoveCursorVertically

PromptSpec == Init /\ [][PromptNext]_vars
Spec       == Init /\ [][Next]_vars

-----------------------------------------------------------------------------
(* Properties.                                                             *)

(* Type invariant of a text buffer. *)
TextBufferTypeOK ==
  /\ data \in [Index -> Byte \cup {Junk}]
  /\ length_bytes \in Index
  /\ cursor_bytes \in Nat
  /\ overrun \in BOOLEAN

(* The cursor never leaves the text: insert asserts it, and an address     *)
(* computed from it is read by every other operation (text_buffer.c:126).  *)
CursorInText == cursor_bytes <= length_bytes

(* As a C string the array is exactly the text: a NUL at length_bytes (the *)
(* assertion of backspace), and before it only bytes that were written and *)
(* no NUL, so that strlen and Pango, which get no length, see all of the   *)
(* text and nothing else (text_buffer.c:109-111, app.c:169).               *)
CStringIsText ==
  /\ data[length_bytes] = NUL
  /\ \A i \in 0 .. length_bytes - 1 : data[i] \in Byte \ {NUL}

(* The loop of anvi_text_buffer_word_count counts the words of the text.   *)
WordCountIsCorrect == WordCountLoop(Text) = WordCount(Text)

(* Every operation on the array performs the edit of TextEditor, with the  *)
(* text on both sides of the cursor accounted for (text_buffer.c:94-138).  *)
Editor == INSTANCE TextEditor WITH
  left  <- SubSeq(Text, 1, cursor_bytes),
  right <- SubSeq(Text, cursor_bytes + 1, length_bytes)
ImplementsTextEditor == Editor!TESpec

(* "Couldn't find the position so something went wrong." (text_buffer.c:47) *)
(* The search for the grapheme to the left of the cursor always finds the  *)
(* position of the cursor.                                                 *)
PositionIsFound == cursor_bytes \in Boundaries(Text)

(* MAXIMUM_NUMBER_OF_CHARS = TEXT_BUFFER_SIZE (text_buffer.h:7), and "We   *)
(* need to add some capacity checks as well!" (text_buffer.c:128).  An     *)
(* insertion never writes past the end of the array.                       *)
CapacityIsChecked == ~overrun
=============================================================================
