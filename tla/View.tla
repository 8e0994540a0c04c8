--------------------------------- MODULE View ---------------------------------
(***************************************************************************)
(* A text buffer with what the renderer knows of it: vertical movement of  *)
(* the cursor (app.c, pangocairo_adapter.c) and the scrolling of the       *)
(* outputs that show it (render.c).                                        *)
(*                                                                         *)
(* One layout serves all outputs.  It has the width of the output that was *)
(* drawn last, and an arrow key moves by the lines of that width.  Pango   *)
(* is external: each grapheme is one cell wide, lines end at a paragraph's *)
(* end or when they are full.                                              *)
(***************************************************************************)
EXTENDS TextBuffer

CONSTANTS
  Outputs,     \* the outputs that show the text
  Sizes,       \* the sizes of the document's area: columns and height
  LineHeight   \* of a line and of the cursor, in the unit of heights

ASSUME ViewAssumption ==
  /\ Sizes \subseteq [columns : Int, height : Int]
  /\ LineHeight \in Nat \ {0}

(* The ends of paragraphs: line feed and carriage return. *)
ParagraphEnd == {10, 13}

(* What UTF-8 and the grapheme rules say of them: a key types whole        *)
(* characters, a character is not divided, and what follows the end of a   *)
(* paragraph joins it only if it is one too (CR before LF).                *)
ASSUME GraphemeAssumption ==
  /\ \A t \in Texts : \A i \in DOMAIN t :
       t[i] \in Continuation => i > 1 /\ t[i - 1] \notin ParagraphEnd
  /\ \A a \in Byte \ ParagraphEnd, b \in Continuation : Joins(a, b)
  /\ \A a \in ParagraphEnd, b \in Byte \ Continuation :
       Joins(a, b) => b \in ParagraphEnd

VARIABLES
  role,      \* is this state->document or state->prompt_input?
  layout,    \* renderer->layout: its width in cells, or NoLayout
  preferred_cursor_x,  \* of the renderer, in cells, or Invalid
  scroll_y,  \* of each output
  shown,     \* what the last step drew: [output, height], or Nothing
  origin     \* history: [index, line] where the vertical movement began, or
             \* Nothing if there is none or the layout has changed since

rendererVars == <<layout, preferred_cursor_x, origin>>
viewVars     == <<bufferVars, overrun, role, rendererVars, scroll_y, shown>>

NoLayout == 0
Invalid  == -1
Nothing  == [nothing |-> TRUE]

ViewInit ==
  /\ Init
  /\ role \in {"document", "prompt_input"}
  /\ layout = NoLayout
  /\ preferred_cursor_x = Invalid
  /\ scroll_y = [n \in Outputs |-> 0]
  /\ shown = Nothing
  /\ origin = Nothing

-----------------------------------------------------------------------------
(* Pango's lines for a text s and a layout that is w cells wide.  Indices  *)
(* count bytes from 0; lines are given by the set S of their starts.       *)

(* The graphemes that take a cell, and how many of them lie in between.    *)
Cells(s) == { k \in Boundaries(s) \ {Len(s)} : s[k + 1] \notin ParagraphEnd }
Between(cells, i, j) == Cardinality({ k \in cells : i <= k /\ k < j })

LastUpTo(S, i) == Max({ k \in S : k <= i })

LineStarts(s, w) ==
  LET cells      == Cells(s)
      paragraphs == { k \in Boundaries(s) : k > 0 => s[k] \in ParagraphEnd }
  IN  paragraphs \cup
        { k \in cells : Between(cells, LastUpTo(paragraphs, k), k) % w = 0 }

LineOf(S, i) == Cardinality({ k \in S : k <= i }) - 1
XOf(s, S, i) == Between(Cells(s), LastUpTo(S, i), i)

(* Slip: the grapheme at the end of the line is skipped by one byte.       *)
XToIndexInBytes(s, S, line, x) ==
  LET positions == { i \in Boundaries(s) : LineOf(S, i) = line }
      last      == Max({ i \in positions : XOf(s, S, i) <= x })
  IN  IF XOf(s, S, last) = x \/ last \in S THEN last
      ELSE Max({ i \in positions : i < last }) + 1

(* pango_layout_line_x_to_index with g_utf8_offset_to_pointer: the place   *)
(* at x, or the last one that belongs to the line.                         *)
XToIndex(s, S, line, x) ==
  Max({ i \in Boundaries(s) : LineOf(S, i) = line /\ XOf(s, S, i) <= x })

(* The lines of the text as they are laid out. *)
Lines == LineStarts(Text, layout)

-----------------------------------------------------------------------------
(* Input.                                                                  *)

(* anvi_pangocairo_end_vertical_movement, for all keys but Up and Down. *)
EndVerticalMovement ==
  /\ preferred_cursor_x' = Invalid
  /\ origin' = Nothing
  /\ UNCHANGED layout

Edit == AnyInsert \/ Backspace \/ LeftArrow \/ RightArrow

(* A key that is neither Up nor Down; a reset, that only prompts see, ends *)
(* with Return.                                                            *)
EditKey ==
  /\ Edit \/ (role = "prompt_input" /\ Reset)
  /\ EndVerticalMovement
  /\ shown' = Nothing
  /\ UNCHANGED <<role, scroll_y>>

(* A chord, or a key that goes to the other buffer. *)
OtherKey ==
  /\ ~overrun
  /\ EndVerticalMovement
  /\ shown' = Nothing
  /\ UNCHANGED <<vars, role, scroll_y>>

(* Slip: every step starts from where the cursor is. *)
MovementXOfCursor == XOf(Text, Lines, cursor_bytes)

(* The column that the movement aims at. *)
MovementX ==
  IF preferred_cursor_x = Invalid THEN XOf(Text, Lines, cursor_bytes)
                                  ELSE preferred_cursor_x

(* anvi_pangocairo_move_cursor_vertically, once there is a layout.  The    *)
(* column is taken even if there is no line to go to.                      *)
MoveVertically(direction) ==
  LET starts == Lines
      line   == LineOf(starts, cursor_bytes)
      target == line + direction
  IN  /\ ~overrun
      /\ role = "document"
      /\ layout # NoLayout
      /\ preferred_cursor_x' = MovementX
      /\ cursor_bytes' = IF target \in 0 .. Cardinality(starts) - 1
                         THEN XToIndex(Text, starts, target, MovementX)
                         ELSE cursor_bytes
      /\ origin' = IF preferred_cursor_x = Invalid
                   THEN [index |-> cursor_bytes, line |-> line] ELSE origin
      /\ shown' = Nothing
      /\ UNCHANGED <<data, length_bytes, overrun, role, layout, scroll_y>>

-----------------------------------------------------------------------------
(* Frames.                                                                 *)

(* The width of the area is unsigned: below 0 it becomes a negative int,   *)
(* which Pango takes for no width at all.                                  *)
LayoutWidth(columns) ==
  IF columns < 0 THEN TextBufferSize ELSE IF columns = 0 THEN 1 ELSE columns

(* Slip: the view follows the cursor only downwards. *)
CalculateScrollDown(scroll, top, height) ==
  IF top + LineHeight > scroll + height THEN top + LineHeight - height ELSE scroll

(* calculate_scroll_y *)
CalculateScroll(scroll, top, height) ==
  LET down == IF top + LineHeight > scroll + height THEN top + LineHeight - height
                                                    ELSE scroll
      up   == IF top < down THEN top ELSE down
  IN  IF up < 0 THEN 0 ELSE up

(* begin_frame: the layout is created or gets another width. *)
BeginFrame(columns) ==
  /\ layout' = LayoutWidth(columns)
  /\ origin' = IF layout' = layout THEN origin ELSE Nothing
  /\ UNCHANGED preferred_cursor_x

(* draw_document for an output with an area of this size.  A new size is   *)
(* drawn at once, so each frame may have its own.                          *)
DrawDocument(n, size) ==
  /\ ~overrun
  /\ role = "document"
  /\ size.columns > 0 /\ size.height > 0
  /\ UNCHANGED <<vars, role>>
  /\ BeginFrame(size.columns)
  /\ scroll_y' = [scroll_y EXCEPT ![n] =
        CalculateScroll(@, LineHeight * LineOf(Lines', cursor_bytes), size.height)]
  /\ shown' = [output |-> n, height |-> size.height]

(* A frame that does not show the document: for want of room, or because a *)
(* prompt is shown.                                                        *)
DrawOther(size) ==
  /\ ~overrun
  /\ BeginFrame(size.columns)
  /\ shown' = Nothing
  /\ UNCHANGED <<vars, role, scroll_y>>

ViewNext ==
  \/ EditKey \/ OtherKey
  \/ \E direction \in {-1, 1} : MoveVertically(direction)
  \/ \E n \in Outputs, size \in Sizes : DrawDocument(n, size)
  \/ \E size \in Sizes : DrawOther(size)

ViewSpec == ViewInit /\ [][ViewNext]_viewVars

-----------------------------------------------------------------------------
(* Properties.                                                             *)

(* Going up and down the lines as often as one likes, through lines of any *)
(* length, over the ends of the text and with frames in between, the       *)
(* cursor is back where it was whenever it is back on its line, unless the *)
(* lines themselves have changed (pangocairo_adapter.c:133-151, app.c:243).*)
ColumnIsKept ==
  (origin # Nothing /\ origin.index \in Boundaries(Text)
     /\ LineOf(Lines, cursor_bytes) = origin.line)
    => cursor_bytes = origin.index

(* Whatever was typed, deleted or resized since an output was last drawn,  *)
(* its next frame shows the cursor: its top always, all of it if the area  *)
(* has room for a line (render.c:119-138).                                 *)
FrameShowsCursor ==
  shown # Nothing =>
    LET top    == LineHeight * LineOf(Lines, cursor_bytes)
        scroll == scroll_y[shown.output]
    IN  /\ 0 <= scroll /\ scroll <= top
        /\ LineHeight <= shown.height => top + LineHeight <= scroll + shown.height

(* With its renderer, the buffer does what TextBuffer says: a move by a    *)
(* line never puts the cursor into a character or behind the text          *)
(* (pangocairo_adapter.c:151-158).                                         *)
ImplementsTextBuffer == Spec
=============================================================================
