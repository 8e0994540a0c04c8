-------------------------- MODULE TextBufferProofs --------------------------
(***************************************************************************)
(* Proofs about the byte array of TextBuffer, for every size of the array, *)
(* all texts and every way in which graphemes join.                        *)
(***************************************************************************)
EXTENDS TextBuffer, TLAPS, WellFoundedInduction, FiniteSetTheorems,
        SequenceTheorems

(* A non-empty set of natural numbers has a least element. *)
LEMMA LeastNatural ==
  ASSUME NEW T, T \subseteq Nat, T # {}
  PROVE  \E x \in T : \A y \in T : x <= y
  <1>. DEFINE R == { ss \in Nat \X Nat : ss[1] < ss[2] }
  <1>1. IsWellFoundedOn(R, Nat)
    BY NatLessThanWellFounded, Zenon DEF OpToRel
  <1>2. PICK x \in T : \A y \in T : <<y, x>> \notin R
    <2>. HIDE DEF R
    <2>. QED
      BY <1>1, WFMin, Zenon
  <1>3. \A y \in T : ~(y < x)
    BY <1>2
  <1>. QED
    BY <1>3

(* The length found to the left of the cursor never reaches beyond the     *)
(* start of the text (the assertion of text_buffer.c:79), and what is      *)
(* found lies between two boundaries.                                      *)
LEMMA FindLengthInText ==
  ASSUME NEW s, NEW p \in Nat
  PROVE  /\ FindLengthOfGraphemeToLeft(s, p) \in 0 .. p
         /\ FindLengthOfGraphemeToLeft(s, p) # 0 =>
              /\ p \in Boundaries(s)
              /\ p - FindLengthOfGraphemeToLeft(s, p) \in Boundaries(s)
  <1>1. CASE p \in Boundaries(s) \ {0}
    <2>. DEFINE Left(n) == /\ p - n \in Boundaries(s)
                           /\ \A m \in 1 .. n - 1 : p - m \notin Boundaries(s)
    <2>1. \E n \in 1 .. p : Left(n)
      <3>. DEFINE T == { n \in 1 .. p : p - n \in Boundaries(s) }
      <3>1. T \subseteq Nat /\ p \in T
        BY <1>1 DEF Boundaries
      <3>2. PICK x \in T : \A y \in T : x <= y
        <4>. HIDE DEF T
        <4>. QED
          BY <3>1, LeastNatural
      <3>3. Left(x)
        BY <3>2
      <3>. QED
        BY <3>3
    <2>. DEFINE found == CHOOSE n \in 1 .. p : Left(n)
    <2>2. found \in 1 .. p /\ Left(found)
      <3>. HIDE DEF Left
      <3>. QED
        BY <2>1, Zenon
    <2>3. FindLengthOfGraphemeToLeft(s, p) = found
      BY <1>1, Zenon DEF FindLengthOfGraphemeToLeft
    <2>4. p - found \in Boundaries(s)
      BY <2>2, Zenon
    <2>. HIDE DEF Left, found
    <2>. QED
      BY <1>1, <2>2, <2>3, <2>4
  <1>2. CASE p \notin Boundaries(s) \ {0}
    BY <1>2 DEF FindLengthOfGraphemeToLeft
  <1>. QED
    BY <1>1, <1>2

(* The step to the right stays in the text and ends at a boundary. *)
LEMMA NextBreakInText ==
  ASSUME NEW s, Len(s) \in Nat, NEW p \in 0 .. Len(s)
  PROVE  /\ NextCharacterBreak(s, p) \in 0 .. Len(s) - p
         /\ p + NextCharacterBreak(s, p) \in Boundaries(s)
  <1>1. CASE p = Len(s)
    BY <1>1 DEF NextCharacterBreak, Boundaries
  <1>2. CASE p # Len(s)
    <2>. DEFINE Right(n) == /\ p + n \in Boundaries(s)
                            /\ \A m \in 1 .. n - 1 : p + m \notin Boundaries(s)
    <2>1. \E n \in 1 .. Len(s) - p : Right(n)
      <3>. DEFINE T == { n \in 1 .. Len(s) - p : p + n \in Boundaries(s) }
      <3>1. T \subseteq Nat
        OBVIOUS
      <3>2. Len(s) - p \in 1 .. Len(s) - p /\ p + (Len(s) - p) = Len(s)
        BY <1>2
      <3>3. Len(s) - p \in T
        BY <3>2 DEF Boundaries
      <3>4. PICK x \in T : \A y \in T : x <= y
        <4>. HIDE DEF T
        <4>. QED
          BY <3>1, <3>3, LeastNatural
      <3>5. \A m \in 1 .. x - 1 : p + m \notin Boundaries(s)
        <4>. SUFFICES ASSUME NEW m \in 1 .. x - 1, p + m \in Boundaries(s)
                      PROVE  FALSE
          OBVIOUS
        <4>1. m \in T
          OBVIOUS
        <4>. QED
          BY <4>1, <3>4
      <3>6. Right(x)
        BY <3>5
      <3>. QED
        BY <3>6
    <2>. DEFINE found == CHOOSE n \in 1 .. Len(s) - p : Right(n)
    <2>2. found \in 1 .. Len(s) - p /\ Right(found)
      <3>. HIDE DEF Right
      <3>. QED
        BY <2>1, Zenon
    <2>3. NextCharacterBreak(s, p) = found
      BY <1>2, Zenon DEF NextCharacterBreak
    <2>4. p + found \in Boundaries(s)
      BY <2>2, Zenon
    <2>. HIDE DEF Right, found
    <2>. QED
      BY <2>2, <2>3, <2>4
  <1>. QED
    BY <1>1, <1>2

-----------------------------------------------------------------------------
(* The inductive invariant: types, cursor and C string hold one another    *)
(* up.  Moving the NUL along needs the cursor in the text, and the types   *)
(* of what is moved need the text to be written.                           *)
BufferInv ==
  /\ TextBufferTypeOK
  /\ CursorInText
  /\ CStringIsText

LEMMA InitInv == Init => BufferInv
  BY TextBufferAssumption
  DEF Init, BufferInv, TextBufferTypeOK, CursorInText, CStringIsText, Index,
      Byte, NUL, Junk

LEMMA ResetInv ==
  ASSUME BufferInv, Reset
  PROVE  BufferInv'
  BY TextBufferAssumption
  DEF Reset, BufferInv, TextBufferTypeOK, CursorInText, CStringIsText, Index,
      Byte, NUL, Junk

(* What the array holds after an insertion: the text up to the cursor, the *)
(* inserted text, and the rest of the text with its NUL.                   *)
LEMMA InsertCells ==
  ASSUME BufferInv, NEW t \in Texts, Insert(t)
  PROVE  /\ Len(t) \in Nat
         /\ length_bytes' = length_bytes + Len(t)
         /\ cursor_bytes' = cursor_bytes + Len(t)
         /\ length_bytes + Len(t) < TextBufferSize
         /\ data' = [k \in Index |->
              IF k \in cursor_bytes .. cursor_bytes + Len(t) - 1
              THEN t[k - cursor_bytes + 1]
              ELSE IF k \in cursor_bytes + Len(t) .. length_bytes + Len(t)
              THEN data[k - Len(t)]
              ELSE data[k]]
  <1>1. t \in Seq(Byte \ {NUL})
    BY TextBufferAssumption
  <1>2. Len(t) \in Nat
    BY <1>1
  <1>3. /\ length_bytes \in Nat
        /\ cursor_bytes \in Nat
        /\ cursor_bytes <= length_bytes
    BY TextBufferAssumption DEF BufferInv, TextBufferTypeOK, CursorInText, Index
  <1>4. \A k \in Index :
          data'[k] = IF k \in cursor_bytes .. cursor_bytes + Len(t) - 1
                     THEN t[k - cursor_bytes + 1]
                     ELSE IF k \in cursor_bytes + Len(t) .. length_bytes + Len(t)
                     THEN data[k - Len(t)]
                     ELSE data[k]
    BY <1>2, <1>3, TextBufferAssumption DEF Insert, Memmove, Memcpy, Index
  <1>5. data' = [k \in Index |-> data'[k]]
    BY DEF Insert, Memcpy
  <1>. QED
    BY <1>2, <1>4, <1>5 DEF Insert

LEMMA InsertInv ==
  ASSUME BufferInv, NEW t \in Texts, Insert(t)
  PROVE  BufferInv'
  <1>. DEFINE n == Len(t)
  <1>1. \A k \in 1 .. n : t[k] \in Byte \ {NUL}
    BY TextBufferAssumption
  <1>2. /\ length_bytes \in Index
        /\ cursor_bytes \in Nat
        /\ cursor_bytes <= length_bytes
        /\ \A k \in Index : data[k] \in Byte \cup {Junk}
        /\ data[length_bytes] = NUL
        /\ \A k \in 0 .. length_bytes - 1 : data[k] \in Byte \ {NUL}
    BY DEF BufferInv, TextBufferTypeOK, CursorInText, CStringIsText
  <1>3. /\ n \in Nat
        /\ length_bytes' = length_bytes + n
        /\ cursor_bytes' = cursor_bytes + n
        /\ length_bytes + n < TextBufferSize
        /\ data' = [k \in Index |->
             IF k \in cursor_bytes .. cursor_bytes + n - 1
             THEN t[k - cursor_bytes + 1]
             ELSE IF k \in cursor_bytes + n .. length_bytes + n
             THEN data[k - n]
             ELSE data[k]]
    BY InsertCells
  <1>. HIDE DEF n
  <1>4. TextBufferTypeOK'
    <2>1. ASSUME NEW k \in Index
          PROVE  data'[k] \in Byte \cup {Junk}
      <3>1. k \in Int /\ cursor_bytes \in Int /\ length_bytes \in Int /\ n \in Int
        BY <1>2, <1>3, TextBufferAssumption DEF Index
      <3>2. CASE k \in cursor_bytes .. cursor_bytes + n - 1
        <4>1. k - cursor_bytes + 1 \in 1 .. n /\ data'[k] = t[k - cursor_bytes + 1]
          BY <1>3, <3>1, <3>2
        <4>. QED
          BY <1>1, <4>1
      <3>3. CASE k \in cursor_bytes + n .. length_bytes + n
        <4>1. data'[k] = data[k - n]
          BY <1>3, <3>1, <3>3
        <4>2. k - n \in Index
          BY <1>2, <1>3, <3>1, <3>3, TextBufferAssumption DEF Index
        <4>. QED
          BY <1>2, <4>1, <4>2
      <3>4. CASE /\ k \notin cursor_bytes .. cursor_bytes + n - 1
                 /\ k \notin cursor_bytes + n .. length_bytes + n
        BY <1>2, <1>3, <3>4
      <3>. QED
        BY <3>2, <3>3, <3>4
    <2>. QED
      BY <1>2, <1>3, <2>1, TextBufferAssumption
      DEF TextBufferTypeOK, Index, BufferInv, Insert
  <1>5. CursorInText'
    BY <1>2, <1>3, TextBufferAssumption DEF CursorInText, Index
  <1>6. CStringIsText'
    <2>1. data'[length_bytes + n] = NUL
      BY <1>2, <1>3, TextBufferAssumption DEF Index
    <2>2. length_bytes' = length_bytes + n /\ length_bytes \in Nat /\ n \in Nat
      BY <1>2, <1>3, TextBufferAssumption DEF Index
    <2>3. data'[length_bytes'] = NUL
      BY <2>1, <2>2
    <2>4. ASSUME NEW k \in 0 .. length_bytes' - 1
          PROVE  data'[k] \in Byte \ {NUL}
      <3>1. k \in 0 .. length_bytes + n - 1
        BY <2>2
      <3>. QED
        BY <1>1, <1>2, <1>3, <3>1, TextBufferAssumption DEF Index
    <2>. QED
      BY <2>3, <2>4 DEF CStringIsText
  <1>. QED
    BY <1>4, <1>5, <1>6 DEF BufferInv

(* What it holds after the removal of dec bytes to the left of the cursor. *)
LEMMA BackspaceCells ==
  ASSUME BufferInv, Backspace, NEW dec,
         dec = FindLengthOfGraphemeToLeft(Text, cursor_bytes)
  PROVE  /\ length_bytes' = length_bytes - dec
         /\ cursor_bytes' = cursor_bytes - dec
         /\ overrun' = overrun
         /\ data' = [k \in Index |->
              IF k \in cursor_bytes - dec .. length_bytes - dec
              THEN data[k + dec] ELSE data[k]]
  <1>1. /\ length_bytes \in Index
        /\ cursor_bytes \in Nat
        /\ cursor_bytes <= length_bytes
    BY DEF BufferInv, TextBufferTypeOK, CursorInText
  <1>2. dec \in 0 .. cursor_bytes
    BY <1>1, FindLengthInText
  <1>3. data' = Memmove(data, cursor_bytes - dec, cursor_bytes,
                        length_bytes - cursor_bytes + 1)
    BY Zenon DEF Backspace
  <1>4. \A k \in Index :
          data'[k] = IF k \in cursor_bytes - dec .. length_bytes - dec
                     THEN data[k + dec] ELSE data[k]
    BY <1>1, <1>2, <1>3, TextBufferAssumption DEF Memmove, Index
  <1>5. data' = [k \in Index |-> data'[k]]
    BY <1>3 DEF Memmove
  <1>6. /\ length_bytes' = length_bytes - dec
        /\ cursor_bytes' = cursor_bytes - dec
        /\ overrun' = overrun
    BY Zenon DEF Backspace
  <1>. QED
    BY <1>4, <1>5, <1>6

LEMMA BackspaceInv ==
  ASSUME BufferInv, Backspace
  PROVE  BufferInv'
  <1>. DEFINE dec == FindLengthOfGraphemeToLeft(Text, cursor_bytes)
  <1>1. /\ length_bytes \in Index
        /\ cursor_bytes \in Nat
        /\ cursor_bytes <= length_bytes
        /\ \A k \in Index : data[k] \in Byte \cup {Junk}
        /\ data[length_bytes] = NUL
        /\ \A k \in 0 .. length_bytes - 1 : data[k] \in Byte \ {NUL}
    BY DEF BufferInv, TextBufferTypeOK, CursorInText, CStringIsText
  <1>2. dec \in 0 .. cursor_bytes
    BY <1>1, FindLengthInText
  <1>3. /\ length_bytes' = length_bytes - dec
        /\ cursor_bytes' = cursor_bytes - dec
        /\ overrun' = overrun
        /\ data' = [k \in Index |->
             IF k \in cursor_bytes - dec .. length_bytes - dec
             THEN data[k + dec] ELSE data[k]]
    <2>. HIDE DEF dec
    <2>1. dec = FindLengthOfGraphemeToLeft(Text, cursor_bytes)
      BY DEF dec
    <2>. QED
      BY <2>1, BackspaceCells
  <1>. HIDE DEF dec
  <1>4. TextBufferTypeOK'
    <2>1. \A k \in Index : data'[k] \in Byte \cup {Junk}
      BY <1>1, <1>2, <1>3, TextBufferAssumption DEF Index
    <2>. QED
      BY <1>1, <1>2, <1>3, <2>1, TextBufferAssumption
      DEF TextBufferTypeOK, Index, BufferInv
  <1>5. CursorInText'
    BY <1>1, <1>2, <1>3, TextBufferAssumption DEF CursorInText, Index
  <1>6. CStringIsText'
    <2>1. data'[length_bytes - dec] = NUL
      BY <1>1, <1>2, <1>3, TextBufferAssumption DEF Index
    <2>2. ASSUME NEW k \in 0 .. length_bytes - dec - 1
          PROVE  data'[k] \in Byte \ {NUL}
      BY <1>1, <1>2, <1>3, TextBufferAssumption DEF Index
    <2>3. length_bytes' = length_bytes - dec
      BY <1>3
    <2>. QED
      BY <2>1, <2>2, <2>3, Zenon DEF CStringIsText
  <1>. QED
    BY <1>4, <1>5, <1>6 DEF BufferInv

(* Moving the cursor keeps it in the text and leaves the array alone. *)
LEMMA MoveInv ==
  ASSUME BufferInv, LeftArrow \/ RightArrow \/ MoveCursorVertically
  PROVE  BufferInv'
  <1>1. /\ length_bytes \in Nat
        /\ cursor_bytes \in 0 .. length_bytes
    BY TextBufferAssumption DEF BufferInv, TextBufferTypeOK, CursorInText, Index
  <1>2. cursor_bytes' \in 0 .. length_bytes
    <2>1. CASE LeftArrow
      <3>1. FindLengthOfGraphemeToLeft(Text, cursor_bytes) \in 0 .. cursor_bytes
        BY <1>1, FindLengthInText
      <3>. QED
        BY <1>1, <2>1, <3>1 DEF LeftArrow
    <2>2. CASE RightArrow
      <3>1. Len(Text) = length_bytes
        BY <1>1 DEF Text
      <3>2. NextCharacterBreak(Text, cursor_bytes) \in 0 .. length_bytes - cursor_bytes
        <4>1. Len(Text) \in Nat /\ cursor_bytes \in 0 .. Len(Text)
          BY <1>1, <3>1
        <4>2. NextCharacterBreak(Text, cursor_bytes) \in 0 .. Len(Text) - cursor_bytes
          BY <4>1, NextBreakInText
        <4>. QED
          BY <4>2, <3>1
      <3>. QED
        BY <1>1, <2>2, <3>2 DEF RightArrow
    <2>3. CASE MoveCursorVertically
      BY <2>3 DEF MoveCursorVertically, VerticalTargets
    <2>. QED
      BY <2>1, <2>2, <2>3
  <1>3. UNCHANGED <<data, length_bytes, overrun>>
    BY DEF LeftArrow, RightArrow, MoveCursorVertically
  <1>. QED
    BY <1>1, <1>2, <1>3
    DEF BufferInv, TextBufferTypeOK, CursorInText, CStringIsText

LEMMA StutterInv ==
  ASSUME BufferInv, UNCHANGED bufferVars, overrun' \in BOOLEAN
  PROVE  BufferInv'
  BY DEF bufferVars, BufferInv, TextBufferTypeOK, CursorInText, CStringIsText

LEMMA NextInv == BufferInv /\ [Next]_vars => BufferInv'
  <1>. SUFFICES ASSUME BufferInv, [Next]_vars PROVE BufferInv'
    OBVIOUS
  <1>1. CASE Reset
    BY <1>1, ResetInv
  <1>2. ASSUME NEW t \in Texts, Insert(t) PROVE BufferInv'
    BY <1>2, InsertInv
  <1>3. ASSUME NEW t \in Texts, InsertOverruns(t) PROVE BufferInv'
    BY <1>3, StutterInv DEF InsertOverruns
  <1>4. CASE Backspace
    BY <1>4, BackspaceInv
  <1>5. CASE LeftArrow \/ RightArrow \/ MoveCursorVertically
    BY <1>5, MoveInv
  <1>6. CASE UNCHANGED vars
    BY <1>6, StutterInv DEF vars, BufferInv, TextBufferTypeOK
  <1>. QED
    BY <1>1, <1>2, <1>3, <1>4, <1>5, <1>6 DEF Next, PromptNext, AnyInsert

LEMMA BufferInvAlways == Spec => []BufferInv
  BY InitInv, NextInv, PTL DEF Spec

(* The types of a text buffer, for every array size. *)
THEOREM TextBufferTypeCorrect == Spec => []TextBufferTypeOK
  <1>1. BufferInv => TextBufferTypeOK
    BY DEF BufferInv
  <1>. QED
    BY <1>1, BufferInvAlways, PTL

(* The assertion of anvi_text_buffer_insert never fails (text_buffer.c:126). *)
THEOREM CursorStaysInText == Spec => []CursorInText
  <1>1. BufferInv => CursorInText
    BY DEF BufferInv
  <1>. QED
    BY <1>1, BufferInvAlways, PTL

(* Until a write goes past the array, what strlen and Pango see of it is   *)
(* the text, and the assertion of backspace holds (text_buffer.c:111).     *)
THEOREM CStringStaysText == Spec => []CStringIsText
  <1>1. BufferInv => CStringIsText
    BY DEF BufferInv
  <1>. QED
    BY <1>1, BufferInvAlways, PTL

(* The text to the left and to the right of the cursor, as TextEditor sees them. *)
Left  == SubSeq(Text, 1, cursor_bytes)
Right == SubSeq(Text, cursor_bytes + 1, length_bytes)

(* The bytes on either side of the cursor. *)
CursorSplitsText ==
  /\ Text \in Seq(Byte) /\ Left \in Seq(Byte) /\ Right \in Seq(Byte)
  /\ length_bytes \in Nat /\ cursor_bytes \in 0 .. length_bytes
  /\ Len(Left) = cursor_bytes
  /\ Len(Right) = length_bytes - cursor_bytes
  /\ \A i \in 1 .. cursor_bytes : Left[i] = data[i - 1]
  /\ \A i \in 1 .. length_bytes - cursor_bytes : Right[i] = data[cursor_bytes + i - 1]
  /\ Left \o Right = Text

LEMMA Sides == BufferInv => CursorSplitsText
  <1>. SUFFICES ASSUME BufferInv PROVE CursorSplitsText
    OBVIOUS
  <1>1. length_bytes \in Nat /\ cursor_bytes \in 0 .. length_bytes
    BY TextBufferAssumption DEF BufferInv, TextBufferTypeOK, CursorInText, Index
  <1>2. \A i \in 1 .. length_bytes : Text[i] = data[i - 1] /\ Text[i] \in Byte
    <2>. SUFFICES ASSUME NEW i \in 1 .. length_bytes
                  PROVE  Text[i] = data[i - 1] /\ Text[i] \in Byte
      OBVIOUS
    <2>1. Text[i] = data[i - 1]
      BY DEF Text
    <2>2. i - 1 \in 0 .. length_bytes - 1
      BY <1>1
    <2>. QED
      BY <2>1, <2>2 DEF BufferInv, CStringIsText
  <1>3. Text \in Seq(Byte) /\ Len(Text) = length_bytes
    BY <1>1, <1>2 DEF Text
  <1>4. /\ Left \in Seq(Byte)
        /\ Len(Left) = cursor_bytes
        /\ \A i \in 1 .. cursor_bytes : Left[i] = Text[i]
    <2>1. \A i \in 1 .. cursor_bytes : Text[i] \in Byte
      BY <1>1, <1>2
    <2>. QED
      BY <1>1, <2>1, SubSeqProperties DEF Left
  <1>5. /\ Right \in Seq(Byte)
        /\ Len(Right) = length_bytes - cursor_bytes
        /\ \A i \in 1 .. length_bytes - cursor_bytes :
             Right[i] = Text[cursor_bytes + i]
    <2>1. \A i \in cursor_bytes + 1 .. length_bytes : Text[i] \in Byte
      BY <1>1, <1>2
    <2>2. /\ Right \in Seq(Byte)
          /\ Len(Right) = IF cursor_bytes + 1 <= length_bytes
                          THEN length_bytes - (cursor_bytes + 1) + 1 ELSE 0
          /\ \A i \in 1 .. length_bytes - (cursor_bytes + 1) + 1 :
               Right[i] = Text[(cursor_bytes + 1) + i - 1]
      BY <1>1, <2>1, SubSeqProperties DEF Right
    <2>. QED
      BY <1>1, <2>2
  <1>6. Left \o Right = Text
    <2>1. SubSeq(Text, 1, cursor_bytes) \o SubSeq(Text, cursor_bytes + 1, length_bytes)
            = SubSeq(Text, 1, length_bytes)
      BY <1>1, <1>3, ConcatAdjacentSubSeq
    <2>. QED
      BY <1>3, <2>1, SubSeqFull DEF Left, Right
  <1>7. \A i \in 1 .. cursor_bytes : Left[i] = data[i - 1]
    BY <1>1, <1>2, <1>4
  <1>8. \A i \in 1 .. length_bytes - cursor_bytes : Right[i] = data[cursor_bytes + i - 1]
    <2>. SUFFICES ASSUME NEW i \in 1 .. length_bytes - cursor_bytes
                  PROVE  Right[i] = data[cursor_bytes + i - 1]
      OBVIOUS
    <2>1. cursor_bytes + i \in 1 .. length_bytes
      BY <1>1
    <2>2. (cursor_bytes + i) - 1 = cursor_bytes + i - 1
      BY <1>1
    <2>. QED
      BY <1>2, <1>5, <2>1, <2>2
  <1>. QED
    BY <1>1, <1>3, <1>4, <1>5, <1>6, <1>7, <1>8 DEF CursorSplitsText

(* Inserting is typing: the text joins what is left of the cursor. *)
LEMMA InsertTypes ==
  ASSUME BufferInv, NEW t \in Texts, Insert(t)
  PROVE  Left' = Left \o t /\ Right' = Right
  <1>. DEFINE n == Len(t)
  <1>1. t \in Seq(Byte)
    <2>1. t \in Seq(Byte \ {NUL})
      BY TextBufferAssumption
    <2>. QED
      BY <2>1, SeqMonotonic
  <1>2. /\ Left \in Seq(Byte) /\ Right \in Seq(Byte)
        /\ length_bytes \in Nat /\ cursor_bytes \in 0 .. length_bytes
        /\ Len(Left) = cursor_bytes
        /\ Len(Right) = length_bytes - cursor_bytes
        /\ \A i \in 1 .. cursor_bytes : Left[i] = data[i - 1]
        /\ \A i \in 1 .. length_bytes - cursor_bytes :
              Right[i] = data[cursor_bytes + i - 1]
    BY Sides DEF CursorSplitsText
  <1>3. /\ Left' \in Seq(Byte) /\ Right' \in Seq(Byte)
        /\ Len(Left') = cursor_bytes'
        /\ Len(Right') = length_bytes' - cursor_bytes'
        /\ \A i \in 1 .. cursor_bytes' : Left'[i] = data'[i - 1]
        /\ \A i \in 1 .. length_bytes' - cursor_bytes' :
              Right'[i] = data'[cursor_bytes' + i - 1]
    <2>1. BufferInv'
      BY InsertInv
    <2>2. CursorSplitsText'
      BY <2>1, Sides, PTL
    <2>. QED
      BY <2>2 DEF CursorSplitsText
  <1>4. /\ n \in Nat
        /\ length_bytes' = length_bytes + n
        /\ cursor_bytes' = cursor_bytes + n
        /\ length_bytes + n < TextBufferSize
        /\ data' = [k \in Index |->
             IF k \in cursor_bytes .. cursor_bytes + n - 1
             THEN t[k - cursor_bytes + 1]
             ELSE IF k \in cursor_bytes + n .. length_bytes + n
             THEN data[k - n]
             ELSE data[k]]
    BY InsertCells
  <1>5. /\ Left \o t \in Seq(Byte)
        /\ Len(Left \o t) = cursor_bytes + n
        /\ \A i \in 1 .. cursor_bytes + n :
             (Left \o t)[i] = IF i <= cursor_bytes THEN Left[i] ELSE t[i - cursor_bytes]
    BY <1>1, <1>2, ConcatProperties
  <1>. HIDE DEF n
  <1>6. /\ \A k \in 0 .. cursor_bytes - 1 : data'[k] = data[k]
        /\ \A k \in cursor_bytes .. cursor_bytes + n - 1 :
             data'[k] = t[k - cursor_bytes + 1]
        /\ \A k \in cursor_bytes + n .. length_bytes + n : data'[k] = data[k - n]
    BY <1>2, <1>4, TextBufferAssumption DEF Index
  <1>7. Left' = Left \o t
    <2>1. \A i \in 1 .. cursor_bytes + n : Left'[i] = (Left \o t)[i]
      <3>. SUFFICES ASSUME NEW i \in 1 .. cursor_bytes + n
                    PROVE  Left'[i] = (Left \o t)[i]
        OBVIOUS
      <3>1. Left'[i] = data'[i - 1]
        BY <1>3, <1>4
      <3>2. CASE i <= cursor_bytes
        <4>1. i - 1 \in 0 .. cursor_bytes - 1 /\ i \in 1 .. cursor_bytes
          BY <1>2, <1>4, <3>2
        <4>2. data'[i - 1] = data[i - 1] /\ Left[i] = data[i - 1]
          BY <1>2, <1>6, <4>1
        <4>. QED
          BY <1>5, <3>1, <3>2, <4>2
      <3>3. CASE ~(i <= cursor_bytes)
        <4>1. /\ i - 1 \in cursor_bytes .. cursor_bytes + n - 1
              /\ (i - 1) - cursor_bytes + 1 = i - cursor_bytes
          BY <1>2, <1>4, <3>3
        <4>2. data'[i - 1] = t[i - cursor_bytes]
          BY <1>6, <4>1
        <4>. QED
          BY <1>5, <3>1, <3>3, <4>2
      <3>. QED
        BY <3>2, <3>3
    <2>. QED
      BY <1>3, <1>4, <1>5, <2>1, SeqEqual
  <1>8. Right' = Right
    <2>1. Len(Right') = Len(Right)
      BY <1>2, <1>3, <1>4
    <2>2. \A i \in 1 .. Len(Right) : Right'[i] = Right[i]
      <3>. SUFFICES ASSUME NEW i \in 1 .. length_bytes - cursor_bytes
                    PROVE  Right'[i] = Right[i]
        BY <1>2
      <3>1. Right'[i] = data'[cursor_bytes + n + i - 1]
        BY <1>2, <1>3, <1>4
      <3>2. /\ cursor_bytes + n + i - 1 \in cursor_bytes + n .. length_bytes + n
            /\ (cursor_bytes + n + i - 1) - n = cursor_bytes + i - 1
        BY <1>2, <1>4
      <3>3. data'[cursor_bytes + n + i - 1] = data[cursor_bytes + i - 1]
        BY <1>6, <3>2
      <3>4. Right[i] = data[cursor_bytes + i - 1]
        BY <1>2
      <3>. QED
        BY <3>1, <3>3, <3>4
    <2>. QED
      BY <1>2, <1>3, <2>1, <2>2, SeqEqual
  <1>. QED
    BY <1>7, <1>8

(* Backspace erases the end of what is left of the cursor, and nothing else. *)
LEMMA BackspaceErases ==
  ASSUME BufferInv, Backspace
  PROVE  /\ \E k \in 0 .. Len(Left) : Left' = SubSeq(Left, 1, k)
         /\ Right' = Right
  <1>. DEFINE dec == FindLengthOfGraphemeToLeft(Text, cursor_bytes)
  <1>1. /\ Left \in Seq(Byte) /\ Right \in Seq(Byte)
        /\ length_bytes \in Nat /\ cursor_bytes \in 0 .. length_bytes
        /\ Len(Left) = cursor_bytes
        /\ Len(Right) = length_bytes - cursor_bytes
        /\ \A i \in 1 .. cursor_bytes : Left[i] = data[i - 1]
        /\ \A i \in 1 .. length_bytes - cursor_bytes :
              Right[i] = data[cursor_bytes + i - 1]
    BY Sides DEF CursorSplitsText
  <1>2. /\ Left' \in Seq(Byte) /\ Right' \in Seq(Byte)
        /\ Len(Left') = cursor_bytes'
        /\ Len(Right') = length_bytes' - cursor_bytes'
        /\ \A i \in 1 .. cursor_bytes' : Left'[i] = data'[i - 1]
        /\ \A i \in 1 .. length_bytes' - cursor_bytes' :
              Right'[i] = data'[cursor_bytes' + i - 1]
    <2>1. BufferInv'
      BY BackspaceInv
    <2>2. CursorSplitsText'
      BY <2>1, Sides, PTL
    <2>. QED
      BY <2>2 DEF CursorSplitsText
  <1>3. dec \in 0 .. cursor_bytes
    BY <1>1, FindLengthInText
  <1>4. /\ length_bytes' = length_bytes - dec
        /\ cursor_bytes' = cursor_bytes - dec
        /\ data' = [k \in Index |->
             IF k \in cursor_bytes - dec .. length_bytes - dec
             THEN data[k + dec] ELSE data[k]]
    <2>. HIDE DEF dec
    <2>1. dec = FindLengthOfGraphemeToLeft(Text, cursor_bytes)
      BY DEF dec
    <2>. QED
      BY <2>1, BackspaceCells
  <1>. HIDE DEF dec
  <1>5. /\ \A k \in 0 .. cursor_bytes - dec - 1 : data'[k] = data[k]
        /\ \A k \in cursor_bytes - dec .. length_bytes - dec : data'[k] = data[k + dec]
    <2>1. 0 .. length_bytes \subseteq Index
      BY TextBufferAssumption DEF BufferInv, TextBufferTypeOK, Index
    <2>. QED
      BY <1>1, <1>3, <1>4, <2>1
  <1>6. Left' = SubSeq(Left, 1, cursor_bytes - dec)
    <2>. DEFINE kept == SubSeq(Left, 1, cursor_bytes - dec)
    <2>1. /\ kept \in Seq(Byte)
          /\ Len(kept) = cursor_bytes - dec
          /\ \A i \in 1 .. cursor_bytes - dec : kept[i] = Left[i]
      <3>1. \A i \in 1 .. cursor_bytes - dec : Left[i] \in Byte
        BY <1>1, <1>3
      <3>2. /\ kept \in Seq(Byte)
            /\ Len(kept) = IF 1 <= cursor_bytes - dec
                           THEN cursor_bytes - dec - 1 + 1 ELSE 0
            /\ \A i \in 1 .. cursor_bytes - dec - 1 + 1 : kept[i] = Left[1 + i - 1]
        BY <1>1, <1>3, <3>1, SubSeqProperties
      <3>. HIDE DEF kept
      <3>. QED
        BY <1>1, <1>3, <3>2
    <2>2. ASSUME NEW i \in 1 .. cursor_bytes - dec
          PROVE  Left'[i] = kept[i]
      <3>1. i - 1 \in 0 .. cursor_bytes - dec - 1 /\ i \in 1 .. cursor_bytes
        BY <1>1, <1>3
      <3>2. data'[i - 1] = data[i - 1]
        BY <1>5, <3>1
      <3>. HIDE DEF kept
      <3>. QED
        BY <1>1, <1>2, <1>4, <2>1, <3>1, <3>2
    <2>. HIDE DEF kept
    <2>3. Left' = kept
      BY <1>2, <1>4, <2>1, <2>2, SeqEqual
    <2>. QED
      BY <2>3 DEF kept
  <1>7. Right' = Right
    <2>1. Len(Right') = Len(Right)
      BY <1>1, <1>2, <1>3, <1>4
    <2>2. \A i \in 1 .. Len(Right) : Right'[i] = Right[i]
      <3>. SUFFICES ASSUME NEW i \in 1 .. length_bytes - cursor_bytes
                    PROVE  Right'[i] = Right[i]
        BY <1>1
      <3>1. Right'[i] = data'[cursor_bytes - dec + i - 1]
        BY <1>1, <1>2, <1>3, <1>4
      <3>2. /\ cursor_bytes - dec + i - 1 \in cursor_bytes - dec .. length_bytes - dec
            /\ (cursor_bytes - dec + i - 1) + dec = cursor_bytes + i - 1
        BY <1>1, <1>3
      <3>. QED
        BY <1>1, <1>5, <3>1, <3>2
    <2>. QED
      BY <1>1, <1>2, <2>1, <2>2, SeqEqual
  <1>8. cursor_bytes - dec \in 0 .. Len(Left)
    BY <1>1, <1>3
  <1>. QED
    BY <1>6, <1>7, <1>8

LEMMA EditorInit == Init => Editor!TEInit
  <1>. SUFFICES ASSUME Init PROVE Editor!TEInit
    OBVIOUS
  <1>1. length_bytes = 0 /\ cursor_bytes = 0
    BY DEF Init
  <1>. QED
    BY <1>1, SubSeqEmpty DEF Editor!TEInit

(* Every step of the array is one edit or none. *)
LEMMA EditorStep ==
  ASSUME BufferInv, [Next]_vars
  PROVE  [Editor!TENext]_Editor!editorVars
  <1>0. BufferInv'
    BY NextInv
  <1>1. CASE Reset
    <2>1. length_bytes' = 0 /\ cursor_bytes' = 0
      BY <1>1 DEF Reset
    <2>2. Editor!Clear
      BY <2>1, SubSeqEmpty DEF Editor!Clear
    <2>. QED
      BY <2>2 DEF Editor!TENext
  <1>2. ASSUME NEW t \in Texts, Insert(t)
        PROVE  Editor!TENext
    <2>1. Left' = Left \o t /\ Right' = Right
      BY <1>2, InsertTypes
    <2>. QED
      BY <2>1 DEF Left, Right, Editor!TENext, Editor!Type
  <1>3. CASE Backspace
    <2>1. /\ \E k \in 0 .. Len(Left) : Left' = SubSeq(Left, 1, k)
          /\ Right' = Right
      BY <1>3, BackspaceErases
    <2>. QED
      BY <2>1, Zenon DEF Left, Right, Editor!TENext, Editor!Erase
  <1>4. CASE LeftArrow \/ RightArrow \/ MoveCursorVertically
    <2>1. Left \o Right = Text
      BY Sides DEF CursorSplitsText
    <2>2. CursorSplitsText'
      BY <1>0, Sides, PTL
    <2>3. Text' = Text
      BY <1>4 DEF LeftArrow, RightArrow, MoveCursorVertically, Text
    <2>4. Left' \o Right' = Left \o Right
      BY <2>1, <2>2, <2>3 DEF CursorSplitsText
    <2>. QED
      BY <2>4, Zenon DEF Left, Right, Editor!TENext, Editor!Move
  <1>5. CASE UNCHANGED bufferVars
    BY <1>5 DEF bufferVars, Text, Editor!editorVars
  <1>. QED
    BY <1>1, <1>2, <1>3, <1>4, <1>5
    DEF Next, PromptNext, AnyInsert, InsertOverruns, vars

(* Every operation on the array, whatever its size and the graphemes, is   *)
(* one edit of TextEditor: typing at the cursor, erasing to its left,      *)
(* moving it, clearing the text (text_buffer.c:94-138).                    *)
THEOREM BufferImplementsTextEditor == Spec => ImplementsTextEditor
  <1>. QED
    BY EditorInit, EditorStep, BufferInvAlways, PTL
    DEF Spec, ImplementsTextEditor, Editor!TESpec

(* The words that start among the first n bytes. *)
StartsUpTo(s, n) == { i \in WordStarts(s) : i <= n }

(* One more byte adds a word exactly when the loop counts one there. *)
LEMMA StartsGrow ==
  ASSUME NEW s, Len(s) \in Nat, NEW n \in 1 .. Len(s)
  PROVE  /\ Cardinality(StartsUpTo(s, n - 1)) \in Nat
         /\ Cardinality(StartsUpTo(s, n)) =
              IF IsSpace(s[n]) \/ (n > 1 /\ ~IsSpace(s[n - 1]))
              THEN Cardinality(StartsUpTo(s, n - 1))
              ELSE Cardinality(StartsUpTo(s, n - 1)) + 1
  <1>1. IsFiniteSet(StartsUpTo(s, n - 1)) /\ Cardinality(StartsUpTo(s, n - 1)) \in Nat
    <2>1. IsFiniteSet(1 .. Len(s))
      BY FS_Interval
    <2>2. StartsUpTo(s, n - 1) \in SUBSET (1 .. Len(s))
      BY DEF StartsUpTo, WordStarts
    <2>. QED
      BY <2>1, <2>2, FS_Subset, FS_CardinalityType
  <1>2. \A i \in 1 .. Len(s) : i <= n <=> i <= n - 1 \/ i = n
    OBVIOUS
  <1>3. n \in WordStarts(s) <=> ~IsSpace(s[n]) /\ (n = 1 \/ IsSpace(s[n - 1]))
    BY DEF WordStarts
  <1>4. WordStarts(s) \subseteq 1 .. Len(s)
    BY DEF WordStarts
  <1>5. CASE n \in WordStarts(s)
    <2>1. StartsUpTo(s, n) = StartsUpTo(s, n - 1) \cup {n}
      BY <1>2, <1>4, <1>5 DEF StartsUpTo
    <2>2. n \notin StartsUpTo(s, n - 1)
      BY DEF StartsUpTo
    <2>3. Cardinality(StartsUpTo(s, n)) = Cardinality(StartsUpTo(s, n - 1)) + 1
      BY <1>1, <2>1, <2>2, FS_AddElement
    <2>4. ~(IsSpace(s[n]) \/ (n > 1 /\ ~IsSpace(s[n - 1])))
      BY <1>3, <1>5
    <2>. QED
      BY <1>1, <2>3, <2>4
  <1>6. CASE n \notin WordStarts(s)
    <2>1. StartsUpTo(s, n) = StartsUpTo(s, n - 1)
      BY <1>2, <1>4, <1>6 DEF StartsUpTo
    <2>2. IsSpace(s[n]) \/ (n > 1 /\ ~IsSpace(s[n - 1]))
      BY <1>3, <1>6
    <2>. QED
      BY <1>1, <2>1, <2>2
  <1>. QED
    BY <1>5, <1>6

(* One turn of the loop, from what it knew after the turns before. *)
Turn(s, after, n) ==
  IF n = 0 THEN [amount |-> 0, inside_word |-> FALSE]
  ELSE [ amount      |-> IF IsSpace(s[n]) \/ after[n - 1].inside_word
                         THEN after[n - 1].amount ELSE after[n - 1].amount + 1,
         inside_word |-> ~IsSpace(s[n]) ]

LEMMA TurnKnows ==
  ASSUME NEW s, NEW after, NEW n
  PROVE  /\ n = 0 => /\ Turn(s, after, n).amount = 0
                     /\ ~Turn(s, after, n).inside_word
         /\ n # 0 => /\ Turn(s, after, n).amount =
                            IF IsSpace(s[n]) \/ after[n - 1].inside_word
                            THEN after[n - 1].amount ELSE after[n - 1].amount + 1
                     /\ Turn(s, after, n).inside_word <=> ~IsSpace(s[n])
  <1>1. CASE n = 0
    <2>1. Turn(s, after, n) = [amount |-> 0, inside_word |-> FALSE]
      BY <1>1, Zenon DEF Turn
    <2>2. Turn(s, after, n).amount = 0 /\ Turn(s, after, n).inside_word = FALSE
      BY <2>1
    <2>. QED
      BY <1>1, <2>2, Zenon
  <1>2. CASE n # 0
    <2>. DEFINE more == IF IsSpace(s[n]) \/ after[n - 1].inside_word
                        THEN after[n - 1].amount ELSE after[n - 1].amount + 1
                inside == ~IsSpace(s[n])
    <2>1. Turn(s, after, n) = [amount |-> more, inside_word |-> inside]
      BY <1>2, Zenon DEF Turn
    <2>2. /\ Turn(s, after, n).amount = more
          /\ Turn(s, after, n).inside_word = inside
      <3>. HIDE DEF more, inside
      <3>. QED
        BY <2>1
    <2>. QED
      BY <1>2, <2>2, Zenon
  <1>. QED
    BY <1>1, <1>2

(* The loop counts the words of any text: after n turns it has counted the *)
(* words that start among the first n bytes.                               *)
LEMMA LoopCountsWords ==
  ASSUME NEW s, Len(s) \in Nat
  PROVE  WordCountLoop(s) = WordCount(s)
  <1>. DEFINE IsLoop(g) == g = [n \in 0 .. Len(s) |-> Turn(s, g, n)]
              counted   == [n \in 0 .. Len(s) |->
                 [ amount      |-> Cardinality(StartsUpTo(s, n)),
                   inside_word |-> IF n = 0 THEN FALSE ELSE ~IsSpace(s[n]) ]]
              loop      == CHOOSE g : IsLoop(g)
  <1>1. StartsUpTo(s, 0) = {} /\ Cardinality(StartsUpTo(s, 0)) = 0
    <2>1. StartsUpTo(s, 0) = {}
      BY DEF StartsUpTo, WordStarts
    <2>. QED
      BY <2>1, FS_EmptySet
  <1>2. IsLoop(counted)
    <2>. SUFFICES ASSUME NEW n \in 0 .. Len(s)
                  PROVE  counted[n] = Turn(s, counted, n)
      BY Zenon
    <2>1. CASE n = 0
      BY <1>1, <2>1 DEF Turn
    <2>2. CASE n # 0
      <3>1. n \in 1 .. Len(s) /\ n - 1 \in 0 .. Len(s) /\ (n - 1 = 0 <=> ~(n > 1))
        BY <2>2
      <3>2. counted[n - 1].inside_word <=> n > 1 /\ ~IsSpace(s[n - 1])
        <4>1. counted[n - 1].inside_word =
                IF n - 1 = 0 THEN FALSE ELSE ~IsSpace(s[n - 1])
          BY <3>1, Zenon
        <4>. QED
          BY <3>1, <4>1, Zenon
      <3>3. counted[n - 1].amount = Cardinality(StartsUpTo(s, n - 1))
        BY <3>1, Zenon
      <3>4. counted[n] = [ amount      |-> Cardinality(StartsUpTo(s, n)),
                           inside_word |-> ~IsSpace(s[n]) ]
        BY <2>2, Zenon
      <3>5. Cardinality(StartsUpTo(s, n)) =
              IF IsSpace(s[n]) \/ counted[n - 1].inside_word
              THEN counted[n - 1].amount ELSE counted[n - 1].amount + 1
        <4>. HIDE DEF counted
        <4>. QED
          BY <3>1, <3>2, <3>3, StartsGrow
      <3>. HIDE DEF counted
      <3>. QED
        BY <2>2, <3>4, <3>5, Zenon DEF Turn
    <2>. QED
      BY <2>1, <2>2
  <1>3. IsLoop(loop)
    <2>. HIDE DEF IsLoop, counted
    <2>. QED
      BY <1>2, Zenon
  <1>4. \A n \in 0 .. Len(s) : loop[n] = Turn(s, loop, n)
    <2>. HIDE DEF loop
    <2>. QED
      BY <1>3, Zenon
  <1>5. WordCountLoop(s) = loop[Len(s)].amount
    BY Zenon DEF WordCountLoop, Turn
  <1>. HIDE DEF loop, counted, IsLoop
  <1>6. \A n \in 0 .. Len(s) : loop[n].amount = Cardinality(StartsUpTo(s, n))
    <2>. DEFINE T == { n \in 0 .. Len(s) : loop[n].amount # Cardinality(StartsUpTo(s, n)) }
    <2>. SUFFICES ASSUME T # {} PROVE FALSE
      OBVIOUS
    <2>1. PICK n \in T : \A y \in T : n <= y
      <3>1. T \subseteq Nat
        OBVIOUS
      <3>. HIDE DEF T
      <3>. QED
        BY <3>1, LeastNatural
    <2>2. n # 0
      <3>. SUFFICES ASSUME n = 0 PROVE FALSE
        OBVIOUS
      <3>1. loop[0].amount = 0
        <4>1. 0 \in 0 .. Len(s)
          OBVIOUS
        <4>2. loop[0] = Turn(s, loop, 0)
          BY <1>4, <4>1
        <4>. QED
          BY <4>2, TurnKnows
      <3>. QED
        BY <1>1, <3>1
    <2>3. n \in 1 .. Len(s) /\ n - 1 \in 0 .. Len(s)
      BY <2>2
    <2>4. loop[n - 1].amount = Cardinality(StartsUpTo(s, n - 1))
      <3>1. n - 1 \notin T
        <4>1. ~(n <= n - 1)
          BY <2>3
        <4>. HIDE DEF T
        <4>. QED
          BY <2>1, <4>1
      <3>. QED
        BY <2>3, <3>1
    <2>5. loop[n - 1].inside_word <=> n > 1 /\ ~IsSpace(s[n - 1])
      <3>1. loop[n - 1] = Turn(s, loop, n - 1)
        BY <1>4, <2>3
      <3>2. CASE n = 1
        <4>1. n - 1 = 0 /\ ~(n > 1)
          BY <3>2
        <4>. QED
          BY <3>1, <4>1, TurnKnows
      <3>3. CASE n # 1
        <4>1. n - 1 # 0 /\ n > 1
          BY <2>3, <3>3
        <4>2. Turn(s, loop, n - 1).inside_word <=> ~IsSpace(s[n - 1])
          BY <4>1, TurnKnows
        <4>. QED
          BY <3>1, <4>1, <4>2, Zenon
      <3>. QED
        BY <3>2, <3>3
    <2>6. loop[n].amount = IF IsSpace(s[n]) \/ loop[n - 1].inside_word
                           THEN loop[n - 1].amount ELSE loop[n - 1].amount + 1
      <3>1. loop[n] = Turn(s, loop, n)
        BY <1>4
      <3>2. Turn(s, loop, n).amount =
              IF IsSpace(s[n]) \/ loop[n - 1].inside_word
              THEN loop[n - 1].amount ELSE loop[n - 1].amount + 1
        BY <2>2, TurnKnows
      <3>. QED
        BY <3>1, <3>2, Zenon
    <2>7. loop[n].amount = Cardinality(StartsUpTo(s, n))
      BY <2>3, <2>4, <2>5, <2>6, StartsGrow
    <2>. QED
      BY <2>7
  <1>7. StartsUpTo(s, Len(s)) = WordStarts(s)
    BY DEF StartsUpTo, WordStarts
  <1>8. Len(s) \in 0 .. Len(s)
    OBVIOUS
  <1>. QED
    BY <1>5, <1>6, <1>7, <1>8, Zenon DEF WordCount

LEMMA TextHasLength ==
  ASSUME BufferInv
  PROVE  Len(Text) \in Nat
  BY TextBufferAssumption DEF BufferInv, TextBufferTypeOK, Index, Text

(* The loop of anvi_text_buffer_word_count counts the words of the text,   *)
(* whatever the text.                                                      *)
THEOREM WordCountStaysCorrect == Spec => []WordCountIsCorrect
  <1>1. BufferInv => WordCountIsCorrect
    BY TextHasLength, LoopCountsWords DEF WordCountIsCorrect
  <1>. QED
    BY <1>1, BufferInvAlways, PTL
=============================================================================
