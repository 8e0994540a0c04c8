------------------------------ MODULE ViewProofs ------------------------------
(***************************************************************************)
(* Proofs about View: the cursor, the lines and the frames, for every      *)
(* buffer, all texts, widths and heights, and every way in which graphemes *)
(* join that View's assumptions allow.                                     *)
(***************************************************************************)
EXTENDS View, TextBufferProofs

-----------------------------------------------------------------------------
(* Lines and columns of a text s, with S the starts of its lines.          *)

(* The greatest of a set of positions. *)
LEMMA MaxOfPositions ==
  ASSUME NEW n \in Nat, NEW T, T \subseteq 0 .. n, T # {}
  PROVE  Max(T) \in T /\ \A y \in T : y <= Max(T)
  <1>. DEFINE D == { n - i : i \in T }
  <1>1. D \subseteq Nat /\ D # {}
    <2>1. PICK t \in T : TRUE
      OBVIOUS
    <2>2. n - t \in D
      OBVIOUS
    <2>3. \A i \in T : n - i \in Nat
      OBVIOUS
    <2>. QED
      BY <2>2, <2>3
  <1>2. PICK d \in D : \A e \in D : d <= e
    <2>. HIDE DEF D
    <2>. QED
      BY <1>1, LeastNatural
  <1>3. PICK x \in T : d = n - x
    OBVIOUS
  <1>4. \A y \in T : x >= y
    <2>. SUFFICES ASSUME NEW y \in T PROVE x >= y
      OBVIOUS
    <2>1. n - x <= n - y
      BY <1>2, <1>3
    <2>. QED
      BY <2>1
  <1>5. Max(T) \in T /\ \A y \in T : Max(T) >= y
    BY <1>4, Zenon DEF Max
  <1>. QED
    BY <1>5

LEMMA BoundariesInText ==
  ASSUME NEW s, Len(s) \in Nat
  PROVE  /\ Boundaries(s) \subseteq 0 .. Len(s)
         /\ 0 \in Boundaries(s)
         /\ Len(s) \in Boundaries(s)
  BY DEF Boundaries

(* What is said of the lines below holds for any set of starts that is     *)
(* made of boundaries and has the start of the text and those that follow  *)
(* the end of a paragraph.                                                 *)
AreLines(s, S) ==
  /\ S \subseteq Boundaries(s)
  /\ 0 \in S
  /\ \A k \in Boundaries(s) : k > 0 /\ s[k] \in ParagraphEnd => k \in S

LEMMA LineStartsAreLines ==
  ASSUME NEW s, Len(s) \in Nat, NEW w
  PROVE  AreLines(s, LineStarts(s, w))
  <1>1. /\ Boundaries(s) \subseteq 0 .. Len(s)
        /\ 0 \in Boundaries(s)
    BY BoundariesInText
  <1>2. \A k \in Boundaries(s) :
          (k > 0 => s[k] \in ParagraphEnd) => k \in LineStarts(s, w)
    BY DEF LineStarts
  <1>3. LineStarts(s, w) \subseteq Boundaries(s)
    BY DEF LineStarts, Cells
  <1>. QED
    BY <1>1, <1>2, <1>3 DEF AreLines

(* The number of the line: it never falls along the text, rises by at most *)
(* one, and at the end of the text it is that of the last line.            *)
LEMMA LineOfProperties ==
  ASSUME NEW n \in Nat, NEW S, S \subseteq 0 .. n, 0 \in S
  PROVE  /\ Cardinality(S) \in Nat
         /\ LineOf(S, 0) = 0
         /\ LineOf(S, n) = Cardinality(S) - 1
         /\ \A i \in 0 .. n : LineOf(S, i) \in Nat
         /\ \A i, j \in 0 .. n : i <= j => LineOf(S, i) <= LineOf(S, j)
         /\ \A i, j \in 0 .. n : \A k \in S :
              i < k /\ k <= j => LineOf(S, i) # LineOf(S, j)
         /\ \A i \in 1 .. n :
              LineOf(S, i) = IF i \in S THEN LineOf(S, i - 1) + 1
                                        ELSE LineOf(S, i - 1)
  <1>. DEFINE Upto(i) == { k \in S : k <= i }
  <1>1. IsFiniteSet(S)
    <2>1. IsFiniteSet(0 .. n)
      BY FS_Interval
    <2>. QED
      BY <2>1, FS_Subset
  <1>2. \A i : IsFiniteSet(Upto(i)) /\ Cardinality(Upto(i)) \in Nat
    BY <1>1, FS_Subset, FS_CardinalityType
  <1>3. Cardinality(S) \in Nat
    BY <1>1, FS_CardinalityType
  <1>4. LineOf(S, 0) = 0
    <2>1. \A k \in S : k <= 0 <=> k = 0
      OBVIOUS
    <2>2. Upto(0) = {0}
      BY <2>1
    <2>3. Cardinality({0}) = 1
      BY FS_Singleton
    <2>. QED
      BY <2>2, <2>3 DEF LineOf
  <1>5. LineOf(S, n) = Cardinality(S) - 1
    <2>1. \A k \in S : k <= n
      OBVIOUS
    <2>2. Upto(n) = S
      BY <2>1, Zenon
    <2>. QED
      BY <2>2 DEF LineOf
  <1>6. ASSUME NEW i \in 0 .. n, NEW j \in 0 .. n, i <= j
        PROVE  /\ LineOf(S, i) <= LineOf(S, j)
               /\ \A k \in S : i < k /\ k <= j => LineOf(S, i) # LineOf(S, j)
    <2>1. Upto(i) \in SUBSET Upto(j)
      <3>1. \A k \in S : k <= i => k <= j
        BY <1>6
      <3>. QED
        BY <3>1
    <2>2. /\ Cardinality(Upto(i)) <= Cardinality(Upto(j))
          /\ Cardinality(Upto(j)) = Cardinality(Upto(i)) => Upto(j) = Upto(i)
      <3>1. IsFiniteSet(Upto(j))
        BY <1>2
      <3>. HIDE DEF Upto
      <3>. QED
        BY <3>1, <2>1, FS_Subset
    <2>3. ASSUME NEW k \in S, i < k, k <= j
          PROVE  Upto(i) # Upto(j)
      <3>1. k \in Upto(j) /\ k \notin Upto(i)
        BY <2>3
      <3>. QED
        BY <3>1
    <2>. HIDE DEF Upto
    <2>4. LineOf(S, i) = Cardinality(Upto(i)) - 1 /\ LineOf(S, j) = Cardinality(Upto(j)) - 1
      BY DEF LineOf, Upto
    <2>. QED
      BY <1>2, <2>2, <2>3, <2>4
  <1>7. \A i \in 0 .. n : LineOf(S, i) \in Nat
    <2>. SUFFICES ASSUME NEW i \in 0 .. n PROVE LineOf(S, i) \in Nat
      OBVIOUS
    <2>1. LineOf(S, i) = Cardinality(Upto(i)) - 1
      BY DEF LineOf
    <2>2. LineOf(S, i) >= 0
      <3>1. 0 \in 0 .. n /\ 0 <= i
        OBVIOUS
      <3>2. LineOf(S, 0) <= LineOf(S, i)
        BY <1>6, <3>1
      <3>. HIDE DEF Upto
      <3>. QED
        BY <1>2, <1>4, <2>1, <3>2
    <2>. HIDE DEF Upto
    <2>. QED
      BY <1>2, <2>1, <2>2
  <1>8. ASSUME NEW i \in 1 .. n
        PROVE  LineOf(S, i) = IF i \in S THEN LineOf(S, i - 1) + 1
                                         ELSE LineOf(S, i - 1)
    <2>1. CASE i \in S
      <3>1. \A k \in S : k <= i <=> k <= i - 1 \/ k = i
        OBVIOUS
      <3>2. Upto(i) = Upto(i - 1) \cup {i}
        BY <2>1, <3>1, Zenon
      <3>a. i \notin Upto(i - 1)
        OBVIOUS
      <3>3. Cardinality(Upto(i)) = Cardinality(Upto(i - 1)) + 1
        <4>1. IsFiniteSet(Upto(i - 1))
          BY <1>2
        <4>. HIDE DEF Upto
        <4>. QED
          BY <4>1, <3>2, <3>a, FS_AddElement
      <3>4. LineOf(S, i) = Cardinality(Upto(i)) - 1
            /\ LineOf(S, i - 1) = Cardinality(Upto(i - 1)) - 1
        BY DEF LineOf
      <3>5. Cardinality(Upto(i - 1)) \in Nat
        BY <1>2
      <3>. HIDE DEF Upto
      <3>. QED
        BY <2>1, <3>3, <3>4, <3>5
    <2>2. CASE i \notin S
      <3>1. \A k \in S : k <= i <=> k <= i - 1
        BY <2>2
      <3>2. Upto(i) = Upto(i - 1)
        BY <3>1, Zenon
      <3>. QED
        BY <2>2, <3>2 DEF LineOf
    <2>. QED
      BY <2>1, <2>2
  <1>. QED
    BY <1>3, <1>4, <1>5, <1>6, <1>7, <1>8

(* Every line has a place at its very start, whatever the column. *)
LEMMA LineHasPlace ==
  ASSUME NEW s, Len(s) \in Nat, NEW S, AreLines(s, S),
         NEW line \in 0 .. Cardinality(S) - 1, NEW x \in Nat
  PROVE  \E i \in Boundaries(s) : LineOf(S, i) = line /\ XOf(s, S, i) <= x
  <1>1. S \subseteq 0 .. Len(s) /\ 0 \in S
    BY BoundariesInText DEF AreLines
  <1>2. /\ Cardinality(S) \in Nat
        /\ LineOf(S, 0) = 0
        /\ LineOf(S, Len(s)) = Cardinality(S) - 1
        /\ \A i \in 0 .. Len(s) : LineOf(S, i) \in Nat
        /\ \A i \in 1 .. Len(s) :
             LineOf(S, i) = IF i \in S THEN LineOf(S, i - 1) + 1
                                       ELSE LineOf(S, i - 1)
    BY <1>1, LineOfProperties
  <1>. DEFINE T == { j \in 0 .. Len(s) : LineOf(S, j) >= line }
  <1>3. Len(s) \in T
    BY <1>2
  <1>4. PICK i \in T : \A y \in T : i <= y
    <2>1. T \subseteq Nat
      OBVIOUS
    <2>. HIDE DEF T
    <2>. QED
      BY <1>3, <2>1, LeastNatural
  <1>5. i \in S /\ LineOf(S, i) = line
    <2>0. LineOf(S, i) >= line
      OBVIOUS
    <2>1. CASE i = 0
      BY <1>1, <1>2, <2>0, <2>1
    <2>2. CASE i # 0
      <3>1. i \in 1 .. Len(s) /\ i - 1 \in 0 .. Len(s) /\ i - 1 \notin T
        <4>1. i \in 1 .. Len(s) /\ i - 1 \in 0 .. Len(s) /\ ~(i <= i - 1)
          BY <2>2
        <4>. QED
          BY <4>1, <1>4, Zenon
      <3>2. LineOf(S, i - 1) < line /\ LineOf(S, i - 1) \in Nat
        BY <1>2, <3>1
      <3>3. LineOf(S, i) = IF i \in S THEN LineOf(S, i - 1) + 1
                                      ELSE LineOf(S, i - 1)
        BY <1>2, <3>1
      <3>. QED
        BY <1>2, <2>0, <3>2, <3>3
    <2>. QED
      BY <2>1, <2>2
  <1>6. XOf(s, S, i) = 0
    <2>1. i \in Nat
      OBVIOUS
    <2>. HIDE DEF T
    <2>. DEFINE starts == { k \in S : k <= i }
    <2>2. starts \subseteq 0 .. i /\ i \in starts
      <3>1. \A k \in S : k <= i => k \in 0 .. i
        BY <1>1, <2>1
      <3>2. i <= i
        BY <2>1
      <3>. QED
        BY <1>5, <3>1, <3>2
    <2>3. Max(starts) = i
      <3>. HIDE DEF starts
      <3>1. Max(starts) \in starts /\ i <= Max(starts)
        BY <2>1, <2>2, MaxOfPositions
      <3>2. Max(starts) \in 0 .. i
        BY <2>2, <3>1
      <3>. QED
        BY <2>1, <3>1, <3>2
    <2>4. { k \in Cells(s) : i <= k /\ k < i } = {}
      <3>1. Cells(s) \subseteq Int
        BY BoundariesInText DEF Cells
      <3>2. \A k \in Int : ~(i <= k /\ k < i)
        BY <2>1
      <3>. QED
        BY <3>1, <3>2
    <2>. QED
      BY <2>3, <2>4, FS_EmptySet, Zenon DEF XOf, Between, LastUpTo, starts
  <1>7. i \in Boundaries(s)
    BY <1>5 DEF AreLines
  <1>. QED
    BY <1>5, <1>6, <1>7

(* A text of whole characters, with none that goes on behind the end of a  *)
(* paragraph.                                                              *)
WholeCharacters(s) ==
  \A i \in 1 .. Len(s) :
    /\ s[i] \in Byte
    /\ s[i] \in Continuation => i > 1 /\ s[i - 1] \notin ParagraphEnd

(* A boundary is never inside a character. *)
LEMMA BoundaryBeginsCharacter ==
  ASSUME NEW s, Len(s) \in Nat, WholeCharacters(s), NEW i \in Boundaries(s)
  PROVE  i = Len(s) \/ s[i + 1] \notin Continuation
  <1>. SUFFICES ASSUME i # Len(s), s[i + 1] \in Continuation PROVE FALSE
    OBVIOUS
  <1>1. i \in 0 .. Len(s) - 1
    BY BoundariesInText
  <1>2. i + 1 > 1 /\ s[i] \notin ParagraphEnd
    <2>1. i + 1 \in 1 .. Len(s) /\ (i + 1) - 1 = i
      BY <1>1
    <2>. QED
      BY <2>1 DEF WholeCharacters
  <1>3. s[i] \in Byte \ ParagraphEnd
    BY <1>1, <1>2 DEF WholeCharacters
  <1>4. Joins(s[i], s[i + 1])
    BY <1>3, GraphemeAssumption
  <1>. QED
    BY <1>1, <1>2, <1>4 DEF Boundaries

(* Behind the end of a paragraph, a line starts at the next boundary. *)
LEMMA LineEndsWithParagraph ==
  ASSUME NEW s, Len(s) \in Nat, WholeCharacters(s), NEW S, AreLines(s, S),
         NEW o \in Boundaries(s), NEW p \in Boundaries(s), o < p,
         s[o + 1] \in ParagraphEnd
  PROVE  \E k \in S : o < k /\ k <= p
  <1>1. /\ Boundaries(s) \subseteq 0 .. Len(s)
        /\ o \in Nat /\ p \in Nat /\ p <= Len(s)
    BY BoundariesInText
  <1>. DEFINE T == { k \in Boundaries(s) : o < k }
  <1>2. PICK b \in T : \A y \in T : b <= y
    <2>1. T \subseteq Nat /\ p \in T
      BY <1>1
    <2>. HIDE DEF T
    <2>. QED
      BY <2>1, LeastNatural
  <1>3. b \in Boundaries(s) /\ b \in Nat /\ o < b /\ b <= p
    BY <1>1, <1>2
  <1>4. \A j \in Nat : o < j /\ j < b => j \notin Boundaries(s)
    BY <1>1, <1>2
  <1>. HIDE DEF T
  <1>5. s[b] \in ParagraphEnd
    <2>. DEFINE U == { j \in o + 1 .. b : s[j] \notin ParagraphEnd }
    <2>. SUFFICES ASSUME b \in U PROVE FALSE
      BY <1>1, <1>3
    <2>1. PICK j \in U : \A y \in U : j <= y
      <3>1. U \subseteq Nat
        BY <1>1
      <3>. HIDE DEF U
      <3>. QED
        BY <3>1, LeastNatural
    <2>2. j \in o + 1 .. b /\ s[j] \notin ParagraphEnd
      OBVIOUS
    <2>3. j - 1 \in o + 1 .. b - 1 /\ s[j - 1] \in ParagraphEnd
      <3>1. j # o + 1
        BY <2>2
      <3>2. j - 1 \in o + 1 .. b - 1
        BY <1>1, <1>3, <2>2, <3>1
      <3>3. j - 1 \notin U
        <4>1. ~(j <= j - 1)
          BY <1>1, <2>2
        <4>. HIDE DEF U
        <4>. QED
          BY <2>1, <4>1
      <3>. QED
        BY <1>1, <1>3, <3>2, <3>3
    <2>. HIDE DEF U
    <2>4. /\ j \in 1 .. Len(s) /\ j - 1 \in 1 .. Len(s) - 1
          /\ (j - 1) + 1 = j
          /\ j - 1 \notin Boundaries(s)
      BY <1>1, <1>3, <1>4, <2>2, <2>3
    <2>5. Joins(s[j - 1], s[j])
      BY <2>4 DEF Boundaries
    <2>6. s[j] \in Byte \ Continuation
      BY <2>3, <2>4 DEF WholeCharacters
    <2>. QED
      BY <2>2, <2>3, <2>5, <2>6, GraphemeAssumption
  <1>. QED
    BY <1>1, <1>3, <1>5 DEF AreLines

LEMMA XOfIsColumn ==
  ASSUME NEW s, Len(s) \in Nat, NEW S, NEW i
  PROVE  XOf(s, S, i) \in Nat
  <1>1. IsFiniteSet(0 .. Len(s))
    BY FS_Interval
  <1>2. Cells(s) \subseteq 0 .. Len(s)
    BY BoundariesInText DEF Cells
  <1>. DEFINE before == { k \in Cells(s) : LastUpTo(S, i) <= k /\ k < i }
  <1>3. before \in SUBSET (0 .. Len(s))
    BY <1>2
  <1>4. Cardinality(before) \in Nat
    <2>. HIDE DEF before
    <2>. QED
      BY <1>1, <1>3, FS_Subset, FS_CardinalityType
  <1>. QED
    BY <1>4 DEF XOf, Between

(* Along a line the column grows from boundary to boundary: only the end   *)
(* of a paragraph has no width, and the line ends with it.                 *)
LEMMA ColumnsGrow ==
  ASSUME NEW s, Len(s) \in Nat, WholeCharacters(s), NEW S, AreLines(s, S),
         NEW o \in Boundaries(s), NEW p \in Boundaries(s), o < p,
         LineOf(S, o) = LineOf(S, p)
  PROVE  XOf(s, S, o) < XOf(s, S, p)
  <1>1. /\ Boundaries(s) \subseteq 0 .. Len(s)
        /\ o \in 0 .. Len(s) /\ p \in 0 .. Len(s)
        /\ S \subseteq 0 .. Len(s) /\ 0 \in S
    BY BoundariesInText DEF AreLines
  <1>2. \A k \in S : ~(o < k /\ k <= p)
    <2>1. \A i, j \in 0 .. Len(s) : \A k \in S :
            i < k /\ k <= j => LineOf(S, i) # LineOf(S, j)
      BY <1>1, LineOfProperties
    <2>. QED
      BY <1>1, <2>1
  <1>. DEFINE starts == { k \in S : k <= o }
              l      == Max(starts)
  <1>3. l \in starts
    <2>1. 0 <= o
      BY <1>1
    <2>2. starts \subseteq 0 .. Len(s) /\ 0 \in starts
      BY <1>1, <2>1
    <2>. HIDE DEF starts
    <2>. QED
      BY <2>2, MaxOfPositions
  <1>4. l \in Nat /\ l <= o
    <2>1. l \in S /\ l <= o
      <3>. HIDE DEF l
      <3>. QED
        BY <1>3
    <2>. HIDE DEF l
    <2>. QED
      BY <1>1, <2>1
  <1>5. LastUpTo(S, o) = l /\ LastUpTo(S, p) = l
    <2>1. \A k \in S : k <= p <=> k <= o
      BY <1>1, <1>2
    <2>2. { k \in S : k <= p } = starts
      BY <2>1, Zenon
    <2>. QED
      BY <2>2, Zenon DEF LastUpTo
  <1>6. o \in Cells(s)
    <2>1. o # Len(s)
      BY <1>1
    <2>2. s[o + 1] \notin ParagraphEnd
      BY <1>2, LineEndsWithParagraph
    <2>. QED
      BY <2>1, <2>2 DEF Cells
  <1>. HIDE DEF l
  <1>. DEFINE A == { k \in Cells(s) : l <= k /\ k < o }
              C == { k \in Cells(s) : l <= k /\ k < p }
  <1>7. IsFiniteSet(A) /\ IsFiniteSet(C) /\ Cardinality(A) \in Nat
    <2>1. IsFiniteSet(0 .. Len(s))
      BY FS_Interval
    <2>2. A \in SUBSET (0 .. Len(s)) /\ C \in SUBSET (0 .. Len(s))
      BY <1>1 DEF Cells
    <2>. HIDE DEF A, C
    <2>. QED
      BY <2>1, <2>2, FS_Subset, FS_CardinalityType
  <1>8. o \notin A /\ A \cup {o} \in SUBSET C
    <2>1. \A k \in Cells(s) : k \in Int
      BY <1>1 DEF Cells
    <2>2. \A k \in Cells(s) : k < o => k < p
      BY <1>1, <2>1
    <2>3. ~(o < o) /\ o < p
      BY <1>1
    <2>4. o \notin A
      BY <2>3, Zenon
    <2>5. A \subseteq C
      BY <2>2
    <2>6. o \in C
      BY <1>4, <1>6, <2>3
    <2>. QED
      BY <2>4, <2>5, <2>6
  <1>9. Cardinality(A) < Cardinality(C)
    <2>. HIDE DEF A, C
    <2>1. Cardinality(A \cup {o}) = Cardinality(A) + 1
      BY <1>7, <1>8, FS_AddElement
    <2>2. Cardinality(A \cup {o}) <= Cardinality(C)
      BY <1>7, <1>8, FS_Subset
    <2>3. Cardinality(C) \in Nat
      BY <1>7, FS_CardinalityType
    <2>. QED
      BY <1>7, <2>1, <2>2, <2>3
  <1>. QED
    BY <1>5, <1>9 DEF XOf, Between

(* The place that is found for a column is a boundary on that line. *)
LEMMA XToIndexOnLine ==
  ASSUME NEW s, Len(s) \in Nat, NEW S, AreLines(s, S),
         NEW line \in 0 .. Cardinality(S) - 1, NEW x \in Nat
  PROVE  /\ XToIndex(s, S, line, x) \in Boundaries(s)
         /\ LineOf(S, XToIndex(s, S, line, x)) = line
  <1>. DEFINE T == { i \in Boundaries(s) : LineOf(S, i) = line /\ XOf(s, S, i) <= x }
  <1>1. T \subseteq 0 .. Len(s) /\ T # {}
    BY BoundariesInText, LineHasPlace
  <1>2. Max(T) \in T
    <2>. HIDE DEF T
    <2>. QED
      BY <1>1, MaxOfPositions
  <1>. QED
    BY <1>2, Zenon DEF XToIndex

(* The column of a boundary leads back to it. *)
LEMMA XToIndexReturns ==
  ASSUME NEW s, Len(s) \in Nat, WholeCharacters(s), NEW S, AreLines(s, S),
         NEW o \in Boundaries(s)
  PROVE  XToIndex(s, S, LineOf(S, o), XOf(s, S, o)) = o
  <1>. DEFINE T == { i \in Boundaries(s) :
                       LineOf(S, i) = LineOf(S, o) /\ XOf(s, S, i) <= XOf(s, S, o) }
  <1>1. Boundaries(s) \subseteq 0 .. Len(s)
    BY BoundariesInText
  <1>2. XOf(s, S, o) \in Nat /\ \A i \in T : XOf(s, S, i) \in Nat
    BY XOfIsColumn
  <1>3. T \subseteq 0 .. Len(s) /\ o \in T
    BY <1>1, <1>2
  <1>4. Max(T) \in T /\ o <= Max(T)
    <2>. HIDE DEF T
    <2>. QED
      BY <1>3, MaxOfPositions
  <1>5. ~(o < Max(T))
    <2>1. /\ Max(T) \in Boundaries(s)
          /\ LineOf(S, o) = LineOf(S, Max(T))
          /\ XOf(s, S, Max(T)) <= XOf(s, S, o)
      BY <1>4, Zenon
    <2>2. XOf(s, S, Max(T)) \in Nat
      BY XOfIsColumn
    <2>. HIDE DEF T
    <2>. SUFFICES ASSUME o < Max(T) PROVE FALSE
      OBVIOUS
    <2>3. XOf(s, S, o) < XOf(s, S, Max(T))
      BY <2>1, ColumnsGrow
    <2>. QED
      BY <1>2, <2>1, <2>2, <2>3
  <1>6. Max(T) = o
    <2>1. Max(T) \in 0 .. Len(s) /\ o \in 0 .. Len(s)
      BY <1>3, <1>4
    <2>. HIDE DEF T
    <2>. QED
      BY <1>4, <1>5, <2>1
  <1>. QED
    BY <1>6, Zenon DEF XToIndex

-----------------------------------------------------------------------------
(* The text is made of whole characters and the cursor is between them.    *)

CharacterInv ==
  /\ \A k \in 0 .. length_bytes - 1 :
       data[k] \in Continuation => k > 0 /\ data[k - 1] \notin ParagraphEnd
  /\ cursor_bytes \in VerticalTargets

LEMMA TextOfBuffer ==
  ASSUME BufferInv
  PROVE  /\ length_bytes \in Nat
         /\ cursor_bytes \in 0 .. length_bytes
         /\ Len(Text) = length_bytes
         /\ \A i \in 1 .. length_bytes : Text[i] = data[i - 1]
  <1>1. /\ length_bytes \in Nat
        /\ cursor_bytes \in 0 .. length_bytes
    BY TextBufferAssumption DEF BufferInv, TextBufferTypeOK, CursorInText, Index
  <1>. QED
    BY <1>1 DEF Text

LEMMA TextIsWhole ==
  ASSUME BufferInv, CharacterInv
  PROVE  WholeCharacters(Text)
  <1>. SUFFICES ASSUME NEW i \in 1 .. Len(Text)
                PROVE  /\ Text[i] \in Byte
                       /\ Text[i] \in Continuation =>
                            i > 1 /\ Text[i - 1] \notin ParagraphEnd
    BY DEF WholeCharacters
  <1>1. /\ i \in 1 .. length_bytes
        /\ Text[i] = data[i - 1]
        /\ i > 1 => Text[i - 1] = data[(i - 1) - 1]
    BY TextOfBuffer
  <1>2. i - 1 \in 0 .. length_bytes - 1 /\ (i - 1 > 0 => i > 1)
    BY <1>1, TextOfBuffer
  <1>3. Text[i] \in Byte
    BY <1>1, <1>2 DEF BufferInv, CStringIsText
  <1>4. data[i - 1] \in Continuation =>
          i - 1 > 0 /\ data[(i - 1) - 1] \notin ParagraphEnd
    BY <1>2 DEF CharacterInv
  <1>. QED
    BY <1>1, <1>2, <1>3, <1>4

LEMMA BoundaryIsTarget ==
  ASSUME BufferInv, CharacterInv, NEW i \in Boundaries(Text)
  PROVE  i \in VerticalTargets
  <1>1. i \in 0 .. length_bytes
    BY TextOfBuffer, BoundariesInText
  <1>2. i = length_bytes \/ Text[i + 1] \notin Continuation
    BY TextOfBuffer, TextIsWhole, BoundaryBeginsCharacter
  <1>3. i # length_bytes => Text[i + 1] = data[i]
    <2>1. i # length_bytes => i + 1 \in 1 .. length_bytes /\ (i + 1) - 1 = i
      BY <1>1, TextOfBuffer
    <2>. QED
      BY <2>1, TextOfBuffer
  <1>. QED
    BY <1>1, <1>2, <1>3 DEF VerticalTargets

LEMMA CharacterInsert ==
  ASSUME BufferInv, CharacterInv, NEW t \in Texts, Insert(t)
  PROVE  CharacterInv'
  <1>. DEFINE n == Len(t)
  <1>1. /\ length_bytes \in Nat
        /\ cursor_bytes \in 0 .. length_bytes
    BY TextOfBuffer
  <1>2. \A i \in 1 .. n : t[i] \in Continuation => i > 1 /\ t[i - 1] \notin ParagraphEnd
    BY TextBufferAssumption, GraphemeAssumption
  <1>3. /\ n \in Nat
        /\ length_bytes' = length_bytes + n
        /\ cursor_bytes' = cursor_bytes + n
        /\ length_bytes + n < TextBufferSize
        /\ data' = [k \in Index |->
             IF k \in cursor_bytes .. cursor_bytes + n - 1
             THEN t[k - cursor_bytes + 1]
             ELSE IF k \in cursor_bytes + n .. length_bytes + n
             THEN data[k - n]
             ELSE data[k]]
    BY InsertCells
  <1>4. /\ \A k \in 0 .. length_bytes - 1 :
             data[k] \in Continuation => k > 0 /\ data[k - 1] \notin ParagraphEnd
        /\ cursor_bytes = length_bytes \/ data[cursor_bytes] \notin Continuation
    BY DEF CharacterInv, VerticalTargets
  <1>. HIDE DEF n
  <1>5. /\ \A k \in 0 .. cursor_bytes - 1 : data'[k] = data[k]
        /\ \A k \in cursor_bytes .. cursor_bytes + n - 1 :
             data'[k] = t[k - cursor_bytes + 1]
        /\ \A k \in cursor_bytes + n .. length_bytes + n : data'[k] = data[k - n]
    BY <1>1, <1>3, TextBufferAssumption DEF Index
  <1>6. ASSUME NEW k \in 0 .. length_bytes + n - 1, data'[k] \in Continuation
        PROVE  k > 0 /\ data'[k - 1] \notin ParagraphEnd
    <2>1. CASE k < cursor_bytes
      <3>1. data'[k] = data[k] /\ k \in 0 .. length_bytes - 1
        BY <1>1, <1>3, <1>5, <2>1
      <3>2. k > 0 /\ data[k - 1] \notin ParagraphEnd
        BY <1>4, <1>6, <3>1
      <3>3. data'[k - 1] = data[k - 1]
        BY <1>1, <1>3, <1>5, <2>1, <3>2
      <3>. QED
        BY <3>2, <3>3
    <2>2. CASE cursor_bytes <= k /\ k < cursor_bytes + n
      <3>1. /\ data'[k] = t[k - cursor_bytes + 1]
            /\ k - cursor_bytes + 1 \in 1 .. n
        BY <1>1, <1>3, <1>5, <2>2
      <3>2. /\ k - cursor_bytes + 1 > 1
            /\ t[(k - cursor_bytes + 1) - 1] \notin ParagraphEnd
        BY <1>2, <1>6, <3>1
      <3>3. /\ k - 1 \in cursor_bytes .. cursor_bytes + n - 1
            /\ (k - 1) - cursor_bytes + 1 = (k - cursor_bytes + 1) - 1
            /\ k > 0
        BY <1>1, <1>3, <2>2, <3>2
      <3>4. data'[k - 1] = t[(k - cursor_bytes + 1) - 1]
        BY <1>5, <3>3
      <3>. QED
        BY <3>2, <3>3, <3>4
    <2>3. CASE cursor_bytes + n <= k
      <3>1. /\ data'[k] = data[k - n]
            /\ k - n \in cursor_bytes .. length_bytes - 1
            /\ k - n \in 0 .. length_bytes - 1
        BY <1>1, <1>3, <1>5, <2>3
      <3>2. k - n # cursor_bytes
        BY <1>1, <1>4, <1>6, <3>1
      <3>3. data[(k - n) - 1] \notin ParagraphEnd
        BY <1>4, <1>6, <3>1
      <3>4. /\ k - 1 \in cursor_bytes + n .. length_bytes + n
            /\ (k - 1) - n = (k - n) - 1
            /\ k > 0
        BY <1>1, <1>3, <3>1, <3>2
      <3>5. data'[k - 1] = data[(k - n) - 1]
        BY <1>5, <3>4
      <3>. QED
        BY <3>3, <3>4, <3>5
    <2>. QED
      BY <1>1, <1>3, <2>1, <2>2, <2>3
  <1>7. cursor_bytes + n = length_bytes + n \/ data'[cursor_bytes + n] \notin Continuation
    <2>1. data'[cursor_bytes + n] = data[(cursor_bytes + n) - n]
      BY <1>1, <1>3, <1>5
    <2>2. (cursor_bytes + n) - n = cursor_bytes
      BY <1>1, <1>3
    <2>. QED
      BY <1>4, <2>1, <2>2
  <1>8. cursor_bytes + n \in 0 .. length_bytes + n
    BY <1>1, <1>3
  <1>9. /\ n \in Nat
        /\ length_bytes' = length_bytes + n
        /\ cursor_bytes' = cursor_bytes + n
    BY <1>3
  <1>10. (cursor_bytes \in VerticalTargets)'
    BY <1>7, <1>8, <1>9 DEF VerticalTargets
  <1>11. \A k \in 0 .. length_bytes' - 1 :
           data'[k] \in Continuation => k > 0 /\ data'[k - 1] \notin ParagraphEnd
    <2>. SUFFICES ASSUME NEW k \in 0 .. length_bytes' - 1, data'[k] \in Continuation
                  PROVE  k > 0 /\ data'[k - 1] \notin ParagraphEnd
      OBVIOUS
    <2>1. k \in 0 .. length_bytes + n - 1
      BY <1>1, <1>9
    <2>. QED
      BY <1>6, <2>1
  <1>. QED
    BY <1>10, <1>11, Zenon DEF CharacterInv

LEMMA CharacterBackspace ==
  ASSUME BufferInv, CharacterInv, Backspace
  PROVE  CharacterInv'
  <1>. DEFINE dec == FindLengthOfGraphemeToLeft(Text, cursor_bytes)
  <1>1. /\ length_bytes \in Nat
        /\ cursor_bytes \in 0 .. length_bytes
    BY TextOfBuffer
  <1>2. dec \in 0 .. cursor_bytes
    BY <1>1, FindLengthInText
  <1>3. /\ length_bytes' = length_bytes - dec
        /\ cursor_bytes' = cursor_bytes - dec
        /\ data' = [k \in Index |->
             IF k \in cursor_bytes - dec .. length_bytes - dec
             THEN data[k + dec] ELSE data[k]]
    <2>. HIDE DEF dec
    <2>1. dec = FindLengthOfGraphemeToLeft(Text, cursor_bytes)
      BY DEF dec
    <2>. QED
      BY <2>1, BackspaceCells
  <1>4. /\ \A k \in 0 .. length_bytes - 1 :
             data[k] \in Continuation => k > 0 /\ data[k - 1] \notin ParagraphEnd
        /\ cursor_bytes = length_bytes \/ data[cursor_bytes] \notin Continuation
    BY DEF CharacterInv, VerticalTargets
  <1>. HIDE DEF dec
  <1>5. /\ \A k \in 0 .. cursor_bytes - dec - 1 : data'[k] = data[k]
        /\ \A k \in cursor_bytes - dec .. length_bytes - dec : data'[k] = data[k + dec]
    <2>1. 0 .. length_bytes \subseteq Index
      BY TextBufferAssumption DEF BufferInv, TextBufferTypeOK, Index
    <2>. QED
      BY <1>1, <1>2, <1>3, <2>1
  <1>6. ASSUME NEW k \in 0 .. length_bytes - dec - 1, data'[k] \in Continuation
        PROVE  k > 0 /\ data'[k - 1] \notin ParagraphEnd
    <2>1. CASE k < cursor_bytes - dec
      <3>1. data'[k] = data[k] /\ k \in 0 .. length_bytes - 1
        BY <1>1, <1>2, <1>5, <2>1
      <3>2. k > 0 /\ data[k - 1] \notin ParagraphEnd
        BY <1>4, <1>6, <3>1
      <3>3. data'[k - 1] = data[k - 1]
        BY <1>1, <1>2, <1>5, <2>1, <3>2
      <3>. QED
        BY <3>2, <3>3
    <2>2. CASE cursor_bytes - dec <= k
      <3>1. /\ data'[k] = data[k + dec]
            /\ k + dec \in cursor_bytes .. length_bytes - 1
            /\ k + dec \in 0 .. length_bytes - 1
        BY <1>1, <1>2, <1>5, <2>2
      <3>2. k + dec # cursor_bytes
        BY <1>1, <1>4, <1>6, <3>1
      <3>3. data[(k + dec) - 1] \notin ParagraphEnd
        BY <1>4, <1>6, <3>1
      <3>4. /\ k - 1 \in cursor_bytes - dec .. length_bytes - dec
            /\ (k - 1) + dec = (k + dec) - 1
            /\ k > 0
        BY <1>1, <1>2, <3>1, <3>2
      <3>5. data'[k - 1] = data[(k + dec) - 1]
        BY <1>5, <3>4
      <3>. QED
        BY <3>3, <3>4, <3>5
    <2>. QED
      BY <1>1, <1>2, <2>1, <2>2
  <1>7. cursor_bytes - dec = length_bytes - dec
          \/ data'[cursor_bytes - dec] \notin Continuation
    <2>1. data'[cursor_bytes - dec] = data[(cursor_bytes - dec) + dec]
      BY <1>1, <1>2, <1>5
    <2>2. (cursor_bytes - dec) + dec = cursor_bytes
      BY <1>1, <1>2
    <2>. QED
      BY <1>4, <2>1, <2>2
  <1>8. cursor_bytes - dec \in 0 .. length_bytes - dec
    BY <1>1, <1>2
  <1>9. /\ dec \in Nat
        /\ length_bytes' = length_bytes - dec
        /\ cursor_bytes' = cursor_bytes - dec
    BY <1>1, <1>2, <1>3
  <1>10. (cursor_bytes \in VerticalTargets)'
    BY <1>7, <1>8, <1>9 DEF VerticalTargets
  <1>11. \A k \in 0 .. length_bytes' - 1 :
           data'[k] \in Continuation => k > 0 /\ data'[k - 1] \notin ParagraphEnd
    <2>. SUFFICES ASSUME NEW k \in 0 .. length_bytes' - 1, data'[k] \in Continuation
                  PROVE  k > 0 /\ data'[k - 1] \notin ParagraphEnd
      OBVIOUS
    <2>1. k \in 0 .. length_bytes - dec - 1
      BY <1>1, <1>9
    <2>. QED
      BY <1>6, <2>1
  <1>. QED
    BY <1>10, <1>11, Zenon DEF CharacterInv

(* Every step of the buffer that View takes. *)
LEMMA CharacterNext ==
  ASSUME BufferInv, CharacterInv, [Next]_vars
  PROVE  CharacterInv'
  <1>1. CASE Reset
    BY <1>1 DEF Reset, CharacterInv, VerticalTargets
  <1>2. ASSUME NEW t \in Texts, Insert(t) PROVE CharacterInv'
    BY <1>2, CharacterInsert
  <1>3. ASSUME NEW t \in Texts, InsertOverruns(t) PROVE CharacterInv'
    BY <1>3 DEF InsertOverruns, bufferVars, CharacterInv, VerticalTargets
  <1>4. CASE Backspace
    BY <1>4, CharacterBackspace
  <1>5. CASE LeftArrow
    <2>. DEFINE dec == FindLengthOfGraphemeToLeft(Text, cursor_bytes)
    <2>1. cursor_bytes - dec = cursor_bytes \/ cursor_bytes - dec \in Boundaries(Text)
      BY TextOfBuffer, FindLengthInText
    <2>2. cursor_bytes - dec \in VerticalTargets
      <3>. HIDE DEF dec
      <3>. QED
        BY <2>1, BoundaryIsTarget DEF CharacterInv
    <2>. QED
      BY <1>5, <2>2 DEF LeftArrow, CharacterInv, VerticalTargets
  <1>6. CASE RightArrow
    <2>. DEFINE advance == NextCharacterBreak(Text, cursor_bytes)
    <2>1. cursor_bytes + advance \in Boundaries(Text)
      BY TextOfBuffer, NextBreakInText
    <2>2. cursor_bytes + advance \in VerticalTargets
      <3>. HIDE DEF advance
      <3>. QED
        BY <2>1, BoundaryIsTarget
    <2>. QED
      BY <1>6, <2>2 DEF RightArrow, CharacterInv, VerticalTargets
  <1>7. CASE MoveCursorVertically
    BY <1>7 DEF MoveCursorVertically, CharacterInv, VerticalTargets
  <1>8. CASE UNCHANGED vars
    BY <1>8 DEF vars, bufferVars, CharacterInv, VerticalTargets
  <1>. QED
    BY <1>1, <1>2, <1>3, <1>4, <1>5, <1>6, <1>7, <1>8 DEF Next, PromptNext, AnyInsert

-----------------------------------------------------------------------------
(* The inductive invariant.  While the lines stay as they are, the column  *)
(* is that of the place where the movement began, and the cursor is there  *)
(* or where its line has that column.                                      *)

ColumnInv ==
  /\ preferred_cursor_x \in Nat \cup {Invalid}
  /\ origin # Nothing =>
       /\ origin.line = LineOf(Lines, origin.index)
       /\ preferred_cursor_x = XOf(Text, Lines, origin.index)
       /\ \/ cursor_bytes = origin.index
          \/ cursor_bytes = XToIndex(Text, Lines, LineOf(Lines, cursor_bytes),
                                     preferred_cursor_x)

FrameInv ==
  /\ scroll_y \in [Outputs -> Nat]
  /\ FrameShowsCursor

ViewInv ==
  /\ BufferInv
  /\ CharacterInv
  /\ ColumnInv
  /\ FrameInv

LEMMA LinesOfBuffer ==
  ASSUME BufferInv, NEW w
  PROVE  /\ AreLines(Text, LineStarts(Text, w))
         /\ Cardinality(LineStarts(Text, w)) \in Nat
         /\ LineOf(LineStarts(Text, w), cursor_bytes) \in Nat
  <1>1. AreLines(Text, LineStarts(Text, w))
    BY TextOfBuffer, LineStartsAreLines
  <1>2. /\ LineStarts(Text, w) \subseteq 0 .. length_bytes
        /\ 0 \in LineStarts(Text, w)
    BY <1>1, TextOfBuffer, BoundariesInText DEF AreLines
  <1>. QED
    BY <1>1, <1>2, TextOfBuffer, LineOfProperties

LEMMA ViewInitInv == ViewInit => ViewInv
  <1>. SUFFICES ASSUME ViewInit PROVE ViewInv
    OBVIOUS
  <1>1. BufferInv
    BY InitInv DEF ViewInit
  <1>2. CharacterInv
    BY DEF ViewInit, Init, CharacterInv, VerticalTargets
  <1>3. ColumnInv
    BY DEF ViewInit, ColumnInv, Invalid
  <1>4. FrameInv
    BY DEF ViewInit, FrameInv, FrameShowsCursor
  <1>. QED
    BY <1>1, <1>2, <1>3, <1>4 DEF ViewInv

(* The column that a movement aims at, and where it goes. *)
LEMMA MovementLands ==
  ASSUME ViewInv, NEW direction \in {-1, 1}, MoveVertically(direction)
  PROVE  /\ MovementX \in Nat
         /\ \/ cursor_bytes' = cursor_bytes
            \/ /\ cursor_bytes' \in Boundaries(Text)
               /\ cursor_bytes' = XToIndex(Text, Lines, LineOf(Lines, cursor_bytes'),
                                           MovementX)
  <1>1. /\ Len(Text) \in Nat
        /\ AreLines(Text, Lines)
        /\ Cardinality(Lines) \in Nat
    BY TextOfBuffer, LinesOfBuffer DEF ViewInv, Lines
  <1>2. MovementX \in Nat
    BY <1>1, XOfIsColumn DEF MovementX, ViewInv, ColumnInv
  <1>. DEFINE target == LineOf(Lines, cursor_bytes) + direction
  <1>3. cursor_bytes' = IF target \in 0 .. Cardinality(Lines) - 1
                        THEN XToIndex(Text, Lines, target, MovementX)
                        ELSE cursor_bytes
    BY Zenon DEF MoveVertically
  <1>. HIDE DEF target
  <1>4. CASE target \in 0 .. Cardinality(Lines) - 1
    <2>1. cursor_bytes' = XToIndex(Text, Lines, target, MovementX)
      BY <1>3, <1>4
    <2>2. /\ XToIndex(Text, Lines, target, MovementX) \in Boundaries(Text)
          /\ LineOf(Lines, XToIndex(Text, Lines, target, MovementX)) = target
      BY <1>1, <1>2, <1>4, XToIndexOnLine
    <2>. QED
      BY <1>2, <2>1, <2>2
  <1>. QED
    BY <1>2, <1>3, <1>4

(* Each step of the view is one of the buffer, or leaves it alone. *)
LEMMA ViewStepIsBufferStep ==
  ASSUME ViewInv, [ViewNext]_viewVars
  PROVE  [Next]_vars
  <1>1. CASE EditKey
    BY <1>1 DEF EditKey, Edit, Next, PromptNext
  <1>2. CASE OtherKey
    BY <1>2 DEF OtherKey
  <1>3. ASSUME NEW direction \in {-1, 1}, MoveVertically(direction)
        PROVE  [Next]_vars
    <2>1. ~overrun /\ UNCHANGED <<data, length_bytes, overrun>>
      BY <1>3 DEF MoveVertically
    <2>2. CASE cursor_bytes' = cursor_bytes
      BY <2>1, <2>2 DEF vars, bufferVars
    <2>3. CASE cursor_bytes' \in Boundaries(Text)
      <3>1. cursor_bytes' \in VerticalTargets
        BY <2>3, BoundaryIsTarget DEF ViewInv
      <3>. QED
        BY <2>1, <3>1 DEF Next, MoveCursorVertically
    <2>. QED
      BY <1>3, <2>2, <2>3, MovementLands
  <1>4. ASSUME NEW n \in Outputs, NEW size \in Sizes, DrawDocument(n, size)
        PROVE  [Next]_vars
    BY <1>4 DEF DrawDocument
  <1>5. ASSUME NEW size \in Sizes, DrawOther(size)
        PROVE  [Next]_vars
    BY <1>5 DEF DrawOther
  <1>6. CASE UNCHANGED viewVars
    BY <1>6 DEF viewVars, vars
  <1>. QED
    BY <1>1, <1>2, <1>3, <1>4, <1>5, <1>6 DEF ViewNext

(* A frame that leaves the width alone leaves the lines alone. *)
LEMMA FrameKeepsColumn ==
  ASSUME ColumnInv, UNCHANGED vars, NEW columns, BeginFrame(columns)
  PROVE  ColumnInv'
  <1>1. preferred_cursor_x' = preferred_cursor_x
    BY DEF BeginFrame
  <1>2. UNCHANGED <<data, length_bytes, cursor_bytes>>
    BY DEF vars, bufferVars
  <1>3. CASE layout' = layout
    <2>1. origin' = origin
      BY <1>3 DEF BeginFrame
    <2>2. Text' = Text
      BY <1>2 DEF Text
    <2>3. Lines' = Lines
      BY <1>3, <2>2 DEF Lines
    <2>. QED
      BY <1>1, <1>2, <2>1, <2>2, <2>3 DEF ColumnInv
  <1>4. CASE layout' # layout
    <2>1. origin' = Nothing
      BY <1>4 DEF BeginFrame
    <2>. QED
      BY <1>1, <2>1 DEF ColumnInv, Nothing
  <1>. QED
    BY <1>3, <1>4

LEMMA ColumnNext ==
  ASSUME ViewInv, [ViewNext]_viewVars
  PROVE  ColumnInv'
  <1>1. ASSUME EndVerticalMovement PROVE ColumnInv'
    BY <1>1 DEF EndVerticalMovement, ColumnInv, Nothing, Invalid
  <1>2. CASE EditKey \/ OtherKey
    BY <1>1, <1>2 DEF EditKey, OtherKey
  <1>3. ASSUME NEW direction \in {-1, 1}, MoveVertically(direction)
        PROVE  ColumnInv'
    <2>1. /\ UNCHANGED <<data, length_bytes, layout>>
          /\ preferred_cursor_x' = MovementX
          /\ origin' = IF preferred_cursor_x = Invalid
                       THEN [index |-> cursor_bytes,
                             line  |-> LineOf(Lines, cursor_bytes)]
                       ELSE origin
      BY <1>3, Zenon DEF MoveVertically
    <2>2. Text' = Text
      BY <2>1 DEF Text
    <2>3. Lines' = Lines
      BY <2>1, <2>2 DEF Lines
    <2>4. /\ MovementX \in Nat
          /\ \/ cursor_bytes' = cursor_bytes
             \/ cursor_bytes' = XToIndex(Text, Lines, LineOf(Lines, cursor_bytes'),
                                         MovementX)
      BY <1>3, MovementLands
    <2>5. CASE preferred_cursor_x = Invalid
      <3>1. MovementX = XOf(Text, Lines, cursor_bytes)
        BY <2>5 DEF MovementX
      <3>2. origin'.index = cursor_bytes /\ origin'.line = LineOf(Lines, cursor_bytes)
        BY <2>1, <2>5
      <3>. QED
        BY <2>1, <2>2, <2>3, <2>4, <3>1, <3>2, Zenon DEF ColumnInv
    <2>6. CASE preferred_cursor_x # Invalid
      <3>1. MovementX = preferred_cursor_x
        BY <2>6 DEF MovementX
      <3>2. origin' = origin
        BY <2>1, <2>6
      <3>3. ColumnInv
        BY DEF ViewInv
      <3>. QED
        BY <2>1, <2>2, <2>3, <2>4, <3>1, <3>2, <3>3, Zenon DEF ColumnInv
    <2>. QED
      BY <2>5, <2>6
  <1>4. ASSUME NEW n \in Outputs, NEW size \in Sizes, DrawDocument(n, size)
        PROVE  ColumnInv'
    BY <1>4, FrameKeepsColumn DEF DrawDocument, ViewInv
  <1>5. ASSUME NEW size \in Sizes, DrawOther(size)
        PROVE  ColumnInv'
    BY <1>5, FrameKeepsColumn DEF DrawOther, ViewInv
  <1>6. CASE UNCHANGED viewVars
    BY <1>6 DEF viewVars, bufferVars, rendererVars, ViewInv, ColumnInv, Lines, Text
  <1>. QED
    BY <1>2, <1>3, <1>4, <1>5, <1>6 DEF ViewNext

(* Where calculate_scroll_y puts the view. *)
LEMMA ScrollShowsLine ==
  ASSUME NEW scroll \in Nat, NEW top \in Nat, NEW height \in Int
  PROVE  LET new == CalculateScroll(scroll, top, height)
         IN  /\ new \in Nat
             /\ new <= top
             /\ LineHeight <= height => top + LineHeight <= new + height
  BY ViewAssumption DEF CalculateScroll

LEMMA FrameNext ==
  ASSUME ViewInv, [ViewNext]_viewVars
  PROVE  FrameInv'
  <1>1. scroll_y \in [Outputs -> Nat]
    BY DEF ViewInv, FrameInv
  <1>2. CASE shown' = Nothing /\ UNCHANGED scroll_y
    BY <1>1, <1>2 DEF FrameInv, FrameShowsCursor
  <1>3. ASSUME NEW n \in Outputs, NEW size \in Sizes, DrawDocument(n, size)
        PROVE  FrameInv'
    <2>. DEFINE top == LineHeight * LineOf(Lines', cursor_bytes)
                new == CalculateScroll(scroll_y[n], top, size.height)
    <2>1. UNCHANGED <<data, length_bytes, cursor_bytes>>
      BY <1>3 DEF DrawDocument, vars, bufferVars
    <2>2. Lines' = LineStarts(Text, layout')
      BY <2>1 DEF Lines, Text
    <2>3. LineOf(Lines', cursor_bytes) \in Nat
      BY <2>2, LinesOfBuffer DEF ViewInv
    <2>4. top \in Nat
      BY <2>3, ViewAssumption
    <2>5. scroll_y[n] \in Nat /\ size.height \in Int
      BY <1>1, ViewAssumption
    <2>6. scroll_y' = [scroll_y EXCEPT ![n] = new]
          /\ shown' = [output |-> n, height |-> size.height]
      BY <1>3 DEF DrawDocument
    <2>7. top = (LineHeight * LineOf(Lines, cursor_bytes))'
      BY <2>1
    <2>. HIDE DEF top
    <2>8. /\ new \in Nat
          /\ new <= top
          /\ LineHeight <= size.height => top + LineHeight <= new + size.height
      BY <2>4, <2>5, ScrollShowsLine
    <2>. HIDE DEF new
    <2>9. scroll_y'[n] = new /\ shown'.output = n /\ shown'.height = size.height
      BY <1>1, <2>6
    <2>10. scroll_y' \in [Outputs -> Nat]
      BY <1>1, <2>6, <2>8
    <2>11. 0 <= new
      BY <2>8
    <2>. QED
      BY <2>7, <2>8, <2>9, <2>10, <2>11 DEF FrameInv, FrameShowsCursor
  <1>4. CASE UNCHANGED viewVars
    BY <1>4 DEF viewVars, bufferVars, rendererVars, ViewInv, FrameInv,
      FrameShowsCursor, Lines, Text
  <1>. QED
    BY <1>2, <1>3, <1>4
    DEF ViewNext, EditKey, OtherKey, MoveVertically, DrawOther

LEMMA ViewNextInv == ViewInv /\ [ViewNext]_viewVars => ViewInv'
  <1>. SUFFICES ASSUME ViewInv, [ViewNext]_viewVars PROVE ViewInv'
    OBVIOUS
  <1>1. BufferInv' /\ CharacterInv'
    BY ViewStepIsBufferStep, NextInv, CharacterNext DEF ViewInv
  <1>. QED
    BY <1>1, ColumnNext, FrameNext DEF ViewInv

LEMMA ViewInvAlways == ViewSpec => []ViewInv
  BY ViewInitInv, ViewNextInv, PTL DEF ViewSpec

-----------------------------------------------------------------------------
(* However often the cursor goes up and down, in lines of any length, it   *)
(* is back where it was when it is back on its line                        *)
(* (pangocairo_adapter.c:133-151).                                         *)
THEOREM ColumnStaysKept == ViewSpec => []ColumnIsKept
  <1>1. ViewInv => ColumnIsKept
    <2>. SUFFICES ASSUME ViewInv, origin # Nothing,
                         origin.index \in Boundaries(Text),
                         LineOf(Lines, cursor_bytes) = origin.line
                  PROVE  cursor_bytes = origin.index
      BY DEF ColumnIsKept
    <2>1. XToIndex(Text, Lines, LineOf(Lines, origin.index),
                   XOf(Text, Lines, origin.index)) = origin.index
      <3>1. Len(Text) \in Nat /\ WholeCharacters(Text) /\ AreLines(Text, Lines)
        BY TextOfBuffer, TextIsWhole, LinesOfBuffer DEF ViewInv, Lines
      <3>. QED
        BY <3>1, XToIndexReturns
    <2>. QED
      BY <2>1, Zenon DEF ViewInv, ColumnInv
  <1>. QED
    BY <1>1, ViewInvAlways, PTL

(* Every frame of the document shows the cursor, on outputs of any size    *)
(* (render.c:119-138).                                                     *)
THEOREM FramesShowCursor == ViewSpec => []FrameShowsCursor
  <1>1. ViewInv => FrameShowsCursor
    BY DEF ViewInv, FrameInv
  <1>. QED
    BY <1>1, ViewInvAlways, PTL

(* With the renderer that moves its cursor, the buffer is still a buffer:  *)
(* no movement puts the cursor into a character or behind the text         *)
(* (pangocairo_adapter.c:151-158).                                         *)
THEOREM ViewImplementsTextBuffer == ViewSpec => ImplementsTextBuffer
  <1>1. ViewInit => Init
    BY DEF ViewInit
  <1>2. ViewInv /\ [ViewNext]_viewVars => [Next]_vars
    BY ViewStepIsBufferStep
  <1>. QED
    BY <1>1, <1>2, ViewInvAlways, PTL DEF ViewSpec, Spec, ImplementsTextBuffer

(* So all that is proved of the array holds with the renderer as well: its *)
(* text is the one an editor has, with the same words, and the assertions  *)
(* of text_buffer.c hold.                                                  *)
THEOREM ViewKeepsText ==
  ViewSpec => /\ ImplementsTextEditor
              /\ [](CursorInText /\ CStringIsText /\ WordCountIsCorrect)
  BY ViewImplementsTextBuffer, BufferImplementsTextEditor, CursorStaysInText,
     CStringStaysText, WordCountStaysCorrect, PTL DEF ImplementsTextBuffer

(* No key press leaves the cursor inside a character, or half a character  *)
(* in the text (text_buffer.c:94-160).                                     *)
THEOREM CursorBetweenCharacters ==
  ViewSpec => [](cursor_bytes \in VerticalTargets /\ WholeCharacters(Text))
  <1>1. ViewInv => cursor_bytes \in VerticalTargets /\ WholeCharacters(Text)
    BY TextIsWhole DEF ViewInv, CharacterInv
  <1>. QED
    BY <1>1, ViewInvAlways, PTL
=============================================================================
