----------------------------- MODULE ConfigProofs -----------------------------
(***************************************************************************)
(* Theorems about Config: for files of any length over any characters, and *)
(* for any sizes of the two buffers, what is copied to save_dir fits, the  *)
(* file that is loaded is read as it is written, and only an invalid file  *)
(* is rejected.                                                            *)
(***************************************************************************)
EXTENDS Config, SequenceTheorems, WellFoundedInduction, TLAPS

(* A set of natural numbers has a least element, which Min chooses.        *)
LEMMA MinIsLeast ==
  ASSUME NEW T, T \subseteq Nat, T # {}
  PROVE  Min(T) \in T /\ \A y \in T : Min(T) <= y
<1>. DEFINE R == { ss \in Nat \X Nat : ss[1] < ss[2] }
<1>1. IsWellFoundedOn(R, Nat)
  BY NatLessThanWellFounded, Zenon DEF OpToRel
<1>2. PICK x \in T : \A y \in T : <<y, x>> \notin R
  <2>. HIDE DEF R
  <2>. QED BY <1>1, WFMin, Zenon
<1>3. \A y \in T : ~ (y < x)
  BY <1>2
<1>4. \A y \in T : x <= y
  BY <1>3
<1>. QED BY <1>4, Zenon DEF Min

LEMMA MinIs ==
  ASSUME NEW T, T \subseteq Nat, NEW x \in T, \A y \in T : x <= y
  PROVE  Min(T) = x
<1>1. Min(T) \in T /\ \A y \in T : Min(T) <= y
  BY MinIsLeast
<1>. DEFINE m == Min(T)
<1>. HIDE DEF m
<1>2. m \in T /\ m <= x /\ x <= m
  BY <1>1 DEF m
<1>3. m = x
  BY <1>2
<1>. QED BY <1>3 DEF m

(* The last position in a sequence with some property.                     *)
LEMMA MaxIsGreatest ==
  ASSUME NEW n \in Nat, NEW T, T \subseteq 1 .. n, T # {}
  PROVE  Max(T) \in T /\ \A y \in T : y <= Max(T)
<1>. DEFINE D == { n - i : i \in T }
<1>1. D \subseteq Nat /\ D # {}
  <2>1. PICK t \in T : TRUE
    OBVIOUS
  <2>2. n - t \in D
    BY <2>1
  <2>3. \A i \in T : n - i \in Nat
    OBVIOUS
  <2>. QED BY <2>2, <2>3
<1>2. Min(D) \in D /\ \A d \in D : Min(D) <= d
  <2>. HIDE DEF D
  <2>. QED BY <1>1, MinIsLeast
<1>3. PICK x \in T : Min(D) = n - x
  BY <1>2
<1>4. \A y \in T : x >= y
  <2>. SUFFICES ASSUME NEW y \in T PROVE x >= y
    OBVIOUS
  <2>1. n - x <= n - y
    BY <1>2, <1>3
  <2>. QED BY <2>1
<1>5. Max(T) \in T /\ \A y \in T : Max(T) >= y
  BY <1>4, Zenon DEF Max
<1>. QED BY <1>5

(* A part of a text is a text. *)
LEMMA PartOfText ==
  ASSUME NEW s \in Seq(Characters), NEW i \in Nat \ {0}, NEW j \in Int, j <= Len(s)
  PROVE  SubSeq(s, i, j) \in Seq(Characters)
<1>1. \A k \in i .. j : s[k] \in Characters
  BY LenProperties
<1>. QED BY <1>1, SubSeqProperties

-----------------------------------------------------------------------------
(* The helpers of the parser.                                              *)

LEMMA TrimmedIsText ==
  ASSUME NEW s \in Seq(Characters)
  PROVE  TrimWhitespace(s) \in Seq(Characters)
<1>. DEFINE T == { i \in DOMAIN s : ~ Blank(s[i]) }
<1>1. T \subseteq 1 .. Len(s)
  BY LenProperties
<1>2. CASE T = {}
  BY <1>2 DEF TrimWhitespace
<1>3. CASE T # {}
  <2>. HIDE DEF T
  <2>1. Min(T) \in 1 .. Len(s)
    <3>1. T \subseteq Nat
      BY <1>1, LenProperties
    <3>. QED BY <1>1, <1>3, <3>1, MinIsLeast
  <2>2. Max(T) \in 1 .. Len(s)
    BY <1>1, <1>3, MaxIsGreatest, LenProperties
  <2>3. SubSeq(s, Min(T), Max(T)) \in Seq(Characters)
    BY <2>1, <2>2, PartOfText, LenProperties
  <2>. QED BY <1>3, <2>3, Zenon DEF TrimWhitespace, T
<1>. QED BY <1>2, <1>3

LEMMA UnquotedIsText ==
  ASSUME NEW v \in Seq(Characters)
  PROVE  Unquoted(v) \in Seq(Characters)
<1>1. SubSeq(v, 2, Len(v) - 1) \in Seq(Characters)
  BY PartOfText, LenProperties
<1>. QED BY <1>1 DEF Unquoted

(* A value that is written fits in save_dir with its NUL.                  *)
LEMMA ValueFits ==
  ASSUME NEW line \in Seq(Characters), LineResult(line).ok, IsSetting(LineResult(line).left)
  PROVE  /\ LineResult(line).value \in Seq(Characters)
         /\ Len(LineResult(line).value) < MaxFilePathLen
<1>. DEFINE text   == TrimWhitespace(line)
            equals == { i \in DOMAIN text : text[i] = "=" }
            key    == TrimWhitespace(SubSeq(text, 1, Min(equals) - 1))
            value  == Unquoted(TrimWhitespace(SubSeq(text, Min(equals) + 1, Len(text))))
            silent == text = << >> \/ StartsWith(text, "#")
            sets   == equals # {} /\ key = <<Key>> /\ FitsInValue(value)
<1>1. LineResult(line) =
        IF silent THEN [ok |-> TRUE, value |-> Unset, left |-> line]
        ELSE IF sets THEN [ok |-> TRUE, value |-> value, left |-> UpToEquals(line)]
        ELSE [ok |-> FALSE, value |-> Unset, left |-> line]
  BY Zenon DEF LineResult
<1>2. ~ silent
  <2>. SUFFICES ASSUME silent PROVE FALSE
    OBVIOUS
  <2>. HIDE DEF equals, key, value, sets
  <2>1. LineResult(line).left = line
    <3>. HIDE DEF silent
    <3>. QED BY <1>1
  <2>. QED BY <2>1 DEF IsSetting
<1>3. sets
  <2>. HIDE DEF silent, sets, value
  <2>. QED BY <1>1, <1>2
<1>4. LineResult(line).value = value
  <2>. HIDE DEF silent, sets, value
  <2>. QED BY <1>1, <1>2, <1>3
<1>5. text \in Seq(Characters)
  BY TrimmedIsText
<1>6. Min(equals) \in Nat
  <2>1. equals \subseteq Nat
    BY <1>5, LenProperties
  <2>. HIDE DEF equals
  <2>. QED BY <1>3, <2>1, MinIsLeast DEF sets
<1>7. SubSeq(text, Min(equals) + 1, Len(text)) \in Seq(Characters)
  <2>. HIDE DEF text, equals
  <2>. QED BY <1>5, <1>6, PartOfText, LenProperties
<1>8. value \in Seq(Characters)
  <2>. HIDE DEF text, equals
  <2>. QED BY <1>7, TrimmedIsText, UnquotedIsText
<1>. HIDE DEF value
<1>. QED BY <1>3, <1>4, <1>8 DEF FitsInValue

LEMMA LineIsText ==
  ASSUME NEW s \in Seq(Characters)
  PROVE  Fgets(s) \in Seq(Characters) /\ SubSeq(s, Len(Fgets(s)) + 1, Len(s)) \in Seq(Characters)
<1>. DEFINE Ends == {Len(s), SizeofBuffer - 1} \cup Newlines(s)
<1>1. Ends \subseteq Nat /\ Len(s) \in Ends
  BY ConfigAssumption, LenProperties DEF Newlines
<1>2. Min(Ends) \in Nat /\ Min(Ends) <= Len(s)
  <2>. HIDE DEF Ends
  <2>. QED BY <1>1, MinIsLeast
<1>3. Fgets(s) = SubSeq(s, 1, Min(Ends))
  BY DEF Fgets
<1>. HIDE DEF Ends
<1>4. Fgets(s) \in Seq(Characters)
  BY <1>2, <1>3, PartOfText
<1>. QED BY <1>4, PartOfText, LenProperties

-----------------------------------------------------------------------------
(* Parts of a line: the same parts in the terms of the whole line.         *)

LEMMA Part ==
  ASSUME NEW s \in Seq(Characters), NEW x \in Nat \ {0}, NEW y \in Nat,
         y <= Len(s), x <= y + 1
  PROVE  /\ SubSeq(s, x, y) \in Seq(Characters)
         /\ Len(SubSeq(s, x, y)) = y - x + 1
         /\ \A i \in 1 .. y - x + 1 : SubSeq(s, x, y)[i] = s[x + i - 1]
<1>1. \A k \in x .. y : s[k] \in Characters
  BY LenProperties
<1>. QED BY <1>1, SubSeqProperties

LEMMA PartOfPart ==
  ASSUME NEW s \in Seq(Characters), NEW x \in Nat \ {0}, NEW y \in Nat,
         y <= Len(s), x <= y + 1,
         NEW m \in Nat \ {0}, NEW n \in Nat, n <= y - x + 1, m <= n + 1
  PROVE  SubSeq(SubSeq(s, x, y), m, n) = SubSeq(s, x + m - 1, x + n - 1)
<1>. DEFINE t == SubSeq(s, x, y)
            u == SubSeq(t, m, n)
            v == SubSeq(s, x + m - 1, x + n - 1)
<1>1. /\ t \in Seq(Characters) /\ Len(t) = y - x + 1
      /\ \A i \in 1 .. y - x + 1 : t[i] = s[x + i - 1]
  BY Part
<1>2. /\ u \in Seq(Characters) /\ Len(u) = n - m + 1
      /\ \A i \in 1 .. n - m + 1 : u[i] = t[m + i - 1]
  <2>. HIDE DEF t
  <2>. QED BY <1>1, Part
<1>3. /\ v \in Seq(Characters) /\ Len(v) = n - m + 1
      /\ \A i \in 1 .. n - m + 1 : v[i] = s[(x + m - 1) + i - 1]
  <2>. DEFINE x2 == x + m - 1
              y2 == x + n - 1
  <2>1. /\ x2 \in Nat \ {0} /\ y2 \in Nat /\ y2 <= Len(s) /\ x2 <= y2 + 1
        /\ y2 - x2 + 1 = n - m + 1
    BY LenProperties
  <2>. HIDE DEF x2, y2
  <2>2. /\ SubSeq(s, x2, y2) \in Seq(Characters)
        /\ Len(SubSeq(s, x2, y2)) = n - m + 1
        /\ \A i \in 1 .. n - m + 1 : SubSeq(s, x2, y2)[i] = s[x2 + i - 1]
    BY <2>1, Part
  <2>. QED BY <2>2 DEF x2, y2
<1>4. \A i \in 1 .. n - m + 1 : u[i] = v[i]
  <2>. SUFFICES ASSUME NEW i \in 1 .. n - m + 1 PROVE u[i] = v[i]
    OBVIOUS
  <2>. HIDE DEF t, u, v
  <2>1. u[i] = t[m + i - 1] /\ v[i] = s[(x + m - 1) + i - 1]
    BY <1>2, <1>3
  <2>2. m + i - 1 \in 1 .. y - x + 1 /\ x + (m + i - 1) - 1 = (x + m - 1) + i - 1
    OBVIOUS
  <2>. QED BY <1>1, <2>1, <2>2
<1>. HIDE DEF t, u, v
<1>5. u = v
  BY <1>2, <1>3, <1>4, SeqEqual
<1>. QED BY <1>5 DEF t, u, v

(* What trim_whitespace leaves of a part of a line: nothing if the part is *)
(* blank, and otherwise what is between its first and last character that  *)
(* is not.                                                                 *)
TrimsTo(s, x, y, i, j) ==
  /\ i \in x .. y /\ j \in i .. y
  /\ ~ Blank(s[i]) /\ ~ Blank(s[j])
  /\ \A k \in x .. y : k < i \/ k > j => Blank(s[k])
  /\ TrimWhitespace(SubSeq(s, x, y)) = SubSeq(s, i, j)

LEMMA TrimPart ==
  ASSUME NEW s \in Seq(Characters), NEW x \in Nat \ {0}, NEW y \in Nat,
         y <= Len(s), x <= y + 1
  PROVE  \/ /\ \A k \in x .. y : Blank(s[k])
            /\ TrimWhitespace(SubSeq(s, x, y)) = << >>
         \/ \E i, j \in x .. y : TrimsTo(s, x, y, i, j)
<1>. DEFINE t == SubSeq(s, x, y)
            T == { i \in DOMAIN t : ~ Blank(t[i]) }
<1>1. /\ t \in Seq(Characters) /\ Len(t) = y - x + 1
      /\ \A i \in 1 .. y - x + 1 : t[i] = s[x + i - 1]
  BY Part
<1>2. T = { i \in 1 .. y - x + 1 : ~ Blank(s[x + i - 1]) }
  <2>1. DOMAIN t = 1 .. y - x + 1
    BY <1>1, LenProperties
  <2>. HIDE DEF t
  <2>. QED BY <1>1, <2>1 DEF Blank
<1>3. TrimWhitespace(t) = IF T = {} THEN << >> ELSE SubSeq(t, Min(T), Max(T))
  BY Zenon DEF TrimWhitespace
<1>. HIDE DEF t
<1>4. CASE T = {}
  <2>1. \A k \in x .. y : Blank(s[k])
    <3>. SUFFICES ASSUME NEW k \in x .. y PROVE Blank(s[k])
      OBVIOUS
    <3>1. k - x + 1 \in 1 .. y - x + 1 /\ x + (k - x + 1) - 1 = k
      OBVIOUS
    <3>. QED BY <1>2, <1>4, <3>1
  <2>. QED BY <1>3, <1>4, <2>1 DEF t
<1>5. CASE T # {}
  <2>0. T \subseteq 1 .. y - x + 1 /\ T \subseteq Nat /\ y - x + 1 \in Nat
    BY <1>2
  <2>. DEFINE m == Min(T)
              n == Max(T)
              i == x + m - 1
              j == x + n - 1
  <2>1. m \in T /\ \A k \in T : m <= k
    <3>. HIDE DEF T
    <3>. QED BY <1>5, <2>0, MinIsLeast
  <2>2. n \in T /\ \A k \in T : k <= n
    <3>. HIDE DEF T
    <3>. QED BY <1>5, <2>0, MaxIsGreatest
  <2>3. TrimWhitespace(t) = SubSeq(t, m, n)
    BY <1>3, <1>5
  <2>. HIDE DEF m, n
  <2>4. /\ m \in 1 .. y - x + 1 /\ n \in 1 .. y - x + 1 /\ m <= n
        /\ ~ Blank(s[x + m - 1]) /\ ~ Blank(s[x + n - 1])
    BY <1>2, <2>1, <2>2
  <2>5. SubSeq(t, m, n) = SubSeq(s, i, j)
    <3>1. /\ m \in Nat \ {0} /\ n \in Nat /\ n <= y - x + 1 /\ m <= n + 1
      BY <2>4
    <3>. QED BY <3>1, PartOfPart DEF t
  <2>6. ASSUME NEW k \in x .. y, k < i \/ k > j PROVE Blank(s[k])
    <3>1. k - x + 1 \in 1 .. y - x + 1 /\ x + (k - x + 1) - 1 = k
      OBVIOUS
    <3>2. k - x + 1 \notin T
      <4>1. k - x + 1 < m \/ k - x + 1 > n
        BY <2>4, <2>6
      <4>. HIDE DEF T
      <4>. QED BY <2>0, <2>1, <2>2, <4>1
    <3>. QED BY <1>2, <3>1, <3>2
  <2>7. i \in x .. y /\ j \in i .. y /\ j \in x .. y /\ ~ Blank(s[i]) /\ ~ Blank(s[j])
    BY <2>4
  <2>. HIDE DEF i, j, T
  <2>8. TrimsTo(s, x, y, i, j)
    BY <2>3, <2>5, <2>6, <2>7 DEF TrimsTo, t
  <2>. QED BY <2>7, <2>8
<1>. QED BY <1>4, <1>5

-----------------------------------------------------------------------------
(* The parser and what a line says.                                        *)

(* A line that anvi_config_load ignores when it looks at it again.         *)
Silent(line) ==
  TrimWhitespace(line) = << >> \/ StartsWith(TrimWhitespace(line), "#")

LEMMA TrimLine ==
  ASSUME NEW line \in Seq(Characters)
  PROVE  \/ /\ \A k \in 1 .. Len(line) : Blank(line[k])
            /\ TrimWhitespace(line) = << >>
         \/ \E a, b \in 1 .. Len(line) :
              /\ TrimsTo(line, 1, Len(line), a, b)
              /\ TrimWhitespace(line) = SubSeq(line, a, b)
<1>1. SubSeq(line, 1, Len(line)) = line /\ Len(line) \in Nat
  BY SubSeqFull, LenProperties
<1>2. \/ /\ \A k \in 1 .. Len(line) : Blank(line[k])
         /\ TrimWhitespace(SubSeq(line, 1, Len(line))) = << >>
      \/ \E a, b \in 1 .. Len(line) : TrimsTo(line, 1, Len(line), a, b)
  BY <1>1, TrimPart
<1>. QED BY <1>1, <1>2, Zenon DEF TrimsTo

(* A text that is trimmed to a part that is there starts as that part.     *)
LEMMA StartOfPart ==
  ASSUME NEW s \in Seq(Characters), NEW i \in 1 .. Len(s), NEW j \in i .. Len(s), NEW c
  PROVE  /\ SubSeq(s, i, j) # << >>
         /\ StartsWith(SubSeq(s, i, j), c) <=> s[i] = c
         /\ EndsWith(SubSeq(s, i, j), c) <=> s[j] = c
<1>1. Len(s) \in Nat
  BY LenProperties
<1>2. /\ Len(SubSeq(s, i, j)) = j - i + 1
      /\ \A k \in 1 .. j - i + 1 : SubSeq(s, i, j)[k] = s[i + k - 1]
  BY <1>1, Part
<1>3. SubSeq(s, i, j)[1] = s[i] /\ SubSeq(s, i, j)[j - i + 1] = s[j]
  <2>1. /\ 1 \in 1 .. j - i + 1 /\ j - i + 1 \in 1 .. j - i + 1
        /\ i + 1 - 1 = i /\ i + (j - i + 1) - 1 = j
    BY <1>1
  <2>. QED BY <1>2, <2>1
<1>4. SubSeq(s, i, j) # << >>
  BY <1>1, <1>2
<1>. QED BY <1>2, <1>3, <1>4 DEF StartsWith, EndsWith

(* The lines that are ignored are those that set nothing.                  *)
LEMMA SilentSetsNothing ==
  ASSUME NEW line \in Seq(Characters)
  PROVE  Silent(line) <=> SetsNothing(line)
<1>0. Len(line) \in Nat /\ DOMAIN line = 1 .. Len(line)
  BY LenProperties
<1>1. CASE /\ \A k \in 1 .. Len(line) : Blank(line[k])
           /\ TrimWhitespace(line) = << >>
  <2>1. BlankBetween(line, 1, Len(line))
    BY <1>0, <1>1 DEF BlankBetween
  <2>. QED BY <1>1, <2>1 DEF Silent, SetsNothing
<1>2. ASSUME NEW a \in 1 .. Len(line), NEW b \in 1 .. Len(line),
             TrimsTo(line, 1, Len(line), a, b),
             TrimWhitespace(line) = SubSeq(line, a, b)
      PROVE  Silent(line) <=> SetsNothing(line)
  <2>1. /\ b \in a .. Len(line) /\ ~ Blank(line[a])
        /\ \A k \in 1 .. Len(line) : k < a => Blank(line[k])
    BY <1>2 DEF TrimsTo
  <2>2. Silent(line) <=> line[a] = "#"
    BY <1>2, <2>1, StartOfPart DEF Silent
  <2>3. SetsNothing(line) => line[a] = "#"
    <3>1. ~ BlankBetween(line, 1, Len(line))
      BY <1>0, <2>1 DEF BlankBetween
    <3>2. ASSUME NEW k \in DOMAIN line, line[k] = "#", BlankBetween(line, 1, k - 1)
          PROVE  k = a
      <4>0. k \in 1 .. Len(line) /\ ~ Blank(line[k])
        BY <1>0, <3>2 DEF Blank, Space, Newline
      <4>1. ~ (k < a)
        BY <2>1, <4>0
      <4>2. ~ (a < k)
        <5>1. a < k => a \in 1 .. k - 1
          BY <1>0
        <5>2. a \in 1 .. k - 1 => Blank(line[a])
          BY <1>0, <3>2 DEF BlankBetween
        <5>. QED BY <2>1, <5>1, <5>2
      <4>. QED BY <4>0, <4>1, <4>2
    <3>. QED BY <3>1, <3>2 DEF SetsNothing
  <2>4. line[a] = "#" => SetsNothing(line)
    <3>1. BlankBetween(line, 1, a - 1)
      BY <1>0, <2>1 DEF BlankBetween
    <3>. QED BY <1>0, <3>1 DEF SetsNothing
  <2>. QED BY <2>2, <2>3, <2>4
<1>. QED BY <1>1, <1>2, TrimLine

(* The first `=' of a line, in the line and in what is left of it when its *)
(* ends are trimmed.                                                       *)
SplitAt(line, a, b, e) ==
  /\ TrimsTo(line, 1, Len(line), a, b)
  /\ TrimWhitespace(line) = SubSeq(line, a, b)
  /\ e \in a .. b
  /\ line[e] = "="
  /\ \A k \in 1 .. Len(line) : line[k] = "=" => e <= k

Equals(text) == { i \in DOMAIN text : text[i] = "=" }

LEMMA SplitsAt ==
  ASSUME NEW line \in Seq(Characters), NEW a \in 1 .. Len(line), NEW b \in 1 .. Len(line),
         NEW e, SplitAt(line, a, b, e)
  PROVE  LET text == TrimWhitespace(line)
         IN  /\ Equals(text) # {}
             /\ SubSeq(text, 1, Min(Equals(text)) - 1) = SubSeq(line, a, e - 1)
             /\ SubSeq(text, Min(Equals(text)) + 1, Len(text)) = SubSeq(line, e + 1, b)
             /\ UpToEquals(line) = SubSeq(line, 1, e - 1)
<1>. DEFINE text   == TrimWhitespace(line)
            equals == { i \in DOMAIN text : text[i] = "=" }
            all    == { i \in DOMAIN line : line[i] = "=" }
<1>0. /\ Len(line) \in Nat /\ DOMAIN line = 1 .. Len(line)
      /\ b \in a .. Len(line) /\ e \in a .. b
      /\ text = SubSeq(line, a, b)
      /\ line[e] = "=" /\ \A k \in 1 .. Len(line) : line[k] = "=" => e <= k
  BY LenProperties DEF SplitAt, TrimsTo
<1>1. /\ text \in Seq(Characters) /\ Len(text) = b - a + 1
      /\ \A i \in 1 .. b - a + 1 : text[i] = line[a + i - 1]
  BY <1>0, Part
<1>2. equals = { i \in 1 .. b - a + 1 : line[a + i - 1] = "=" }
  BY <1>1, LenProperties
<1>3. e - a + 1 \in equals /\ \A i \in equals : e - a + 1 <= i
  <2>1. e - a + 1 \in 1 .. b - a + 1 /\ a + (e - a + 1) - 1 = e
    BY <1>0
  <2>2. ASSUME NEW i \in equals PROVE e - a + 1 <= i
    <3>1. i \in 1 .. b - a + 1 /\ a + i - 1 \in 1 .. Len(line) /\ line[a + i - 1] = "="
      BY <1>0, <1>2
    <3>. QED BY <1>0, <3>1
  <2>. QED BY <1>0, <1>2, <2>1, <2>2
<1>4. Min(equals) = e - a + 1
  <2>1. equals \subseteq Nat
    BY <1>2
  <2>. HIDE DEF equals
  <2>. QED BY <1>3, <2>1, MinIs
<1>5. Min(all) = e
  <2>1. all \subseteq Nat /\ e \in all /\ \A i \in all : e <= i
    BY <1>0
  <2>. HIDE DEF all
  <2>. QED BY <2>1, MinIs
<1>6. UpToEquals(line) = SubSeq(line, 1, e - 1)
  BY <1>5, Zenon DEF UpToEquals
<1>. HIDE DEF equals, all
<1>7. SubSeq(text, 1, Min(equals) - 1) = SubSeq(line, a, e - 1)
  <2>1. /\ e - a \in Nat /\ e - a <= b - a + 1 /\ a + 1 - 1 = a
        /\ a + (e - a) - 1 = e - 1 /\ (e - a + 1) - 1 = e - a
    BY <1>0
  <2>2. SubSeq(SubSeq(line, a, b), 1, e - a) = SubSeq(line, a + 1 - 1, a + (e - a) - 1)
    BY <1>0, <2>1, PartOfPart
  <2>. QED BY <1>0, <1>4, <2>1, <2>2
<1>8. SubSeq(text, Min(equals) + 1, Len(text)) = SubSeq(line, e + 1, b)
  <2>. DEFINE m == e - a + 2
              n == b - a + 1
  <2>1. /\ m \in Nat \ {0} /\ n \in Nat /\ n <= b - a + 1 /\ m <= n + 1
        /\ a + m - 1 = e + 1 /\ a + n - 1 = b /\ (e - a + 1) + 1 = m
    BY <1>0
  <2>. HIDE DEF m
  <2>2. SubSeq(SubSeq(line, a, b), m, n) = SubSeq(line, a + m - 1, a + n - 1)
    BY <1>0, <2>1, PartOfPart
  <2>. QED BY <1>0, <1>1, <1>4, <2>1, <2>2
<1>. QED BY <1>3, <1>4, <1>6, <1>7, <1>8 DEF equals, Equals

LEMMA FirstEquals ==
  ASSUME NEW line \in Seq(Characters), NEW a \in 1 .. Len(line), NEW b \in 1 .. Len(line),
         TrimsTo(line, 1, Len(line), a, b),
         TrimWhitespace(line) = SubSeq(line, a, b),
         NEW c \in 1 .. Len(line), line[c] = "="
  PROVE  \E e \in 1 .. Len(line) : SplitAt(line, a, b, e)
<1>. DEFINE all == { k \in 1 .. Len(line) : line[k] = "=" }
<1>1. all \subseteq Nat /\ all # {}
  OBVIOUS
<1>2. PICK e \in all : \A k \in all : e <= k
  <2>. HIDE DEF all
  <2>. QED BY <1>1, MinIsLeast
<1>3. e \in 1 .. Len(line) /\ line[e] = "=" /\ \A k \in 1 .. Len(line) : line[k] = "=" => e <= k
  BY <1>2
<1>4. e \in a .. b
  <2>1. ~ Blank(line[e])
    BY <1>3 DEF Blank, Space, Newline
  <2>2. ~ (e < a \/ e > b)
    BY <1>3, <2>1 DEF TrimsTo
  <2>. QED BY <1>3, <2>2
<1>. QED BY <1>3, <1>4 DEF SplitAt

(* What get_config_line_result makes of a line with an `=', in the terms   *)
(* of the whole line.                                                      *)
LEMMA ResultOfSplit ==
  ASSUME NEW line \in Seq(Characters), NEW a \in 1 .. Len(line), NEW b \in 1 .. Len(line),
         NEW e, SplitAt(line, a, b, e), ~ Silent(line)
  PROVE  LET key   == TrimWhitespace(SubSeq(line, a, e - 1))
             value == Unquoted(TrimWhitespace(SubSeq(line, e + 1, b)))
         IN  LineResult(line) =
               IF key = <<Key>> /\ FitsInValue(value)
               THEN [ok |-> TRUE, value |-> value, left |-> SubSeq(line, 1, e - 1)]
               ELSE [ok |-> FALSE, value |-> Unset, left |-> line]
<1>. DEFINE text   == TrimWhitespace(line)
            equals == Equals(text)
<1>1. /\ equals # {}
      /\ SubSeq(text, 1, Min(equals) - 1) = SubSeq(line, a, e - 1)
      /\ SubSeq(text, Min(equals) + 1, Len(text)) = SubSeq(line, e + 1, b)
      /\ UpToEquals(line) = SubSeq(line, 1, e - 1)
  BY SplitsAt
<1>2. ~ (text = << >> \/ StartsWith(text, "#"))
  BY DEF Silent
<1>3. LineResult(line) =
        IF equals # {} /\ TrimWhitespace(SubSeq(text, 1, Min(equals) - 1)) = <<Key>>
           /\ FitsInValue(Unquoted(TrimWhitespace(SubSeq(text, Min(equals) + 1, Len(text)))))
        THEN [ok |-> TRUE,
              value |-> Unquoted(TrimWhitespace(SubSeq(text, Min(equals) + 1, Len(text)))),
              left |-> UpToEquals(line)]
        ELSE [ok |-> FALSE, value |-> Unset, left |-> line]
  BY <1>2, Zenon DEF LineResult, Equals
<1>. HIDE DEF equals, text
<1>. QED BY <1>1, <1>3

(* A line that is ok sets nothing, or there is an `=' in it.               *)
LEMMA OkHasEquals ==
  ASSUME NEW line \in Seq(Characters), ~ Silent(line), LineResult(line).ok
  PROVE  \E c \in 1 .. Len(line) : line[c] = "="
<1>. DEFINE text   == TrimWhitespace(line)
            equals == { i \in DOMAIN text : text[i] = "=" }
<1>0. Len(line) \in Nat
  BY LenProperties
<1>1. ~ (text = << >> \/ StartsWith(text, "#"))
  BY DEF Silent
<1>2. equals # {}
  <2>. SUFFICES ASSUME equals = {} PROVE FALSE
    OBVIOUS
  <2>1. LineResult(line) = [ok |-> FALSE, value |-> Unset, left |-> line]
    BY <1>1, Zenon DEF LineResult
  <2>. QED BY <2>1
<1>3. PICK a \in 1 .. Len(line), b \in 1 .. Len(line) :
        TrimsTo(line, 1, Len(line), a, b) /\ text = SubSeq(line, a, b)
  <2>1. text # << >>
    BY <1>1
  <2>. QED BY <2>1, TrimLine
<1>4. b \in a .. Len(line)
  BY <1>3 DEF TrimsTo
<1>5. /\ text \in Seq(Characters) /\ Len(text) = b - a + 1
      /\ \A i \in 1 .. b - a + 1 : text[i] = line[a + i - 1]
  BY <1>0, <1>3, <1>4, Part
<1>6. PICK i \in 1 .. b - a + 1 : text[i] = "="
  BY <1>2, <1>5, LenProperties
<1>7. a + i - 1 \in 1 .. Len(line) /\ line[a + i - 1] = "="
  <2>1. a + i - 1 \in 1 .. Len(line)
    BY <1>0, <1>4, <1>6
  <2>. QED BY <1>5, <1>6, <2>1
<1>. QED BY <1>7

(* Taking away the quotes of a part of a line.                             *)
LEMMA UnquotedPart ==
  ASSUME NEW s \in Seq(Characters), NEW i \in 1 .. Len(s), NEW j \in i .. Len(s)
  PROVE  Unquoted(SubSeq(s, i, j)) =
           IF i < j /\ s[i] = Quote /\ s[j] = Quote THEN SubSeq(s, i + 1, j - 1)
           ELSE IF s[i] = Quote \/ s[j] = Quote THEN << >> ELSE SubSeq(s, i, j)
<1>. DEFINE v == SubSeq(s, i, j)
<1>0. Len(s) \in Nat
  BY LenProperties
<1>1. Len(v) = j - i + 1
  BY <1>0, Part
<1>2. (StartsWith(v, Quote) <=> s[i] = Quote) /\ (EndsWith(v, Quote) <=> s[j] = Quote)
  BY StartOfPart
<1>3. Len(v) >= 2 <=> i < j
  <2>. HIDE DEF v
  <2>. QED BY <1>0, <1>1
<1>4. i < j => SubSeq(v, 2, Len(v) - 1) = SubSeq(s, i + 1, j - 1)
  <2>. SUFFICES ASSUME i < j PROVE SubSeq(v, 2, Len(v) - 1) = SubSeq(s, i + 1, j - 1)
    OBVIOUS
  <2>. DEFINE n == j - i
  <2>1. /\ n \in Nat /\ n <= j - i + 1 /\ 2 <= n + 1 /\ Len(v) - 1 = n
        /\ i + 2 - 1 = i + 1 /\ i + n - 1 = j - 1
    BY <1>0, <1>1
  <2>. HIDE DEF n
  <2>2. SubSeq(SubSeq(s, i, j), 2, n) = SubSeq(s, i + 2 - 1, i + n - 1)
    BY <1>0, <2>1, PartOfPart
  <2>. QED BY <2>1, <2>2
<1>. HIDE DEF v
<1>5. Unquoted(v) = IF i < j /\ s[i] = Quote /\ s[j] = Quote THEN SubSeq(s, i + 1, j - 1)
                    ELSE IF s[i] = Quote \/ s[j] = Quote THEN << >> ELSE v
  BY <1>2, <1>3, <1>4 DEF Unquoted
<1>. QED BY <1>5 DEF v

LEMMA JustTheKey == <<Key>> # << >> /\ Len(<<Key>>) = 1 /\ <<Key>>[1] = Key
  OBVIOUS

LEMMA OneCharacter ==
  ASSUME NEW t \in Seq(Characters), Len(t) = 1
  PROVE  t = <<t[1]>>
<1>1. t[1] \in Characters
  BY LenProperties
<1>. DEFINE u == <<t[1]>>
<1>2. u \in Seq(Characters) /\ Len(u) = 1 /\ u[1] = t[1]
  BY <1>1
<1>. HIDE DEF u
<1>3. \A i \in 1 .. Len(t) : t[i] = u[i]
  BY <1>2
<1>4. t = u
  BY <1>2, <1>3, SeqEqual
<1>. QED BY <1>4 DEF u

(* What get_config_line_result reads from a line that says something is    *)
(* what the line sets, and anvi_config_load uses it though `=' and the end *)
(* of the line are overwritten by then.                                    *)
LEMMA OkSets ==
  ASSUME NEW line \in Seq(Characters), ~ Silent(line), LineResult(line).ok
  PROVE  /\ IsSetting(LineResult(line).left)
         /\ FitsInValue(LineResult(line).value)
         /\ Sets(line, LineResult(line).value)
<1>0. Len(line) \in Nat /\ DOMAIN line = 1 .. Len(line)
  BY LenProperties
<1>1. PICK c \in 1 .. Len(line) : line[c] = "="
  BY OkHasEquals
<1>2. PICK a \in 1 .. Len(line), b \in 1 .. Len(line) :
        TrimsTo(line, 1, Len(line), a, b) /\ TrimWhitespace(line) = SubSeq(line, a, b)
  <2>1. TrimWhitespace(line) # << >>
    BY DEF Silent
  <2>. QED BY <2>1, TrimLine
<1>3. PICK e \in 1 .. Len(line) : SplitAt(line, a, b, e)
  BY <1>1, <1>2, FirstEquals
<1>4. /\ b \in a .. Len(line) /\ e \in a .. b /\ line[e] = "="
      /\ ~ Blank(line[a])
      /\ \A k \in 1 .. Len(line) : k < a \/ k > b => Blank(line[k])
  BY <1>2, <1>3 DEF TrimsTo, SplitAt
<1>. DEFINE key   == TrimWhitespace(SubSeq(line, a, e - 1))
            text  == TrimWhitespace(SubSeq(line, e + 1, b))
            value == Unquoted(text)
<1>5. LineResult(line) =
        IF key = <<Key>> /\ FitsInValue(value)
        THEN [ok |-> TRUE, value |-> value, left |-> SubSeq(line, 1, e - 1)]
        ELSE [ok |-> FALSE, value |-> Unset, left |-> line]
  BY <1>3, ResultOfSplit
<1>6. /\ key = <<Key>> /\ FitsInValue(value)
      /\ LineResult(line).value = value
      /\ LineResult(line).left = SubSeq(line, 1, e - 1)
  <2>. HIDE DEF key, value
  <2>. QED BY <1>5
<1>7. PICK k \in a .. e - 1 : /\ line[k] = Key
                              /\ \A m \in a .. e - 1 : m # k => Blank(line[m])
  <2>1. PICK i \in a .. e - 1, j \in a .. e - 1 : TrimsTo(line, a, e - 1, i, j)
    <3>1. a \in Nat \ {0} /\ e - 1 \in Nat /\ e - 1 <= Len(line) /\ a <= (e - 1) + 1
      BY <1>0, <1>4
    <3>2. key # << >>
      <4>. HIDE DEF key
      <4>. QED BY <1>6, JustTheKey
    <3>. QED BY <3>1, <3>2, TrimPart
  <2>2. /\ i \in 1 .. Len(line) /\ j \in i .. Len(line)
        /\ key = SubSeq(line, i, j)
        /\ \A m \in a .. e - 1 : m < i \/ m > j => Blank(line[m])
    BY <1>0, <1>4, <2>1 DEF TrimsTo
  <2>3. i = j
    <3>1. Len(SubSeq(line, i, j)) = j - i + 1
      BY <1>0, <2>2, Part
    <3>2. Len(key) = 1
      <4>. HIDE DEF key
      <4>. QED BY <1>6, JustTheKey
    <3>. QED BY <1>0, <2>2, <3>1, <3>2
  <2>4. line[i] = Key
    <3>1. StartsWith(SubSeq(line, i, j), Key)
      <4>1. StartsWith(key, Key)
        <5>. HIDE DEF key
        <5>. QED BY <1>6, JustTheKey DEF StartsWith
      <4>. QED BY <2>2, <4>1
    <3>. QED BY <2>2, <3>1, StartOfPart
  <2>. QED BY <1>0, <2>1, <2>2, <2>3, <2>4
<1>8. PICK i \in e + 1 .. b, j \in e + 1 .. b : TrimsTo(line, e + 1, b, i, j)
  <2>1. e + 1 \in Nat \ {0} /\ b \in Nat /\ b <= Len(line) /\ e + 1 <= b + 1
    BY <1>0, <1>4
  <2>2. text # << >>
    <3>1. Unquoted(<< >>) = << >>
      BY DEF Unquoted, StartsWith, EndsWith
    <3>. QED BY <1>6, <3>1 DEF FitsInValue
  <2>. QED BY <2>1, <2>2, TrimPart
<1>9. /\ i \in 1 .. Len(line) /\ j \in i .. Len(line) /\ text = SubSeq(line, i, j)
      /\ ~ Blank(line[i]) /\ ~ Blank(line[j])
      /\ \A m \in e + 1 .. b : m < i \/ m > j => Blank(line[m])
  BY <1>0, <1>4, <1>8 DEF TrimsTo
<1>10. \/ Plain(line, i, j) /\ value = SubSeq(line, i, j)
       \/ i < j /\ line[i] = Quote /\ line[j] = Quote /\ value = SubSeq(line, i + 1, j - 1)
  <2>1. value # << >>
    BY <1>6 DEF FitsInValue
  <2>2. value = IF i < j /\ line[i] = Quote /\ line[j] = Quote THEN SubSeq(line, i + 1, j - 1)
                ELSE IF line[i] = Quote \/ line[j] = Quote THEN << >> ELSE SubSeq(line, i, j)
    <3>1. Unquoted(SubSeq(line, i, j)) =
            IF i < j /\ line[i] = Quote /\ line[j] = Quote THEN SubSeq(line, i + 1, j - 1)
            ELSE IF line[i] = Quote \/ line[j] = Quote THEN << >> ELSE SubSeq(line, i, j)
      <4>. HIDE DEF text, value
      <4>. QED BY <1>9, UnquotedPart
    <3>2. value = Unquoted(SubSeq(line, i, j))
      BY <1>9
    <3>. HIDE DEF value
    <3>. QED BY <3>1, <3>2
  <2>. HIDE DEF value
  <2>. QED BY <1>9, <2>1, <2>2 DEF Plain
<1>11. Sets(line, value)
  <2>. HIDE DEF value
  <2>1. k \in 1 .. Len(line) /\ k < e /\ e < i /\ i <= j /\ j \in 1 .. Len(line)
    BY <1>0, <1>4, <1>7, <1>8, <1>9
  <2>2. BlankBetween(line, 1, k - 1)
    BY <1>0, <1>4, <1>7 DEF BlankBetween
  <2>3. BlankBetween(line, k + 1, e - 1)
    BY <1>0, <1>4, <1>7 DEF BlankBetween
  <2>4. BlankBetween(line, e + 1, i - 1)
    BY <1>0, <1>4, <1>8, <1>9 DEF BlankBetween
  <2>5. BlankBetween(line, j + 1, Len(line))
    BY <1>0, <1>4, <1>8, <1>9 DEF BlankBetween
  <2>. QED BY <1>4, <1>7, <1>9, <1>10, <2>1, <2>2, <2>3, <2>4, <2>5 DEF Sets
<1>12. IsSetting(SubSeq(line, 1, e - 1))
  <2>0. k = a
    BY <1>4, <1>7
  <2>1. 1 \in Nat \ {0} /\ e - 1 \in Nat /\ e - 1 <= Len(line) /\ 1 <= (e - 1) + 1
    BY <1>0
  <2>2. ~ (\A m \in 1 .. e - 1 : Blank(line[m]))
    BY <1>0, <1>4, <1>7, <2>0
  <2>3. PICK x \in 1 .. e - 1, y \in 1 .. e - 1 : TrimsTo(line, 1, e - 1, x, y)
    BY <2>1, <2>2, TrimPart
  <2>4. x = a
    BY <1>0, <1>4, <1>7, <2>0, <2>3 DEF TrimsTo
  <2>5. y \in a .. Len(line) /\ TrimWhitespace(SubSeq(line, 1, e - 1)) = SubSeq(line, a, y)
    BY <1>0, <2>3, <2>4 DEF TrimsTo
  <2>6. line[a] # "#"
    BY <1>7, <2>0 DEF Key
  <2>7. /\ SubSeq(line, a, y) # << >>
        /\ ~ StartsWith(SubSeq(line, a, y), "#")
    BY <2>5, <2>6, StartOfPart
  <2>. QED BY <2>5, <2>7 DEF IsSetting
<1>. HIDE DEF value
<1>. QED BY <1>6, <1>11, <1>12

(* A line that sets something that fits is ok.                             *)
LEMMA SetsOk ==
  ASSUME NEW line \in Seq(Characters), NEW v, Sets(line, v), FitsInValue(v)
  PROVE  LineResult(line).ok /\ ~ Silent(line)
<1>0. Len(line) \in Nat /\ DOMAIN line = 1 .. Len(line)
  BY LenProperties
<1>1. PICK k \in 1 .. Len(line), e \in 1 .. Len(line), i \in 1 .. Len(line), j \in 1 .. Len(line) :
        /\ k < e /\ e < i /\ i <= j
        /\ line[k] = Key /\ line[e] = "="
        /\ BlankBetween(line, 1, k - 1) /\ BlankBetween(line, k + 1, e - 1)
        /\ BlankBetween(line, e + 1, i - 1) /\ BlankBetween(line, j + 1, Len(line))
        /\ \/ Plain(line, i, j) /\ v = SubSeq(line, i, j)
           \/ i < j /\ line[i] = Quote /\ line[j] = Quote /\ v = SubSeq(line, i + 1, j - 1)
  BY DEF Sets
<1>2. /\ \A m \in 1 .. Len(line) : m < k \/ m > j => Blank(line[m])
      /\ \A m \in 1 .. Len(line) : m > k /\ m < e => Blank(line[m])
      /\ \A m \in 1 .. Len(line) : m > e /\ m < i => Blank(line[m])
  BY <1>0, <1>1 DEF BlankBetween
<1>3. ~ Blank(line[k]) /\ ~ Blank(line[i]) /\ ~ Blank(line[j])
  BY <1>1 DEF Plain, Blank, Key, Quote, Space, Newline
<1>4. PICK a \in 1 .. Len(line), b \in 1 .. Len(line) :
        TrimsTo(line, 1, Len(line), a, b) /\ TrimWhitespace(line) = SubSeq(line, a, b)
  BY <1>3, TrimLine
<1>5. a = k /\ b = j
  <2>1. /\ a <= b /\ ~ Blank(line[a]) /\ ~ Blank(line[b])
        /\ \A m \in 1 .. Len(line) : m < a \/ m > b => Blank(line[m])
    BY <1>4 DEF TrimsTo
  <2>. QED BY <1>0, <1>1, <1>2, <1>3, <2>1
<1>6. ~ Silent(line)
  <2>1. b \in a .. Len(line)
    BY <1>4 DEF TrimsTo
  <2>2. line[a] # "#"
    BY <1>1, <1>5 DEF Key
  <2>3. SubSeq(line, a, b) # << >> /\ ~ StartsWith(SubSeq(line, a, b), "#")
    BY <2>1, <2>2, StartOfPart
  <2>. QED BY <1>4, <2>3 DEF Silent
<1>7. SplitAt(line, a, b, e)
  <2>1. \A m \in 1 .. Len(line) : line[m] = "=" => e <= m
    <3>. SUFFICES ASSUME NEW m \in 1 .. Len(line), line[m] = "=", m < e PROVE FALSE
      BY <1>0
    <3>1. ~ Blank(line[m]) /\ m # k
      BY <1>1 DEF Blank, Key, Space, Newline
    <3>. QED BY <1>0, <1>1, <1>2, <3>1
  <2>. QED BY <1>0, <1>1, <1>4, <1>5, <2>1 DEF SplitAt
<1>. DEFINE key   == TrimWhitespace(SubSeq(line, a, e - 1))
            text  == TrimWhitespace(SubSeq(line, e + 1, b))
            value == Unquoted(text)
<1>8. LineResult(line) =
        IF key = <<Key>> /\ FitsInValue(value)
        THEN [ok |-> TRUE, value |-> value, left |-> SubSeq(line, 1, e - 1)]
        ELSE [ok |-> FALSE, value |-> Unset, left |-> line]
  BY <1>6, <1>7, ResultOfSplit
<1>9. key = <<Key>>
  <2>1. a \in Nat \ {0} /\ e - 1 \in Nat /\ e - 1 <= Len(line) /\ a <= (e - 1) + 1
    BY <1>0, <1>1, <1>5
  <2>2. a \in a .. e - 1
    BY <1>0, <1>1, <1>5
  <2>3. PICK x \in a .. e - 1, y \in a .. e - 1 : TrimsTo(line, a, e - 1, x, y)
    BY <1>3, <1>5, <2>1, <2>2, TrimPart
  <2>4. x = a /\ y = a
    <3>1. \A m \in a .. e - 1 : m # a => Blank(line[m])
      BY <1>0, <1>1, <1>2, <1>5
    <3>. QED BY <2>3, <3>1 DEF TrimsTo
  <2>5. key = SubSeq(line, a, a)
    BY <2>3, <2>4 DEF TrimsTo
  <2>6. SubSeq(line, a, a) = <<Key>>
    <3>1. /\ Len(SubSeq(line, a, a)) = 1 /\ SubSeq(line, a, a) \in Seq(Characters)
          /\ \A m \in 1 .. 1 : SubSeq(line, a, a)[m] = line[a + m - 1]
      BY <1>0, Part
    <3>2. SubSeq(line, a, a)[1] = Key
      <4>1. 1 \in 1 .. 1 /\ a + 1 - 1 = a
        BY <1>0
      <4>2. SubSeq(line, a, a)[1] = line[a]
        BY <3>1, <4>1
      <4>. QED BY <1>1, <1>5, <4>2
    <3>. QED BY <3>1, <3>2, OneCharacter
  <2>. QED BY <2>5, <2>6
<1>10. value = v
  <2>1. e + 1 \in Nat \ {0} /\ b \in Nat /\ b <= Len(line) /\ e + 1 <= b + 1
    BY <1>0, <1>1, <1>5
  <2>2. i \in e + 1 .. b /\ j \in e + 1 .. b
    BY <1>0, <1>1, <1>5
  <2>3. PICK x \in e + 1 .. b, y \in e + 1 .. b : TrimsTo(line, e + 1, b, x, y)
    BY <1>3, <2>1, <2>2, TrimPart
  <2>4. x = i /\ y = j
    <3>1. /\ x <= y /\ ~ Blank(line[x]) /\ ~ Blank(line[y])
          /\ \A m \in e + 1 .. b : m < x \/ m > y => Blank(line[m])
      BY <2>3 DEF TrimsTo
    <3>2. x \in 1 .. Len(line) /\ y \in 1 .. Len(line)
      BY <1>0, <2>1, <2>3
    <3>. QED BY <1>0, <1>1, <1>2, <1>3, <1>5, <2>2, <3>1, <3>2
  <2>5. text = SubSeq(line, i, j)
    BY <2>3, <2>4 DEF TrimsTo
  <2>6. Unquoted(SubSeq(line, i, j)) =
          IF i < j /\ line[i] = Quote /\ line[j] = Quote THEN SubSeq(line, i + 1, j - 1)
          ELSE IF line[i] = Quote \/ line[j] = Quote THEN << >> ELSE SubSeq(line, i, j)
    <3>1. j \in i .. Len(line)
      BY <1>0, <1>1
    <3>. QED BY <3>1, UnquotedPart
  <2>7. CASE Plain(line, i, j) /\ v = SubSeq(line, i, j)
    BY <2>5, <2>6, <2>7 DEF Plain
  <2>8. CASE i < j /\ line[i] = Quote /\ line[j] = Quote /\ v = SubSeq(line, i + 1, j - 1)
    BY <2>5, <2>6, <2>8
  <2>. QED BY <1>1, <2>7, <2>8
<1>. HIDE DEF key, value
<1>. QED BY <1>6, <1>8, <1>9, <1>10

LEMMA SilentIsOk ==
  ASSUME NEW line \in Seq(Characters), Silent(line)
  PROVE  LineResult(line).ok /\ ~ IsSetting(LineResult(line).left)
<1>. DEFINE text == TrimWhitespace(line)
<1>1. text = << >> \/ StartsWith(text, "#")
  BY DEF Silent
<1>2. LineResult(line) = [ok |-> TRUE, value |-> Unset, left |-> line]
  BY <1>1, Zenon DEF LineResult
<1>3. ~ IsSetting(line)
  BY <1>1 DEF IsSetting
<1>. QED BY <1>2, <1>3

-----------------------------------------------------------------------------
(* What fgets returns and the lines of the file.                           *)

(* A line says the same with the newline at its end and without it.        *)
LEMMA NewlineSaysNothing ==
  ASSUME NEW w \in Seq(Characters), NEW n \in Nat, Len(w) = n + 1, w[n + 1] = Newline
  PROVE  /\ SetsNothing(w) <=> SetsNothing(SubSeq(w, 1, n))
         /\ \A v : Sets(w, v) <=> Sets(SubSeq(w, 1, n), v)
<1>. DEFINE l == SubSeq(w, 1, n)
<1>0. DOMAIN w = 1 .. n + 1
  BY LenProperties
<1>1. /\ l \in Seq(Characters) /\ Len(l) = n /\ DOMAIN l = 1 .. n
      /\ \A i \in 1 .. n : l[i] = w[i]
  <2>1. /\ l \in Seq(Characters) /\ Len(l) = n
        /\ \A i \in 1 .. n : l[i] = w[1 + i - 1]
    BY Part
  <2>2. \A i \in 1 .. n : 1 + i - 1 = i
    OBVIOUS
  <2>. HIDE DEF l
  <2>. QED BY <2>1, <2>2, LenProperties
<1>2. ASSUME NEW i \in 1 .. n, NEW j \in 1 .. n
      PROVE  SubSeq(l, i, j) = SubSeq(w, i, j)
  <2>1. CASE i <= j
    <3>1. SubSeq(SubSeq(w, 1, n), i, j) = SubSeq(w, 1 + i - 1, 1 + j - 1)
      BY <2>1, PartOfPart
    <3>2. 1 + i - 1 = i /\ 1 + j - 1 = j
      OBVIOUS
    <3>. QED BY <3>1, <3>2
  <2>2. CASE ~ (i <= j)
    BY <2>2, SubSeqEmpty
  <2>. QED BY <2>1, <2>2
<1>3. Blank(w[n + 1])
  BY DEF Blank
<1>. HIDE DEF l
<1>4. \A i, j \in Int : j <= n => (BlankBetween(w, i, j) <=> BlankBetween(l, i, j))
  BY <1>0, <1>1 DEF BlankBetween
<1>5. \A i \in Int : BlankBetween(w, i, n + 1) <=> BlankBetween(l, i, n)
  BY <1>0, <1>1, <1>3 DEF BlankBetween
<1>6. SetsNothing(w) <=> SetsNothing(l)
  <2>1. BlankBetween(w, 1, Len(w)) <=> BlankBetween(l, 1, Len(l))
    BY <1>1, <1>5
  <2>2. ASSUME NEW k \in DOMAIN w, w[k] = "#", BlankBetween(w, 1, k - 1)
        PROVE  k \in DOMAIN l /\ l[k] = "#" /\ BlankBetween(l, 1, k - 1)
    <3>1. k # n + 1
      BY <1>3, <2>2 DEF Blank, Space, Newline
    <3>2. k \in 1 .. n
      BY <1>0, <3>1
    <3>3. BlankBetween(l, 1, k - 1)
      BY <1>4, <2>2, <3>2
    <3>. QED BY <1>1, <2>2, <3>2, <3>3
  <2>3. ASSUME NEW k \in DOMAIN l, l[k] = "#", BlankBetween(l, 1, k - 1)
        PROVE  k \in DOMAIN w /\ w[k] = "#" /\ BlankBetween(w, 1, k - 1)
    BY <1>0, <1>1, <1>4, <2>3
  <2>. QED BY <2>1, <2>2, <2>3 DEF SetsNothing
<1>7. ASSUME NEW v, Sets(w, v) PROVE Sets(l, v)
  <2>0. PICK k, e, i, j \in 1 .. Len(w) :
          /\ k < e /\ e < i /\ i <= j
          /\ w[k] = Key /\ w[e] = "="
          /\ BlankBetween(w, 1, k - 1) /\ BlankBetween(w, k + 1, e - 1)
          /\ BlankBetween(w, e + 1, i - 1) /\ BlankBetween(w, j + 1, Len(w))
          /\ \/ Plain(w, i, j) /\ v = SubSeq(w, i, j)
             \/ i < j /\ w[i] = Quote /\ w[j] = Quote /\ v = SubSeq(w, i + 1, j - 1)
    BY <1>7, Zenon DEF Sets
  <2>1. /\ k \in 1 .. n + 1 /\ e \in 1 .. n + 1 /\ i \in 1 .. n + 1 /\ j \in 1 .. n + 1
        /\ k < e /\ e < i /\ i <= j
        /\ w[k] = Key /\ w[e] = "="
        /\ BlankBetween(w, 1, k - 1) /\ BlankBetween(w, k + 1, e - 1)
        /\ BlankBetween(w, e + 1, i - 1) /\ BlankBetween(w, j + 1, n + 1)
        /\ \/ Plain(w, i, j) /\ v = SubSeq(w, i, j)
           \/ i < j /\ w[i] = Quote /\ w[j] = Quote /\ v = SubSeq(w, i + 1, j - 1)
    BY <2>0
  <2>2. j \in 1 .. n
    <3>1. ~ Blank(w[j])
      BY <2>1 DEF Plain, Blank, Quote, Space, Newline
    <3>2. j # n + 1
      BY <1>3, <3>1
    <3>3. \A x \in 1 .. n + 1 : x # n + 1 => x \in 1 .. n
      OBVIOUS
    <3>. QED BY <3>2, <3>3
  <2>3. k \in 1 .. n /\ e \in 1 .. n /\ i \in 1 .. n
    BY <2>1, <2>2
  <2>4. /\ BlankBetween(l, 1, k - 1) /\ BlankBetween(l, k + 1, e - 1)
        /\ BlankBetween(l, e + 1, i - 1)
    BY <1>4, <2>1, <2>3
  <2>5. BlankBetween(l, j + 1, n)
    BY <1>5, <2>1, <2>2
  <2>6. l[k] = Key /\ l[e] = "=" /\ l[i] = w[i] /\ l[j] = w[j]
    BY <1>1, <2>1, <2>2, <2>3
  <2>7. \/ Plain(l, i, j) /\ v = SubSeq(l, i, j)
        \/ i < j /\ l[i] = Quote /\ l[j] = Quote /\ v = SubSeq(l, i + 1, j - 1)
    <3>1. CASE Plain(w, i, j) /\ v = SubSeq(w, i, j)
      BY <1>2, <2>2, <2>3, <2>6, <3>1 DEF Plain
    <3>2. CASE i < j /\ w[i] = Quote /\ w[j] = Quote /\ v = SubSeq(w, i + 1, j - 1)
      <4>1. i + 1 \in 1 .. n /\ j - 1 \in 1 .. n
        BY <2>2, <2>3, <3>2
      <4>. QED BY <1>2, <2>6, <3>2, <4>1
    <3>. QED BY <2>1, <3>1, <3>2
  <2>. QED BY <1>1, <2>1, <2>2, <2>3, <2>4, <2>5, <2>6, <2>7, Zenon DEF Sets
<1>8. ASSUME NEW v, Sets(l, v) PROVE Sets(w, v)
  <2>0. PICK k, e, i, j \in 1 .. Len(l) :
          /\ k < e /\ e < i /\ i <= j
          /\ l[k] = Key /\ l[e] = "="
          /\ BlankBetween(l, 1, k - 1) /\ BlankBetween(l, k + 1, e - 1)
          /\ BlankBetween(l, e + 1, i - 1) /\ BlankBetween(l, j + 1, Len(l))
          /\ \/ Plain(l, i, j) /\ v = SubSeq(l, i, j)
             \/ i < j /\ l[i] = Quote /\ l[j] = Quote /\ v = SubSeq(l, i + 1, j - 1)
    BY <1>8, Zenon DEF Sets
  <2>1. /\ k \in 1 .. n /\ e \in 1 .. n /\ i \in 1 .. n /\ j \in 1 .. n
        /\ k < e /\ e < i /\ i <= j
        /\ l[k] = Key /\ l[e] = "="
        /\ BlankBetween(l, 1, k - 1) /\ BlankBetween(l, k + 1, e - 1)
        /\ BlankBetween(l, e + 1, i - 1) /\ BlankBetween(l, j + 1, n)
        /\ \/ Plain(l, i, j) /\ v = SubSeq(l, i, j)
           \/ i < j /\ l[i] = Quote /\ l[j] = Quote /\ v = SubSeq(l, i + 1, j - 1)
    BY <1>1, <2>0
  <2>2. k \in 1 .. Len(w) /\ e \in 1 .. Len(w) /\ i \in 1 .. Len(w) /\ j \in 1 .. Len(w)
    BY <2>1
  <2>4. /\ BlankBetween(w, 1, k - 1) /\ BlankBetween(w, k + 1, e - 1)
        /\ BlankBetween(w, e + 1, i - 1)
    BY <1>4, <2>1
  <2>5. BlankBetween(w, j + 1, Len(w))
    BY <1>5, <2>1
  <2>6. w[k] = Key /\ w[e] = "=" /\ l[i] = w[i] /\ l[j] = w[j]
    BY <1>1, <2>1
  <2>7. \/ Plain(w, i, j) /\ v = SubSeq(w, i, j)
        \/ i < j /\ w[i] = Quote /\ w[j] = Quote /\ v = SubSeq(w, i + 1, j - 1)
    <3>1. CASE Plain(l, i, j) /\ v = SubSeq(l, i, j)
      BY <1>2, <2>1, <2>6, <3>1 DEF Plain
    <3>2. CASE i < j /\ l[i] = Quote /\ l[j] = Quote /\ v = SubSeq(l, i + 1, j - 1)
      <4>1. i + 1 \in 1 .. n /\ j - 1 \in 1 .. n
        BY <2>1, <3>2
      <4>. QED BY <1>2, <2>6, <3>2, <4>1
    <3>. QED BY <2>1, <3>1, <3>2
  <2>. QED BY <2>1, <2>2, <2>4, <2>5, <2>6, <2>7, Zenon DEF Sets
<1>. QED BY <1>6, <1>7, <1>8 DEF l

(* Where the first line of a text ends: at its first newline, or past its  *)
(* last character.                                                         *)
EndsAt(u, m) ==
  /\ m \in 1 .. Len(u) + 1
  /\ m = Len(u) + 1 \/ u[m] = Newline
  /\ \A i \in 1 .. Len(u) : u[i] = Newline => m <= i

(* fgets returns the first line, with its newline, unless that does not    *)
(* fit in the buffer; the test with strchr and feof tells the cases apart. *)
LEMMA FgetsReads ==
  ASSUME NEW u \in Seq(Characters), u # << >>, NEW m, EndsAt(u, m)
  PROVE  /\ TooLong(u) <=> m >= SizeofBuffer
         /\ ~ TooLong(u) => Fgets(u) = SubSeq(u, 1, IF m = Len(u) + 1 THEN Len(u) ELSE m)
<1>. DEFINE ends == {Len(u), SizeofBuffer - 1} \cup Newlines(u)
            f    == Min(ends)
            w    == SubSeq(u, 1, f)
<1>0. /\ Len(u) \in Nat /\ Len(u) > 0 /\ DOMAIN u = 1 .. Len(u)
      /\ SizeofBuffer \in Nat /\ SizeofBuffer > 1
  BY LenProperties, ConfigAssumption
<1>1. /\ m \in 1 .. Len(u) + 1
      /\ m = Len(u) + 1 \/ u[m] = Newline
      /\ \A i \in 1 .. Len(u) : u[i] = Newline => m <= i
  BY DEF EndsAt
<1>2. Newlines(u) = { i \in 1 .. Len(u) : u[i] = Newline }
  BY <1>0 DEF Newlines
<1>3. /\ ends \subseteq Nat /\ Len(u) \in ends /\ SizeofBuffer - 1 \in ends
      /\ \A i \in 1 .. Len(u) : u[i] = Newline => i \in ends
  <2>1. Newlines(u) \subseteq Nat /\ \A i \in 1 .. Len(u) : u[i] = Newline => i \in Newlines(u)
    BY <1>0, <1>2
  <2>2. SizeofBuffer - 1 \in Nat
    BY <1>0
  <2>. QED BY <1>0, <2>1, <2>2
<1>4. f \in ends /\ \A i \in ends : f <= i
  <2>. HIDE DEF ends
  <2>. QED BY <1>3, MinIsLeast
<1>5. f = Len(u) \/ f = SizeofBuffer - 1 \/ (f \in 1 .. Len(u) /\ u[f] = Newline)
  <2>. HIDE DEF f
  <2>. QED BY <1>2, <1>4
<1>6. Fgets(u) = w
  BY Zenon DEF Fgets
<1>7. f \in 1 .. Len(u) /\ f <= SizeofBuffer - 1
  <2>. HIDE DEF f, ends
  <2>1. f <= Len(u) /\ f <= SizeofBuffer - 1
    BY <1>3, <1>4
  <2>2. f \in Nat /\ f > 0
    BY <1>0, <1>5
  <2>. QED BY <1>0, <2>1, <2>2
<1>13. \A i \in 1 .. Len(u) : u[i] = Newline => f <= i
  <2>. HIDE DEF f, ends
  <2>. QED BY <1>3, <1>4
<1>. HIDE DEF f, ends
<1>8. /\ w \in Seq(Characters) /\ Len(w) = f /\ DOMAIN w = 1 .. f
      /\ \A i \in 1 .. f : w[i] = u[i]
  <2>1. /\ w \in Seq(Characters) /\ Len(w) = f
        /\ \A i \in 1 .. f : w[i] = u[1 + i - 1]
    BY <1>0, <1>7, Part
  <2>2. \A i \in 1 .. f : 1 + i - 1 = i
    BY <1>0, <1>7
  <2>. HIDE DEF w
  <2>. QED BY <2>1, <2>2, LenProperties
<1>. HIDE DEF w
<1>9. Newlines(w) = {} <=> u[f] # Newline
  <2>1. Newlines(w) = { i \in 1 .. f : w[i] = Newline }
    BY <1>8 DEF Newlines
  <2>2. \A i \in 1 .. f : w[i] = Newline => i = f
    <3>. SUFFICES ASSUME NEW i \in 1 .. f, w[i] = Newline PROVE i = f
      OBVIOUS
    <3>1. i \in 1 .. Len(u) /\ i <= f
      BY <1>0, <1>7
    <3>2. u[i] = Newline
      BY <1>8
    <3>. QED BY <1>0, <1>7, <1>13, <3>1, <3>2
  <2>3. f \in 1 .. f
    BY <1>0, <1>7
  <2>. QED BY <1>8, <2>1, <2>2, <2>3
<1>10. TooLong(u) <=> u[f] # Newline /\ Len(u) >= SizeofBuffer - 1
  BY <1>0, <1>6, <1>9 DEF TooLong, Feof
<1>11. CASE u[f] = Newline
  <2>1. m = f
    BY <1>0, <1>1, <1>7, <1>11, <1>13
  <2>2. m # Len(u) + 1
    BY <1>0, <1>7, <2>1
  <2>. QED BY <1>0, <1>6, <1>7, <1>10, <1>11, <2>1, <2>2 DEF w
<1>12. CASE u[f] # Newline
  <2>0. f = Len(u) \/ f = SizeofBuffer - 1
    BY <1>5, <1>12
  <2>1. m > f
    <3>1. m # f
      BY <1>0, <1>1, <1>7, <1>12
    <3>2. f <= m
      BY <1>0, <1>1, <1>7, <1>13
    <3>. QED BY <1>0, <1>1, <1>7, <3>1, <3>2
  <2>2. CASE Len(u) >= SizeofBuffer - 1
    <3>1. f = SizeofBuffer - 1
      <4>1. CASE f = Len(u)
        BY <1>0, <1>7, <2>2, <4>1
      <4>. QED BY <2>0, <4>1
    <3>. QED BY <1>0, <1>1, <1>10, <1>12, <2>1, <2>2, <3>1
  <2>3. CASE ~ (Len(u) >= SizeofBuffer - 1)
    <3>1. f = Len(u)
      <4>1. f # SizeofBuffer - 1
        BY <1>0, <1>7, <2>3
      <4>. QED BY <2>0, <4>1
    <3>2. m = Len(u) + 1
      BY <1>0, <1>1, <2>1, <3>1
    <3>. QED BY <1>0, <1>6, <1>10, <2>3, <3>1, <3>2 DEF w
  <2>. QED BY <2>2, <2>3
<1>. QED BY <1>11, <1>12

(* What is read says the same as the line it is.                           *)
LEMMA FgetsSaysTheSame ==
  ASSUME NEW u \in Seq(Characters), u # << >>, NEW m, EndsAt(u, m), ~ TooLong(u)
  PROVE  /\ SetsNothing(Fgets(u)) <=> SetsNothing(SubSeq(u, 1, m - 1))
         /\ \A v : Sets(Fgets(u), v) <=> Sets(SubSeq(u, 1, m - 1), v)
<1>0. Len(u) \in Nat /\ m \in 1 .. Len(u) + 1 /\ (m = Len(u) + 1 \/ u[m] = Newline)
  BY LenProperties DEF EndsAt
<1>1. CASE m = Len(u) + 1
  <2>1. Fgets(u) = SubSeq(u, 1, Len(u)) /\ m - 1 = Len(u)
    BY <1>0, <1>1, FgetsReads
  <2>. QED BY <2>1
<1>2. CASE m # Len(u) + 1
  <2>. DEFINE w == SubSeq(u, 1, m)
              n == m - 1
  <2>1. Fgets(u) = w
    BY <1>2, FgetsReads
  <2>2. /\ w \in Seq(Characters) /\ Len(w) = m
        /\ \A i \in 1 .. m - 1 + 1 : w[i] = u[1 + i - 1]
    BY <1>0, <1>2, Part
  <2>3. SubSeq(w, 1, n) = SubSeq(u, 1, n)
    <3>1. /\ n \in Nat /\ n <= m - 1 + 1 /\ 1 <= n + 1 /\ 1 + 1 - 1 = 1 /\ 1 + n - 1 = n
          /\ m \in Nat /\ m <= Len(u) /\ 1 <= m + 1
      BY <1>0, <1>2
    <3>. HIDE DEF n
    <3>2. SubSeq(SubSeq(u, 1, m), 1, n) = SubSeq(u, 1 + 1 - 1, 1 + n - 1)
      BY <3>1, PartOfPart
    <3>. QED BY <3>1, <3>2
  <2>4. n \in Nat /\ Len(w) = n + 1 /\ w[n + 1] = Newline
    <3>1. m \in 1 .. m - 1 + 1 /\ 1 + m - 1 = m /\ n + 1 = m /\ n \in Nat
      BY <1>0
    <3>. HIDE DEF w, n
    <3>. QED BY <1>0, <1>2, <2>2, <3>1
  <2>. HIDE DEF w, n
  <2>5. /\ SetsNothing(w) <=> SetsNothing(SubSeq(w, 1, n))
        /\ \A v : Sets(w, v) <=> Sets(SubSeq(w, 1, n), v)
    BY <2>2, <2>4, NewlineSaysNothing
  <2>. QED BY <2>1, <2>3, <2>5 DEF n
<1>. QED BY <1>1, <1>2

(* What is unread of a file from the start of one of its lines.            *)
LEMMA LineOfRest ==
  ASSUME NEW s \in Seq(Characters), NEW p \in Nat, p < Len(s)
  PROVE  LET u == SubSeq(s, p + 1, Len(s))
         IN  /\ u \in Seq(Characters) /\ Len(u) = Len(s) - p
             /\ \A i \in 1 .. Len(s) - p : u[i] = s[p + i]
             /\ \E m \in 1 .. Len(u) + 1 :
                  EndsAt(u, m) /\ LineAt(s, p + 1) = SubSeq(u, 1, m - 1)
<1>. DEFINE u    == SubSeq(s, p + 1, Len(s))
            n    == Len(s)
            ends == { j \in p + 1 .. n : s[j] = Newline } \cup {n + 1}
            q    == Min(ends)
            m    == q - p
<1>0. n \in Nat /\ p < n
  BY LenProperties
<1>1. /\ u \in Seq(Characters) /\ Len(u) = n - p
      /\ \A i \in 1 .. n - p : u[i] = s[p + i]
  <2>1. /\ u \in Seq(Characters) /\ Len(u) = n - (p + 1) + 1
        /\ \A i \in 1 .. n - (p + 1) + 1 : u[i] = s[(p + 1) + i - 1]
    <3>1. p + 1 \in Nat \ {0} /\ p + 1 <= n + 1 /\ n <= Len(s)
      BY <1>0
    <3>. QED BY <1>0, <3>1, Part
  <2>2. n - (p + 1) + 1 = n - p /\ \A i \in 1 .. n - p : (p + 1) + i - 1 = p + i
    BY <1>0
  <2>. HIDE DEF u
  <2>. QED BY <2>1, <2>2
<1>2. /\ q \in p + 1 .. n + 1
      /\ q = n + 1 \/ s[q] = Newline
      /\ \A j \in p + 1 .. n : s[j] = Newline => q <= j
  <2>1. ends \subseteq Nat /\ ends # {} /\ \A j \in ends : j \in p + 1 .. n + 1
    BY <1>0
  <2>2. q \in ends /\ \A j \in ends : q <= j
    <3>. HIDE DEF ends
    <3>. QED BY <2>1, MinIsLeast
  <2>3. q = n + 1 \/ s[q] = Newline
    <3>. HIDE DEF q
    <3>. QED BY <2>2
  <2>4. \A j \in p + 1 .. n : s[j] = Newline => q <= j
    <3>. HIDE DEF q
    <3>. QED BY <2>2
  <2>. HIDE DEF q, ends
  <2>. QED BY <2>1, <2>2, <2>3, <2>4
<1>3. LineAt(s, p + 1) = SubSeq(s, p + 1, q - 1)
  BY Zenon DEF LineAt
<1>. HIDE DEF q
<1>4. m \in 1 .. n - p + 1 /\ p + m = q
  BY <1>0, <1>2
<1>5. EndsAt(u, m)
  <2>1. m = n - p + 1 \/ u[m] = Newline
    <3>1. CASE q = n + 1
      BY <1>0, <1>4, <3>1
    <3>2. CASE q # n + 1
      <4>1. m \in 1 .. n - p /\ s[q] = Newline
        BY <1>0, <1>2, <1>4, <3>2
      <4>. HIDE DEF u, m
      <4>. QED BY <1>1, <1>4, <4>1
    <3>. QED BY <3>1, <3>2
  <2>2. ASSUME NEW i \in 1 .. n - p, u[i] = Newline PROVE m <= i
    <3>1. p + i \in p + 1 .. n
      BY <1>0
    <3>2. s[p + i] = Newline
      BY <1>1, <2>2
    <3>3. q <= p + i
      BY <1>2, <3>1, <3>2
    <3>. QED BY <1>0, <1>2, <3>3
  <2>. HIDE DEF u, m
  <2>. QED BY <1>1, <1>4, <2>1, <2>2 DEF EndsAt
<1>6. SubSeq(u, 1, m - 1) = SubSeq(s, p + 1, q - 1)
  <2>. DEFINE x == p + 1
              y == m - 1
  <2>1. /\ x \in Nat \ {0} /\ n \in Nat /\ n <= Len(s) /\ x <= n + 1
        /\ y \in Nat /\ y <= n - x + 1 /\ 1 <= y + 1 /\ 1 \in Nat \ {0}
        /\ x + 1 - 1 = x /\ x + y - 1 = q - 1
    BY <1>0, <1>4
  <2>. HIDE DEF x, y
  <2>2. SubSeq(SubSeq(s, x, n), 1, y) = SubSeq(s, x + 1 - 1, x + y - 1)
    BY <2>1, PartOfPart
  <2>3. SubSeq(SubSeq(s, x, n), 1, y) = SubSeq(s, x, q - 1)
    BY <2>1, <2>2
  <2>. QED BY <2>3 DEF x, y
<1>. HIDE DEF u, m
<1>7. m \in 1 .. Len(u) + 1
  BY <1>1, <1>4
<1>8. EndsAt(u, m) /\ LineAt(s, p + 1) = SubSeq(u, 1, m - 1)
  BY <1>3, <1>5, <1>6
<1>. QED BY <1>1, <1>7, <1>8 DEF u

LEMMA PartIsValue ==
  ASSUME NEW s, NEW i \in 1 .. Len(s), NEW j \in 1 .. Len(s)
  PROVE  SubSeq(s, i, j) \in Values(s)
  BY DEF Values

(* A value that a line of the file sets and that fits is one of its values. *)
LEMMA SetIsSetting ==
  ASSUME NEW s \in Seq(Characters), NEW x \in Nat \ {0}, NEW y \in Nat,
         y <= Len(s), x <= y + 1, LineAt(s, x) = SubSeq(s, x, y),
         NEW v, Sets(LineAt(s, x), v), FitsInValue(v)
  PROVE  v \in Setting(s, x)
<1>. DEFINE l == SubSeq(s, x, y)
<1>0. Len(s) \in Nat /\ Len(l) = y - x + 1
  BY LenProperties, Part
<1>1. PICK i \in 1 .. Len(l), j \in 1 .. Len(l) :
        \/ i <= j /\ v = SubSeq(l, i, j)
        \/ i < j /\ v = SubSeq(l, i + 1, j - 1)
  <2>. HIDE DEF l
  <2>1. Sets(l, v)
    BY DEF l
  <2>2. PICK k, e, i, j \in 1 .. Len(l) :
          /\ k < e /\ e < i /\ i <= j
          /\ l[k] = Key /\ l[e] = "="
          /\ BlankBetween(l, 1, k - 1) /\ BlankBetween(l, k + 1, e - 1)
          /\ BlankBetween(l, e + 1, i - 1) /\ BlankBetween(l, j + 1, Len(l))
          /\ \/ Plain(l, i, j) /\ v = SubSeq(l, i, j)
             \/ i < j /\ l[i] = Quote /\ l[j] = Quote /\ v = SubSeq(l, i + 1, j - 1)
    BY <2>1, Zenon DEF Sets
  <2>. QED BY <2>2, Zenon
<1>2. ASSUME NEW m \in 1 .. Len(l), NEW n \in m .. Len(l), v = SubSeq(l, m, n)
      PROVE  v \in Values(s)
  <2>1. SubSeq(SubSeq(s, x, y), m, n) = SubSeq(s, x + m - 1, x + n - 1)
    BY <1>0, PartOfPart
  <2>2. x + m - 1 \in 1 .. Len(s) /\ x + n - 1 \in 1 .. Len(s)
    BY <1>0
  <2>. QED BY <1>2, <2>1, <2>2, PartIsValue
<1>3. v \in Values(s)
  <2>1. CASE i <= j /\ v = SubSeq(l, i, j)
    <3>1. j \in i .. Len(l)
      BY <1>0, <2>1
    <3>. QED BY <1>2, <2>1, <3>1
  <2>2. CASE i < j /\ v = SubSeq(l, i + 1, j - 1)
    <3>1. i + 1 <= j - 1
      <4>. SUFFICES ASSUME j - 1 < i + 1 PROVE FALSE
        BY <1>0
      <4>1. SubSeq(l, i + 1, j - 1) = << >>
        <5>1. i + 1 \in Int /\ j - 1 \in Int
          BY <1>0
        <5>. HIDE DEF l
        <5>. QED BY <5>1, SubSeqEmpty
      <4>. QED BY <2>2, <4>1 DEF FitsInValue
    <3>2. i + 1 \in 1 .. Len(l) /\ j - 1 \in i + 1 .. Len(l)
      BY <1>0, <2>2, <3>1
    <3>. QED BY <1>2, <2>2, <3>2
  <2>. QED BY <1>1, <2>1, <2>2
<1>. QED BY <1>3 DEF Setting

(* A line is read to its end, and the next one starts there.               *)
LEMMA ReadsOneLine ==
  ASSUME NEW s \in Seq(Characters), NEW p \in Nat, p < Len(s),
         ~ TooLong(SubSeq(s, p + 1, Len(s)))
  PROVE  LET u == SubSeq(s, p + 1, Len(s))
             f == Len(Fgets(u))
         IN  /\ f \in Nat /\ p + f \in p + 1 .. Len(s)
             /\ SubSeq(u, f + 1, Len(u)) = SubSeq(s, (p + f) + 1, Len(s))
             /\ p + f = Len(s) \/ (p + f) + 1 \in Starts(s)
             /\ \A i \in Starts(s) : i <= p + f => i <= p + 1
<1>. DEFINE u == SubSeq(s, p + 1, Len(s))
            n == Len(s)
            f == Len(Fgets(u))
<1>0. n \in Nat /\ p < n /\ DOMAIN s = 1 .. n
  BY LenProperties
<1>1. /\ u \in Seq(Characters) /\ Len(u) = n - p
      /\ \A i \in 1 .. n - p : u[i] = s[p + i]
  BY LineOfRest
<1>2. PICK m \in 1 .. Len(u) + 1 : EndsAt(u, m)
  BY LineOfRest
<1>3. /\ m = n - p + 1 \/ u[m] = Newline
      /\ \A i \in 1 .. n - p : u[i] = Newline => m <= i
  <2>. HIDE DEF u
  <2>. QED BY <1>1, <1>2 DEF EndsAt
<1>4. f = IF m = n - p + 1 THEN n - p ELSE m
  <2>. DEFINE g == IF m = Len(u) + 1 THEN Len(u) ELSE m
  <2>1. u # << >>
    <3>. HIDE DEF u
    <3>. QED BY <1>0, <1>1
  <2>2. ~ TooLong(u)
    OBVIOUS
  <2>. HIDE DEF u
  <2>3. Fgets(u) = SubSeq(u, 1, g)
    BY <1>1, <1>2, <2>1, <2>2, FgetsReads
  <2>4. g \in Nat /\ g <= Len(u) /\ 1 <= g + 1 /\ g - 1 + 1 = g
    <3>1. Len(u) \in Nat /\ m \in Nat /\ m <= Len(u) + 1
      BY <1>0, <1>1, <1>2
    <3>2. CASE m = Len(u) + 1
      BY <3>1, <3>2
    <3>3. CASE m # Len(u) + 1
      BY <3>1, <3>3
    <3>. QED BY <3>2, <3>3
  <2>. HIDE DEF g
  <2>5. Len(SubSeq(u, 1, g)) = g - 1 + 1
    BY <1>1, <2>4, Part
  <2>6. f = g
    BY <2>3, <2>4, <2>5
  <2>. QED BY <1>1, <2>6 DEF g
<1>5. /\ f \in Nat /\ f \in 1 .. n - p /\ p + f \in p + 1 .. n
      /\ m \in 1 .. n - p + 1 /\ f <= m
  <2>. HIDE DEF f, u
  <2>1. m \in 1 .. n - p + 1
    BY <1>0, <1>1, <1>2
  <2>2. CASE m = n - p + 1
    BY <1>0, <1>4, <2>1, <2>2
  <2>3. CASE m # n - p + 1
    <3>1. f = m
      BY <1>4, <2>3
    <3>. QED BY <1>0, <2>1, <2>3, <3>1
  <2>. QED BY <2>2, <2>3
<1>. HIDE DEF f
<1>6. SubSeq(u, f + 1, Len(u)) = SubSeq(s, (p + f) + 1, n)
  <2>. DEFINE x == p + 1
              a == f + 1
              b == n - p
  <2>1. /\ x \in Nat \ {0} /\ n \in Nat /\ n <= Len(s) /\ x <= n + 1
        /\ a \in Nat \ {0} /\ b \in Nat /\ b <= n - x + 1 /\ a <= b + 1
        /\ x + a - 1 = (p + f) + 1 /\ x + b - 1 = n
    BY <1>0, <1>5
  <2>2. b = Len(u)
    BY <1>1
  <2>. HIDE DEF x, a, b
  <2>3. SubSeq(SubSeq(s, x, n), a, b) = SubSeq(s, x + a - 1, x + b - 1)
    BY <2>1, PartOfPart
  <2>4. SubSeq(SubSeq(s, x, n), a, b) = SubSeq(s, (p + f) + 1, n)
    BY <2>1, <2>3
  <2>. QED BY <2>2, <2>4 DEF x, a
<1>. HIDE DEF u
<1>7. p + f = n \/ (p + f) + 1 \in Starts(s)
  <2>1. CASE m = n - p + 1
    BY <1>0, <1>4, <2>1
  <2>2. CASE m # n - p + 1
    <3>1. f = m /\ u[f] = Newline
      BY <1>3, <1>4, <2>2
    <3>2. p + f \in 1 .. n /\ s[p + f] = Newline
      BY <1>0, <1>1, <1>5, <3>1
    <3>. QED BY <1>0, <3>2 DEF Starts, Newlines
  <2>. QED BY <2>1, <2>2
<1>8. ASSUME NEW i \in Starts(s), i <= p + f PROVE i <= p + 1
  <2>1. CASE i = 1
    BY <2>1
  <2>2. CASE i # 1
    <3>1. PICK j \in 1 .. n : s[j] = Newline /\ i = j + 1
      BY <1>0, <1>8, <2>2 DEF Starts, Newlines
    <3>2. CASE j <= p
      BY <3>1, <3>2
    <3>3. CASE j > p
      <4>1. j - p \in 1 .. n - p /\ p + (j - p) = j
        BY <1>0, <3>1, <3>3
      <4>2. u[j - p] = Newline
        BY <1>1, <3>1, <4>1
      <4>3. m <= j - p
        BY <1>3, <4>1, <4>2
      <4>. QED BY <1>0, <1>5, <1>8, <3>1, <4>3
    <3>. QED BY <1>0, <3>2, <3>3
  <2>. QED BY <2>1, <2>2
<1>. QED BY <1>5, <1>6, <1>7, <1>8 DEF u, f

(* What is made of a line is what it says.                                 *)
LEMMA ReadsWhatIsWritten ==
  ASSUME NEW s \in Seq(Characters), NEW p \in Nat, p < Len(s)
  PROVE  LET u   == SubSeq(s, p + 1, Len(s))
             res == LineResult(Fgets(u))
         IN  /\ ~ TooLong(u) /\ res.ok =>
                  /\ ValidLine(s, p + 1)
                  /\ IsSetting(res.left) => res.value \in Setting(s, p + 1)
                  /\ ~ IsSetting(res.left) => Setting(s, p + 1) = {}
             /\ TooLong(u) \/ ~ res.ok => ~ ValidLine(s, p + 1)
<1>. DEFINE u   == SubSeq(s, p + 1, Len(s))
            w   == Fgets(u)
            res == LineResult(w)
            l   == LineAt(s, p + 1)
<1>0. /\ Len(s) \in Nat /\ p < Len(s) /\ SizeofBuffer \in Nat
      /\ u \in Seq(Characters) /\ Len(u) = Len(s) - p
  BY LineOfRest, LenProperties, ConfigAssumption
<1>1. PICK m \in 1 .. Len(u) + 1 : EndsAt(u, m) /\ l = SubSeq(u, 1, m - 1)
  BY LineOfRest
<1>2. u # << >>
  <2>. HIDE DEF u
  <2>. QED BY <1>0
<1>3. l = SubSeq(s, p + 1, p + m - 1)
  <2>. DEFINE x == p + 1
              n == Len(s)
              y == m - 1
  <2>1. /\ x \in Nat \ {0} /\ n \in Nat /\ n <= Len(s) /\ x <= n + 1
        /\ y \in Nat /\ y <= n - x + 1 /\ 1 <= y + 1
        /\ x + 1 - 1 = x /\ x + y - 1 = p + m - 1
    <3>. HIDE DEF u
    <3>. QED BY <1>0, <1>1
  <2>. HIDE DEF x, n, y
  <2>2. SubSeq(SubSeq(s, x, n), 1, y) = SubSeq(s, x + 1 - 1, x + y - 1)
    BY <2>1, PartOfPart
  <2>3. SubSeq(SubSeq(s, x, n), 1, y) = SubSeq(s, x, p + m - 1)
    BY <2>1, <2>2
  <2>4. l = SubSeq(SubSeq(s, x, n), 1, y)
    BY <1>1 DEF x, n, y
  <2>. QED BY <2>3, <2>4 DEF x
<1>4. w \in Seq(Characters)
  <2>. HIDE DEF u
  <2>. QED BY <1>0, LineIsText
<1>5. /\ l \in Seq(Characters) /\ Len(l) = m - 1
      /\ m - 1 \in Nat /\ p + m - 1 \in Nat /\ p + m - 1 <= Len(s) /\ p + 1 <= (p + m - 1) + 1
  <2>. HIDE DEF u, l
  <2>1. m - 1 \in Nat /\ m - 1 <= Len(u) /\ 1 <= (m - 1) + 1 /\ (m - 1) - 1 + 1 = m - 1
    BY <1>0, <1>1
  <2>2. SubSeq(u, 1, m - 1) \in Seq(Characters) /\ Len(SubSeq(u, 1, m - 1)) = (m - 1) - 1 + 1
    BY <1>0, <2>1, Part
  <2>. QED BY <1>0, <1>1, <2>1, <2>2
<1>6. TooLong(u) <=> ~ (Len(l) + 1 < SizeofBuffer)
  <2>. HIDE DEF u, l
  <2>1. TooLong(u) <=> m >= SizeofBuffer
    BY <1>0, <1>1, <1>2, FgetsReads
  <2>. QED BY <1>0, <1>1, <1>5, <2>1
<1>7. ASSUME ~ TooLong(u)
      PROVE  (SetsNothing(w) <=> SetsNothing(l)) /\ \A v : Sets(w, v) <=> Sets(l, v)
  <2>. HIDE DEF u, l
  <2>. QED BY <1>0, <1>1, <1>2, <1>7, FgetsSaysTheSame
<1>. HIDE DEF u, w, l
<1>8. ASSUME ~ TooLong(u), Silent(w)
      PROVE  res.ok /\ ~ IsSetting(res.left) /\ SetsNothing(l) /\ Setting(s, p + 1) = {}
  <2>1. SetsNothing(l)
    BY <1>4, <1>7, <1>8, SilentSetsNothing
  <2>2. ASSUME NEW v \in Setting(s, p + 1) PROVE FALSE
    <3>1. Sets(l, v) /\ FitsInValue(v)
      BY <2>2 DEF Setting, l
    <3>2. Sets(w, v)
      BY <1>7, <1>8, <3>1
    <3>. QED BY <1>4, <1>8, <3>1, <3>2, SetsOk
  <2>. QED BY <1>4, <1>8, <2>1, <2>2, SilentIsOk
<1>9. ASSUME ~ TooLong(u), ~ Silent(w), res.ok
      PROVE  IsSetting(res.left) /\ res.value \in Setting(s, p + 1)
  <2>1. IsSetting(res.left) /\ FitsInValue(res.value) /\ Sets(w, res.value)
    BY <1>4, <1>9, OkSets
  <2>. DEFINE v == res.value
  <2>. HIDE DEF v, res
  <2>2. Sets(l, v) /\ FitsInValue(v)
    BY <1>7, <1>9, <2>1 DEF v
  <2>3. v \in Setting(s, p + 1)
    <3>. DEFINE y == p + m - 1
    <3>1. y \in Nat /\ y <= Len(s) /\ p + 1 <= y + 1 /\ p + 1 \in Nat \ {0}
          /\ LineAt(s, p + 1) = SubSeq(s, p + 1, y) /\ Sets(LineAt(s, p + 1), v)
      BY <1>3, <1>5, <2>2 DEF l
    <3>. HIDE DEF y
    <3>. QED BY <2>2, <3>1, SetIsSetting
  <2>. QED BY <2>1, <2>3 DEF v
<1>10. ASSUME ~ TooLong(u), ~ res.ok
       PROVE  ~ SetsNothing(l) /\ Setting(s, p + 1) = {}
  <2>1. ~ Silent(w)
    BY <1>8, <1>10
  <2>2. ~ SetsNothing(l)
    BY <1>4, <1>7, <1>10, <2>1, SilentSetsNothing
  <2>3. ASSUME NEW v \in Setting(s, p + 1) PROVE FALSE
    <3>1. Sets(l, v) /\ FitsInValue(v)
      BY <2>3 DEF Setting, l
    <3>2. Sets(w, v)
      BY <1>7, <1>10, <3>1
    <3>. QED BY <1>4, <1>10, <3>1, <3>2, SetsOk
  <2>. QED BY <2>2, <2>3
<1>11. ValidLine(s, p + 1) <=> ~ TooLong(u) /\ (SetsNothing(l) \/ Setting(s, p + 1) # {})
  BY <1>6 DEF ValidLine, l
<1>. HIDE DEF res
<1>. QED BY <1>8, <1>9, <1>10, <1>11 DEF u, w, res

-----------------------------------------------------------------------------
(* The invariant.                                                          *)

LEMMA ConfigTypeInit == Init => ConfigTypeOK
  BY ConfigAssumption DEF Init, ConfigTypeOK

LEMMA ConfigTypeStep == ConfigTypeOK /\ [Next]_configVars => ConfigTypeOK'
<1>. SUFFICES ASSUME ConfigTypeOK, [Next]_configVars PROVE ConfigTypeOK'
  OBVIOUS
<1>. USE DEF ConfigTypeOK
<1>1. CASE SetDefaults
  BY <1>1, ConfigAssumption DEF SetDefaults, Step
<1>2. CASE SetDefaultsFails \/ InputFails
  BY <1>2 DEF SetDefaultsFails, InputFails, Step, Outcomes
<1>3. CASE Open \/ OpenFindsNothing \/ RejectLine \/ EndOfFile
  BY <1>3 DEF Open, OpenFindsNothing, RejectLine, EndOfFile, Step, Outcomes
<1>4. CASE LoadLine
  <2>. DEFINE line == Fgets(unread)
  <2>1. /\ pc = "loop" /\ UNCHANGED <<pc, contents>>
        /\ LineResult(line).ok
        /\ save_dir' = IF IsSetting(LineResult(line).left) THEN LineResult(line).value
                                                           ELSE save_dir
        /\ unread' = SubSeq(unread, Len(line) + 1, Len(unread))
    BY <1>4, Zenon DEF LoadLine
  <2>2. line \in Seq(Characters) /\ unread' \in Seq(Characters)
    BY <2>1, LineIsText
  <2>. HIDE DEF line
  <2>3. save_dir' \in Seq(Characters) /\ Len(save_dir') < MaxFilePathLen
    <3>1. CASE IsSetting(LineResult(line).left)
      BY <2>1, <2>2, <3>1, ValueFits
    <3>2. CASE ~ IsSetting(LineResult(line).left)
      BY <2>1, <3>2
    <3>. QED BY <3>1, <3>2
  <2>. QED BY <2>1, <2>2, <2>3
<1>5. CASE Done \/ UNCHANGED configVars
  BY <1>5 DEF Done, configVars
<1>. QED BY <1>1, <1>2, <1>3, <1>4, <1>5 DEF Next

(* The types of the configuration: from the defaults on save_dir is a text *)
(* that fits in its array with the final NUL, whatever the file says, and  *)
(* though the result of a line that sets nothing is never written          *)
(* (config.c:117, 165-173).                                                *)
THEOREM ConfigTypeCorrect == Spec => []ConfigTypeOK
  BY ConfigTypeInit, ConfigTypeStep, PTL DEF Spec

-----------------------------------------------------------------------------
(* What is loaded is what is written.                                      *)

(* The first p characters are read: they are whole lines, all of them      *)
(* valid, and the last of them that sets something has set save_dir.       *)
ReadUpTo(p) ==
  /\ unread = SubSeq(contents, p + 1, Len(contents))
  /\ p = Len(contents) \/ p + 1 \in Starts(contents)
  /\ \A i \in Starts(contents) : i <= p => ValidLine(contents, i)
  /\ \/ /\ save_dir \in DefaultDirs
        /\ \A i \in Starts(contents) : i <= p => Setting(contents, i) = {}
     \/ \E i \in Starts(contents) :
          /\ i <= p
          /\ save_dir \in Setting(contents, i)
          /\ \A j \in Starts(contents) : i < j /\ j <= p => Setting(contents, j) = {}

(* The inductive invariant: the two promises about what comes out say      *)
(* nothing while the file is read, so it says how far the reading is.      *)
ReadingInv ==
  /\ pc = "defaults" => unread = contents
  /\ pc \in {"open", "loop"} => \E p \in 0 .. Len(contents) : ReadUpTo(p)
  /\ LoadsWhatIsWritten
  /\ RejectsOnlyInvalid

LEMMA StartsOfText ==
  ASSUME NEW s \in Seq(Characters)
  PROVE  1 \in Starts(s) /\ Starts(s) \subseteq 1 .. Len(s) + 1
<1>1. Newlines(s) \subseteq 1 .. Len(s) /\ Len(s) \in Nat
  BY LenProperties DEF Newlines
<1>. QED BY <1>1 DEF Starts

(* Past the last newline of a file there is a line that says nothing.      *)
LEMMA LastLineIsEmpty ==
  ASSUME NEW s \in Seq(Characters)
  PROVE  ValidLine(s, Len(s) + 1) /\ Setting(s, Len(s) + 1) = {}
<1>. DEFINE n == Len(s)
<1>0. n \in Nat /\ SizeofBuffer > 1 /\ SizeofBuffer \in Nat
  BY LenProperties, ConfigAssumption
<1>1. LineAt(s, n + 1) = << >>
  <2>. DEFINE ends == { j \in n + 1 .. n : s[j] = Newline } \cup {n + 1}
  <2>1. ends \subseteq Nat /\ n + 1 \in ends /\ \A j \in ends : n + 1 <= j
    BY <1>0
  <2>2. Min(ends) = n + 1
    <3>. HIDE DEF ends
    <3>. QED BY <2>1, MinIs
  <2>3. LineAt(s, n + 1) = SubSeq(s, n + 1, (n + 1) - 1)
    BY <2>2, Zenon DEF LineAt
  <2>4. n + 1 \in Int /\ (n + 1) - 1 \in Int /\ (n + 1) - 1 < n + 1
    BY <1>0
  <2>. QED BY <2>3, <2>4, SubSeqEmpty
<1>2. Len(<< >>) = 0 /\ 1 .. 0 = {}
  OBVIOUS
<1>3. SetsNothing(<< >>)
  BY <1>2 DEF SetsNothing, BlankBetween
<1>4. \A v : ~ Sets(<< >>, v)
  BY <1>2 DEF Sets
<1>5. Setting(s, n + 1) = {}
  BY <1>1, <1>4 DEF Setting
<1>. QED BY <1>0, <1>1, <1>2, <1>3, <1>5 DEF ValidLine

(* At the end of the file every line is read.                              *)
LEMMA AllIsRead ==
  ASSUME contents \in Seq(Characters), ReadUpTo(Len(contents))
  PROVE  LET setting == { i \in Starts(contents) : Setting(contents, i) # {} }
         IN  /\ \A i \in Starts(contents) : ValidLine(contents, i)
             /\ save_dir \in IF setting = {} THEN DefaultDirs
                                             ELSE Setting(contents, Max(setting))
<1>. DEFINE n       == Len(contents)
            setting == { i \in Starts(contents) : Setting(contents, i) # {} }
<1>0. /\ n \in Nat /\ Starts(contents) \subseteq 1 .. n + 1
      /\ ValidLine(contents, n + 1) /\ Setting(contents, n + 1) = {}
      /\ \A i \in Starts(contents) : i <= n \/ i = n + 1
  <2>1. Starts(contents) \subseteq 1 .. n + 1 /\ n \in Nat
    BY StartsOfText, LenProperties
  <2>2. \A i \in 1 .. n + 1 : i <= n \/ i = n + 1
    BY <2>1
  <2>. QED BY <2>1, <2>2, LastLineIsEmpty
<1>1. /\ \A i \in Starts(contents) : i <= n => ValidLine(contents, i)
      /\ \/ /\ save_dir \in DefaultDirs
            /\ \A i \in Starts(contents) : i <= n => Setting(contents, i) = {}
         \/ \E i \in Starts(contents) :
              /\ i <= n
              /\ save_dir \in Setting(contents, i)
              /\ \A j \in Starts(contents) : i < j /\ j <= n => Setting(contents, j) = {}
  BY DEF ReadUpTo
<1>. HIDE DEF n
<1>2. \A i \in Starts(contents) : ValidLine(contents, i)
  BY <1>0, <1>1
<1>3. CASE /\ save_dir \in DefaultDirs
           /\ \A i \in Starts(contents) : i <= n => Setting(contents, i) = {}
  <2>1. setting = {}
    BY <1>0, <1>3
  <2>. QED BY <1>2, <1>3, <2>1
<1>4. ASSUME NEW i \in Starts(contents), i <= n, save_dir \in Setting(contents, i),
             \A j \in Starts(contents) : i < j /\ j <= n => Setting(contents, j) = {}
      PROVE  setting # {} /\ save_dir \in Setting(contents, Max(setting))
  <2>1. i \in setting
    BY <1>4
  <2>2. setting \subseteq 1 .. n + 1 /\ n + 1 \in Nat
    BY <1>0
  <2>3. \A j \in setting : j <= i
    <3>. SUFFICES ASSUME NEW j \in setting, i < j PROVE FALSE
      BY <2>1, <2>2
    <3>1. j \in Starts(contents) /\ Setting(contents, j) # {}
      OBVIOUS
    <3>. QED BY <1>0, <1>4, <3>1
  <2>. HIDE DEF setting
  <2>4. Max(setting) \in setting /\ \A j \in setting : j <= Max(setting)
    BY <2>1, <2>2, MaxIsGreatest
  <2>. DEFINE m == Max(setting)
  <2>. HIDE DEF m
  <2>5. m \in setting /\ i <= m /\ m <= i
    BY <2>1, <2>3, <2>4 DEF m
  <2>6. m = i
    BY <2>1, <2>2, <2>5
  <2>. QED BY <1>4, <2>1, <2>6 DEF m
<1>. QED BY <1>1, <1>2, <1>3, <1>4

(* A turn of the loop reads one more line.                                 *)
LEMMA LineIsRead ==
  ASSUME ConfigTypeOK, NEW p \in 0 .. Len(contents), ReadUpTo(p), LoadLine
  PROVE  \E q \in 0 .. Len(contents) : ReadUpTo(q)'
<1>. DEFINE f   == Len(Fgets(unread))
            res == LineResult(Fgets(unread))
<1>0. contents \in Seq(Characters) /\ Len(contents) \in Nat
  BY ConfigAssumption, LenProperties DEF ConfigTypeOK
<1>1. /\ unread # << >> /\ ~ TooLong(unread) /\ res.ok
      /\ save_dir' = IF IsSetting(res.left) THEN res.value ELSE save_dir
      /\ unread' = SubSeq(unread, f + 1, Len(unread))
      /\ contents' = contents
  BY Zenon DEF LoadLine
<1>2. /\ unread = SubSeq(contents, p + 1, Len(contents))
      /\ p = Len(contents) \/ p + 1 \in Starts(contents)
  BY DEF ReadUpTo
<1>3. p \in Nat /\ p < Len(contents)
  <2>1. p # Len(contents)
    <3>. SUFFICES ASSUME p = Len(contents) PROVE FALSE
      OBVIOUS
    <3>1. p + 1 \in Int /\ Len(contents) \in Int /\ Len(contents) < p + 1
      BY <1>0
    <3>2. SubSeq(contents, p + 1, Len(contents)) = << >>
      BY <3>1, SubSeqEmpty
    <3>. QED BY <1>1, <1>2, <3>2
  <2>. QED BY <1>0, <2>1
<1>4. PICK q \in p + 1 .. Len(contents) :
        /\ unread' = SubSeq(contents, q + 1, Len(contents))
        /\ q = Len(contents) \/ q + 1 \in Starts(contents)
        /\ \A i \in Starts(contents) : i <= q => i <= p + 1
  BY <1>0, <1>1, <1>2, <1>3, ReadsOneLine, Zenon
<1>5. /\ ValidLine(contents, p + 1)
      /\ IsSetting(res.left) => res.value \in Setting(contents, p + 1)
      /\ ~ IsSetting(res.left) => Setting(contents, p + 1) = {}
  BY <1>0, <1>1, <1>2, <1>3, ReadsWhatIsWritten, Zenon
<1>. HIDE DEF f, res
<1>6. p + 1 \in Starts(contents) /\ Starts(contents) \subseteq Nat
  BY <1>0, <1>2, <1>3, StartsOfText
<1>7. \A i \in Starts(contents) : i <= q => i <= p \/ i = p + 1
  BY <1>3, <1>4, <1>6
<1>8. \A i \in Starts(contents) : i <= q => ValidLine(contents, i)
  BY <1>5, <1>7 DEF ReadUpTo
<1>9. \/ /\ save_dir' \in DefaultDirs
         /\ \A i \in Starts(contents) : i <= q => Setting(contents, i) = {}
      \/ \E i \in Starts(contents) :
           /\ i <= q
           /\ save_dir' \in Setting(contents, i)
           /\ \A j \in Starts(contents) : i < j /\ j <= q => Setting(contents, j) = {}
  <2>1. CASE IsSetting(res.left)
    <3>1. save_dir' \in Setting(contents, p + 1)
      BY <1>1, <1>5, <2>1
    <3>2. p + 1 <= q
      BY <1>0, <1>3, <1>4
    <3>3. \A j \in Starts(contents) : ~ (p + 1 < j /\ j <= q)
      BY <1>3, <1>4, <1>6, <1>7
    <3>. QED BY <1>6, <3>1, <3>2, <3>3
  <2>2. CASE ~ IsSetting(res.left)
    <3>1. save_dir' = save_dir /\ Setting(contents, p + 1) = {}
      BY <1>1, <1>5, <2>2
    <3>2. CASE /\ save_dir \in DefaultDirs
               /\ \A i \in Starts(contents) : i <= p => Setting(contents, i) = {}
      BY <1>7, <3>1, <3>2
    <3>3. ASSUME NEW i \in Starts(contents), i <= p, save_dir \in Setting(contents, i),
                 \A j \in Starts(contents) : i < j /\ j <= p => Setting(contents, j) = {}
          PROVE  /\ i <= q
                 /\ save_dir' \in Setting(contents, i)
                 /\ \A j \in Starts(contents) : i < j /\ j <= q => Setting(contents, j) = {}
      <4>1. i <= q
        BY <1>0, <1>3, <1>4, <1>6, <3>3
      <4>. QED BY <1>7, <3>1, <3>3, <4>1
    <3>. QED BY <3>2, <3>3 DEF ReadUpTo
  <2>. QED BY <2>1, <2>2
<1>10. q \in 0 .. Len(contents)
  BY <1>0, <1>3, <1>4
<1>11. ReadUpTo(q)'
  BY <1>1, <1>4, <1>8, <1>9 DEF ReadUpTo
<1>. QED BY <1>10, <1>11

LEMMA ReadingInit == Init => ReadingInv
  BY DEF Init, ReadingInv, LoadsWhatIsWritten, RejectsOnlyInvalid

LEMMA ReadingStep == ConfigTypeOK /\ ReadingInv /\ [Next]_configVars => ReadingInv'
<1>. SUFFICES ASSUME ConfigTypeOK, ReadingInv, [Next]_configVars PROVE ReadingInv'
  OBVIOUS
<1>0. contents \in Seq(Characters) /\ Len(contents) \in Nat
  BY ConfigAssumption, LenProperties DEF ConfigTypeOK
<1>1. CASE SetDefaults
  <2>1. /\ pc = "defaults" /\ pc' = "open" /\ save_dir' \in DefaultDirs
        /\ UNCHANGED <<contents, unread>> /\ unread = contents
    BY <1>1 DEF SetDefaults, Step, ReadingInv
  <2>2. SubSeq(contents, 0 + 1, Len(contents)) = contents
    BY <1>0, SubSeqFull
  <2>3. 0 + 1 \in Starts(contents) /\ \A i \in Starts(contents) : ~ (i <= 0)
    BY <1>0, StartsOfText
  <2>4. ReadUpTo(0)'
    BY <2>1, <2>2, <2>3 DEF ReadUpTo
  <2>5. 0 \in 0 .. Len(contents')
    BY <1>0, <2>1
  <2>. QED BY <2>1, <2>4, <2>5 DEF ReadingInv, LoadsWhatIsWritten, RejectsOnlyInvalid
<1>2. CASE SetDefaultsFails \/ InputFails
  BY <1>2
  DEF SetDefaultsFails, InputFails, Step, ReadingInv, LoadsWhatIsWritten, RejectsOnlyInvalid
<1>3. CASE Open
  <2>1. pc = "open" /\ pc' = "loop" /\ UNCHANGED <<contents, unread, save_dir>>
    BY <1>3 DEF Open, Step
  <2>2. PICK p \in 0 .. Len(contents) : ReadUpTo(p)
    BY <2>1 DEF ReadingInv
  <2>3. ReadUpTo(p)'
    BY <2>1, <2>2 DEF ReadUpTo
  <2>. QED BY <2>1, <2>3 DEF ReadingInv, LoadsWhatIsWritten, RejectsOnlyInvalid
<1>4. CASE OpenFindsNothing \/ EndOfFile
  <2>1. /\ pc \in {"open", "loop"} /\ pc' = "loaded"
        /\ UNCHANGED <<contents, unread, save_dir>>
        /\ contents = << >> \/ unread = << >>
    BY <1>4 DEF OpenFindsNothing, EndOfFile, Step
  <2>2. PICK p \in 0 .. Len(contents) : ReadUpTo(p)
    BY <2>1 DEF ReadingInv
  <2>3. p = Len(contents)
    <3>1. CASE contents = << >>
      BY <2>2, <3>1
    <3>2. CASE unread = << >>
      <4>1. unread = SubSeq(contents, p + 1, Len(contents))
        BY <2>2 DEF ReadUpTo
      <4>2. p + 1 \in Nat \ {0} /\ p + 1 <= Len(contents) + 1 /\ Len(contents) <= Len(contents)
        BY <1>0, <2>2
      <4>3. Len(SubSeq(contents, p + 1, Len(contents))) = Len(contents) - (p + 1) + 1
        BY <1>0, <4>2, Part
      <4>4. Len(contents) - (p + 1) + 1 = 0
        <5>1. SubSeq(contents, p + 1, Len(contents)) = << >> /\ Len(<< >>) = 0
          BY <3>2, <4>1
        <5>. QED BY <4>3, <5>1
      <4>. QED BY <1>0, <2>2, <4>4
    <3>. QED BY <2>1, <3>1, <3>2
  <2>4. ReadUpTo(Len(contents))
    BY <2>2, <2>3
  <2>5. LoadsWhatIsWritten'
    <3>1. LET setting == { i \in Starts(contents) : Setting(contents, i) # {} }
          IN  /\ \A i \in Starts(contents) : ValidLine(contents, i)
              /\ save_dir \in IF setting = {} THEN DefaultDirs
                                              ELSE Setting(contents, Max(setting))
      BY <1>0, <2>4, AllIsRead
    <3>. QED BY <2>1, <3>1 DEF LoadsWhatIsWritten
  <2>. QED BY <2>1, <2>5 DEF ReadingInv, RejectsOnlyInvalid
<1>5. CASE LoadLine
  <2>1. pc = "loop" /\ pc' = pc /\ contents' = contents
    BY <1>5, Zenon DEF LoadLine
  <2>2. PICK p \in 0 .. Len(contents) : ReadUpTo(p)
    BY <2>1 DEF ReadingInv
  <2>3. \E q \in 0 .. Len(contents) : ReadUpTo(q)'
    BY <1>5, <2>2, LineIsRead
  <2>. QED BY <2>1, <2>3 DEF ReadingInv, LoadsWhatIsWritten, RejectsOnlyInvalid
<1>6. CASE RejectLine
  <2>1. /\ pc = "loop" /\ pc' = "invalid" /\ UNCHANGED <<contents, unread, save_dir>>
        /\ unread # << >> /\ (TooLong(unread) \/ ~ LineResult(Fgets(unread)).ok)
    BY <1>6 DEF RejectLine, Step
  <2>2. PICK p \in 0 .. Len(contents) : ReadUpTo(p)
    BY <2>1 DEF ReadingInv
  <2>3. /\ unread = SubSeq(contents, p + 1, Len(contents))
        /\ p = Len(contents) \/ p + 1 \in Starts(contents)
    BY <2>2 DEF ReadUpTo
  <2>4. p \in Nat /\ p < Len(contents)
    <3>1. p # Len(contents)
      <4>. SUFFICES ASSUME p = Len(contents) PROVE FALSE
        OBVIOUS
      <4>1. p + 1 \in Int /\ Len(contents) \in Int /\ Len(contents) < p + 1
        BY <1>0
      <4>2. SubSeq(contents, p + 1, Len(contents)) = << >>
        BY <4>1, SubSeqEmpty
      <4>. QED BY <2>1, <2>3, <4>2
    <3>. QED BY <1>0, <3>1
  <2>5. p + 1 \in Starts(contents)
    BY <2>3, <2>4
  <2>6. ~ ValidLine(contents, p + 1)
    BY <1>0, <2>1, <2>3, <2>4, ReadsWhatIsWritten, Zenon
  <2>. QED BY <2>1, <2>5, <2>6 DEF ReadingInv, LoadsWhatIsWritten, RejectsOnlyInvalid
<1>7. CASE Done \/ UNCHANGED configVars
  <2>1. UNCHANGED configVars
    BY <1>7 DEF Done
  <2>. QED BY <2>1
       DEF configVars, ReadingInv, ReadUpTo, LoadsWhatIsWritten, RejectsOnlyInvalid
<1>. QED BY <1>1, <1>2, <1>3, <1>4, <1>5, <1>6, <1>7 DEF Next

LEMMA ReadingCorrect == Spec => []ReadingInv
  BY ReadingInit, ReadingStep, ConfigTypeCorrect, PTL DEF Spec

(* A file of any length that is loaded is valid in every line, and the     *)
(* directory is what its last line that sets one says, or the default,     *)
(* though the lines are cut in place and looked at twice                   *)
(* (config.c:63-110, 157-173).                                             *)
THEOREM LoadedIsWritten == Spec => []LoadsWhatIsWritten
<1>1. ReadingInv => LoadsWhatIsWritten
  BY DEF ReadingInv
<1>. QED BY <1>1, ReadingCorrect, PTL

(* A file is rejected only for a line that is not valid, in particular     *)
(* never for a last line without a newline (config.c:157-168).             *)
THEOREM RejectedIsInvalid == Spec => []RejectsOnlyInvalid
<1>1. ReadingInv => RejectsOnlyInvalid
  BY DEF ReadingInv
<1>. QED BY <1>1, ReadingCorrect, PTL
=============================================================================
