------------------------------ MODULE AppProofs ------------------------------
(* Proofs about the input handlers and exit checks of App. *)
EXTENDS App, FiniteSetTheorems, TLAPS

(* Characters typed are characters. *)
LEMMA CharOfTexts ==
  ASSUME NEW t \in Texts
  PROVE  t \in Seq(Char)
  <1>1. t \in Seq(Nat)
    BY ConstantsAssumption
  <1>2. \A i \in 1 .. Len(t) : t[i] \in Char
    BY DEF Char
  <1>. QED
    BY <1>1, <1>2

LEMMA EmptyIsText == << >> \in Seq(Char)
  OBVIOUS

(* Inserting typed text keeps a text a sequence of characters. *)
LEMMA InsertedIsText ==
  ASSUME NEW S, NEW s \in Seq(S), NEW t \in Seq(S), NEW u \in Inserted(s, t)
  PROVE  u \in Seq(S)
  <1>1. PICK i \in 0 .. Len(s) : u = SubSeq(s, 1, i) \o t \o SubSeq(s, i + 1, Len(s))
    BY DEF Inserted
  <1>2. SubSeq(s, 1, i) \in Seq(S) /\ SubSeq(s, i + 1, Len(s)) \in Seq(S)
    OBVIOUS
  <1>. QED
    BY <1>1, <1>2

(* So does erasing. *)
LEMMA ErasedIsText ==
  ASSUME NEW S, NEW s \in Seq(S), NEW u \in Erased(s)
  PROVE  u \in Seq(S)
  <1>1. PICK c \in (0 .. Len(s)) \X (0 .. Len(s)) :
          u = SubSeq(s, 1, c[1]) \o SubSeq(s, c[2] + 1, Len(s))
    BY DEF Erased
  <1>2. SubSeq(s, 1, c[1]) \in Seq(S) /\ SubSeq(s, c[2] + 1, Len(s)) \in Seq(S)
    OBVIOUS
  <1>. QED
    BY <1>1, <1>2

(* A number read from a prompt is a target, or -1. *)
LEMMA NumberIsTarget ==
  ASSUME NEW p, NumberInTextBuffer(p) # -1
  PROVE  NumberInTextBuffer(p) \in Target
  BY DEF NumberInTextBuffer

-----------------------------------------------------------------------------
(* Every handler keeps the type invariant. *)
LEMMA InsertTextType ==
  ASSUME AppTypeOK, NEW t \in Seq(Char), InsertText(t)
  PROVE  AppTypeOK'
  <1>1. ActiveText \in Seq(Char)
    BY DEF ActiveText, AppTypeOK
  <1>2. Inserted(ActiveText, t) \subseteq Seq(Char)
    BY <1>1, InsertedIsText
  <1>. QED
    BY <1>2 DEF InsertText, EditActiveText, AppTypeOK

LEMMA BackspaceType ==
  ASSUME AppTypeOK, Backspace
  PROVE  AppTypeOK'
  <1>1. ActiveText \in Seq(Char)
    BY DEF ActiveText, AppTypeOK
  <1>2. Erased(ActiveText) \subseteq Seq(Char)
    BY <1>1, ErasedIsText
  <1>. QED
    BY <1>2 DEF Backspace, EditActiveText, AppTypeOK

LEMMA HandleEnterType ==
  ASSUME AppTypeOK, HandleEnter
  PROVE  AppTypeOK'
  <1>. USE DEF AppTypeOK, Phase, StartConfiguration, Normal, Finished
  <1>1. CASE phase = StartConfiguration
    <2>1. HandleConfigurationPhaseEnter /\ UNCHANGED document
      BY <1>1 DEF HandleEnter
    <2>. QED
      BY <2>1, NumberIsTarget, EmptyIsText DEF HandleConfigurationPhaseEnter
  <1>2. CASE phase = Normal
    <2>1. InsertText(<<NewLine>>)
      BY <1>2 DEF HandleEnter
    <2>2. <<NewLine>> \in Seq(Char)
      BY DEF Char
    <2>. QED
      BY <2>1, <2>2, InsertTextType
  <1>3. CASE phase = Finished
    <2>1. HandleFinishPhaseEnter /\ UNCHANGED document
      BY <1>3 DEF HandleEnter
    <2>. QED
      BY <2>1, NumberIsTarget, EmptyIsText DEF HandleFinishPhaseEnter
  <1>. QED
    BY <1>1, <1>2, <1>3

LEMMA HandleInputType ==
  ASSUME AppTypeOK, HandleInput
  PROVE  AppTypeOK'
  <1>1. CASE HandleCtrlQ
    BY <1>1 DEF HandleCtrlQ, AppTypeOK
  <1>2. CASE HandleEnter
    BY <1>2, HandleEnterType
  <1>3. ASSUME NEW t \in Texts, InsertText(t)
        PROVE  AppTypeOK'
    BY <1>3, CharOfTexts, InsertTextType
  <1>4. CASE Backspace
    BY <1>4, BackspaceType
  <1>5. CASE UNCHANGED appVars
    BY <1>5 DEF appVars, AppTypeOK
  <1>. QED
    BY <1>1, <1>2, <1>3, <1>4, <1>5 DEF HandleInput

(* So do the exit checks. *)
LEMMA ExitCheckType ==
  ASSUME AppTypeOK, HandleNormalPhaseExitCheck \/ TakeQuitRequest
  PROVE  AppTypeOK'
  BY DEF AppTypeOK, HandleNormalPhaseExitCheck, TakeQuitRequest, Phase,
         StartConfiguration, Normal, Finished

LEMMA AppInitType == AppInit => AppTypeOK
  <1>. SUFFICES ASSUME AppInit PROVE AppTypeOK
    OBVIOUS
  <1>1. << >> \in Seq(Char)
    OBVIOUS
  <1>2. 0 \in Target
    BY ConstantsAssumption DEF Target
  <1>. QED
    BY <1>1, <1>2 DEF AppInit, AppTypeOK, Phase

(* The state of the application always has its types: in particular the    *)
(* target is one that number_in_text_buffer accepts (app.c:147-200).       *)
THEOREM AppTypeCorrect == AppSpec => []AppTypeOK
  <1>1. AppTypeOK /\ [AppNext]_appVars => AppTypeOK'
    <2>. SUFFICES ASSUME AppTypeOK, [AppNext]_appVars PROVE AppTypeOK'
      OBVIOUS
    <2>1. CASE HandleInput
      BY <2>1, HandleInputType
    <2>2. CASE HandleNormalPhaseExitCheck \/ TakeQuitRequest
      BY <2>2, ExitCheckType
    <2>3. CASE UNCHANGED appVars
      BY <2>3 DEF appVars, AppTypeOK
    <2>. QED
      BY <2>1, <2>2, <2>3 DEF AppNext
  <1>. QED
    BY <1>1, AppInitType, PTL DEF AppSpec

-----------------------------------------------------------------------------
(* What has to hold in each phase: the congratulations are earned, and the *)
(* prompt is empty while the user writes.                                  *)
PhaseInv == EarnedFinish /\ PromptFreshInNormal

LEMMA HandleEnterKeepsPhaseInv ==
  ASSUME PhaseInv, HandleEnter
  PROVE  PhaseInv'
  <1>. USE DEF PhaseInv, EarnedFinish, PromptFreshInNormal, StartConfiguration,
           Normal, Finished
  <1>1. CASE phase = StartConfiguration
    BY <1>1 DEF HandleEnter, HandleConfigurationPhaseEnter
  <1>2. CASE phase = Normal
    BY <1>2 DEF HandleEnter, InsertText, EditActiveText
  <1>3. CASE phase = Finished
    BY <1>3 DEF HandleEnter, HandleFinishPhaseEnter
  <1>. QED
    BY <1>1, <1>2, <1>3 DEF HandleEnter

LEMMA HandleInputKeepsPhaseInv ==
  ASSUME PhaseInv, HandleInput
  PROVE  PhaseInv'
  <1>. USE DEF PhaseInv, EarnedFinish, PromptFreshInNormal, Normal, Finished
  <1>1. CASE HandleCtrlQ \/ UNCHANGED appVars
    BY <1>1 DEF HandleCtrlQ, appVars
  <1>2. CASE HandleEnter
    BY <1>2, HandleEnterKeepsPhaseInv
  <1>3. ASSUME NEW t \in Texts, InsertText(t)
        PROVE  PhaseInv'
    BY <1>3 DEF InsertText, EditActiveText
  <1>4. CASE Backspace
    BY <1>4 DEF Backspace, EditActiveText
  <1>. QED
    BY <1>1, <1>2, <1>3, <1>4 DEF HandleInput

LEMMA ExitCheckKeepsPhaseInv ==
  ASSUME PhaseInv, HandleNormalPhaseExitCheck \/ TakeQuitRequest
  PROVE  PhaseInv'
  BY DEF PhaseInv, EarnedFinish, PromptFreshInNormal, HandleNormalPhaseExitCheck,
         TakeQuitRequest, NormalPhaseExitConditionFulfilled, Normal, Finished

LEMMA PhaseInvAlways == AppSpec => []PhaseInv
  <1>1. AppInit => PhaseInv
    BY DEF AppInit, PhaseInv, EarnedFinish, PromptFreshInNormal,
           StartConfiguration, Normal, Finished
  <1>2. PhaseInv /\ [AppNext]_appVars => PhaseInv'
    <2>. SUFFICES ASSUME PhaseInv, [AppNext]_appVars PROVE PhaseInv'
      OBVIOUS
    <2>1. CASE HandleInput
      BY <2>1, HandleInputKeepsPhaseInv
    <2>2. CASE HandleNormalPhaseExitCheck \/ TakeQuitRequest
      BY <2>2, ExitCheckKeepsPhaseInv
    <2>3. CASE UNCHANGED appVars
      BY <2>3 DEF appVars, PhaseInv, EarnedFinish, PromptFreshInNormal
    <2>. QED
      BY <2>1, <2>2, <2>3 DEF AppNext
  <1>. QED
    BY <1>1, <1>2, PTL DEF AppSpec

(* The congratulations screen is only ever shown to a user whose document  *)
(* has the words that were asked for (app.c:125-135).                      *)
THEOREM FinishIsEarned == AppSpec => []EarnedFinish
  <1>1. PhaseInv => EarnedFinish
    BY DEF PhaseInv
  <1>. QED
    BY <1>1, PhaseInvAlways, PTL

(* While the user writes the prompt is empty (app.c:186, 198).             *)
THEOREM PromptIsFresh == AppSpec => []PromptFreshInNormal
  <1>1. PhaseInv => PromptFreshInNormal
    BY DEF PhaseInv
  <1>. QED
    BY <1>1, PhaseInvAlways, PTL

-----------------------------------------------------------------------------
(* The label of the word counter. *)

(* A text of n characters has at most (n + 1) / 2 words: between any two   *)
(* starts of words there is a space.                                       *)
LEMMA WordsNeedSpace ==
  ASSUME NEW s, Len(s) \in Nat
  PROVE  /\ WordCount(s) \in Nat
         /\ 2 * WordCount(s) <= Len(s) + 1
  <1>. DEFINE W == WordStarts(s)
              V == { i + 1 : i \in W }
              f == [i \in W |-> i + 1]
  <1>1. W \subseteq 1 .. Len(s)
    BY DEF WordStarts
  <1>2. V \subseteq 1 .. Len(s) + 1 /\ W \subseteq 1 .. Len(s) + 1
    BY <1>1
  <1>3. W \cap V = {}
    <2>1. ASSUME NEW i \in W PROVE i + 1 \notin W
      <3>1. ~IsSpace(s[i]) /\ i + 1 # 1 /\ (i + 1) - 1 = i
        BY <1>1 DEF WordStarts
      <3>. QED
        BY <3>1 DEF WordStarts
    <2>. HIDE DEF W
    <2>. QED
      BY <2>1
  <1>. HIDE DEF W
  <1>4. IsFiniteSet(1 .. Len(s) + 1) /\ Cardinality(1 .. Len(s) + 1) = Len(s) + 1
    BY FS_Interval
  <1>5. IsFiniteSet(W) /\ Cardinality(W) \in Nat
    BY <1>2, <1>4, FS_Subset, FS_CardinalityType
  <1>6. IsFiniteSet(V) /\ Cardinality(V) = Cardinality(W)
    <2>1. f \in Bijection(W, V)
      <3>1. f \in [W -> V]
        OBVIOUS
      <3>2. \A v \in V : \E i \in W : f[i] = v
        OBVIOUS
      <3>3. \A i, j \in W : f[i] = f[j] => i = j
        <4>1. \A i, j \in Int : i + 1 = j + 1 => i = j
          OBVIOUS
        <4>2. W \subseteq Int
          BY <1>1
        <4>. QED
          BY <4>1, <4>2
      <3>. HIDE DEF f, V
      <3>. QED
        BY <3>1, <3>2, <3>3 DEF Bijection, Injection, Surjection, IsInjective
    <2>2. ExistsBijection(W, V)
      BY <2>1 DEF ExistsBijection
    <2>. HIDE DEF V
    <2>. QED
      BY <1>5, <2>2, FS_Bijection
  <1>7. Cardinality(W \cup V) = Cardinality(W) + Cardinality(W)
    <2>. HIDE DEF V
    <2>1. Cardinality(W \cup V)
            = Cardinality(W) + Cardinality(V) - Cardinality(W \cap V)
      BY <1>5, <1>6, FS_Union
    <2>2. Cardinality(W \cap V) = 0
      BY <1>3, FS_EmptySet
    <2>. QED
      BY <1>5, <1>6, <2>1, <2>2
  <1>8. Cardinality(W \cup V) <= Len(s) + 1
    <2>1. W \cup V \in SUBSET (1 .. Len(s) + 1)
      BY <1>2
    <2>. HIDE DEF V
    <2>. QED
      BY <1>4, <2>1, FS_Subset
  <1>. QED
    BY <1>5, <1>7, <1>8 DEF WordCount, W

(* S has at most k elements. *)
AtMost(S, k) == IsFiniteSet(S) /\ Cardinality(S) <= k

LEMMA OneMore ==
  ASSUME NEW S, IsFiniteSet(S), NEW x
  PROVE  /\ IsFiniteSet(S \cup {x})
         /\ Cardinality(S) \in Nat /\ Cardinality(S \cup {x}) \in Nat
         /\ Cardinality(S \cup {x}) <= Cardinality(S) + 1
  BY FS_AddElement, FS_CardinalityType

LEMMA FewElements ==
  /\ \A x : AtMost({x}, 1)
  /\ \A S, x : AtMost(S, 1) => AtMost(S \cup {x}, 2)
  /\ \A S, x : AtMost(S, 2) => AtMost(S \cup {x}, 3)
  /\ \A S, x : AtMost(S, 3) => AtMost(S \cup {x}, 4)
  /\ \A S, x : AtMost(S, 4) => AtMost(S \cup {x}, 5)
  <1>1. ASSUME NEW x PROVE AtMost({x}, 1)
    <2>1. IsFiniteSet({x}) /\ Cardinality({x}) = 1
      BY FS_Singleton, Zenon
    <2>. QED
      BY <2>1 DEF AtMost
  <1>2. ASSUME NEW k \in Nat, NEW S, AtMost(S, k), NEW x
        PROVE  AtMost(S \cup {x}, k + 1)
    <2>1. IsFiniteSet(S) /\ Cardinality(S) <= k
      BY <1>2 DEF AtMost
    <2>2. /\ IsFiniteSet(S \cup {x})
          /\ Cardinality(S) \in Nat /\ Cardinality(S \cup {x}) \in Nat
          /\ Cardinality(S \cup {x}) <= Cardinality(S) + 1
      BY <2>1, OneMore
    <2>. QED
      BY <2>1, <2>2 DEF AtMost
  <1>3. 1 + 1 = 2 /\ 2 + 1 = 3 /\ 3 + 1 = 4 /\ 4 + 1 = 5 /\ {1, 2, 3, 4} \subseteq Nat
    OBVIOUS
  <1>4. \A k \in {1, 2, 3, 4} : \A S, x : AtMost(S, k) => AtMost(S \cup {x}, k + 1)
    BY <1>2, <1>3, Zenon
  <1>5. \A S, x : AtMost(S, 1) => AtMost(S \cup {x}, 1 + 1)
    BY <1>4, Zenon
  <1>6. \A S, x : AtMost(S, 2) => AtMost(S \cup {x}, 2 + 1)
    BY <1>4, Zenon
  <1>7. \A S, x : AtMost(S, 3) => AtMost(S \cup {x}, 3 + 1)
    BY <1>4, Zenon
  <1>8. \A S, x : AtMost(S, 4) => AtMost(S \cup {x}, 4 + 1)
    BY <1>4, Zenon
  <1>. QED
    BY <1>1, <1>3, <1>5, <1>6, <1>7, <1>8, Zenon

(* How many digits numbers of five and of six digits have, at most. *)
LEMMA DigitsBelow ==
  ASSUME NEW n \in Nat
  PROVE  /\ n < 100000 => Digits(n) \in 1 .. 5
         /\ n < 1000000 => Digits(n) \in 1 .. 6
  <1>. DEFINE D == { p \in PowersOfTen : p <= n }
  <1>1. PICK v, w, x, y, z : v = 10 /\ w = 100 /\ x = 1000 /\ y = 10000 /\ z = 100000
    OBVIOUS
  <1>. DEFINE four == (({v} \cup {w}) \cup {x}) \cup {y}
              five == four \cup {z}
  <1>4. AtMost(four, 4)
    BY FewElements, Zenon
  <1>5. AtMost(five, 5)
    BY <1>4, FewElements, Zenon
  <1>6. n < 100000 => D \in SUBSET four
    BY <1>1 DEF PowersOfTen
  <1>7. n < 1000000 => D \in SUBSET five
    BY <1>1 DEF PowersOfTen
  <1>8. Digits(n) = 1 + Cardinality(D)
    BY DEF Digits
  <1>. HIDE DEF D, four, five
  <1>9. ASSUME NEW k \in Nat, NEW S, AtMost(S, k), D \in SUBSET S
        PROVE  Digits(n) \in 1 .. k + 1
    <2>1. /\ Cardinality(D) \in Nat /\ Cardinality(D) <= Cardinality(S)
          /\ Cardinality(S) \in Nat
      BY <1>9, FS_Subset, FS_CardinalityType DEF AtMost
    <2>. QED
      BY <1>8, <1>9, <2>1 DEF AtMost
  <1>10. n < 100000 => Digits(n) \in 1 .. 4 + 1
    BY <1>4, <1>6, <1>9
  <1>11. n < 1000000 => Digits(n) \in 1 .. 5 + 1
    BY <1>5, <1>7, <1>9
  <1>. QED
    BY <1>10, <1>11

(* With the capacity of the source the label fits its 15 bytes for every   *)
(* target and as many words as a full buffer can hold.                     *)
LEMMA LabelFits ==
  ASSUME MaximumNumberOfChars <= 1000000,
         NEW wc \in Nat, 2 * wc <= MaximumNumberOfChars, NEW target \in Target
  PROVE  LabelLength(wc, target) <= LabelCapacity
  <1>1. target \in Nat /\ target < 100000
    BY ConstantsAssumption DEF Target
  <1>2. wc < 1000000
    BY ConstantsAssumption
  <1>3. Digits(target) \in 1 .. 5 /\ Digits(wc) \in 1 .. 6
    BY <1>1, <1>2, DigitsBelow
  <1>. QED
    BY <1>3 DEF LabelLength, LabelCapacity

(* The word counter never overflows its buffer, with any capacity up to    *)
(* the million bytes of text_buffer.h (render.c:28, app.c:161).            *)
THEOREM CounterLabelAlwaysFits ==
  ASSUME MaximumNumberOfChars <= 1000000
  PROVE  AppSpec => []CounterLabelFits
  <1>1. AppTypeOK => CounterLabelFits
    <2>. SUFFICES ASSUME AppTypeOK PROVE CounterLabelFits
      OBVIOUS
    <2>. DEFINE wc == MaximumNumberOfChars \div 2
    <2>1. wc \in Nat /\ 2 * wc <= MaximumNumberOfChars
      BY ConstantsAssumption
    <2>2. words_to_exit \in Target
      BY DEF AppTypeOK
    <2>. HIDE DEF wc
    <2>3. LabelLength(wc, words_to_exit) <= LabelCapacity
      BY <2>1, <2>2, LabelFits
    <2>. QED
      BY <2>3 DEF CounterLabelFits, wc
  <1>. QED
    BY <1>1, AppTypeCorrect, PTL

(* In particular it holds the words that the document really has, as long  *)
(* as the document fits its own buffer with the final NUL.                 *)
THEOREM LabelOfDocumentFits ==
  ASSUME MaximumNumberOfChars <= 1000000
  PROVE  AppSpec => [](Len(document) < MaximumNumberOfChars =>
                         LabelLength(WordCount(document), words_to_exit) <= LabelCapacity)
  <1>1. AppTypeOK =>
          (Len(document) < MaximumNumberOfChars =>
             LabelLength(WordCount(document), words_to_exit) <= LabelCapacity)
    <2>. SUFFICES ASSUME AppTypeOK, Len(document) < MaximumNumberOfChars
                  PROVE  LabelLength(WordCount(document), words_to_exit) <= LabelCapacity
      OBVIOUS
    <2>1. Len(document) \in Nat /\ words_to_exit \in Target
      BY DEF AppTypeOK
    <2>2. WordCount(document) \in Nat /\ 2 * WordCount(document) <= MaximumNumberOfChars
      BY <2>1, WordsNeedSpace, ConstantsAssumption
    <2>. QED
      BY <2>1, <2>2, LabelFits
  <1>. QED
    BY <1>1, AppTypeCorrect, PTL
=============================================================================
