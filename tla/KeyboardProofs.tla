--------------------------- MODULE KeyboardProofs ---------------------------
(***************************************************************************)
(* Proofs about Keyboard: its types, and what a repetition never does, for *)
(* every set of keys, every keymap, all repeat rates and delays.           *)
(***************************************************************************)
EXTENDS Keyboard, TLAPS

(* The first state has the types. *)
LEMMA InitType == Init => KeyboardTypeOK
  <1>. SUFFICES ASSUME Init PROVE KeyboardTypeOK
    OBVIOUS
  <1>1. typed \in [by : {"nobody", "user", "timer"}, key : Keys \cup {None}]
    BY DEF Init, NotTyped
  <1>2. keyState \in [Keys -> {"up", "down", "unseen"}]
    BY DEF Init
  <1>3. xkb_state \in BOOLEAN
    BY Zenon DEF Init
  <1>. QED
    BY <1>1, <1>2, <1>3 DEF Init, KeyboardTypeOK

(* What a timer or a user types is a record of the right type.             *)
LEMMA TypedType ==
  ASSUME NEW k \in Keys \cup {None}, NEW by \in {"nobody", "user", "timer"}
  PROVE  /\ Typed(by, k) \in [by : {"nobody", "user", "timer"}, key : Keys \cup {None}]
         /\ Typed(by, k).by = by /\ Typed(by, k).key = k
         /\ NotTyped \in [by : {"nobody", "user", "timer"}, key : Keys \cup {None}]
         /\ NotTyped.by = "nobody"
  BY DEF Typed, NotTyped

(* A timer that is set is armed, or idle when it is set to zero. *)
LEMMA SetTimerType ==
  ASSUME NEW time, SetTimer(time)
  PROVE  timer' \in {"idle", "armed"}
  BY DEF SetTimer

(* The loop's steps keep the types. *)
LEMMA LoopType ==
  ASSUME KeyboardTypeOK,
         TimerExpires \/ PollReturns \/ PollCrashes \/ DispatchEnds
           \/ HandleTimer \/ HandleTimerCrashes
  PROVE  KeyboardTypeOK'
  <1>. USE DEF KeyboardTypeOK, repeatVars, deviceVars, userVars
  <1>1. CASE TimerExpires
    BY <1>1 DEF TimerExpires, NotTyped
  <1>2. CASE PollReturns
    <2>1. readable' \in BOOLEAN
      BY <1>2, Zenon DEF PollReturns
    <2>. QED
      BY <1>2, <2>1 DEF PollReturns, NotTyped
  <1>3. CASE PollCrashes \/ DispatchEnds
    BY <1>3 DEF PollCrashes, DispatchEnds, NotTyped
  <1>4. CASE HandleTimer
    <2>1. typed' \in [by : {"nobody", "user", "timer"}, key : Keys \cup {None}]
      BY <1>4, TypedType DEF HandleTimer
    <2>2. timer' \in {"idle", "armed", "expired"}
      BY <1>4, SetTimerType DEF HandleTimer
    <2>. QED
      BY <1>4, <2>1, <2>2 DEF HandleTimer
  <1>5. CASE HandleTimerCrashes
    BY <1>5 DEF HandleTimerCrashes, NotTyped
  <1>. QED
    BY <1>1, <1>2, <1>3, <1>4, <1>5

(* So do the events of the keyboard. *)
LEMMA KeyboardEventType ==
  ASSUME KeyboardTypeOK, KeyboardEvent
  PROVE  KeyboardTypeOK'
  <1>. USE DEF KeyboardTypeOK, repeatVars, deviceVars, userVars
  <1>1. ASSUME NEW k \in Keys, KeyPressed(k)
        PROVE  KeyboardTypeOK'
    <2>1. typed' \in [by : {"nobody", "user", "timer"}, key : Keys \cup {None}]
      BY <1>1, TypedType DEF KeyPressed
    <2>2. timer' \in {"idle", "armed", "expired"}
      BY <1>1, SetTimerType DEF KeyPressed, StartRepeatTimer
    <2>. QED
      BY <1>1, <2>1, <2>2 DEF KeyPressed
  <1>2. ASSUME NEW k \in Keys, KeyReleased(k)
        PROVE  KeyboardTypeOK'
    <2>1. timer' \in {"idle", "armed", "expired"} /\ repeat_active' \in BOOLEAN
      BY <1>2, SetTimerType DEF KeyReleased, StopKeyRepeat
    <2>2. repeating_keycode' = repeating_keycode
      BY <1>2 DEF KeyReleased, StopKeyRepeat
    <2>3. keyState' \in [Keys -> {"up", "down", "unseen"}]
      BY <1>2 DEF KeyReleased
    <2>4. UNCHANGED <<pc, readable, deviceVars, focus>> /\ typed' = NotTyped
      BY <1>2 DEF KeyReleased
    <2>. QED
      BY <2>1, <2>2, <2>3, <2>4, TypedType
  <1>3. CASE Enter
    <2>1. UNCHANGED <<pc, readable, repeatVars, deviceVars, keyState>>
      BY <1>3 DEF Enter
    <2>2. focus' = TRUE /\ typed' = NotTyped
      BY <1>3 DEF Enter
    <2>. QED
      BY <2>1, <2>2, TypedType
  <1>4. CASE Leave
    <2>1. UNCHANGED <<pc, readable, repeatVars, deviceVars>>
      BY <1>4 DEF Leave
    <2>2. focus' \in BOOLEAN /\ typed' = NotTyped
      BY <1>4 DEF Leave
    <2>3. keyState' \in [Keys -> {"up", "down", "unseen"}]
      <3>1. \A k \in Keys : keyState[k] \in {"up", "down", "unseen"}
        OBVIOUS
      <3>2. keyState' = [k \in Keys |-> IF keyState[k] = "down" THEN "unseen"
                                                              ELSE keyState[k]]
        BY <1>4 DEF Leave
      <3>. QED
        BY ONLY <3>1, <3>2
    <2>4. typed' \in [by : {"nobody", "user", "timer"}, key : Keys \cup {None}]
      BY <2>2 DEF NotTyped
    <2>. QED
      BY <2>1, <2>2, <2>3, <2>4
  <1>5. CASE Keymap
    <2>1. xkb_state' \in BOOLEAN
      BY <1>5 DEF Keymap
    <2>2. /\ UNCHANGED <<pc, readable, repeatVars, keyboard, repeat_rate, repeat_delay, userVars>>
          /\ typed' = NotTyped
      BY <1>5 DEF Keymap
    <2>. QED
      BY <2>1, <2>2 DEF NotTyped
  <1>6. CASE RepeatInfo
    BY <1>6 DEF RepeatInfo, NotTyped
  <1>. QED
    BY <1>1, <1>2, <1>3, <1>4, <1>5, <1>6 DEF KeyboardEvent

(* And the seat's. *)
LEMMA SeatEventType ==
  ASSUME KeyboardTypeOK, SeatEvent
  PROVE  KeyboardTypeOK'
  <1>. USE DEF KeyboardTypeOK, repeatVars, deviceVars, userVars
  <1>1. CASE SeatHasKeyboard
    BY <1>1 DEF SeatHasKeyboard, NotTyped
  <1>2. CASE SeatHasNoKeyboard
    BY <1>2 DEF SeatHasNoKeyboard, NotTyped
  <1>3. CASE DestroyFreedKeyboard
    BY <1>3 DEF DestroyFreedKeyboard, NotTyped
  <1>. QED
    BY <1>1, <1>2, <1>3 DEF SeatEvent

LEMMA TypeStep == KeyboardTypeOK /\ [Next]_vars => KeyboardTypeOK'
  <1>. SUFFICES ASSUME KeyboardTypeOK, [Next]_vars
                PROVE  KeyboardTypeOK'
    OBVIOUS
  <1>1. CASE UNCHANGED vars
    BY <1>1 DEF vars, repeatVars, deviceVars, userVars, KeyboardTypeOK
  <1>2. CASE Crashed
    BY <1>1, <1>2 DEF Crashed
  <1>. QED
    BY <1>1, <1>2, LoopType, KeyboardEventType, SeatEventType DEF Next

(* Type correctness for all keys, rates and delays (keyboard.h). *)
THEOREM KeyboardTypeCorrect == Spec => []KeyboardTypeOK
  BY InitType, TypeStep, PTL DEF Spec

-----------------------------------------------------------------------------
(* A repetition is of a key that the events did not say is up; its timer   *)
(* and its keymap belong to the keyboard that is there.                    *)
RepetitionOK ==
  /\ repeat_active => repeating_keycode \in Keys /\ keyState[repeating_keycode] # "up"
  /\ RepeatHasKeymap
  /\ TimerOnlyForRepeat
  /\ RepeatsOnlyUnreleasedKey

LEMMA RepetitionInit == Init => RepetitionOK
  BY DEF Init, RepetitionOK, RepeatHasKeymap, TimerOnlyForRepeat,
         RepeatsOnlyUnreleasedKey, NotTyped

(* The loop's steps: the timer types the key that repeats, or none.        *)
LEMMA RepetitionLoop ==
  ASSUME KeyboardTypeOK, RepetitionOK,
         TimerExpires \/ PollReturns \/ PollCrashes \/ DispatchEnds
           \/ HandleTimer \/ HandleTimerCrashes
  PROVE  RepetitionOK'
  <1>. USE DEF RepetitionOK, RepeatHasKeymap, TimerOnlyForRepeat,
               RepeatsOnlyUnreleasedKey, repeatVars, deviceVars, userVars
  <1>1. CASE HandleTimer
    BY <1>1, TypedType DEF HandleTimer, KeyboardTypeOK
  <1>2. CASE TimerExpires
    BY <1>2 DEF TimerExpires, NotTyped
  <1>3. CASE PollReturns \/ PollCrashes
    BY <1>3 DEF PollReturns, PollCrashes, NotTyped
  <1>4. CASE DispatchEnds \/ HandleTimerCrashes
    BY <1>4 DEF DispatchEnds, HandleTimerCrashes, NotTyped
  <1>. QED
    BY <1>1, <1>2, <1>3, <1>4

(* A press starts a repetition of its own key; a release ends that of its  *)
(* own key only.                                                           *)
LEMMA RepetitionKeyboardEvent ==
  ASSUME KeyboardTypeOK, RepetitionOK, KeyboardEvent
  PROVE  RepetitionOK'
  <1>. USE DEF RepetitionOK, RepeatHasKeymap, TimerOnlyForRepeat,
               RepeatsOnlyUnreleasedKey, repeatVars, deviceVars, userVars
  <1>1. ASSUME NEW k \in Keys, KeyPressed(k)
        PROVE  RepetitionOK'
    <2>1. typed'.by # "timer"
      BY <1>1, TypedType DEF KeyPressed
    <2>2. keyState'[k] = "down" /\ \A j \in Keys : j # k => keyState'[j] = keyState[j]
      BY <1>1 DEF KeyPressed, KeyboardTypeOK
    <2>. QED
      BY <1>1, <2>1, <2>2 DEF KeyPressed, Dispatching
  <1>2. ASSUME NEW k \in Keys, KeyReleased(k)
        PROVE  RepetitionOK'
    <2>1. \A j \in Keys : j # k => keyState'[j] = keyState[j]
      BY <1>2 DEF KeyReleased, KeyboardTypeOK
    <2>2. CASE repeat_active /\ repeating_keycode = k
      BY <1>2, <2>2 DEF KeyReleased, StopKeyRepeat, SetTimer, NotTyped
    <2>3. CASE ~ (repeat_active /\ repeating_keycode = k)
      BY <1>2, <2>1, <2>3 DEF KeyReleased, NotTyped
    <2>. QED
      BY <2>2, <2>3
  <1>3. CASE Leave
    BY <1>3 DEF Leave, NotTyped, KeyboardTypeOK
  <1>4. CASE Enter
    BY <1>4 DEF Enter, NotTyped
  <1>5. CASE Keymap
    <2>1. xkb_state => xkb_state'
      BY <1>5, Zenon DEF Keymap
    <2>. QED
      BY <1>5, <2>1 DEF Keymap, NotTyped
  <1>6. CASE RepeatInfo
    BY <1>6 DEF RepeatInfo, NotTyped
  <1>. QED
    BY <1>1, <1>2, <1>3, <1>4, <1>5, <1>6 DEF KeyboardEvent

(* A keyboard that goes takes its repetition with it.                      *)
LEMMA RepetitionSeatEvent ==
  ASSUME RepetitionOK, SeatEvent
  PROVE  RepetitionOK'
  <1>. USE DEF RepetitionOK, RepeatHasKeymap, TimerOnlyForRepeat,
               RepeatsOnlyUnreleasedKey, repeatVars, deviceVars, userVars
  <1>1. CASE SeatHasKeyboard
    BY <1>1 DEF SeatHasKeyboard, NotTyped
  <1>2. CASE SeatHasNoKeyboard
    BY <1>2 DEF SeatHasNoKeyboard, NotTyped
  <1>3. CASE DestroyFreedKeyboard
    BY <1>3 DEF DestroyFreedKeyboard, NotTyped
  <1>. QED
    BY <1>1, <1>2, <1>3 DEF SeatEvent

LEMMA RepetitionStep == KeyboardTypeOK /\ RepetitionOK /\ [Next]_vars => RepetitionOK'
  <1>. SUFFICES ASSUME KeyboardTypeOK, RepetitionOK, [Next]_vars
                PROVE  RepetitionOK'
    OBVIOUS
  <1>1. CASE UNCHANGED vars
    BY <1>1 DEF vars, repeatVars, deviceVars, userVars, RepetitionOK, RepeatHasKeymap,
                TimerOnlyForRepeat, RepeatsOnlyUnreleasedKey
  <1>2. CASE Crashed
    BY <1>1, <1>2 DEF Crashed
  <1>. QED
    BY <1>1, <1>2, RepetitionLoop, RepetitionKeyboardEvent, RepetitionSeatEvent DEF Next

LEMMA RepetitionAlwaysOK == Spec => []RepetitionOK
  BY KeyboardTypeCorrect, RepetitionInit, RepetitionStep, PTL DEF Spec

(* The timer never presses a key whose release has been handled            *)
(* (keyboard.c:157-167, 243-246).                                          *)
THEOREM ReleasedKeyIsNotRepeated == Spec => []RepeatsOnlyUnreleasedKey
  <1>1. RepetitionOK => RepeatsOnlyUnreleasedKey
    BY DEF RepetitionOK
  <1>. QED
    BY <1>1, RepetitionAlwaysOK, PTL

(* A timer that runs is that of a repetition (keyboard.c:196-208).         *)
THEOREM TimerIsForRepeat == Spec => []TimerOnlyForRepeat
  <1>1. RepetitionOK => TimerOnlyForRepeat
    BY DEF RepetitionOK
  <1>. QED
    BY <1>1, RepetitionAlwaysOK, PTL

(* A repetition has its keymap (keyboard.c:134, 227, 238). *)
THEOREM RepeatHasItsKeymap == Spec => []RepeatHasKeymap
  <1>1. RepetitionOK => RepeatHasKeymap
    BY DEF RepetitionOK
  <1>. QED
    BY <1>1, RepetitionAlwaysOK, PTL

(* The timer presses a key only after it has run out (keyboard.c:159-167). *)
THEOREM RepeatIsDue == Spec => RepeatsOnlyWhenDue
  <1>1. [Next]_vars => [typed'.by = "timer" => timer = "expired"]_vars
    <2>. SUFFICES ASSUME Next
                  PROVE  [typed'.by = "timer" => timer = "expired"]_vars
      OBVIOUS
    <2>1. NotTyped.by # "timer" /\ \A k \in Keys : Typed("user", k).by # "timer"
      BY DEF NotTyped, Typed
    <2>2. CASE HandleTimer
      BY <2>1, <2>2 DEF HandleTimer
    <2>3. CASE TimerExpires \/ PollReturns \/ PollCrashes \/ DispatchEnds
                 \/ HandleTimerCrashes
      BY <2>1, <2>3 DEF TimerExpires, PollReturns, PollCrashes, DispatchEnds,
                        HandleTimerCrashes
    <2>4. CASE KeyboardEvent
      BY <2>1, <2>4 DEF KeyboardEvent, KeyPressed, KeyReleased, Enter, Leave,
                        Keymap, RepeatInfo
    <2>5. CASE SeatEvent
      BY <2>1, <2>5 DEF SeatEvent, SeatHasKeyboard, SeatHasNoKeyboard,
                        DestroyFreedKeyboard
    <2>6. CASE Crashed
      BY <2>6 DEF Crashed
    <2>. QED
      BY <2>2, <2>3, <2>4, <2>5, <2>6 DEF Next
  <1>. QED
    BY <1>1, PTL DEF Spec, RepeatsOnlyWhenDue
=============================================================================
