------------------------------ MODULE Keyboard ------------------------------
(***************************************************************************)
(* The keyboard of src/src/keyboard.c: key events, the repetition of a     *)
(* held key by a timer, keymaps and repeat settings that change, and the   *)
(* keyboard that comes and goes with the seat (session_setup.c).           *)
(*                                                                         *)
(* One wake-up of the main loop first dispatches Wayland events and then   *)
(* handles the repeat timer if poll had found it readable (app.c:25-72):   *)
(* the events in between may have stopped or restarted that timer, or      *)
(* replaced the keyboard that it belongs to.                               *)
(***************************************************************************)
EXTENDS Integers

CONSTANTS
  Keys,           \* keycodes
  RepeatingKeys,  \* those that the keymap repeats
  Rates,          \* repeat rates that the compositor may announce, per second
  Delays,         \* and repeat delays, in milliseconds
  None            \* no key

ASSUME KeyboardAssumption ==
  /\ RepeatingKeys \subseteq Keys
  /\ Rates \subseteq Nat
  /\ Delays \subseteq Nat
  /\ None \notin Keys

VARIABLES
  pc,                 \* "poll", "dispatch", "timer" or "crashed"
  readable,           \* did poll find the repeat timer readable?
  keyboard,           \* state->keyboard: "present", "NULL" or "freed"
  xkb_state,          \* has a keymap been compiled for this keyboard?
  repeat_active,      \* keyboard->repeat_active
  repeating_keycode,  \* keyboard->repeating_keycode
  repeat_rate,        \* keyboard->repeat_rate
  repeat_delay,       \* keyboard->repeat_delay
  timer,              \* the repeat timer: "idle", "armed" or "expired"
  focus,              \* has one of the surfaces the keyboard focus?
  keyState,           \* per key, what the events told: "up", "down", and
                      \* "unseen" for a key that was down when focus was lost
  typed               \* the call of handle_key_press in the last step, if any

repeatVars == <<repeat_active, repeating_keycode, timer>>
deviceVars == <<keyboard, xkb_state, repeat_rate, repeat_delay>>
userVars   == <<focus, keyState>>
vars == <<pc, readable, repeatVars, deviceVars, userVars, typed>>

NotTyped == [by |-> "nobody", key |-> None]
Typed(by, k) == [by |-> by, key |-> k]

(* setup_initial_state has found a keyboard and waited for its first       *)
(* events; it does not ask whether the keymap was any good.  Rate and      *)
(* delay are zero until repeat_info has come.                              *)
Init ==
  /\ pc = "poll"
  /\ readable = FALSE
  /\ keyboard = "present"
  /\ xkb_state \in BOOLEAN
  /\ repeat_active = FALSE
  /\ repeating_keycode = None
  /\ \/ repeat_rate \in Rates /\ repeat_delay \in Delays
     \/ repeat_rate = 0 /\ repeat_delay = 0
  /\ timer = "idle"
  /\ focus = FALSE
  /\ keyState = [k \in Keys |-> "up"]
  /\ typed = NotTyped

-----------------------------------------------------------------------------
(* The timer. *)

(* timerfd_settime: the timer forgets its expirations, and a time of zero  *)
(* stops it.                                                               *)
SetTimer(time) == timer' = IF time = 0 THEN "idle" ELSE "armed"

(* start_repeat_timer: a delay of zero does not start it. *)
StartRepeatTimer == SetTimer(repeat_delay)

(* The time between repetitions, in nanoseconds; none from rates beyond a  *)
(* billion.                                                                *)
RepeatInterval == 1000000000 \div repeat_rate

-----------------------------------------------------------------------------
(* The loop. *)

(* The kernel. *)
TimerExpires ==
  /\ pc # "crashed"
  /\ timer = "armed"
  /\ timer' = "expired"
  /\ typed' = NotTyped
  /\ UNCHANGED <<pc, readable, repeat_active, repeating_keycode, deviceVars, userVars>>

(* poll_for_events_and_timer_completion takes the descriptor from          *)
(* state->keyboard without a check and sleeps until something is readable. *)
PollReturns ==
  /\ pc = "poll"
  /\ keyboard = "present"
  /\ pc' = "dispatch"
  /\ readable' = (timer = "expired")
  /\ typed' = NotTyped
  /\ UNCHANGED <<repeatVars, deviceVars, userVars>>

PollCrashes ==
  /\ pc = "poll"
  /\ keyboard # "present"
  /\ pc' = "crashed"
  /\ typed' = NotTyped
  /\ UNCHANGED <<readable, repeatVars, deviceVars, userVars>>

DispatchEnds ==
  /\ pc = "dispatch"
  /\ pc' = IF readable THEN "timer" ELSE "poll"
  /\ typed' = NotTyped
  /\ UNCHANGED <<readable, repeatVars, deviceVars, userVars>>

(* Slip: the result of read() does not matter. *)
HandleTimerUnread ==
  /\ pc = "timer"
  /\ keyboard = "present"
  /\ pc' = "poll"
  /\ typed' = IF repeat_active THEN Typed("timer", repeating_keycode) ELSE NotTyped
  /\ IF repeat_active /\ repeat_rate # 0 THEN SetTimer(RepeatInterval) ELSE timer' = "idle"
  /\ UNCHANGED <<readable, repeat_active, repeating_keycode, deviceVars, userVars>>

(* handle_timer.  Reading a timer that was set since poll gives EAGAIN, and  *)
(* then no key is pressed; the timer is started again all the same.          *)
HandleTimer ==
  /\ pc = "timer"
  /\ keyboard = "present"
  /\ pc' = "poll"
  /\ IF repeat_active /\ repeat_rate # 0
     THEN SetTimer(RepeatInterval)
     ELSE timer' = IF timer = "expired" THEN "idle" ELSE timer
  /\ typed' = IF repeat_active /\ timer = "expired"
              THEN Typed("timer", repeating_keycode) ELSE NotTyped
  /\ UNCHANGED <<readable, repeat_active, repeating_keycode, deviceVars, userVars>>

HandleTimerCrashes ==
  /\ pc = "timer"
  /\ keyboard # "present"
  /\ pc' = "crashed"
  /\ typed' = NotTyped
  /\ UNCHANGED <<readable, repeatVars, deviceVars, userVars>>

-----------------------------------------------------------------------------
(* Events of the keyboard. *)

Dispatching == pc = "dispatch" /\ keyboard = "present"

(* Slip: the timer is started only if no key repeats yet. *)
KeyPressedKeepingTimer(k) ==
  /\ Dispatching /\ focus /\ keyState[k] # "down"
  /\ keyState' = [keyState EXCEPT ![k] = "down"]
  /\ typed' = IF xkb_state THEN Typed("user", k) ELSE NotTyped
  /\ IF xkb_state /\ repeat_rate > 0 /\ k \in RepeatingKeys
     THEN /\ repeat_active' = TRUE
          /\ repeating_keycode' = k
          /\ IF repeat_active THEN UNCHANGED timer ELSE StartRepeatTimer
     ELSE UNCHANGED repeatVars
  /\ UNCHANGED <<pc, readable, deviceVars, focus>>

(* key, pressed: without a keymap the event is ignored. *)
KeyPressed(k) ==
  /\ Dispatching /\ focus /\ keyState[k] # "down"
  /\ keyState' = [keyState EXCEPT ![k] = "down"]
  /\ typed' = IF xkb_state THEN Typed("user", k) ELSE NotTyped
  /\ IF xkb_state /\ repeat_rate > 0 /\ k \in RepeatingKeys
     THEN /\ repeat_active' = TRUE
          /\ repeating_keycode' = k
          /\ StartRepeatTimer
     ELSE UNCHANGED repeatVars
  /\ UNCHANGED <<pc, readable, deviceVars, focus>>

(* Slip: the timer is left running. *)
StopKeyRepeatKeepingTimer ==
  /\ repeat_active' = FALSE
  /\ UNCHANGED <<repeating_keycode, timer>>

(* stop_key_repeat *)
StopKeyRepeat ==
  /\ SetTimer(0)
  /\ repeat_active' = FALSE
  /\ UNCHANGED repeating_keycode

(* Slip: a release ends the repetition only of a key that still has its    *)
(* repeat rate.                                                            *)
KeyReleasedAtRate(k) ==
  /\ Dispatching /\ focus /\ keyState[k] # "up"
  /\ keyState' = [keyState EXCEPT ![k] = "up"]
  /\ typed' = NotTyped
  /\ IF xkb_state /\ repeat_rate > 0 /\ repeat_active /\ repeating_keycode = k
     THEN StopKeyRepeat
     ELSE UNCHANGED repeatVars
  /\ UNCHANGED <<pc, readable, deviceVars, focus>>

(* key, released *)
KeyReleased(k) ==
  /\ Dispatching /\ focus /\ keyState[k] # "up"
  /\ keyState' = [keyState EXCEPT ![k] = "up"]
  /\ typed' = NotTyped
  /\ IF xkb_state /\ repeat_active /\ repeating_keycode = k
     THEN StopKeyRepeat
     ELSE UNCHANGED repeatVars
  /\ UNCHANGED <<pc, readable, deviceVars, focus>>

(* enter only logs. *)
Enter ==
  /\ Dispatching /\ ~focus
  /\ focus' = TRUE
  /\ typed' = NotTyped
  /\ UNCHANGED <<pc, readable, repeatVars, deviceVars, keyState>>

(* leave only logs too: what happens to a held key is not seen any more,   *)
(* and a repetition goes on.                                               *)
Leave ==
  /\ Dispatching /\ focus
  /\ focus' = FALSE
  /\ keyState' = [k \in Keys |-> IF keyState[k] = "down" THEN "unseen"
                                                         ELSE keyState[k]]
  /\ typed' = NotTyped
  /\ UNCHANGED <<pc, readable, repeatVars, deviceVars>>

(* keymap: one that cannot be used leaves the old one in place. *)
Keymap ==
  /\ Dispatching
  /\ xkb_state' \in {xkb_state, TRUE}
  /\ typed' = NotTyped
  /\ UNCHANGED <<pc, readable, repeatVars, keyboard, repeat_rate, repeat_delay, userVars>>

(* Slip: rate and delay are swapped. *)
RepeatInfoSwapped ==
  /\ Dispatching
  /\ repeat_rate' \in Delays
  /\ repeat_delay' \in Rates
  /\ typed' = NotTyped
  /\ UNCHANGED <<pc, readable, repeatVars, keyboard, xkb_state, userVars>>

(* repeat_info *)
RepeatInfo ==
  /\ Dispatching
  /\ repeat_rate' \in Rates
  /\ repeat_delay' \in Delays
  /\ typed' = NotTyped
  /\ UNCHANGED <<pc, readable, repeatVars, keyboard, xkb_state, userVars>>

-----------------------------------------------------------------------------
(* seat_capabilities.  Any seat may send it; all share state->keyboard.    *)

(* A new keyboard is all zeros; its timer may fail to be created, and then *)
(* anvi_keyboard_create returns the structure that it has just freed.      *)
SeatHasKeyboard ==
  /\ pc = "dispatch"
  /\ keyboard = "NULL"
  /\ keyboard' \in {"present", "NULL", "freed"}
  /\ typed' = NotTyped
  /\ UNCHANGED <<pc, readable, repeatVars, xkb_state, repeat_rate, repeat_delay, userVars>>

(* Slip: the new keyboard takes over the old one's repetition. *)
SeatHasNoKeyboardKeepingRepeat ==
  /\ pc = "dispatch"
  /\ keyboard = "present"
  /\ keyboard' = "NULL"
  /\ xkb_state' = FALSE
  /\ repeat_rate' = 0
  /\ repeat_delay' = 0
  /\ timer' = "idle"
  /\ focus' = FALSE
  /\ keyState' = [k \in Keys |-> "up"]
  /\ typed' = NotTyped
  /\ UNCHANGED <<pc, readable, repeat_active, repeating_keycode>>

(* anvi_keyboard_destroy: everything kept about the keyboard goes.         *)
SeatHasNoKeyboard ==
  /\ pc = "dispatch"
  /\ keyboard = "present"
  /\ keyboard' = "NULL"
  /\ xkb_state' = FALSE
  /\ repeat_rate' = 0
  /\ repeat_delay' = 0
  /\ repeat_active' = FALSE
  /\ repeating_keycode' = None
  /\ timer' = "idle"
  /\ focus' = FALSE
  /\ keyState' = [k \in Keys |-> "up"]
  /\ typed' = NotTyped
  /\ UNCHANGED <<pc, readable>>

(* Destroying a structure that was freed already. *)
DestroyFreedKeyboard ==
  /\ pc = "dispatch"
  /\ keyboard = "freed"
  /\ pc' = "crashed"
  /\ typed' = NotTyped
  /\ UNCHANGED <<readable, repeatVars, deviceVars, userVars>>

Crashed == pc = "crashed" /\ UNCHANGED vars

-----------------------------------------------------------------------------
KeyboardEvent ==
  \/ \E k \in Keys : KeyPressed(k) \/ KeyReleased(k)
  \/ Enter \/ Leave \/ Keymap \/ RepeatInfo

SeatEvent == SeatHasKeyboard \/ SeatHasNoKeyboard \/ DestroyFreedKeyboard

Next ==
  \/ TimerExpires
  \/ PollReturns \/ PollCrashes \/ DispatchEnds
  \/ HandleTimer \/ HandleTimerCrashes
  \/ KeyboardEvent \/ SeatEvent
  \/ Crashed

(* The kernel's timer goes off, poll returns when it has, and a wake-up    *)
(* dispatches finitely many events.                                        *)
Fairness ==
  /\ WF_vars(TimerExpires)
  /\ WF_vars(PollReturns /\ timer = "expired")
  /\ WF_vars(DispatchEnds)
  /\ WF_vars(HandleTimer)

Spec == Init /\ [][Next]_vars /\ Fairness

-----------------------------------------------------------------------------
(* Properties.                                                             *)

(* Type invariant of the keyboard. *)
KeyboardTypeOK ==
  /\ pc \in {"poll", "dispatch", "timer", "crashed"}
  /\ readable \in BOOLEAN
  /\ keyboard \in {"present", "NULL", "freed"}
  /\ xkb_state \in BOOLEAN
  /\ repeat_active \in BOOLEAN
  /\ repeating_keycode \in Keys \cup {None}
  /\ repeat_rate \in Rates \cup {0}
  /\ repeat_delay \in Delays \cup {0}
  /\ timer \in {"idle", "armed", "expired"}
  /\ focus \in BOOLEAN
  /\ keyState \in [Keys -> {"up", "down", "unseen"}]
  /\ typed \in [by : {"nobody", "user", "timer"}, key : Keys \cup {None}]

(* The timer never presses a key whose release has been handled, however   *)
(* release, expiry and poll were ordered (keyboard.c:157-167, 243-246).    *)
RepeatsOnlyUnreleasedKey ==
  typed.by = "timer" => keyState[typed.key] # "up"

(* It presses a key only when the timer that this key started, or the      *)
(* repetition before, has run out: readiness from before a restart of the  *)
(* timer does not count (keyboard.c:159-167).                              *)
RepeatsOnlyWhenDue ==
  [][typed'.by = "timer" => timer = "expired"]_vars

(* The timer runs only for a key that repeats: nothing wakes the program   *)
(* up once the key is up or the keyboard is gone (keyboard.c:196-208).     *)
TimerOnlyForRepeat == timer # "idle" => repeat_active

(* handle_timer uses the keymap without looking whether there is one, so a *)
(* key may only be set to repeat on a keyboard that has one                *)
(* (keyboard.c:134, 227, 238).                                             *)
RepeatHasKeymap == repeat_active => keyboard = "present" /\ xkb_state

(* A key that is held down repeats over and over, unless it is released,   *)
(* another key takes over, focus or keyboard go away, or the compositor    *)
(* turns repetition off or asks for more than a billion a second           *)
(* (keyboard.c:169-181, 238-242).  Left out is a press at a delay of zero: *)
(* it sets the timer to zero (keyboard.c:184-194), which does not start    *)
(* it, so that key need not repeat.                                        *)
HeldKeyRepeats ==
  \A k \in RepeatingKeys :
    (typed = Typed("user", k) /\ repeat_delay > 0)
      ~> \/ []<>(typed = Typed("timer", k))
         \/ keyState[k] # "down"
         \/ repeating_keycode # k
         \/ repeat_rate \notin 1..1000000000

(* "Seat doesn't have a keyboard (anymore?)" (session_setup.c:33): the     *)
(* program goes on without one, and never uses a keyboard it has not.      *)
SurvivesWithoutKeyboard == pc # "crashed"
=============================================================================
