------------------------------- MODULE Session -------------------------------
(***************************************************************************)
(* The main loop of src/src/main.c from the end of the setup to the end of *)
(* the process: poll, dispatch of the Wayland events, the two timers, the  *)
(* exit checks, the release of the session lock, the final save and the    *)
(* save dialog, together with the compositor's side of the                 *)
(* ext-session-lock-v1 protocol.                                           *)
(*                                                                         *)
(* The process has one thread, so a handler is one step; what interleaves  *)
(* is the order in which events, timers, the user and the compositor meet  *)
(* within one iteration.  One wake-up dispatches any number of events      *)
(* before the exit check sees their effect.                                *)
(***************************************************************************)
EXTENDS App

VARIABLES
  pc,                   \* where main is
  ready,                \* the descriptors that poll reported
  session_lock,         \* "held", or "NULL" once the proxy is destroyed
  session_is_locked,    \* state->session_is_locked
  session_is_finished,  \* state->session_is_finished
  completed_writing,    \* main's local of that name
  exit_code,            \* "none" until the process ends
  request,              \* the buffered request that ends the lock, or "none"
  lock,                 \* the compositor's state of the lock
  finished_sent,        \* has the compositor sent `finished'?
  early_input,          \* did input arrive before `locked' was handled?
  saved                 \* does the recovery file hold the whole document?

loopVars       == <<pc, ready, completed_writing, exit_code>>
lockObjectVars == <<session_lock, session_is_locked, session_is_finished>>
compositorVars == <<lock, finished_sent, early_input>>
vars == <<appVars, loopVars, lockObjectVars, compositorVars, request, saved>>

Descriptor == {"wayland", "repeat", "save"}

(* setup_initial_state has asked for the lock and created an empty         *)
(* recovery file for the empty document.                                   *)
Init ==
  /\ AppInit
  /\ pc = "poll"
  /\ ready = {}
  /\ session_lock = "held"
  /\ session_is_locked = FALSE
  /\ session_is_finished = FALSE
  /\ completed_writing = FALSE
  /\ exit_code = "none"
  /\ request = "none"
  /\ lock = "pending"
  /\ finished_sent = FALSE
  /\ early_input = FALSE
  /\ saved = TRUE

Goto(from, to) ==
  /\ pc = from
  /\ pc' = to

ExitWith(code) ==
  /\ pc' = "exited"
  /\ exit_code' = code

-----------------------------------------------------------------------------
(* The compositor.                                                         *)

CompositorLocks ==
  /\ lock = "pending"
  /\ ~finished_sent
  /\ pc # "exited"
  /\ lock' = "locked"
  /\ UNCHANGED <<appVars, loopVars, lockObjectVars, finished_sent, early_input,
                 request, saved>>

(* It denies the lock, or ends it by a way of its own.  The event is sent  *)
(* at most once for a lock object.                                         *)
CompositorFinishes ==
  /\ lock \in {"pending", "locked"}
  /\ ~finished_sent
  /\ pc # "exited"
  /\ finished_sent' = TRUE
  /\ UNCHANGED <<appVars, loopVars, lockObjectVars, lock, early_input, request, saved>>

(* What becomes of the lock when the buffered request arrives: destroying  *)
(* a locked lock, and unlocking one that is not, are protocol errors.      *)
LockAfterRequest ==
  CASE request = "none"               -> lock
    [] request = "destroy"            -> IF lock = "locked" THEN "protocol_error"
                                                            ELSE "released"
    [] request = "unlock_and_destroy" -> IF lock = "locked" THEN "released"
                                                            ELSE "protocol_error"

-----------------------------------------------------------------------------
(* Waiting for events: the loop head of main and                           *)
(* poll_for_events_and_timer_completion.                                   *)

(* A descriptor may also report an error only, which main ignores. *)
PollReturns ==
  /\ Goto("poll", "dispatch")
  /\ ready' \in SUBSET Descriptor
  /\ UNCHANGED <<appVars, lockObjectVars, compositorVars, request, saved,
                 completed_writing, exit_code>>

(* poll returned -1: main returns at once, without releasing the lock. *)
PollFails ==
  /\ pc = "poll"
  /\ ExitWith("failure")
  /\ UNCHANGED <<appVars, lockObjectVars, compositorVars, request, saved,
                 ready, completed_writing>>

(* A handler runs while main dispatches events: in every iteration that    *)
(* the socket woke up, and in the round trip after the release.            *)
Dispatching == (pc = "dispatch" /\ "wayland" \in ready) \/ pc = "roundtrip"

(* An input reaches anvi_app_handle_input.  The recovery file falls behind *)
(* as soon as the document changes.  The compositor decides when the lock  *)
(* surfaces get the keyboard, and nothing here waits for `locked'.         *)
TakeInput ==
  /\ HandleInput
  /\ saved' = (saved /\ document' = document)
  /\ early_input' = (early_input \/ ~session_is_locked)
  /\ UNCHANGED <<lockObjectVars, lock, finished_sent, request, ready,
                 completed_writing, exit_code>>

KeyEvent ==
  /\ Dispatching
  /\ TakeInput
  /\ UNCHANGED pc

(* session_locked.  Events of one connection arrive in the order sent, and *)
(* none arrives for a destroyed proxy.                                     *)
SessionLocked ==
  /\ pc = "dispatch" /\ "wayland" \in ready
  /\ session_lock = "held"
  /\ lock = "locked"
  /\ session_is_locked' = TRUE
  /\ UNCHANGED <<appVars, loopVars, session_lock, session_is_finished,
                 compositorVars, request, saved>>

(* session_finished *)
SessionFinished ==
  /\ pc = "dispatch" /\ "wayland" \in ready
  /\ session_lock = "held"
  /\ finished_sent
  /\ lock = "locked" => session_is_locked
  /\ session_is_finished' = TRUE
  /\ UNCHANGED <<appVars, loopVars, session_lock, session_is_locked,
                 compositorVars, request, saved>>

DispatchEnds ==
  /\ Goto("dispatch", "repeat")
  /\ UNCHANGED <<appVars, lockObjectVars, compositorVars, request, saved,
                 ready, completed_writing, exit_code>>

(* handle_timer: the key that repeats, if one does, is pressed once more.  *)
(* Keyboard.tla says which key and when.                                   *)
HandleTimer ==
  /\ Goto("repeat", "save")
  /\ \/ "repeat" \in ready /\ TakeInput
     \/ UNCHANGED <<appVars, lockObjectVars, compositorVars, request, saved,
                    ready, completed_writing, exit_code>>

(* write_bytes_to_document_fd as a whole: the file holds the document, or  *)
(* the call failed and it may hold less.  Recovery.tla has the steps.      *)
WriteSucceeds == saved' = TRUE
WriteFails    == saved' \in {FALSE, saved}

(* handle_save_timer: a failing write is not reported, a timer that cannot *)
(* be started again ends the process.                                      *)
HandleSaveTimer ==
  /\ pc = "save"
  /\ \/ "save" \notin ready /\ UNCHANGED saved
     \/ "save" \in ready /\ (WriteSucceeds \/ WriteFails)
  /\ \/ pc' = "check" /\ UNCHANGED exit_code
     \/ "save" \in ready /\ ExitWith("failure")
  /\ UNCHANGED <<appVars, lockObjectVars, compositorVars, request, ready,
                 completed_writing>>

-----------------------------------------------------------------------------
(* The checks at the end of an iteration.                                  *)

(* Slip: always the plain destructor of the proxy. *)
DestroySessionLock ==
  /\ request' = "destroy"
  /\ session_lock' = "NULL"
  /\ UNCHANGED <<session_is_locked, session_is_finished>>

(* safe_unlock_and_destroy_session_lock: the request is buffered. *)
SafeUnlockAndDestroySessionLock ==
  /\ request' = IF session_is_locked THEN "unlock_and_destroy" ELSE "destroy"
  /\ session_lock' = "NULL"
  /\ UNCHANGED <<session_is_locked, session_is_finished>>

(* The compositor has ended the lock: main leaves the loop without a save, *)
(* and destroy_anvi_state disconnects without a flush.                     *)
LeaveFinishedSession ==
  /\ pc = "check"
  /\ session_is_finished
  /\ SafeUnlockAndDestroySessionLock
  /\ ExitWith("success")
  /\ UNCHANGED <<appVars, compositorVars, saved, ready, completed_writing>>

(* The exit check of a prompt lets the user leave; the round trip of main  *)
(* flushes the release before it dispatches anything.                      *)
ReleaseOnQuit ==
  /\ pc = "check"
  /\ ~session_is_finished
  /\ TakeQuitRequest
  /\ SafeUnlockAndDestroySessionLock
  /\ completed_writing' = (phase = Finished)
  /\ pc' = "flush"
  /\ UNCHANGED <<compositorVars, saved, ready, exit_code>>

(* Slip: a request made at a prompt is dropped. *)
NextIterationDroppingRequest ==
  /\ Goto("check", "poll")
  /\ ~session_is_finished
  /\ \/ HandleNormalPhaseExitCheck
     \/ TakeQuitRequest
     \/ phase # Normal /\ ~user_wants_to_quit /\ UNCHANGED appVars
  /\ UNCHANGED <<lockObjectVars, compositorVars, request, saved, ready,
                 completed_writing, exit_code>>

NextIteration ==
  /\ Goto("check", "poll")
  /\ ~session_is_finished
  /\ \/ HandleNormalPhaseExitCheck
     \/ phase # Normal /\ ~user_wants_to_quit /\ UNCHANGED appVars
  /\ UNCHANGED <<lockObjectVars, compositorVars, request, saved, ready,
                 completed_writing, exit_code>>

-----------------------------------------------------------------------------
(* Leaving.                                                                *)

(* The first half of wl_display_roundtrip: the release reaches the         *)
(* compositor.                                                             *)
FlushRelease ==
  /\ Goto("flush", "roundtrip")
  /\ lock' = LockAfterRequest
  /\ request' = "none"
  /\ UNCHANGED <<appVars, lockObjectVars, finished_sent, early_input, saved, ready,
                 completed_writing, exit_code>>

RoundtripEnds ==
  /\ Goto("roundtrip", "write")
  /\ UNCHANGED <<appVars, lockObjectVars, compositorVars, request, saved,
                 ready, completed_writing, exit_code>>

(* Slip: the result of the write is ignored. *)
FinalWriteUnchecked ==
  /\ pc = "write"
  /\ WriteSucceeds \/ WriteFails
  /\ \/ completed_writing /\ pc' = "dialog" /\ UNCHANGED exit_code
     \/ ~completed_writing /\ ExitWith("success")
  /\ UNCHANGED <<appVars, lockObjectVars, compositorVars, request, ready,
                 completed_writing>>

(* The final save; the save dialog is only for a finished document. *)
FinalWrite ==
  /\ pc = "write"
  /\ \/ /\ WriteSucceeds
        /\ \/ completed_writing /\ pc' = "dialog" /\ UNCHANGED exit_code
           \/ ~completed_writing /\ ExitWith("success")
     \/ /\ WriteFails
        /\ ExitWith("failure")
  /\ UNCHANGED <<appVars, lockObjectVars, compositorVars, request, ready,
                 completed_writing>>

(* anvi_show_save_dialog: it copies the recovery file, or not. *)
SaveDialog ==
  /\ pc = "dialog"
  /\ \E code \in {"success", "failure"} : ExitWith(code)
  /\ UNCHANGED <<appVars, lockObjectVars, compositorVars, request, saved,
                 ready, completed_writing>>

Exited == pc = "exited" /\ UNCHANGED vars

-----------------------------------------------------------------------------
Handler   == KeyEvent \/ SessionLocked \/ SessionFinished
Iteration == DispatchEnds \/ HandleTimer \/ HandleSaveTimer \/ NextIteration
Leaving   == \/ LeaveFinishedSession \/ ReleaseOnQuit \/ FlushRelease
             \/ RoundtripEnds \/ FinalWrite
Next ==
  \/ CompositorLocks \/ CompositorFinishes
  \/ PollReturns \/ PollFails \/ Handler
  \/ Iteration \/ Leaving \/ SaveDialog
  \/ Exited

(* A wake-up dispatches finitely many events and the handlers return, so   *)
(* main goes on; nothing makes the user, the compositor or poll act.       *)
Fairness == WF_vars(Iteration) /\ WF_vars(Leaving)

Spec == Init /\ [][Next]_vars /\ Fairness

-----------------------------------------------------------------------------
(* Properties.                                                             *)

(* Type invariant of the session. *)
SessionTypeOK ==
  /\ AppTypeOK
  /\ pc \in {"poll", "dispatch", "repeat", "save", "check", "flush",
             "roundtrip", "write", "dialog", "exited"}
  /\ ready \subseteq Descriptor
  /\ session_lock \in {"held", "NULL"}
  /\ session_is_locked \in BOOLEAN
  /\ session_is_finished \in BOOLEAN
  /\ completed_writing \in BOOLEAN
  /\ exit_code \in {"none", "success", "failure"}
  /\ request \in {"none", "destroy", "unlock_and_destroy"}
  /\ lock \in {"pending", "locked", "released", "protocol_error"}
  /\ finished_sent \in BOOLEAN
  /\ early_input \in BOOLEAN
  /\ saved \in BOOLEAN

(* A request to quit is answered in the iteration that sees it: when main  *)
(* waits for the next event none is pending, so a Ctrl+q pressed too early *)
(* cannot end the writing later (main.c:58-69, app.c:89-145).              *)
QuitConsumed == pc = "poll" => ~user_wants_to_quit

(* A user who quits gets the session back before main writes the document  *)
(* or opens a dialog: the compositor has ended the lock, so neither a full *)
(* disk nor a failing dialog can leave the screen locked, provided that no *)
(* input was handled before `locked' (app.c:103-113, main.c:71-100).       *)
QuitReleasesSession ==
  /\ session_lock = "NULL" /\ ~session_is_finished /\ pc # "flush"
  /\ ~early_input
  => lock = "released"

(* The save dialog offers a recovery file that holds the whole document,   *)
(* the text typed during the last round trip included (main.c:74-92).      *)
DialogAfterSave == pc = "dialog" => saved /\ completed_writing

(* A request to quit at a prompt is honoured: main reaches its end, unless *)
(* input of the same wake-up takes the user back to writing.               *)
QuitHonoured ==
  (phase # Normal /\ user_wants_to_quit /\ session_lock = "held")
    ~> (pc \in {"dialog", "exited"} \/ phase = Normal)

(* The promise of WritingLock, kept by the main loop. *)
StageOf(ph) ==
  IF ph = StartConfiguration THEN "choosing"
  ELSE IF ph = Normal THEN "writing" ELSE "congratulated"

stageNow ==
  IF session_lock = "held" THEN StageOf(phase)
  ELSE IF session_is_finished THEN "dismissed" ELSE "released"

wordsNow  == IF session_lock = "held" THEN WordCount(document) ELSE 0
targetNow == IF session_lock = "held" THEN words_to_exit ELSE 0

Promise == INSTANCE WritingLock WITH
  Targets <- Target,
  stage   <- stageNow,
  words   <- wordsNow,
  target  <- targetNow

(* Every step of the program is one that WritingLock allows, or none: the  *)
(* lock is given back only at a prompt, and the congratulations are        *)
(* reached only with enough words (main.c:53-95).                          *)
KeepsPromise == Promise!WLSpec
=============================================================================
