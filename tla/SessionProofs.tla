--------------------------- MODULE SessionProofs ---------------------------
(***************************************************************************)
(* Proofs about the main loop of Session: its types, two safety            *)
(* properties, and that it keeps the promise of WritingLock.               *)
(***************************************************************************)
EXTENDS Session, AppProofs, FiniteSetTheorems

(* Every step leaves the state of the application alone, lets a handler    *)
(* take an input, or makes an exit check.                                  *)
LEMMA AppSteps ==
  ASSUME [Next]_vars
  PROVE  \/ UNCHANGED appVars
         \/ HandleInput
         \/ HandleNormalPhaseExitCheck
         \/ TakeQuitRequest
  BY DEF Next, vars, CompositorLocks, CompositorFinishes, PollReturns, PollFails,
         Handler, KeyEvent, TakeInput, SessionLocked, SessionFinished,
         Iteration, DispatchEnds, HandleTimer, HandleSaveTimer, NextIteration,
         Leaving, LeaveFinishedSession, ReleaseOnQuit, FlushRelease,
         RoundtripEnds, FinalWrite, SaveDialog, Exited

(* The loop implements App, so what was proved there holds here.           *)
LEMMA ImplementsApp == Spec => AppSpec
  <1>1. Init => AppInit
    BY DEF Init
  <1>2. [Next]_vars => [AppNext]_appVars
    BY AppSteps DEF AppNext
  <1>. QED
    BY <1>1, <1>2, PTL DEF Spec, AppSpec

(* On the congratulations screen the document has the words asked for,     *)
(* whatever the order of events within one wake-up (main.c:58-69).         *)
THEOREM SessionFinishIsEarned == Spec => []EarnedFinish
  BY ImplementsApp, FinishIsEarned, PTL

-----------------------------------------------------------------------------
(* Types of what Session adds to the state of App. *)
LoopTypeOK ==
  /\ pc \in {"poll", "dispatch", "repeat", "save", "check", "flush",
             "roundtrip", "write", "dialog", "exited"}
  /\ ready \subseteq Descriptor
  /\ session_lock \in {"held", "NULL"}
  /\ session_is_locked \in BOOLEAN
  /\ session_is_finished \in BOOLEAN
  /\ completed_writing \in BOOLEAN
  /\ exit_code \in {"none", "success", "failure"}
  /\ request \in {"none", "destroy", "unlock_and_destroy"}
  /\ lock \in {"pending", "locked", "released", "protocol_error"}
  /\ finished_sent \in BOOLEAN
  /\ early_input \in BOOLEAN
  /\ saved \in BOOLEAN

LEMMA LoopTypeInv == LoopTypeOK /\ [Next]_vars => LoopTypeOK'
  <1>. SUFFICES ASSUME LoopTypeOK, [Next]_vars PROVE LoopTypeOK'
    OBVIOUS
  <1>. USE DEF LoopTypeOK, loopVars, lockObjectVars, compositorVars
  <1>1. CASE CompositorLocks \/ CompositorFinishes
    BY <1>1 DEF CompositorLocks, CompositorFinishes
  <1>2. CASE PollReturns \/ PollFails
    BY <1>2 DEF PollReturns, PollFails, Goto, ExitWith
  <1>3. CASE KeyEvent
    BY <1>3 DEF KeyEvent, TakeInput
  <1>4. CASE SessionLocked \/ SessionFinished
    <2>1. CASE SessionLocked
      BY <2>1 DEF SessionLocked
    <2>2. CASE SessionFinished
      BY <2>2 DEF SessionFinished
    <2>. QED
      BY <1>4, <2>1, <2>2
  <1>5. CASE DispatchEnds \/ HandleTimer
    BY <1>5 DEF DispatchEnds, HandleTimer, Goto, TakeInput
  <1>6. CASE HandleSaveTimer
    <2>1. saved' \in {TRUE, FALSE, saved}
      BY <1>6 DEF HandleSaveTimer, WriteSucceeds, WriteFails
    <2>2. saved' \in BOOLEAN
      BY <2>1
    <2>3. /\ pc' \in {"check", "exited"}
          /\ exit_code' \in {exit_code, "failure"}
      BY <1>6 DEF HandleSaveTimer, ExitWith
    <2>4. UNCHANGED <<lockObjectVars, compositorVars, request, ready, completed_writing>>
      BY <1>6 DEF HandleSaveTimer
    <2>. QED
      BY <2>2, <2>3, <2>4
  <1>7. CASE NextIteration
    BY <1>7 DEF NextIteration, Goto
  <1>8. CASE LeaveFinishedSession \/ ReleaseOnQuit
    BY <1>8 DEF LeaveFinishedSession, ReleaseOnQuit, ExitWith,
               SafeUnlockAndDestroySessionLock
  <1>9. CASE FlushRelease
    BY <1>9 DEF FlushRelease, LockAfterRequest, Goto
  <1>10. CASE RoundtripEnds \/ FinalWrite
    <2>1. CASE RoundtripEnds
      BY <2>1 DEF RoundtripEnds, Goto
    <2>2. CASE FinalWrite
      <3>1. saved' \in {TRUE, FALSE, saved}
        BY <2>2 DEF FinalWrite, WriteSucceeds, WriteFails
      <3>2. saved' \in BOOLEAN
        BY <3>1
      <3>. QED
        BY <2>2, <3>2 DEF FinalWrite, ExitWith
    <2>. QED
      BY <1>10, <2>1, <2>2
  <1>11. CASE SaveDialog
    BY <1>11 DEF SaveDialog, ExitWith
  <1>12. CASE UNCHANGED vars
    BY <1>12 DEF vars
  <1>. QED
    BY <1>1, <1>2, <1>3, <1>4, <1>5, <1>6, <1>7, <1>8, <1>9, <1>10, <1>11, <1>12
    DEF Next, Handler, Iteration, Leaving, Exited

(* The state of the session always has its types. *)
THEOREM SessionTypeCorrect == Spec => []SessionTypeOK
  <1>1. Init => LoopTypeOK
    BY DEF Init, LoopTypeOK
  <1>2. AppTypeOK /\ LoopTypeOK => SessionTypeOK
    BY DEF LoopTypeOK, SessionTypeOK
  <1>. QED
    BY <1>1, <1>2, LoopTypeInv, ImplementsApp, AppTypeCorrect, PTL DEF Spec

-----------------------------------------------------------------------------
(* A request to quit never waits for the next event: whatever way leads    *)
(* back to poll passes an exit check that consumes it (main.c:58-69).      *)
THEOREM QuitIsConsumed == Spec => []QuitConsumed
  <1>1. Init => QuitConsumed
    BY DEF Init, AppInit, QuitConsumed
  <1>2. QuitConsumed /\ [Next]_vars => QuitConsumed'
    <2>. SUFFICES ASSUME QuitConsumed, [Next]_vars, pc' = "poll"
                  PROVE  ~user_wants_to_quit'
      BY DEF QuitConsumed
    <2>1. CASE NextIteration
      BY <2>1 DEF NextIteration, HandleNormalPhaseExitCheck, appVars
    <2>2. CASE UNCHANGED <<pc, user_wants_to_quit>>
      BY <2>2 DEF QuitConsumed
    <2>. QED
      BY <2>1, <2>2
      DEF Next, vars, appVars, loopVars, CompositorLocks, CompositorFinishes,
          PollReturns, PollFails, Handler, KeyEvent, Dispatching, SessionLocked,
          SessionFinished, Iteration, DispatchEnds, HandleTimer, HandleSaveTimer,
          Leaving, LeaveFinishedSession, ReleaseOnQuit, FlushRelease,
          RoundtripEnds, FinalWrite, SaveDialog, Exited, Goto, ExitWith
  <1>. QED
    BY <1>1, <1>2, PTL DEF Spec

-----------------------------------------------------------------------------
(* The main loop runs with the lock object, and nothing but the round trip *)
(* and the saving runs without.                                            *)
LockInv ==
  /\ SessionTypeOK
  /\ pc \in {"poll", "dispatch", "repeat", "save", "check"} => session_lock = "held"
  /\ pc \in {"flush", "roundtrip", "write", "dialog"} => session_lock = "NULL"

LEMMA LockInvAlways == Spec => []LockInv
  <1>. DEFINE L == /\ pc \in {"poll", "dispatch", "repeat", "save", "check"}
                        => session_lock = "held"
                   /\ pc \in {"flush", "roundtrip", "write", "dialog"}
                        => session_lock = "NULL"
  <1>1. Init => L
    BY DEF Init
  <1>2. L /\ [Next]_vars => L'
    <2>. SUFFICES ASSUME L, [Next]_vars PROVE L'
      OBVIOUS
    <2>. USE DEF loopVars, lockObjectVars, Goto, ExitWith
    <2>1. CASE CompositorLocks \/ CompositorFinishes
      BY <2>1 DEF CompositorLocks, CompositorFinishes
    <2>2. CASE PollReturns \/ PollFails
      BY <2>2 DEF PollReturns, PollFails
    <2>3. CASE Handler
      BY <2>3 DEF Handler, KeyEvent, TakeInput, SessionLocked, SessionFinished
    <2>4. CASE DispatchEnds \/ HandleTimer
      BY <2>4 DEF DispatchEnds, HandleTimer, TakeInput
    <2>5. CASE HandleSaveTimer \/ NextIteration
      BY <2>5 DEF HandleSaveTimer, NextIteration
    <2>6. CASE LeaveFinishedSession \/ ReleaseOnQuit
      BY <2>6 DEF LeaveFinishedSession, ReleaseOnQuit, SafeUnlockAndDestroySessionLock
    <2>7. CASE FlushRelease \/ RoundtripEnds \/ FinalWrite \/ SaveDialog
      BY <2>7 DEF FlushRelease, RoundtripEnds, FinalWrite, SaveDialog
    <2>8. CASE UNCHANGED vars
      BY <2>8 DEF vars
    <2>. QED
      BY <2>1, <2>2, <2>3, <2>4, <2>5, <2>6, <2>7, <2>8
      DEF Next, Iteration, Leaving, Exited
  <1>3. SessionTypeOK /\ L => LockInv
    BY DEF LockInv
  <1>. QED
    BY <1>1, <1>2, <1>3, SessionTypeCorrect, PTL DEF Spec

(* A count of words is a natural number. *)
LEMMA WordCountNat ==
  ASSUME NEW S, NEW s \in Seq(S)
  PROVE  WordCount(s) \in Nat
  <1>1. IsFiniteSet(1 .. Len(s))
    BY FS_Interval
  <1>2. WordStarts(s) \subseteq 1 .. Len(s)
    BY DEF WordStarts
  <1>3. IsFiniteSet(WordStarts(s))
    BY <1>1, <1>2, FS_Subset
  <1>. QED
    BY <1>3, FS_CardinalityType DEF WordCount

LEMMA NoWordsAtFirst == WordCount(<< >>) = 0
  <1>1. WordStarts(<< >>) = {}
    BY DEF WordStarts
  <1>. QED
    BY <1>1, FS_EmptySet DEF WordCount

-----------------------------------------------------------------------------
(* The steps of the loop as steps of WritingLock. *)

LEMMA PromiseInit == Init => Promise!WLInit
  <1>. SUFFICES ASSUME Init PROVE Promise!WLInit
    OBVIOUS
  <1>1. session_lock = "held" /\ phase = StartConfiguration /\ words_to_exit = 0
    BY DEF Init, AppInit
  <1>2. stageNow = "choosing" /\ targetNow = 0
    BY <1>1 DEF stageNow, StageOf, targetNow, StartConfiguration, Normal, Finished
  <1>3. wordsNow = 0
    BY NoWordsAtFirst DEF Init, AppInit, wordsNow
  <1>. QED
    BY <1>2, <1>3 DEF Promise!WLInit

(* While main holds the lock, a step of the application that leaves the    *)
(* lock object alone chooses a target, writes, finishes, or changes        *)
(* nothing that WritingLock knows of.                                      *)
LEMMA HeldSteps ==
  ASSUME SessionTypeOK, SessionTypeOK',
         session_lock = "held", session_lock' = "held",
         \/ UNCHANGED appVars
         \/ HandleInput
         \/ HandleNormalPhaseExitCheck
  PROVE  [Promise!WLNext]_Promise!lockVars
  <1>1. stageNow = StageOf(phase) /\ stageNow' = StageOf(phase')
    BY DEF stageNow
  <1>2. /\ wordsNow = WordCount(document) /\ wordsNow' = WordCount(document')
        /\ targetNow = words_to_exit /\ targetNow' = words_to_exit'
    BY DEF wordsNow, targetNow
  <1>3. phase \in {StartConfiguration, Normal, Finished}
    BY DEF SessionTypeOK, AppTypeOK, Phase
  <1>4. words_to_exit' \in Target /\ WordCount(document') \in Nat
    BY WordCountNat DEF SessionTypeOK, AppTypeOK
  <1>5. CASE UNCHANGED <<phase, document, words_to_exit>>
    BY <1>1, <1>2, <1>5 DEF Promise!lockVars
  <1>6. CASE /\ phase \in {StartConfiguration, Finished} /\ phase' = Normal
             /\ document' = document
    <2>1. stageNow \in {"choosing", "congratulated"} /\ stageNow' = "writing"
      BY <1>1, <1>6 DEF StageOf, StartConfiguration, Normal, Finished
    <2>2. wordsNow' = wordsNow /\ targetNow' \in Target
      BY <1>2, <1>4, <1>6
    <2>. QED
      BY <2>1, <2>2 DEF Promise!WLNext, Promise!Choose
  <1>7. CASE phase = Normal /\ UNCHANGED <<phase, words_to_exit>>
    <2>1. stageNow = "writing" /\ stageNow' = stageNow
      BY <1>1, <1>7 DEF StageOf, StartConfiguration, Normal, Finished
    <2>2. wordsNow' \in Nat /\ targetNow' = targetNow
      BY <1>2, <1>4, <1>7
    <2>. QED
      BY <2>1, <2>2 DEF Promise!WLNext, Promise!Write
  <1>8. CASE /\ phase = Normal /\ phase' = Finished
             /\ NormalPhaseExitConditionFulfilled
             /\ UNCHANGED <<document, words_to_exit>>
    <2>1. stageNow = "writing" /\ stageNow' = "congratulated"
      BY <1>1, <1>8 DEF StageOf, StartConfiguration, Normal, Finished
    <2>2. wordsNow >= targetNow /\ wordsNow' = wordsNow /\ targetNow' = targetNow
      BY <1>2, <1>8 DEF NormalPhaseExitConditionFulfilled
    <2>. QED
      BY <2>1, <2>2 DEF Promise!WLNext, Promise!Finish
  <1>9. CASE UNCHANGED appVars
    BY <1>5, <1>9 DEF appVars
  <1>10. CASE HandleInput
    <2>1. CASE HandleCtrlQ \/ UNCHANGED appVars
      BY <1>5, <2>1 DEF HandleCtrlQ, appVars
    <2>2. ASSUME NEW E, EditActiveText(E) PROVE [Promise!WLNext]_Promise!lockVars
      BY <1>5, <1>7, <2>2 DEF EditActiveText
    <2>3. CASE HandleEnter
      BY <1>5, <1>6, <2>2, <2>3
      DEF HandleEnter, HandleConfigurationPhaseEnter, HandleFinishPhaseEnter, InsertText
    <2>4. CASE (\E t \in Texts : InsertText(t)) \/ Backspace
      BY <2>2, <2>4 DEF InsertText, Backspace
    <2>. QED
      BY <1>10, <2>1, <2>3, <2>4 DEF HandleInput
  <1>11. CASE HandleNormalPhaseExitCheck
    BY <1>5, <1>8, <1>11 DEF HandleNormalPhaseExitCheck
  <1>. QED
    BY <1>9, <1>10, <1>11

(* Giving the lock up is a release at a prompt or a dismissal.             *)
LEMMA ReleaseSteps ==
  ASSUME SessionTypeOK, session_lock = "held",
         LeaveFinishedSession \/ ReleaseOnQuit
  PROVE  Promise!WLNext
  <1>1. session_lock' = "NULL" /\ session_is_finished' = session_is_finished
    BY DEF LeaveFinishedSession, ReleaseOnQuit, SafeUnlockAndDestroySessionLock
  <1>2. wordsNow' = 0 /\ targetNow' = 0
    BY <1>1 DEF wordsNow, targetNow
  <1>3. phase \in {StartConfiguration, Normal, Finished}
    BY DEF SessionTypeOK, AppTypeOK, Phase
  <1>4. CASE LeaveFinishedSession
    <2>1. session_is_finished
      BY <1>4 DEF LeaveFinishedSession
    <2>2. stageNow \in {"choosing", "writing", "congratulated"}
      BY <1>3 DEF stageNow, StageOf, StartConfiguration, Normal, Finished
    <2>3. stageNow' = "dismissed"
      BY <1>1, <2>1 DEF stageNow
    <2>. QED
      BY <1>2, <2>2, <2>3 DEF Promise!WLNext, Promise!Dismiss
  <1>5. CASE ReleaseOnQuit
    <2>1. ~session_is_finished /\ phase # Normal
      BY <1>5 DEF ReleaseOnQuit, TakeQuitRequest
    <2>2. stageNow \in {"choosing", "congratulated"}
      BY <1>3, <2>1 DEF stageNow, StageOf, StartConfiguration, Normal, Finished
    <2>3. stageNow' = "released"
      BY <1>1, <2>1 DEF stageNow
    <2>. QED
      BY <1>2, <2>2, <2>3 DEF Promise!WLNext, Promise!Release
  <1>. QED
    BY <1>4, <1>5

(* Without the lock object WritingLock has ended.                          *)
LEMMA AfterReleaseSteps ==
  ASSUME session_lock = "NULL", session_lock' = "NULL",
         session_is_finished \in BOOLEAN,
         session_is_finished' = session_is_finished
  PROVE  UNCHANGED Promise!lockVars
  BY DEF Promise!lockVars, stageNow, wordsNow, targetNow

(* The main loop implements WritingLock: the session is given back only    *)
(* before writing has begun or once the target was reached, whatever the   *)
(* order of keys, timers and compositor events (main.c:53-95).             *)
THEOREM PromiseIsKept == Spec => KeepsPromise
  <1>1. LockInv /\ LockInv' /\ [Next]_vars => [Promise!WLNext]_Promise!lockVars
    <2>. SUFFICES ASSUME LockInv, LockInv', [Next]_vars
                  PROVE  [Promise!WLNext]_Promise!lockVars
      OBVIOUS
    <2>1. CASE LeaveFinishedSession \/ ReleaseOnQuit
      <3>1. session_lock = "held"
        BY <2>1 DEF LeaveFinishedSession, ReleaseOnQuit, LockInv
      <3>. QED
        BY <2>1, <3>1, ReleaseSteps DEF LockInv
    <2>2. CASE ~(LeaveFinishedSession \/ ReleaseOnQuit)
      <3>1. /\ session_lock' = session_lock
            /\ UNCHANGED appVars \/ HandleInput \/ HandleNormalPhaseExitCheck
        BY <2>2 DEF Next, vars, lockObjectVars, CompositorLocks, CompositorFinishes,
           PollReturns, PollFails, Handler, KeyEvent, TakeInput, SessionLocked,
           SessionFinished, Iteration, DispatchEnds, HandleTimer, HandleSaveTimer,
           NextIteration, Leaving, FlushRelease, RoundtripEnds, FinalWrite,
           SaveDialog, Exited
      <3>2. session_lock = "NULL" => session_is_finished' = session_is_finished
        BY <2>2 DEF Next, vars, lockObjectVars, CompositorLocks, CompositorFinishes,
           PollReturns, PollFails, Handler, KeyEvent, TakeInput, SessionLocked,
           SessionFinished, Iteration, DispatchEnds, HandleTimer, HandleSaveTimer,
           NextIteration, Leaving, FlushRelease, RoundtripEnds, FinalWrite,
           SaveDialog, Exited
      <3>3. session_lock \in {"held", "NULL"} /\ session_is_finished \in BOOLEAN
        BY DEF LockInv, SessionTypeOK
      <3>4. CASE session_lock = "held"
        BY <3>1, <3>4, HeldSteps DEF LockInv
      <3>5. CASE session_lock = "NULL"
        BY <3>1, <3>2, <3>3, <3>5, AfterReleaseSteps
      <3>. QED
        BY <3>3, <3>4, <3>5
    <2>. QED
      BY <2>1, <2>2
  <1>. QED
    BY <1>1, PromiseInit, LockInvAlways, PTL DEF Spec, KeepsPromise, Promise!WLSpec

-----------------------------------------------------------------------------
(* The save dialog opens only on a recovery file with the whole document,  *)
(* the keys handled in the last round trip included (main.c:71-92).        *)
THEOREM DialogIsAfterSave == Spec => []DialogAfterSave
  <1>1. Init => DialogAfterSave
    BY DEF Init, DialogAfterSave
  <1>2. DialogAfterSave /\ [Next]_vars => DialogAfterSave'
    <2>. SUFFICES ASSUME DialogAfterSave, [Next]_vars, pc' = "dialog"
                  PROVE  saved' /\ completed_writing'
      BY DEF DialogAfterSave
    <2>1. CASE FinalWrite
      <3>1. WriteSucceeds /\ completed_writing
        BY <2>1 DEF FinalWrite, ExitWith
      <3>. QED
        BY <2>1, <3>1 DEF FinalWrite, WriteSucceeds
    <2>2. CASE UNCHANGED <<pc, saved, completed_writing>>
      BY <2>2 DEF DialogAfterSave
    <2>. QED
      BY <2>1, <2>2
      DEF Next, vars, loopVars, CompositorLocks, CompositorFinishes, PollReturns,
          PollFails, Handler, KeyEvent, Dispatching, SessionLocked, SessionFinished,
          Iteration, DispatchEnds, HandleTimer, HandleSaveTimer, NextIteration,
          Leaving, LeaveFinishedSession, ReleaseOnQuit, FlushRelease,
          RoundtripEnds, SaveDialog, Exited, Goto, ExitWith
  <1>. QED
    BY <1>1, <1>2, PTL DEF Spec

-----------------------------------------------------------------------------
(* Why the release of a quitting user is the right request: if no key was  *)
(* handled before `locked', a request to quit means that `locked' was, and *)
(* then the lock is locked until the request arrives.                      *)
ReleaseInv ==
  /\ user_wants_to_quit /\ ~early_input => session_is_locked
  /\ session_lock = "held" /\ session_is_locked => lock = "locked"
  /\ pc = "flush" /\ ~early_input => request = "unlock_and_destroy" /\ lock = "locked"
  /\ QuitReleasesSession

LEMMA ReleaseInvStep ==
  ASSUME LockInv, LockInv', ReleaseInv, [Next]_vars
  PROVE  ReleaseInv'
  <1>. USE DEF ReleaseInv, QuitReleasesSession
  <1>1. CASE CompositorLocks
    <2>1. UNCHANGED <<pc, session_lock, session_is_locked, session_is_finished,
                      request, early_input, user_wants_to_quit>> /\ lock = "pending"
      BY <1>1 DEF CompositorLocks, loopVars, lockObjectVars, appVars
    <2>. QED
      BY <1>1, <2>1 DEF CompositorLocks
  <1>2. CASE CompositorFinishes \/ UNCHANGED vars
    BY <1>2 DEF CompositorFinishes, vars, loopVars, lockObjectVars, compositorVars, appVars
  <1>3. CASE PollReturns \/ PollFails
    <2>1. /\ UNCHANGED <<session_lock, session_is_locked, session_is_finished,
                         lock, request, early_input, user_wants_to_quit>>
          /\ pc = "poll" /\ pc' \in {"dispatch", "exited"}
      BY <1>3 DEF PollReturns, PollFails, Goto, ExitWith, lockObjectVars,
                  compositorVars, appVars
    <2>2. session_lock = "held"
      BY <2>1 DEF LockInv
    <2>. QED
      BY <2>1, <2>2
  <1>4. ASSUME TakeInput, pc # "flush", pc' # "flush"
        PROVE  ReleaseInv'
    <2>1. /\ UNCHANGED <<session_lock, session_is_locked, session_is_finished, lock>>
          /\ early_input' = (early_input \/ ~session_is_locked)
      BY <1>4 DEF TakeInput, lockObjectVars
    <2>2. CASE session_is_locked
      <3>1. ~early_input' => ~early_input
        BY <2>1
      <3>. QED
        BY <1>4, <2>1, <2>2, <3>1
    <2>3. CASE ~session_is_locked
      <3>1. early_input' /\ ~session_is_locked'
        BY <2>1, <2>3
      <3>. QED
        BY <1>4, <3>1
    <2>. QED
      BY <2>2, <2>3
  <1>5. CASE KeyEvent
    BY <1>4, <1>5 DEF KeyEvent, Dispatching
  <1>6. CASE SessionLocked \/ SessionFinished
    BY <1>6 DEF SessionLocked, SessionFinished, loopVars, compositorVars, appVars
  <1>7. CASE HandleTimer
    <2>1. pc = "repeat" /\ pc' = "save"
      BY <1>7 DEF HandleTimer, Goto
    <2>2. CASE TakeInput
      BY <1>4, <2>1, <2>2
    <2>3. CASE UNCHANGED <<appVars, lockObjectVars, compositorVars>>
      BY <2>1, <2>3 DEF appVars, lockObjectVars, compositorVars
    <2>. QED
      BY <1>7, <2>2, <2>3 DEF HandleTimer
  <1>8. CASE DispatchEnds \/ HandleSaveTimer \/ RoundtripEnds \/ FinalWrite \/ SaveDialog
    <2>1. /\ UNCHANGED <<session_lock, session_is_locked, session_is_finished,
                         lock, request, early_input, user_wants_to_quit>>
          /\ pc # "flush" /\ pc' # "flush"
      BY <1>8 DEF DispatchEnds, HandleSaveTimer, RoundtripEnds, FinalWrite, SaveDialog,
                  Goto, ExitWith, lockObjectVars, compositorVars, appVars
    <2>. QED
      BY <2>1
  <1>9. CASE NextIteration
    <2>1. /\ UNCHANGED <<session_lock, session_is_locked, session_is_finished, lock, request,
                           early_input>>
          /\ pc = "check" /\ pc' = "poll"
          /\ user_wants_to_quit' => user_wants_to_quit
      BY <1>9 DEF NextIteration, HandleNormalPhaseExitCheck, Goto, lockObjectVars,
                  compositorVars, appVars
    <2>. QED
      BY <2>1
  <1>10. CASE LeaveFinishedSession
    BY <1>10 DEF LeaveFinishedSession, SafeUnlockAndDestroySessionLock, ExitWith,
                 compositorVars, appVars
  <1>11. CASE ReleaseOnQuit
    <2>1. /\ user_wants_to_quit /\ ~user_wants_to_quit' /\ pc = "check"
          /\ pc' = "flush" /\ session_lock' = "NULL"
          /\ lock' = lock /\ early_input' = early_input
      BY <1>11 DEF ReleaseOnQuit, TakeQuitRequest, SafeUnlockAndDestroySessionLock,
                   compositorVars
    <2>2. ~early_input => session_is_locked /\ lock = "locked"
      BY <2>1 DEF LockInv
    <2>3. ~early_input => request' = "unlock_and_destroy"
      BY <1>11, <2>2 DEF ReleaseOnQuit, SafeUnlockAndDestroySessionLock
    <2>. QED
      BY <2>1, <2>2, <2>3
  <1>12. CASE FlushRelease
    <2>1. /\ pc = "flush" /\ pc' = "roundtrip"
          /\ UNCHANGED <<session_lock, session_is_locked, session_is_finished,
                         early_input, user_wants_to_quit>>
          /\ lock' = LockAfterRequest
      BY <1>12 DEF FlushRelease, Goto, lockObjectVars, appVars
    <2>2. ~early_input => lock' = "released"
      <3>. SUFFICES ASSUME ~early_input PROVE LockAfterRequest = "released"
        BY <2>1
      <3>1. request = "unlock_and_destroy" /\ lock = "locked"
        BY <2>1
      <3>. QED
        BY <3>1 DEF LockAfterRequest
    <2>3. session_lock = "NULL"
      BY <2>1 DEF LockInv
    <2>. QED
      BY <2>1, <2>2, <2>3
  <1>. QED
    BY <1>1, <1>2, <1>3, <1>5, <1>6, <1>7, <1>8, <1>9, <1>10, <1>11, <1>12
    DEF Next, Handler, Iteration, Leaving, Exited

(* If no input was handled before `locked', a user who quits has the       *)
(* session back before main saves the document or opens the dialog         *)
(* (main.c:71-100, app.c:103-113).                                         *)
THEOREM QuitGivesSessionBack == Spec => []QuitReleasesSession
  <1>1. Init => ReleaseInv
    BY DEF Init, AppInit, ReleaseInv, QuitReleasesSession
  <1>2. LockInv /\ LockInv' /\ ReleaseInv /\ [Next]_vars => ReleaseInv'
    BY ReleaseInvStep
  <1>3. ReleaseInv => QuitReleasesSession
    BY DEF ReleaseInv
  <1>. QED
    BY <1>1, <1>2, <1>3, LockInvAlways, PTL DEF Spec
=============================================================================
