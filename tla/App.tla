--------------------------------- MODULE App ---------------------------------
(***************************************************************************)
(* The input handlers and the exit checks of src/src/app.c: the three      *)
(* phases of a writing session (choose a target, write, congratulations),  *)
(* the text typed at the prompts, the document, the number of words to     *)
(* write and the user's request to quit.                                   *)
(*                                                                         *)
(* One action per handler.  Session.tla runs these actions inside the      *)
(* main loop; here they interleave freely, which is more than the loop     *)
(* allows.  Of the two text buffers only the text is kept: an edit may     *)
(* happen at any position (Editing.tla), so moving a cursor changes        *)
(* nothing here.                                                           *)
(***************************************************************************)
EXTENDS Editing, SequencesExt

CONSTANTS
  Texts,                 \* what one key press can type: sequences of characters
  MaxPromptDigits,       \* longest prompt read as a number (7 in the source)
  MaximumNumberOfChars,  \* MAXIMUM_NUMBER_OF_CHARS of text_buffer.h
  MaxDocument,           \* bound of the model: longest document
  MaxPrompt              \* bound of the model: longest prompt

Char == {NewLine} \cup UNION { { t[i] : i \in 1 .. Len(t) } : t \in Texts }

ASSUME ConstantsAssumption ==
  /\ Texts \subseteq Seq(Nat)
  /\ MaxPromptDigits \in Nat
  /\ MaximumNumberOfChars \in Nat \ {0}
  /\ MaxDocument \in Nat
  /\ MaxPrompt \in Nat

VARIABLES
  phase,                                  \* state->phase
  prompt_input,                           \* the text of state->prompt_input
  document,                               \* the text of state->document
  words_to_exit,                          \* state->words_to_exit
  user_wants_to_quit,                     \* state->user_wants_to_quit
  start_phase_include_invalid_input_text  \* the warning of the first prompt

appVars == <<phase, prompt_input, document, words_to_exit, user_wants_to_quit,
             start_phase_include_invalid_input_text>>

StartConfiguration == "START_CONFIGURATION"
Normal             == "NORMAL"
Finished           == "FINISHED"
Phase              == {StartConfiguration, Normal, Finished}

-----------------------------------------------------------------------------
(* Reading a prompt. *)

Digit == 48 .. 57
CharQ == 113

(* The targets number_in_text_buffer lets through: ten characters a word   *)
(* must stay below the capacity of a text buffer.                          *)
Target == { n \in Nat : n * 10 < MaximumNumberOfChars }

DecimalValue(p) == FoldLeft(LAMBDA acc, c : acc * 10 + (c - 48), 0, p)

(* Slip: without the limit on the number. *)
NumberInTextBufferUnlimited(p) ==
  IF Len(p) > MaxPromptDigits \/ \E i \in 1 .. Len(p) : p[i] \notin Digit
  THEN -1 ELSE DecimalValue(p)

(* number_in_text_buffer: -1 unless p is a short row of digits in range.   *)
(* The empty prompt is such a row, and reads as 0.                         *)
NumberInTextBuffer(p) ==
  IF /\ Len(p) <= MaxPromptDigits
     /\ \A i \in 1 .. Len(p) : p[i] \in Digit
     /\ DecimalValue(p) \in Target
  THEN DecimalValue(p)
  ELSE -1

IsQ(p) == p = <<CharQ>>

-----------------------------------------------------------------------------
AppInit ==
  /\ phase = StartConfiguration
  /\ prompt_input = << >>
  /\ document = << >>
  /\ words_to_exit = 0
  /\ user_wants_to_quit = FALSE
  /\ start_phase_include_invalid_input_text = FALSE

(* The text of get_currently_active_text_buffer. *)
ActiveText == IF phase = Normal THEN document ELSE prompt_input

(* An edit of that buffer makes its text one of texts. *)
EditActiveText(texts) ==
  /\ \/ /\ phase = Normal
        /\ document' \in { s \in texts : Len(s) <= MaxDocument }
        /\ UNCHANGED prompt_input
     \/ /\ phase # Normal
        /\ prompt_input' \in { s \in texts : Len(s) <= MaxPrompt }
        /\ UNCHANGED document
  /\ UNCHANGED <<phase, words_to_exit, user_wants_to_quit,
                 start_phase_include_invalid_input_text>>

InsertText(t) == EditActiveText(Inserted(ActiveText, t))
Backspace     == EditActiveText(Erased(ActiveText))

(* Slip: writing starts whatever was typed. *)
HandleConfigurationPhaseEnterUnchecked ==
  /\ IF IsQ(prompt_input)
     THEN user_wants_to_quit' = TRUE /\ UNCHANGED <<phase, prompt_input, words_to_exit>>
     ELSE /\ words_to_exit' = NumberInTextBuffer(prompt_input)
          /\ phase' = Normal
          /\ prompt_input' = << >>
          /\ UNCHANGED user_wants_to_quit
  /\ UNCHANGED start_phase_include_invalid_input_text

(* handle_configuration_phase_enter *)
HandleConfigurationPhaseEnter ==
  LET x == NumberInTextBuffer(prompt_input) IN
  \/ /\ IsQ(prompt_input)
     /\ user_wants_to_quit' = TRUE
     /\ UNCHANGED <<phase, prompt_input, words_to_exit,
                    start_phase_include_invalid_input_text>>
  \/ /\ ~IsQ(prompt_input)
     /\ x = -1
     /\ start_phase_include_invalid_input_text' = TRUE
     /\ prompt_input' = << >>
     /\ UNCHANGED <<phase, words_to_exit, user_wants_to_quit>>
  \/ /\ ~IsQ(prompt_input)
     /\ x # -1
     /\ words_to_exit' = x
     /\ phase' = Normal
     /\ prompt_input' = << >>
     /\ UNCHANGED <<user_wants_to_quit, start_phase_include_invalid_input_text>>

(* Slip: the prompt keeps its text when writing goes on. *)
HandleFinishPhaseEnterKeepingPrompt ==
  LET y == NumberInTextBuffer(prompt_input) IN
  /\ \/ y = -1 /\ user_wants_to_quit' = TRUE /\ UNCHANGED <<phase, words_to_exit>>
     \/ /\ y # -1 /\ words_to_exit' = y /\ phase' = Normal
        /\ UNCHANGED user_wants_to_quit
  /\ UNCHANGED <<prompt_input, start_phase_include_invalid_input_text>>

(* handle_finish_phase_enter *)
HandleFinishPhaseEnter ==
  LET y == NumberInTextBuffer(prompt_input) IN
  /\ \/ /\ y = -1
        /\ user_wants_to_quit' = TRUE
        /\ UNCHANGED <<phase, prompt_input, words_to_exit>>
     \/ /\ y # -1
        /\ words_to_exit' = y
        /\ phase' = Normal
        /\ prompt_input' = << >>
        /\ UNCHANGED user_wants_to_quit
  /\ UNCHANGED start_phase_include_invalid_input_text

(* handle_enter *)
HandleEnter ==
  \/ /\ phase = StartConfiguration
     /\ HandleConfigurationPhaseEnter
     /\ UNCHANGED document
  \/ /\ phase = Normal
     /\ InsertText(<<NewLine>>)
  \/ /\ phase = Finished
     /\ HandleFinishPhaseEnter
     /\ UNCHANGED document

(* handle_input_text_when_ctrl_down: Ctrl+q, in any phase. *)
HandleCtrlQ ==
  /\ user_wants_to_quit' = TRUE
  /\ UNCHANGED <<phase, prompt_input, document, words_to_exit,
                 start_phase_include_invalid_input_text>>

(* anvi_app_handle_input, one disjunct per kind of input.  The arrows, and *)
(* every chord with Ctrl but Ctrl+q, leave the texts as they are.          *)
HandleInput ==
  \/ HandleCtrlQ
  \/ HandleEnter
  \/ \E t \in Texts : InsertText(t)
  \/ Backspace
  \/ UNCHANGED appVars

-----------------------------------------------------------------------------
(* The exit checks that the main loop makes once per iteration.            *)

NormalPhaseExitConditionFulfilled == WordCount(document) >= words_to_exit

(* Slip: any request to quit ends the writing. *)
HandleNormalPhaseExitCheckUnearned ==
  /\ phase = Normal
  /\ user_wants_to_quit' = FALSE
  /\ phase' = IF user_wants_to_quit THEN Finished ELSE Normal
  /\ UNCHANGED <<prompt_input, document, words_to_exit,
                 start_phase_include_invalid_input_text>>

(* Slip: a request that comes too early stays pending. *)
HandleNormalPhaseExitCheckKeepingRequest ==
  /\ phase = Normal
  /\ IF user_wants_to_quit /\ NormalPhaseExitConditionFulfilled
     THEN phase' = Finished /\ user_wants_to_quit' = FALSE
     ELSE UNCHANGED <<phase, user_wants_to_quit>>
  /\ UNCHANGED <<prompt_input, document, words_to_exit,
                 start_phase_include_invalid_input_text>>

(* handle_normal_phase_exit_check: the request is consumed either way. *)
HandleNormalPhaseExitCheck ==
  /\ phase = Normal
  /\ user_wants_to_quit' = FALSE
  /\ phase' = IF user_wants_to_quit /\ NormalPhaseExitConditionFulfilled
              THEN Finished ELSE Normal
  /\ UNCHANGED <<prompt_input, document, words_to_exit,
                 start_phase_include_invalid_input_text>>

(* The checks of the two prompts, when they let the user leave: the        *)
(* request is consumed.  Session.tla adds the release of the lock.         *)
TakeQuitRequest ==
  /\ phase # Normal
  /\ user_wants_to_quit
  /\ user_wants_to_quit' = FALSE
  /\ UNCHANGED <<phase, prompt_input, document, words_to_exit,
                 start_phase_include_invalid_input_text>>

AppNext ==
  \/ HandleInput
  \/ HandleNormalPhaseExitCheck
  \/ TakeQuitRequest

AppSpec == AppInit /\ [][AppNext]_appVars

-----------------------------------------------------------------------------
(* Properties.                                                             *)

(* Type invariant of the application state.                                *)
AppTypeOK ==
  /\ phase \in Phase
  /\ prompt_input \in Seq(Char)
  /\ document \in Seq(Char)
  /\ words_to_exit \in Target
  /\ user_wants_to_quit \in BOOLEAN
  /\ start_phase_include_invalid_input_text \in BOOLEAN

(* On the congratulations screen the document has the words that were      *)
(* asked for: neither text nor target can change there, whatever is typed  *)
(* or was still queued when the phase changed (app.c:125-133, 190-200).    *)
EarnedFinish ==
  phase = Finished => WordCount(document) >= words_to_exit

(* While the user writes, the prompt is empty, so the congratulations      *)
(* screen never opens on a leftover answer that Enter would submit         *)
(* (app.c:186, 198).                                                       *)
PromptFreshInNormal ==
  phase = Normal => prompt_input = << >>

(* sprintf in draw_word_counter writes "<words> / <target>" into text[15]: *)
(* the digits of the largest word count a full buffer can hold and those   *)
(* of the target, the three characters between them and the final NUL.     *)
LabelCapacity == 15
PowersOfTen     == {10, 100, 1000, 10000, 100000, 1000000, 10000000, 100000000}
Digits(n)       == 1 + Cardinality({ p \in PowersOfTen : p <= n })
LabelLength(wc, target) == Digits(wc) + 3 + Digits(target) + 1

(* The word counter fits its buffer for every target that can be typed     *)
(* and every document that fits a text buffer (render.c:28, app.c:161).    *)
CounterLabelFits ==
  LabelLength(MaximumNumberOfChars \div 2, words_to_exit) <= LabelCapacity

(* The warning of the first prompt: "Please enter an integer between 1     *)
(* and 999999." (render.c:63).  Writing toward any other target means that *)
(* the prompt took what it calls invalid.                                  *)
TargetInAdvertisedRange ==
  phase = Normal => words_to_exit \in 1 .. 999999
=============================================================================
