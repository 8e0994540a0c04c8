# A formal model of Anvi

Anvi locks a Wayland session until its user has written enough words. This directory holds
TLA+ models of that program, TLC configurations that check them, and proofs checked by TLAPS.
Paths such as `src/src/app.c` refer to the repository; line references in the modules leave
the directory out (`app.c:125`).

## 1. Inventory

| Part | State | Operations | Talks to |
|---|---|---|---|
| input and phases (`app.c`) | `phase`, `prompt_input`, `document`, `words_to_exit`, `user_wants_to_quit`, the warning flag | `anvi_app_handle_input` and the handlers below it, three exit checks | called by keyboard and main loop, edits text buffers |
| main loop (`main.c`, `poll_for_events_and_timer_completion`) | none of its own beyond locals | poll, dispatch, repeat timer, save timer, exit check, release, round trip, final save, dialog | everything |
| session lock (`app.c`, `session_setup.c`) | `session_lock`, `session_is_locked`, `session_is_finished` | `session_locked`, `session_finished`, `safe_unlock_and_destroy_session_lock` | the compositor (ext-session-lock-v1) |
| setup and teardown (`session_setup.c`) | the whole of `anvi_state` | registry and seat handlers, `setup_initial_state`, `destroy_anvi_state` | the compositor |
| text buffer (`text_buffer.c`) | `data`, `length_bytes`, `cursor_bytes` | insert, backspace, arrows, reset, word count | libgrapheme |
| keyboard (`keyboard.c`) | keymap and xkb state, repetition (`repeat_active`, `repeating_keycode`, rate, delay), a timer | keymap, enter, leave, key, modifiers, repeat_info, `handle_timer`, create, destroy | the compositor, the kernel's timer, input |
| recovery file (`storage.c`) | a file, its offset, a timer | create with a fresh name, truncate and write, restart the timer | the file system, other instances |
| save dialog (`save_dialog.c`) | none | copy the recovery file to a chosen place | GTK, the file system |
| outputs, buffers, rendering (`output.c`, `buffer.c`, `render.c`) | list of outputs, lock surfaces, two buffers each, frame callbacks, the offset each output scrolls by | add, remove, configure (resize), draw, release | the compositor |
| Pango/Cairo adapter (`pangocairo_adapter.c`) | one layout for all outputs, the column of a vertical movement | begin a frame, move by a line, end a movement, draw | input, rendering, Pango |
| configuration (`config.c`) | `save_dir` | defaults, parse a line, load a file | GLib |
| logging (`log.c`) | none | print | - |

The program has one thread. What makes it hard is not preemption but order: a single wake-up
of poll dispatches any number of events before the timers it reported are handled and before
the exit check looks at the phase; the compositor's events about the lock race the user's keys;
the release of the lock is a request that sits in a buffer until a flush; a save is several
system calls, each of which may fail, be cut short by a kill, or meet another instance that
tries the same names. What makes each part correct:

- *input and phases*: the congratulations cannot be reached without the words; an old answer is
  never submitted; a premature request to quit is forgotten.
- *main loop and lock*: the session is given back only before writing or after success; whoever
  quits does get it back, and before anything that may fail; the dialog shows a complete file.
- *text buffer*: the array is always the text as a C string, the cursor stays inside it, and
  every operation is the edit it claims to be.
- *keyboard*: only a key that is not known to be up repeats, only when its timer has run out,
  only with a keymap; a held key does repeat; losing the keyboard does no harm.
- *recovery*: files are not shared, not overwritten, always the beginning of one version, and
  complete in the end.
- *setup*: the lock is requested only with everything in place, a setup that fails never locks, and
  every output known by then is covered.
- *outputs and buffers*: one frame callback per output, a buffer is drawn only when the compositor
  has done with it, nothing is used after it was freed, and what is typed gets to the screen.
- *cursor and view*: a move up or down keeps its column, and a frame shows the cursor.
- *configuration*: a file means what it says, line by line, and nothing longer than the array is kept.

`PROJECT.json` lists the hazards one by one with their lines. Where a property covers a hazard only in part, or none
does because the code behaves that way and no text of the repository denies it, its note says so.

## 2. Modules

| Module | Models | Depends on |
|---|---|---|
| `Editing` | what an edit does to a text; counting words (reference definition) | - |
| `App` | `app.c`: handlers of input, exit checks | `Editing` |
| `WritingLock` | abstract: what Anvi promises to its user | - |
| `Session` | `main.c`, polling and dispatch, session lock with its compositor, final save, dialog | `App`; implements `WritingLock` |
| `TextEditor` | abstract: a text with a cursor, as left and right part | - |
| `TextBuffer` | `text_buffer.c` byte by byte | `Editing`; implements `TextEditor` |
| `Keyboard` | `keyboard.c`, `seat_capabilities`, the part of poll that concerns the repeat timer | - |
| `Recovery` | `storage.c` system call by system call, in several instances, and the copy of `save_dialog.c` | - |
| `View` | vertical movement and the layout of `pangocairo_adapter.c`, scrolling of `render.c`, around a text buffer | `TextBuffer`; implements it |
| `Outputs` | `output.c`, `buffer.c`, frame callbacks of `render.c`, with the compositor's side of each | - |
| `Startup` | `setup_initial_state`, the main loop as far as it concerns outputs, `destroy_anvi_state` | `Outputs` |
| `Config` | `config.c`, with a declarative reading of a file to compare it with | - |
| `MC*` | constants for TLC | the module named |
| `AppProofs`, `SessionProofs`, `TextBufferProofs`, `ViewProofs`, `KeyboardProofs`, `RecoveryProofs`, `StartupProofs`, `ConfigProofs` | theorems | the module named, TLAPS |

Definitions marked `Slip` are plausible mistakes of a definition that follows them. They are
part of no specification; replacing the definition by its slip makes the property named in
`PROJECT.json` fail, which shows that the property depends on the code being right.

**App.** The variables are the fields of `struct anvi_state` with the same names; the two text
buffers are reduced to their text, because an edit may happen at any position. One operator per
handler. `InsertText` and `Backspace` go to the buffer that `get_currently_active_text_buffer`
selects. Characters are their codes, since reading a number and recognising `q` are part of the
control flow. `HandleInput` includes doing nothing, for arrows and chords.

**Session.** `pc` follows `main`: `poll`, `dispatch` (events, any number), `repeat`, `save`,
`check`, then `poll` again, or `flush` and `roundtrip` (the two halves of
`wl_display_roundtrip`), `write`, `dialog`, `exited`. `ready` is what poll reported and is used
after the dispatch, as in the code. `request` is the request in the client's buffer, `lock` and
`finished_sent` are the compositor's state. `early_input` records whether an input was handled
before `locked`; the protocol lets the compositor decide when lock surfaces get the keyboard, and
the program does not wait. `saved` says whether the recovery file holds the document; `Recovery`
models how it comes to do so. Exits with the lock held (poll or the timer failing) are actions
like any other. Errors of the connection are ignored by the code and left out.

**TextBuffer.** `data` is the array; bytes not written yet are `Junk`. `memmove` and `memcpy`
are what they do to the array. libgrapheme is external: a relation `Joins` on neighbouring bytes
says where no grapheme ends, which covers characters of several bytes, CR LF and combining marks,
not the rules that look further back (flags, emoji sequences). An insertion that does not fit is
undefined behaviour; the model notes it in `overrun` and stops there, since nothing is known
afterwards (the reason for `CHECK_DEADLOCK FALSE` in its three runs). Where a vertical move may lead
is left open here (`VerticalTargets`); `View` says where it does.

**View.** A text buffer in one of its two roles: the document, which has vertical movement and is
scrolled, or the prompt's input, which is reset. `layout` is the width of the renderer's layout, which
is that of the frame drawn last, on whatever output; `preferred_cursor_x` is the column of the movement.
Pango is external: graphemes are one cell wide, a line ends with its paragraph or when it is full, and
an index at such a break belongs to the next line. `GraphemeAssumption` says what UTF-8 and the grapheme rules
add to `Joins`: keys type whole characters, a character is not divided, and nothing joins the end of a paragraph
but another such end. Every frame may come with a new size, since a configure
event draws at once. `LayoutWidth` is what an unsigned width becomes below zero: no wrapping. `shown` and
`origin` are history for the properties.

**Outputs and Startup.** `Outputs` has one operator per handler, each for one output: `surface`, the two
pointers of `render_state->buffers` (`slot`), their busy flags, and the frame callbacks that wait for a
commit (`requested`). The compositor keeps the buffers it may read (`held`), the one on the screen
(`shown`) and the callbacks it has to answer (`committed`); its events wait in a queue for each output,
because events of different outputs touch different state. An event for an object that is destroyed stays in
the queue until its turn, when libwayland drops it (`WithoutReceiver`, `DropEvent`); frame callbacks outlive
their surface, so theirs are not dropped. A pointer is `NULL`, `live`, `raw` (memory that was never set)
or `freed`; following one of the last two sets `undefined` and ends the behaviour. `Startup` follows
`setup_initial_state` step by step (`pc`), each step with its failure and what it leaves, the three round
trips with the handlers they dispatch, then the loop and the teardown. `lock` separates asking for the lock
from sending the request, which takes a flush. `Fault` bounds the calls that fail.

**Config.** A file is a sequence of characters, where the only key counts as one and a space stands for
all that `isspace` accepts. `LineResult` is the parser's answer including the value it leaves unwritten
and what is left of the line after `=` was overwritten, because `anvi_config_load` looks at that line
again. `Sets`, `SetsNothing` and `ValidLine` say what a file means without parsing it.

**Keyboard.** `timer` is the kernel's timer: idle, armed, or expired; setting it forgets an
expiration, setting it to zero stops it (`SetTimer`), and reading one that has not expired is EAGAIN. A press sets
it to `repeat_delay` and a repetition to `RepeatInterval`; of these times only matters whether they are zero. Rates and
delays are not negative, as the protocol demands, so the times are valid and `timerfd_settime`, whose failures the
code only logs, does not fail. `readable` is poll's answer, used after
the dispatch. `keyState` is history: what the events have told about each key, where a key that is
down when focus is lost becomes `unseen`. `typed` is the call of `handle_key_press` of the last
step. `keyboard` is present, `NULL`, or `freed` (a structure that `anvi_keyboard_create` returns
after destroying it). Modifiers and the translation of a key to text only determine what is typed
and are left out.

**Recovery.** Bytes carry the instance, version and position they came from, so a mixture of
versions is visible. A name is its number (the code's suffix `-i`). `Killed` may happen between
any two calls.

## 3. Runs

| Run | Configuration | Shows | Bounds |
|---|---|---|---|
| `app` | `MCApp.cfg` | `AppTypeOK`, `EarnedFinish`, `PromptFreshInNormal`, `CounterLabelFits` | keys 1, q and Return; documents of 3, prompts of 8 characters |
| `range` | `MCRange.cfg` | violation of `TargetInAdvertisedRange` | prompts of 2 |
| `session` | `MCSession.cfg` | `QuitConsumed`, `QuitReleasesSession`, `DialogAfterSave`, `KeepsPromise`, `QuitHonoured` | keys 1 and space; documents of 2, prompts of 1 |
| `text_buffer` | `MCView.cfg` | `TextBufferTypeOK`, `CursorInText`, `CStringIsText`, `WordCountIsCorrect`, `ImplementsTextEditor`, `ColumnIsKept`, `FrameShowsCursor`, `ImplementsTextBuffer` | 5 bytes; a letter, LF, CR, a combining accent (2 bytes); areas of two columns with one and a half lines or half a line, and one too narrow |
| `position` | `MCPosition.cfg` | violation of `PositionIsFound` | 4 bytes, prompt operations only |
| `capacity` | `MCCapacity.cfg` | violation of `CapacityIsChecked` | 4 bytes, prompt operations only |
| `keyboard` | `MCKeyboard.cfg` | `KeyboardTypeOK`, `RepeatsOnlyUnreleasedKey`, `TimerOnlyForRepeat`, `RepeatHasKeymap`, `RepeatsOnlyWhenDue`, `HeldKeyRepeats` | two repeating keys, one that does not repeat; rates 0, 25 and beyond a billion; delays 0 and 600 |
| `unplug` | `MCUnplug.cfg` | violation of `SurvivesWithoutKeyboard` | as above |
| `recovery` | `MCRecovery.cfg` | `RecoveryTypeOK`, `NoSharedRecoveryFile`, `FileIsBeginningOfOneVersion`, `DialogOffersWholeDocument`, `LeftFilesAreKept`, `ChangesAreSaved` | two instances, two names; edits and lengths per instance, see below |
| `startup` | `MCStartup.cfg` | `StartupTypeOK`, `OneFrameCallback`, `BusyIsAccurate`, `SoundWithoutFaults`, `SetupCoversOutputs`, `FailedSetupNeverLocks`, `LocksOnlyWhenReady`, `ScreenCatchesUp` | two outputs, one of which gets two sizes; one failing call |
| `resize` | `MCResize.cfg` | violation of `BuffersFreedOnce` | as above |
| `config` | `MCConfig.cfg` | `ConfigTypeOK`, `LoadsWhatIsWritten`, `RejectsOnlyInvalid` | all files of five characters, files of three lines; a line of 8, a value of 2 characters |

Why the bounds suffice. Words need one character and a separator, so three characters give zero to
two words and every relation to a target of 0, 1 or more; prompts of eight digits cross the limit
of seven digits and that of 100000. The limits themselves keep their values from the source
(`MaximumNumberOfChars = 1000000`, seven digits). In `session` one key each is enough to pick a
target, to reach it or not, and to leave a prompt; what matters there is the order of steps. Five bytes
hold a character of two bytes, a separator and a second word with the cursor anywhere, and several lines
of different lengths in an area of two columns. One output is enough for `View`: each frame may have another
size, so the width of the shared layout changes as it would with several. Two keys are
needed for one to take over the repetition of the other, a third that does not repeat for a press that
must not disturb it; rates and delays have a value on each side of those that leave the timer at zero.
Two instances and two names meet, evade and run out of names. In `recovery` one
instance edits twice and has two bytes, so that a save may fail halfway, or after a short write, between
two versions that differ; the other edits once and has one byte, since all it does is compete for names.
In `startup` one of the two outputs gets sizes, twice, so that a resize meets frames and releases under way;
the other comes and goes and shares the list, the setup and the faults. Two outputs with sizes would only
interleave what does not touch, as their events, buffers and callbacks are disjoint. One fault reaches every failing
path and all that can follow one. The files of `config` are all those of five characters, and files of up to
three lines, made of lines that set a directory in each way, say nothing, are invalid, or just fit;
the arrays are scaled (`SizeofBuffer` 9, `MaxFilePathLen` 3), so that every line that fits by one character and
every one that does not is there. Bounds are constants: `MaxDocument`, `MaxPrompt` (guards of
`EditActiveText`), `TextBufferSize`, `MaxNames`, `MaxVersion`, `MaxLength`, `MaxConfigures`, `MaxFaults`.

**Violations.** Five runs confirm disagreements between the code and what the repository says of it:
the range that the first prompt states; a cursor inside a grapheme after Return, Left and the keypad's
Enter; the missing capacity check; the NULL dereference after the keyboard is unplugged; and the buffers
that are freed once more after a resize that failed. `PROJECT.json` quotes the lines. Two more disagreements
are visible in the modules without a run of their own: the second prompt asks for "a new, higher word count"
(`render.c:87`), and `HandleFinishPhaseEnter` takes any number; and at a repeat rate of 0 (`keyboard.c:170`)
`HandleTimer` still types the key once more before it stops.

**Exceptions.** `HeldKeyRepeats` says that a key that is held down repeats over and over, with two exceptions
besides release, loss of focus or keyboard, and another key. A press while the compositor's delay is 0, which
the protocol allows with a positive rate, sets the timer to zero (`keyboard.c:184`), which stops it: the repetition is
active, but the key does not repeat unless an older readiness of the timer is still to be handled. And while the rate is
0, or so high that the interval is rounded to zero, the timer is not started again (`keyboard.c:169-181`), nor is it when
the rate returns. The model has all of these, the safety properties include them, and the repository promises nothing for them.

`SoundWithoutFaults` says that only a failed call leads to the use of a pointer that is freed
or was never set, and it names two ways that need no failed call. A frame callback is not destroyed with its output,
so one that is still queued when its output goes is delivered for freed memory (`render.c:229`). And a seat that
loses its keyboard in the third round trip of the setup, or later, leaves a NULL pointer for poll (`app.c:29`; the
run `unplug`). With failed calls more can happen: an output whose lock surface could not be made keeps a pointer
to its destroyed surface, which the teardown destroys again (`output.c:178`); a seat that could not be bound gets a
listener all the same (`session_setup.c:206`); the teardown closes a descriptor that was never set if the recovery
file cannot be created. No text of the repository denies these, so they are hazards and no findings. An output that
appears after the setup gets no lock surface; what it shows is up to the compositor.

**Fairness.** `Session`: the steps of an iteration and those of leaving are weakly fair, because
handlers return and a wake-up dispatches finitely many events; nothing is assumed of the user, the
compositor or poll. `Keyboard`: the kernel's timer expires, poll returns once it has, and the program's
own steps go on. `Recovery`: the same for the save timer and the program's steps, and strong fairness of
`ftruncate`, `lseek` and the write of the rest: a disk that fails forever saves nothing, one that
recovers does. `Startup`: the loop dispatches what is queued, and the compositor shows the frames it gets and
releases the buffers it has replaced; nothing is assumed of the user, of sizes, or of outputs coming and going.
`ReleasesInTime` says in addition that a compositor releases a replaced buffer before it announces the frame that
replaced it. Without it both buffers can be busy when the callback comes, the frame is skipped, and since nothing is
committed the next callback never comes: the code depends on this order. `QuitHonoured`, `HeldKeyRepeats`,
`ChangesAreSaved` and `ScreenCatchesUp` depend on fairness; the safety properties depend on none.

**Deadlock** is checked everywhere but in the runs of `TextBuffer` and `View`. Ends of the program (`Exited`,
`Crashed`, `Done`, `Stopped`) are explicit stuttering steps.

## 4. Proofs

TLAPS proves the following for all values of the constants, from the assumptions named in the modules
(capacities are positive, limits are natural numbers, texts are sequences of codes or of non-zero bytes).

- `AppProofs`: `AppTypeCorrect`, `FinishIsEarned`, `PromptIsFresh`. `EarnedFinish` and
  `PromptFreshInNormal` are inductive once the types are known: edits touch the document only while writing,
  and the only step to the congratulations tests the count. The type of `words_to_exit` rests on
  `NumberIsTarget`. `CounterLabelAlwaysFits` and `LabelOfDocumentFits` are about the fifteen bytes of the word counter:
  a text has at most half as many words as it has characters (`WordsNeedSpace`), a number below a power of ten has
  that many digits (`DigitsBelow`), and both limits of a target together leave it six. They take one hypothesis,
  `MaximumNumberOfChars <= 1000000`, which is its value in `text_buffer.h`.
- `TextBufferProofs`: `TextBufferTypeCorrect`, `CursorStaysInText`, `CStringStaysText`, for every capacity
  and every relation `Joins`. The inductive invariant `BufferInv` needs all three together: the
  NUL stays behind the text only because the cursor is inside it, and the search for a grapheme yields
  a length that does not exceed the cursor, which takes the least-number principle (`LeastNatural`) for the
  bounded choices in the model. `BufferImplementsTextEditor` is the refinement: each operation on the array is one
  step of the editor on the two parts of the text, where `memmove` and `memcpy` become the concatenation of three
  pieces. `WordCountStaysCorrect` compares the loop of `anvi_text_buffer_word_count` with the set of places where
  words start. The loop is a recursive function on the positions; the proof takes the least position at which
  count or memory of the loop would be wrong and shows that they were right before it (`LoopCountsWords`).
- `ViewProofs`: `ColumnStaysKept`, `FramesShowCursor`, `ViewImplementsTextBuffer`, for texts and areas of any size.
  `ViewInv` adds to `BufferInv` that the text consists of whole characters (`CharacterInv`), that a movement under
  way knows its column (`ColumnInv`) and that the last frame shows the cursor (`FrameInv`). That the lines
  partition the positions of a text, and that a column found on a line lies on that line, are lemmas about `LineOf` and
  `XToIndex`. `ViewKeepsText` carries the theorems about the buffer over the refinement; `CursorBetweenCharacters`
  says that no half characters arise, which needs `GraphemeAssumption`.
- `SessionProofs`: `ImplementsApp` shows that every step of the loop is a step of `App` or a
  stutter, so `SessionFinishIsEarned` and the types carry over (`SessionTypeCorrect`). `QuitIsConsumed`:
  the only way back to `poll` is an exit check. `DialogIsAfterSave`. `QuitGivesSessionBack` uses
  `ReleaseInv`: without early input a pending request implies that `locked` was handled, so the request
  chosen is the right one when it arrives. `PromiseIsKept` is the refinement of `WritingLock`: `LockInv`
  (which parts of `main` run with the lock object), `HeldSteps`, `ReleaseSteps` and `AfterReleaseSteps`
  map every step to a step of the abstract specification or to a stutter.
- `KeyboardProofs`: `KeyboardTypeCorrect`, `ReleasedKeyIsNotRepeated`, `TimerIsForRepeat`, `RepeatHasItsKeymap`
  and `RepeatIsDue`, for all keys, rates and delays. `RepetitionOK` joins three of these properties and adds what they leave
  out: a repetition is of a key that the events did not say is up, also between two expirations. Without that part a
  timer that is read late could type a released key.
- `RecoveryProofs`: `RecoveryTypeCorrect`, `FilesAreNotShared`, `KillLeavesOneVersion`, `DialogIsSafe` and
  `LeftFilesStay`, for any number of instances, names, edits and bytes. The inductive invariant `FilesOK`
  says that the instances that own a file have different names (`NamesDiffer`), that the file of a name holds
  bytes of its owner (`OwnsFile`), how far a save is between its system calls (`SaveProgress`), and that
  the suggested name is free (`NameIsFree`). The properties alone are not inductive: that the next write
  continues a version needs the offset, and the offset needs the truncation before it.
- `StartupProofs`: `EveryOutputIsCovered`, `GivingUpNeverLocks`, `LockNeedsEverything`, for any set of outputs,
  sizes and failing calls. `SetupInv` says what holds at which step of the setup: nothing is locked or covered before
  the request, what was bound stays bound through the later round trips, and while surfaces are created
  they belong to outputs in the list.
  `StartupTypeCorrect`, `FramesAreAskedOnce`, `BusyMeansInUse` and `PointersAreFollowedSoundly` follow from `OutputsInv`,
  which is about each output with its queue: a release waits at most once and for a buffer that is not held (`BusyOK`);
  an output that is not announced or whose `global` event waits has nothing, and that event is the first of its
  queue (`UnbornOK`), so that no output is added twice; callbacks asked for, with the compositor and in the queue
  add up to none before `add_surface_frame_listeners_for_outputs` and to one after it (`FramesOK`); and while no call has
  failed, pointers are `NULL` or live, and live where a frame can come (`PointersOK`). The proofs about queues
  (`Appended`, `TailTaken`, `Orphaned`) say what one event more or less does to what a queue holds and counts.
- `ConfigProofs`: `ConfigTypeCorrect`, `LoadedIsWritten` and `RejectedIsInvalid`, for files of any length over any
  characters and arrays of any size. `ValueFits` is the argument for the first: a result whose value was not written
  comes from a line that the second look recognises, too. The other two compare the parser with the declarative
  reading. `TrimPart` says what `trim_whitespace` leaves of a part of a line, and `SplitsAt` where the `=` is in the
  line and in what is left of it; with them the parser accepts a line just if it sets nothing (`SilentSetsNothing`)
  or sets a value that fits (`OkSets`, `SetsOk`). `FgetsReads` says that the buffer holds a whole line or the file
  is rejected, and `NewlineSaysNothing` that the newline does not matter. `LoadsWhatIsWritten` says nothing
  until the file is loaded, so `ReadingInv` says how far the reading is: the characters read so far are whole, valid
  lines, and the last of them that sets a directory has set `save_dir` (`ReadUpTo`).

Only model-checked: the liveness properties (`QuitHonoured`, `HeldKeyRepeats`, `ChangesAreSaved`, `ScreenCatchesUp`),
because the prover has no rules for fairness; and of course the violations. Every other property of a passing run is a
theorem. `SessionTypeOK` is proved and not checked again.

## 5. Not modelled

Drawing (no state of its own; wrapping and positions belong to Pango, whose rules beyond lines of equal cells
are left out); pixels and sizes of buffers; the paths that GLib gives for the configuration; GTK's dialog
beyond what it copies, and a copy that fails halfway; modifiers and keysyms; durations other than zero, so that a repetition
restarted with the interval instead of the delay (`keyboard.c:179`) is not seen; a `timerfd_settime` that fails;
errors of the Wayland connection after the
setup, which the code ignores; logging; the build. `DeleteRecoveryFile` excludes that a user deletes a recovery file
in the very moment in which another instance is between the test of its name and the creation of its file.

`Session` and `Startup` overlap in the main loop and are not composed: `Session` starts where the setup has succeeded
and has the user's side of the loop, `Startup` has the outputs' side. What they share is the lock request, which
`Startup` hands over in the connection's buffer, and the exits of the loop.

## 6. Plan

Done: the core (`App`, `Session`), the text buffer with its view, the keyboard, the recovery files, outputs with
setup and teardown, the configuration, and the proofs above.

1. Proofs: the safety half of what the liveness properties need, such as which step can come next while a quit or a
   frame is pending, so that only the fairness argument is left to TLC.
2. A connection that fails after the setup, once the code reacts to it.
