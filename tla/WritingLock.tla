----------------------------- MODULE WritingLock -----------------------------
(***************************************************************************)
(* What Anvi promises to a writer who locks the screen: the program gives  *)
(* the session back only before writing has begun, or after the writer has *)
(* had, at one moment, as many words as the target then in force.  The     *)
(* target changes only between two bouts of writing, and the compositor    *)
(* may take the lock away at any time.                                     *)
(***************************************************************************)
EXTENDS Integers

CONSTANT Targets  \* the targets that can be asked for

VARIABLES stage, words, target

lockVars == <<stage, words, target>>

Stage == {"choosing", "writing", "congratulated", "released", "dismissed"}

WLInit ==
  /\ stage = "choosing"
  /\ words = 0
  /\ target = 0

(* The writer picks a target and starts, or goes on, writing. *)
Choose ==
  /\ stage \in {"choosing", "congratulated"}
  /\ stage' = "writing"
  /\ target' \in Targets
  /\ UNCHANGED words

Write ==
  /\ stage = "writing"
  /\ words' \in Nat
  /\ UNCHANGED <<stage, target>>

Finish ==
  /\ stage = "writing"
  /\ words >= target
  /\ stage' = "congratulated"
  /\ UNCHANGED <<words, target>>

(* The counts are of no more interest once the lock is gone. *)
Release ==
  /\ stage \in {"choosing", "congratulated"}
  /\ stage' = "released"
  /\ words' = 0
  /\ target' = 0

Dismiss ==
  /\ stage \in {"choosing", "writing", "congratulated"}
  /\ stage' = "dismissed"
  /\ words' = 0
  /\ target' = 0

WLNext == Choose \/ Write \/ Finish \/ Release \/ Dismiss

WLSpec == WLInit /\ [][WLNext]_lockVars
=============================================================================
