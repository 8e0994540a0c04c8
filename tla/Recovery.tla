------------------------------ MODULE Recovery ------------------------------
(***************************************************************************)
(* The recovery files of src/src/storage.c and the copy that save_dialog.c *)
(* makes of them.  Several instances of Anvi may run in the same minute,   *)
(* so they try the same file names; an instance may be killed between any  *)
(* two system calls, and what it has written stays.                        *)
(*                                                                         *)
(* One action per system call.  A document is a version and a length: byte *)
(* i of version v of instance p is <<p, v, i>>.                            *)
(***************************************************************************)
EXTENDS Integers, Sequences

CONSTANTS
  Instances,   \* processes that run Anvi
  MaxNames,    \* names tried for one minute (10000 in the source)
  MaxVersion,  \* bound of the model: per instance, edits of its document
  MaxLength    \* bound of the model: per instance, the length of its document

ASSUME RecoveryAssumption ==
  /\ MaxNames \in Nat \ {0}
  /\ MaxVersion \in [Instances -> Nat]
  /\ MaxLength \in [Instances -> Nat]
  /\ "absent" \notin Instances

VARIABLES
  pc,          \* per instance, the call it makes next
  i,           \* per instance, the number of the name it tries or has
  version,     \* per instance, how often the document has changed
  length,      \* per instance, the length of the document
  offset,      \* per instance, how much of it this save has written
  position,    \* per instance, the file offset of document_fd
  timer,       \* per instance, the save timer
  final,       \* per instance, is this the save that ends the program?
  recovery,    \* per name, the file in the recovery directory
  saved        \* per name, the file in the final save directory

documentVars == <<version, length>>
saveVars     == <<offset, position, final>>
fileVars     == <<recovery, saved>>
vars == <<pc, i, documentVars, saveVars, timer, fileVars>>

Name   == 0 .. MaxNames - 1
Absent == << <<"absent">> >>
Hole   == <<"hole">>

Bytes(p, v, n) == [k \in 1 .. n |-> <<p, v, k>>]
Document(p)    == Bytes(p, version[p], length[p])

(* The file f with t written at an offset, zeros in a gap before it. *)
WriteAt(f, at, t) ==
  LET end == at + Len(t) IN
  [ k \in 1 .. (IF end > Len(f) THEN end ELSE Len(f)) |->
      IF k \in at + 1 .. end THEN t[k - at]
      ELSE IF k <= Len(f) THEN f[k] ELSE Hole ]

PC == {"off", "access", "open", "run", "ftruncate", "lseek", "write",
       "settime", "dialog", "ended"}
Open == {"run", "ftruncate", "lseek", "write", "settime"}

Init ==
  /\ pc = [p \in Instances |-> "off"]
  /\ i = [p \in Instances |-> 0]
  /\ version = [p \in Instances |-> 0]
  /\ length = [p \in Instances |-> 0]
  /\ offset = [p \in Instances |-> 0]
  /\ position = [p \in Instances |-> 0]
  /\ timer = [p \in Instances |-> "idle"]
  /\ final = [p \in Instances |-> FALSE]
  /\ recovery = [n \in Name |-> Absent]
  /\ saved = [n \in Name |-> Absent]

Goto(p, from, to) ==
  /\ pc[p] = from
  /\ pc' = [pc EXCEPT ![p] = to]

-----------------------------------------------------------------------------
(* create_document_fd *)

Start(p) ==
  /\ Goto(p, "off", "access")
  /\ UNCHANGED <<i, documentVars, saveVars, timer, fileVars>>

(* try_creating_fd_with_i_end failed: the loop goes on to the next name, or *)
(* gives up and with it the program.                                        *)
TryNextName(p) ==
  IF i[p] + 1 < MaxNames
  THEN i' = [i EXCEPT ![p] = i[p] + 1] /\ pc' = [pc EXCEPT ![p] = "access"]
  ELSE pc' = [pc EXCEPT ![p] = "ended"] /\ UNCHANGED i

(* Slip: a name is taken for free if no recovery file has it. *)
AccessUnchecked(p) ==
  /\ Goto(p, "access", "open")
  /\ UNCHANGED <<i, documentVars, saveVars, timer, fileVars>>

(* access(final_path) says ENOENT, or it succeeds or fails in another way. *)
Access(p) ==
  /\ pc[p] = "access"
  /\ \/ saved[i[p]] = Absent /\ pc' = [pc EXCEPT ![p] = "open"] /\ UNCHANGED i
     \/ TryNextName(p)
  /\ UNCHANGED <<documentVars, saveVars, timer, fileVars>>

(* Slip: open() without O_EXCL, with O_TRUNC instead. *)
OpenShared(p) ==
  /\ Goto(p, "open", "run")
  /\ recovery' = [recovery EXCEPT ![i[p]] = << >>]
  /\ timer' = [timer EXCEPT ![p] = "armed"]
  /\ UNCHANGED <<i, documentVars, saveVars, saved>>

(* open(created_path) with O_CREAT and O_EXCL, which may also fail for     *)
(* another reason.  The setup goes on to start the save timer.             *)
OpenExclusively(p) ==
  /\ pc[p] = "open"
  /\ \/ /\ recovery[i[p]] = Absent
        /\ recovery' = [recovery EXCEPT ![i[p]] = << >>]
        /\ timer' = [timer EXCEPT ![p] = "armed"]
        /\ pc' = [pc EXCEPT ![p] = "run"]
        /\ UNCHANGED i
     \/ TryNextName(p) /\ UNCHANGED <<recovery, timer>>
  /\ UNCHANGED <<documentVars, saveVars, saved>>

-----------------------------------------------------------------------------
(* The main loop. *)

Edit(p) ==
  /\ pc[p] = "run"
  /\ version[p] < MaxVersion[p]
  /\ version' = [version EXCEPT ![p] = version[p] + 1]
  /\ \E n \in 0 .. MaxLength[p] : length' = [length EXCEPT ![p] = n]
  /\ UNCHANGED <<pc, i, saveVars, timer, fileVars>>

SaveTimerExpires(p) ==
  /\ pc[p] = "run"
  /\ timer[p] = "armed"
  /\ timer' = [timer EXCEPT ![p] = "expired"]
  /\ UNCHANGED <<pc, i, documentVars, saveVars, fileVars>>

(* handle_save_timer reads the timer and saves. *)
HandleSaveTimer(p) ==
  /\ timer[p] = "expired"
  /\ Goto(p, "run", "ftruncate")
  /\ timer' = [timer EXCEPT ![p] = "idle"]
  /\ UNCHANGED <<i, documentVars, saveVars, fileVars>>

(* The save after the release of the session lock (main.c:75). *)
FinalSave(p) ==
  /\ Goto(p, "run", "ftruncate")
  /\ final' = [final EXCEPT ![p] = TRUE]
  /\ UNCHANGED <<i, documentVars, offset, position, timer, fileVars>>

(* A failing save is not reported; the timer is started again, or the      *)
(* program ends if that fails.                                             *)
StartSaveTimer(p) ==
  /\ pc[p] = "settime"
  /\ \/ /\ timer' = [timer EXCEPT ![p] = "armed"]
        /\ pc' = [pc EXCEPT ![p] = "run"]
     \/ /\ pc' = [pc EXCEPT ![p] = "ended"]
        /\ UNCHANGED timer
  /\ UNCHANGED <<i, documentVars, saveVars, fileVars>>

-----------------------------------------------------------------------------
(* write_bytes_to_document_fd *)

(* Slip: the old text stays in the file. *)
FtruncateSkipped(p) ==
  /\ Goto(p, "ftruncate", "lseek")
  /\ UNCHANGED <<i, documentVars, saveVars, timer, fileVars>>

Ftruncate(p) ==
  /\ Goto(p, "ftruncate", "lseek")
  /\ recovery' = [recovery EXCEPT ![i[p]] = << >>]
  /\ UNCHANGED <<i, documentVars, saveVars, timer, saved>>

(* Slip: the file offset stays where the last save left it. *)
LseekSkipped(p) ==
  /\ Goto(p, "lseek", "write")
  /\ offset' = [offset EXCEPT ![p] = 0]
  /\ UNCHANGED <<i, documentVars, position, final, timer, fileVars>>

Lseek(p) ==
  /\ Goto(p, "lseek", "write")
  /\ position' = [position EXCEPT ![p] = 0]
  /\ offset' = [offset EXCEPT ![p] = 0]
  /\ UNCHANGED <<i, documentVars, final, timer, fileVars>>

(* One turn of the loop that write() served with n bytes. *)
Write(p, n) ==
  /\ pc[p] = "write"
  /\ offset[p] + n <= length[p]
  /\ recovery' = [recovery EXCEPT ![i[p]] =
       WriteAt(recovery[i[p]], position[p],
               SubSeq(Document(p), offset[p] + 1, offset[p] + n))]
  /\ offset' = [offset EXCEPT ![p] = offset[p] + n]
  /\ position' = [position EXCEPT ![p] = position[p] + n]
  /\ UNCHANGED <<pc, i, documentVars, final, timer, saved>>

WriteRest(p) == offset[p] < length[p] /\ Write(p, length[p] - offset[p])

(* Slip: a failing save is the last one. *)
SaveFailsForGood(p) ==
  /\ pc[p] \in {"ftruncate", "lseek", "write"}
  /\ pc[p] = "write" => offset[p] < length[p]
  /\ pc' = [pc EXCEPT ![p] = IF final[p] THEN "ended" ELSE "run"]
  /\ UNCHANGED <<i, documentVars, saveVars, timer, fileVars>>

(* A call failed. *)
SaveFails(p) ==
  /\ pc[p] \in {"ftruncate", "lseek", "write"}
  /\ pc[p] = "write" => offset[p] < length[p]
  /\ pc' = [pc EXCEPT ![p] = IF final[p] THEN "ended" ELSE "settime"]
  /\ UNCHANGED <<i, documentVars, saveVars, timer, fileVars>>

(* After the last save main ends, or shows the save dialog. *)
SaveSucceeds(p) ==
  /\ pc[p] = "write"
  /\ offset[p] = length[p]
  /\ \E next \in (IF final[p] THEN {"ended", "dialog"} ELSE {"settime"}) :
       pc' = [pc EXCEPT ![p] = next]
  /\ UNCHANGED <<i, documentVars, saveVars, timer, fileVars>>

-----------------------------------------------------------------------------
(* anvi_show_save_dialog and save_dialog_finished *)

(* The user accepts the suggested name, that of the recovery file. *)
CopyToSuggestedName(p) ==
  /\ Goto(p, "dialog", "ended")
  /\ saved' = [saved EXCEPT ![i[p]] = recovery[i[p]]]
  /\ UNCHANGED <<i, documentVars, saveVars, timer, recovery>>

(* Cancelled, failed, or copied to a place of no interest here. *)
LeaveDialog(p) ==
  /\ Goto(p, "dialog", "ended")
  /\ UNCHANGED <<i, documentVars, saveVars, timer, fileVars>>

-----------------------------------------------------------------------------
(* The environment. *)

Killed(p) ==
  /\ pc[p] \notin {"off", "ended"}
  /\ pc' = [pc EXCEPT ![p] = "ended"]
  /\ UNCHANGED <<i, documentVars, saveVars, timer, fileVars>>

(* The user tidies up after an instance that saved a copy, though not at   *)
(* the moment in which another one chooses its name.                       *)
DeleteRecoveryFile(n) ==
  /\ recovery[n] # Absent
  /\ saved[n] # Absent
  /\ \A p \in Instances :
       /\ pc[p] # "open"
       /\ i[p] = n => pc[p] \in {"off", "access", "ended"}
  /\ recovery' = [recovery EXCEPT ![n] = Absent]
  /\ UNCHANGED <<pc, i, documentVars, saveVars, timer, saved>>

Done == (\A p \in Instances : pc[p] = "ended") /\ UNCHANGED vars

-----------------------------------------------------------------------------
Step(p) ==
  \/ Start(p) \/ Access(p) \/ OpenExclusively(p)
  \/ Edit(p) \/ SaveTimerExpires(p) \/ HandleSaveTimer(p) \/ FinalSave(p)
  \/ StartSaveTimer(p)
  \/ Ftruncate(p) \/ Lseek(p) \/ SaveFails(p) \/ SaveSucceeds(p)
  \/ \E n \in 1 .. MaxLength[p] : Write(p, n)
  \/ CopyToSuggestedName(p) \/ LeaveDialog(p)
  \/ Killed(p)

Next ==
  \/ \E p \in Instances : Step(p)
  \/ \E n \in Name : DeleteRecoveryFile(n)
  \/ Done

(* The program and its timer go on; the disk may fail, but each call       *)
(* succeeds once it is tried often enough.                                 *)
Fairness ==
  \A p \in Instances :
    /\ WF_vars(SaveTimerExpires(p)) /\ WF_vars(HandleSaveTimer(p))
    /\ WF_vars(StartSaveTimer(p)) /\ WF_vars(SaveSucceeds(p))
    /\ SF_vars(Ftruncate(p)) /\ SF_vars(Lseek(p)) /\ SF_vars(WriteRest(p))

Spec     == Init /\ [][Next]_vars
FairSpec == Spec /\ Fairness

-----------------------------------------------------------------------------
(* Properties.                                                             *)

Byte == UNION { {p} \X (0 .. MaxVersion[p]) \X (1 .. MaxLength[p]) : p \in Instances }
Length == UNION { 0 .. MaxLength[p] : p \in Instances }

File == {Absent} \cup UNION { [1 .. n -> {Hole} \cup Byte] : n \in Length }

(* Type invariant of the recovery files. *)
RecoveryTypeOK ==
  /\ pc \in [Instances -> PC]
  /\ i \in [Instances -> Name]
  /\ version \in [Instances -> Nat] /\ length \in [Instances -> Nat]
  /\ offset \in [Instances -> Nat] /\ position \in [Instances -> Nat]
  /\ \A p \in Instances :
       /\ version[p] <= MaxVersion[p] /\ length[p] <= MaxLength[p]
       /\ offset[p] <= MaxLength[p] /\ position[p] <= MaxLength[p]
  /\ timer \in [Instances -> {"idle", "armed", "expired"}]
  /\ final \in [Instances -> BOOLEAN]
  /\ recovery \in [Name -> File]
  /\ saved \in [Name -> File]

(* Two running instances never write to one file, also when they started   *)
(* in the same minute and were trying the same names (storage.c:58).       *)
NoSharedRecoveryFile ==
  \A p, q \in Instances :
    (p # q /\ pc[p] \in Open /\ pc[q] \in Open) => i[p] # i[q]

(* What an instance has written when it ends or is killed is safe from     *)
(* those that start later: they neither truncate nor overwrite its file.   *)
LeftFilesAreKept ==
  [][\A p \in Instances :
       LET f == recovery[i[p]] IN
       (pc[p] = "ended" /\ f # << >> /\ f[1][1] = p)
         => recovery'[i[p]] \in {f, Absent}]_vars

(* At every moment, and so after a kill at any moment, a recovery file is  *)
(* the beginning of one version of one document: no mixture of versions,   *)
(* no gap (storage.c:144-163).                                             *)
FileIsBeginningOfOneVersion ==
  \A n \in Name : recovery[n] # Absent =>
    \E p \in Instances : \E v \in 0 .. MaxVersion[p] :
      recovery[n] = Bytes(p, v, Len(recovery[n]))

(* A file that the save dialog offers has the whole document, and the name *)
(* that it suggests is not that of a document saved by another instance,   *)
(* so accepting it overwrites nothing (storage.c:43, save_dialog.c:46).    *)
DialogOffersWholeDocument ==
  \A p \in Instances : pc[p] = "dialog" =>
    /\ recovery[i[p]] = Document(p)
    /\ saved[i[p]] = Absent

(* A document that has changed is saved, whole, sooner or later, failed    *)
(* saves notwithstanding, unless the program ends (storage.c:193-205).     *)
ChangesAreSaved ==
  \A p \in Instances :
    (pc[p] = "run" /\ recovery[i[p]] # Document(p))
      ~> (pc[p] = "ended" \/ recovery[i[p]] = Document(p))
=============================================================================
