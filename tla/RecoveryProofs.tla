--------------------------- MODULE RecoveryProofs ---------------------------
(***************************************************************************)
(* Proofs about Recovery, for any number of instances, names, versions and *)
(* bytes: nobody writes to another's file, and what a kill leaves is the   *)
(* beginning of one version of one document.                               *)
(***************************************************************************)
EXTENDS Recovery, TLAPS

(* A program that is at work on its file, or offers it to the user. *)
Owner == Open \cup {"dialog"}

(* The file that an instance has the name of holds nothing but its bytes.  *)
OwnsFile(p) ==
  pc[p] \in Owner =>
    /\ \E v \in 0 .. MaxVersion[p], k \in 0 .. MaxLength[p] :
         recovery[i[p]] = Bytes(p, v, k)
    /\ saved[i[p]] = Absent

(* How far a save has come. *)
SaveProgress(p) ==
  /\ pc[p] = "lseek" => recovery[i[p]] = << >>
  /\ pc[p] = "write" => /\ position[p] = offset[p] /\ offset[p] <= length[p]
                        /\ recovery[i[p]] = Bytes(p, version[p], offset[p])
  /\ pc[p] = "dialog" => recovery[i[p]] = Document(p)

(* A name that was free when it was looked up still is, as long as there   *)
(* is no recovery file of this name.                                       *)
NameIsFree(p) ==
  pc[p] = "open" /\ recovery[i[p]] = Absent => saved[i[p]] = Absent

NamesDiffer ==
  \A p, q \in Instances :
    (p # q /\ pc[p] \in Owner /\ pc[q] \in Owner) => i[p] # i[q]

FilesOK ==
  /\ RecoveryTypeOK
  /\ NamesDiffer
  /\ \A p \in Instances : OwnsFile(p) /\ SaveProgress(p) /\ NameIsFree(p)
  /\ FileIsBeginningOfOneVersion

-----------------------------------------------------------------------------
(* Files.                                                                  *)

LEMMA Constants ==
  /\ MaxNames \in Nat /\ MaxNames > 0
  /\ Name = 0 .. MaxNames - 1
  /\ \A p \in Instances : MaxVersion[p] \in Nat /\ MaxLength[p] \in Nat
  /\ "absent" \notin Instances
  BY RecoveryAssumption DEF Name

(* The beginning of a version is a file, and no file that is not there.    *)
LEMMA BytesIsFile ==
  ASSUME NEW p \in Instances, NEW v \in 0 .. MaxVersion[p], NEW k \in 0 .. MaxLength[p]
  PROVE  /\ Bytes(p, v, k) \in File
         /\ Bytes(p, v, k) # Absent
         /\ Len(Bytes(p, v, k)) = k
         /\ Bytes(p, v, k) # << >> => Bytes(p, v, k)[1][1] = p
         /\ k = 0 => Bytes(p, v, k) = << >>
  <1>1. k \in Nat /\ v \in Nat /\ MaxLength[p] \in Nat
    BY Constants
  <1>2. \A j \in 1 .. k : <<p, v, j>> \in Byte
    <2>. SUFFICES ASSUME NEW j \in 1 .. k PROVE <<p, v, j>> \in Byte
      OBVIOUS
    <2>1. j \in 1 .. MaxLength[p]
      BY <1>1
    <2>2. <<p, v, j>> \in {p} \X (0 .. MaxVersion[p]) \X (1 .. MaxLength[p])
      BY <2>1
    <2>. QED
      BY <2>2 DEF Byte
  <1>3. k \in Length
    BY DEF Length
  <1>4. Bytes(p, v, k) \in [1 .. k -> {Hole} \cup Byte]
    BY <1>2 DEF Bytes
  <1>5. Bytes(p, v, k) \in File
    BY <1>3, <1>4 DEF File
  <1>6. Bytes(p, v, k) # Absent
    <2>1. CASE k = 1
      <3>1. Bytes(p, v, k)[1] = <<p, v, 1>>
        BY <2>1 DEF Bytes
      <3>. QED
        BY <3>1 DEF Absent
    <2>2. CASE k # 1
      BY <1>1, <2>2 DEF Bytes, Absent
    <2>. QED
      BY <2>1, <2>2
  <1>7. Len(Bytes(p, v, k)) = k
    BY <1>1 DEF Bytes
  <1>8. Bytes(p, v, k) # << >> => Bytes(p, v, k)[1][1] = p
    <2>. SUFFICES ASSUME k # 0 PROVE Bytes(p, v, k)[1][1] = p
      BY <1>1 DEF Bytes
    <2>1. Bytes(p, v, k)[1] = <<p, v, 1>>
      BY <1>1 DEF Bytes
    <2>. QED
      BY <2>1
  <1>9. k = 0 => Bytes(p, v, k) = << >>
    BY DEF Bytes
  <1>. QED
    BY <1>5, <1>6, <1>7, <1>8, <1>9

LEMMA EmptyIsFile ==
  ASSUME NEW p \in Instances
  PROVE  << >> \in File /\ << >> # Absent /\ Bytes(p, 0, 0) = << >>
  <1>1. 0 \in 0 .. MaxVersion[p] /\ 0 \in 0 .. MaxLength[p]
    BY Constants
  <1>. QED
    BY <1>1, BytesIsFile

(* A write that goes on where the last one stopped makes one longer        *)
(* beginning of the same version.                                          *)
LEMMA WriteContinues ==
  ASSUME NEW p, NEW v, NEW o \in Nat, NEW n \in Nat, NEW l \in Nat, o + n <= l
  PROVE  WriteAt(Bytes(p, v, o), o, SubSeq(Bytes(p, v, l), o + 1, o + n))
           = Bytes(p, v, o + n)
  <1>. DEFINE t == SubSeq(Bytes(p, v, l), o + 1, o + n)
  <1>1. Len(t) = n /\ \A k \in 1 .. n : t[k] = <<p, v, o + k>>
    BY DEF Bytes
  <1>2. Len(Bytes(p, v, o)) = o /\ \A k \in 1 .. o : Bytes(p, v, o)[k] = <<p, v, k>>
    BY DEF Bytes
  <1>. HIDE DEF t
  <1>3. WriteAt(Bytes(p, v, o), o, t)
          = [ k \in 1 .. o + n |->
                IF k \in o + 1 .. o + n THEN t[k - o]
                ELSE IF k <= o THEN Bytes(p, v, o)[k] ELSE Hole ]
    <2>1. (IF o + n > o THEN o + n ELSE o) = o + n
      OBVIOUS
    <2>. QED
      BY <1>1, <1>2, <2>1 DEF WriteAt
  <1>4. \A k \in 1 .. o + n :
          (IF k \in o + 1 .. o + n THEN t[k - o]
           ELSE IF k <= o THEN Bytes(p, v, o)[k] ELSE Hole) = <<p, v, k>>
    <2>. SUFFICES ASSUME NEW k \in 1 .. o + n
                  PROVE  (IF k \in o + 1 .. o + n THEN t[k - o]
                          ELSE IF k <= o THEN Bytes(p, v, o)[k] ELSE Hole) = <<p, v, k>>
      OBVIOUS
    <2>1. CASE k <= o
      BY <2>1, <1>2
    <2>2. CASE k > o
      <3>1. k - o \in 1 .. n /\ o + (k - o) = k /\ k \in o + 1 .. o + n
        BY <2>2
      <3>. QED
        BY <3>1, <1>1
    <2>. QED
      BY <2>1, <2>2
  <1>. QED
    BY <1>3, <1>4 DEF t, Bytes

-----------------------------------------------------------------------------
(* Types.                                                                  *)

(* Everything but the files themselves. *)
CallsTypeOK ==
  /\ pc \in [Instances -> PC]
  /\ i \in [Instances -> Name]
  /\ version \in [Instances -> Nat] /\ length \in [Instances -> Nat]
  /\ offset \in [Instances -> Nat] /\ position \in [Instances -> Nat]
  /\ \A p \in Instances :
       /\ version[p] <= MaxVersion[p] /\ length[p] <= MaxLength[p]
       /\ offset[p] <= MaxLength[p] /\ position[p] <= MaxLength[p]
  /\ timer \in [Instances -> {"idle", "armed", "expired"}]
  /\ final \in [Instances -> BOOLEAN]

LEMMA TypeParts ==
  RecoveryTypeOK <=> CallsTypeOK /\ recovery \in [Name -> File] /\ saved \in [Name -> File]
  BY DEF RecoveryTypeOK, CallsTypeOK

(* What the step of p leaves alone in every other instance. *)
OthersStay(p) ==
  \A q \in Instances : q # p =>
    /\ pc'[q] = pc[q] /\ i'[q] = i[q]
    /\ version'[q] = version[q] /\ length'[q] = length[q]
    /\ offset'[q] = offset[q] /\ position'[q] = position[q]

LEMMA TryNextNameType ==
  ASSUME CallsTypeOK, NEW p \in Instances, TryNextName(p)
  PROVE  /\ pc' \in [Instances -> PC] /\ i' \in [Instances -> Name]
         /\ pc'[p] \in {"access", "ended"}
         /\ \A q \in Instances : q # p => pc'[q] = pc[q] /\ i'[q] = i[q]
  <1>. i[p] \in 0 .. MaxNames - 1
    BY Constants DEF CallsTypeOK
  <1>1. CASE i[p] + 1 < MaxNames
    <2>1. i[p] + 1 \in Name
      BY <1>1, Constants
    <2>. QED
      BY <1>1, <2>1 DEF TryNextName, CallsTypeOK, PC
  <1>2. CASE ~ (i[p] + 1 < MaxNames)
    BY <1>2 DEF TryNextName, CallsTypeOK, PC
  <1>. QED
    BY <1>1, <1>2

(* Every step keeps the types, and belongs to one instance.                *)
LEMMA StepType ==
  ASSUME RecoveryTypeOK, NEW p \in Instances, Step(p),
         pc[p] = "write" => position[p] = offset[p]
  PROVE  CallsTypeOK' /\ OthersStay(p)
  <1>. CallsTypeOK
    BY TypeParts
  <1>. USE DEF CallsTypeOK, OthersStay, PC, Goto, documentVars, saveVars, fileVars
  <1>1. CASE Start(p) \/ LeaveDialog(p) \/ Killed(p)
    BY <1>1 DEF Start, LeaveDialog, Killed
  <1>2. CASE Access(p)
    <2>1. CASE pc' = [pc EXCEPT ![p] = "open"] /\ UNCHANGED i
      BY <1>2, <2>1 DEF Access
    <2>2. CASE TryNextName(p)
      BY <1>2, <2>2, TryNextNameType DEF Access
    <2>. QED
      BY <1>2, <2>1, <2>2 DEF Access
  <1>3. CASE OpenExclusively(p)
    <2>1. CASE /\ timer' = [timer EXCEPT ![p] = "armed"]
               /\ pc' = [pc EXCEPT ![p] = "run"]
               /\ UNCHANGED i
      BY <1>3, <2>1 DEF OpenExclusively
    <2>2. CASE TryNextName(p) /\ UNCHANGED <<recovery, timer>>
      BY <1>3, <2>2, TryNextNameType DEF OpenExclusively
    <2>. QED
      BY <1>3, <2>1, <2>2 DEF OpenExclusively
  <1>4. CASE Edit(p)
    <2>1. PICK n \in 0 .. MaxLength[p] : length' = [length EXCEPT ![p] = n]
      BY <1>4 DEF Edit
    <2>2. n \in Nat /\ n <= MaxLength[p] /\ MaxVersion[p] \in Nat
      BY Constants
    <2>3. version[p] + 1 \in Nat /\ version[p] + 1 <= MaxVersion[p]
      BY <1>4, <2>2 DEF Edit
    <2>4. length' \in [Instances -> Nat] /\ \A q \in Instances : length'[q] <= MaxLength[q]
      BY <2>1, <2>2
    <2>5. version' \in [Instances -> Nat] /\ \A q \in Instances : version'[q] <= MaxVersion[q]
      BY <1>4, <2>3 DEF Edit
    <2>. QED
      BY <1>4, <2>1, <2>4, <2>5 DEF Edit
  <1>5. CASE SaveTimerExpires(p) \/ HandleSaveTimer(p)
    BY <1>5 DEF SaveTimerExpires, HandleSaveTimer
  <1>6. CASE FinalSave(p)
    BY <1>6 DEF FinalSave
  <1>7. CASE StartSaveTimer(p)
    BY <1>7 DEF StartSaveTimer
  <1>8. CASE Ftruncate(p)
    BY <1>8 DEF Ftruncate
  <1>9. CASE Lseek(p)
    BY <1>9, Constants DEF Lseek
  <1>10. CASE SaveFails(p) \/ SaveSucceeds(p)
    BY <1>10 DEF SaveFails, SaveSucceeds
  <1>11. ASSUME NEW n \in 1 .. MaxLength[p], Write(p, n)
         PROVE  CallsTypeOK' /\ OthersStay(p)
    BY <1>11, Constants DEF Write
  <1>12. CASE CopyToSuggestedName(p)
    BY <1>12 DEF CopyToSuggestedName
  <1>. QED
    BY <1>1, <1>2, <1>3, <1>4, <1>5, <1>6, <1>7, <1>8, <1>9, <1>10, <1>11, <1>12
       DEF Step

-----------------------------------------------------------------------------
(* Steps that leave the files alone.                                       *)

(* What another instance relies on stays if the files of its name do.      *)
LEMMA OthersKeep ==
  ASSUME FilesOK, NEW p \in Instances, OthersStay(p),
         NEW q \in Instances, q # p,
         pc[q] \in Owner => recovery'[i[q]] = recovery[i[q]] /\ saved'[i[q]] = saved[i[q]],
         recovery'[i[q]] = Absent => /\ recovery[i[q]] = Absent
                                     /\ saved'[i[q]] = saved[i[q]]
  PROVE  OwnsFile(q)' /\ SaveProgress(q)' /\ NameIsFree(q)'
  <1>1. /\ pc'[q] = pc[q] /\ i'[q] = i[q] /\ version'[q] = version[q]
        /\ length'[q] = length[q] /\ offset'[q] = offset[q] /\ position'[q] = position[q]
    BY DEF OthersStay
  <1>2. OwnsFile(q) /\ SaveProgress(q) /\ NameIsFree(q)
    BY DEF FilesOK
  <1>3. OwnsFile(q)'
    BY <1>1, <1>2 DEF OwnsFile
  <1>4. SaveProgress(q)'
    <2>1. pc[q] \in {"lseek", "write", "dialog"} => pc[q] \in Owner
      BY DEF Owner, Open
    <2>. QED
      BY <1>1, <1>2, <2>1 DEF SaveProgress, Document
  <1>5. NameIsFree(q)'
    BY <1>1, <1>2 DEF NameIsFree
  <1>. QED
    BY <1>3, <1>4, <1>5

LEMMA QuietStep ==
  ASSUME FilesOK, NEW p \in Instances, OthersStay(p), CallsTypeOK',
         UNCHANGED fileVars,
         pc'[p] \in Owner => pc[p] \in Owner /\ i'[p] = i[p],
         SaveProgress(p)', NameIsFree(p)'
  PROVE  FilesOK'
  <1>1. UNCHANGED <<recovery, saved>>
    BY DEF fileVars
  <1>2. RecoveryTypeOK'
    BY <1>1, TypeParts DEF FilesOK, RecoveryTypeOK, CallsTypeOK
  <1>3. NamesDiffer'
    BY DEF FilesOK, NamesDiffer, OthersStay
  <1>4. OwnsFile(p)'
    BY <1>1 DEF FilesOK, OwnsFile
  <1>5. \A q \in Instances : OwnsFile(q)' /\ SaveProgress(q)' /\ NameIsFree(q)'
    BY <1>1, <1>4, OthersKeep
  <1>6. FileIsBeginningOfOneVersion'
    BY <1>1 DEF FilesOK, FileIsBeginningOfOneVersion
  <1>. QED
    BY <1>2, <1>3, <1>5, <1>6 DEF FilesOK

(* The steps of p that leave the files alone. *)
LEMMA QuietSteps ==
  ASSUME FilesOK, NEW p \in Instances, OthersStay(p), CallsTypeOK',
         \/ Start(p) \/ Access(p) \/ Edit(p) \/ SaveTimerExpires(p)
         \/ HandleSaveTimer(p) \/ FinalSave(p) \/ StartSaveTimer(p)
         \/ Lseek(p) \/ SaveFails(p) \/ SaveSucceeds(p)
         \/ LeaveDialog(p) \/ Killed(p)
  PROVE  FilesOK'
  <1>. SaveProgress(p) /\ OwnsFile(p) /\ RecoveryTypeOK
    BY DEF FilesOK
  <1>. CallsTypeOK
    BY TypeParts
  <1>. USE DEF CallsTypeOK, Goto, Owner, Open
  <1>1. CASE Start(p) \/ LeaveDialog(p) \/ Killed(p)
    <2>1. pc'[p] \in {"access", "ended"} /\ UNCHANGED fileVars
      BY <1>1 DEF Start, LeaveDialog, Killed
    <2>. QED
      BY <2>1, QuietStep DEF SaveProgress, NameIsFree
  <1>2. CASE Access(p)
    <2>0. UNCHANGED fileVars
      BY <1>2 DEF Access
    <2>1. CASE saved[i[p]] = Absent /\ pc' = [pc EXCEPT ![p] = "open"] /\ UNCHANGED i
      <3>1. pc'[p] = "open" /\ saved'[i'[p]] = Absent
        BY <2>0, <2>1 DEF fileVars
      <3>. QED
        BY <2>0, <3>1, QuietStep DEF SaveProgress, NameIsFree
    <2>2. CASE TryNextName(p)
      <3>1. pc'[p] \in {"access", "ended"}
        BY <2>2, TryNextNameType
      <3>. QED
        BY <2>0, <3>1, QuietStep DEF SaveProgress, NameIsFree
    <2>. QED
      BY <1>2, <2>1, <2>2 DEF Access
  <1>3. CASE Edit(p) \/ SaveTimerExpires(p) \/ HandleSaveTimer(p) \/ FinalSave(p)
    <2>1. /\ pc[p] = "run" /\ pc'[p] \in {"run", "ftruncate"} /\ i'[p] = i[p]
          /\ UNCHANGED fileVars
      BY <1>3 DEF Edit, SaveTimerExpires, HandleSaveTimer, FinalSave
    <2>. QED
      BY <2>1, QuietStep DEF SaveProgress, NameIsFree
  <1>4. CASE StartSaveTimer(p) \/ SaveFails(p)
    <2>1. /\ pc[p] \in {"settime", "ftruncate", "lseek", "write"}
          /\ pc'[p] \in {"run", "settime", "ended"} /\ i'[p] = i[p]
          /\ UNCHANGED fileVars
      BY <1>4 DEF StartSaveTimer, SaveFails
    <2>. QED
      BY <2>1, QuietStep DEF SaveProgress, NameIsFree
  <1>5. CASE Lseek(p)
    <2>1. /\ pc[p] = "lseek" /\ pc'[p] = "write" /\ i'[p] = i[p]
          /\ position'[p] = 0 /\ offset'[p] = 0 /\ length'[p] = length[p]
          /\ version'[p] = version[p] /\ recovery'[i[p]] = << >>
          /\ UNCHANGED fileVars
      BY <1>5 DEF Lseek, SaveProgress, documentVars, fileVars
    <2>2. Bytes(p, version'[p], 0) = << >>
      BY DEF Bytes
    <2>3. length[p] >= 0
      OBVIOUS
    <2>. QED
      BY <2>1, <2>2, <2>3, QuietStep DEF SaveProgress, NameIsFree
  <1>6. CASE SaveSucceeds(p)
    <2>1. /\ pc[p] = "write" /\ offset[p] = length[p] /\ i'[p] = i[p]
          /\ pc'[p] \in {"ended", "dialog", "settime"}
          /\ UNCHANGED <<documentVars, fileVars>>
      BY <1>6 DEF SaveSucceeds
    <2>2. recovery'[i'[p]] = Document(p)'
      BY <2>1 DEF SaveProgress, Document, documentVars, fileVars
    <2>. QED
      BY <2>1, <2>2, QuietStep DEF SaveProgress, NameIsFree
  <1>. QED
    BY <1>1, <1>2, <1>3, <1>4, <1>5, <1>6

-----------------------------------------------------------------------------
(* Steps that change a file.                                               *)

LEMMA OwnedFileIsThere ==
  ASSUME FilesOK, NEW q \in Instances, pc[q] \in Owner
  PROVE  recovery[i[q]] # Absent /\ saved[i[q]] = Absent
  BY BytesIsFile DEF FilesOK, OwnsFile

(* p writes to its own file, or to one that it has just created.           *)
LEMMA FileStep ==
  ASSUME FilesOK, NEW p \in Instances, OthersStay(p), CallsTypeOK', i'[p] = i[p],
         NEW v \in 0 .. MaxVersion[p], NEW k \in 0 .. MaxLength[p],
         recovery' = [recovery EXCEPT ![i[p]] = Bytes(p, v, k)], saved' = saved,
         pc[p] \in Owner \/ (pc[p] = "open" /\ recovery[i[p]] = Absent),
         pc'[p] \in Owner,
         SaveProgress(p)'
  PROVE  FilesOK'
  <1>1. RecoveryTypeOK /\ CallsTypeOK /\ i[p] \in Name
    BY TypeParts DEF FilesOK, CallsTypeOK
  <1>2. /\ Bytes(p, v, k) \in File /\ Bytes(p, v, k) # Absent
        /\ Len(Bytes(p, v, k)) = k
    BY BytesIsFile
  <1>3. /\ recovery'[i[p]] = Bytes(p, v, k)
        /\ \A n \in Name : n # i[p] => recovery'[n] = recovery[n]
    BY <1>1 DEF RecoveryTypeOK
  <1>4. RecoveryTypeOK'
    <2>1. recovery' \in [Name -> File] /\ saved' \in [Name -> File]
      BY <1>1, <1>2 DEF RecoveryTypeOK
    <2>. QED
      BY <2>1 DEF RecoveryTypeOK, CallsTypeOK
  <1>5. \A q \in Instances : q # p /\ pc[q] \in Owner => i[q] # i[p]
    BY OwnedFileIsThere DEF FilesOK, NamesDiffer
  <1>6. NamesDiffer'
    BY <1>5 DEF FilesOK, NamesDiffer, OthersStay
  <1>7. OwnsFile(p)'
    <2>1. saved[i[p]] = Absent
      BY OwnedFileIsThere DEF FilesOK, NameIsFree
    <2>. QED
      BY <1>3, <2>1 DEF OwnsFile
  <1>8. NameIsFree(p)'
    BY DEF NameIsFree, Owner, Open
  <1>9. \A q \in Instances : OwnsFile(q)' /\ SaveProgress(q)' /\ NameIsFree(q)'
    <2>. SUFFICES ASSUME NEW q \in Instances, q # p
                  PROVE  OwnsFile(q)' /\ SaveProgress(q)' /\ NameIsFree(q)'
      BY <1>7, <1>8
    <2>1. i[q] \in Name
      BY <1>1 DEF CallsTypeOK
    <2>. QED
      BY <1>2, <1>3, <1>5, <2>1, OthersKeep
  <1>10. FileIsBeginningOfOneVersion'
    BY <1>2, <1>3 DEF FilesOK, FileIsBeginningOfOneVersion
  <1>. QED
    BY <1>4, <1>6, <1>9, <1>10 DEF FilesOK

LEMMA OpenStep ==
  ASSUME FilesOK, NEW p \in Instances, OthersStay(p), CallsTypeOK', OpenExclusively(p)
  PROVE  FilesOK'
  <1>1. CallsTypeOK
    BY TypeParts DEF FilesOK
  <1>2. CASE TryNextName(p) /\ UNCHANGED <<recovery, timer>>
    <2>1. pc'[p] \in {"access", "ended"} /\ UNCHANGED fileVars
      BY <1>1, <1>2, TryNextNameType DEF OpenExclusively, fileVars
    <2>. QED
      BY <2>1, QuietStep DEF SaveProgress, NameIsFree, Owner, Open
  <1>3. CASE /\ recovery[i[p]] = Absent
             /\ recovery' = [recovery EXCEPT ![i[p]] = << >>]
             /\ pc' = [pc EXCEPT ![p] = "run"]
             /\ UNCHANGED i
    <2>1. pc[p] = "open" /\ pc'[p] = "run" /\ saved' = saved /\ i'[p] = i[p]
      BY <1>1, <1>3 DEF OpenExclusively, CallsTypeOK
    <2>2. SaveProgress(p)'
      BY <2>1 DEF SaveProgress
    <2>3. 0 \in 0 .. MaxVersion[p] /\ 0 \in 0 .. MaxLength[p]
      BY Constants
    <2>4. recovery' = [recovery EXCEPT ![i[p]] = Bytes(p, 0, 0)]
      BY <1>3, EmptyIsFile
    <2>5. pc'[p] \in Owner
      BY <2>1 DEF Owner, Open
    <2>. QED
      BY <1>3, <2>1, <2>2, <2>3, <2>4, <2>5, FileStep
  <1>. QED
    BY <1>2, <1>3 DEF OpenExclusively

LEMMA SaveSteps ==
  ASSUME FilesOK, NEW p \in Instances, OthersStay(p), CallsTypeOK',
         Ftruncate(p) \/ \E n \in 1 .. MaxLength[p] : Write(p, n)
  PROVE  FilesOK'
  <1>1. CallsTypeOK /\ RecoveryTypeOK /\ i[p] \in Name
    BY TypeParts DEF FilesOK, CallsTypeOK
  <1>2. CASE Ftruncate(p)
    <2>1. /\ pc[p] = "ftruncate" /\ pc'[p] = "lseek" /\ saved' = saved /\ i'[p] = i[p]
          /\ recovery'[i[p]] = << >>
      BY <1>1, <1>2 DEF Ftruncate, Goto, CallsTypeOK, RecoveryTypeOK
    <2>2. SaveProgress(p)'
      BY <2>1 DEF SaveProgress
    <2>3. 0 \in 0 .. MaxVersion[p] /\ 0 \in 0 .. MaxLength[p]
      BY Constants
    <2>4. recovery' = [recovery EXCEPT ![i[p]] = Bytes(p, 0, 0)]
      BY <1>2, EmptyIsFile DEF Ftruncate
    <2>5. pc[p] \in Owner /\ pc'[p] \in Owner
      BY <2>1 DEF Owner, Open
    <2>. QED
      BY <2>1, <2>2, <2>3, <2>4, <2>5, FileStep
  <1>3. ASSUME NEW n \in 1 .. MaxLength[p], Write(p, n)
        PROVE  FilesOK'
    <2>1. /\ pc[p] = "write" /\ offset[p] + n <= length[p]
          /\ UNCHANGED <<pc, i, version, length, saved>>
          /\ offset'[p] = offset[p] + n /\ position'[p] = position[p] + n
      BY <1>1, <1>3 DEF Write, CallsTypeOK, documentVars
    <2>2. /\ version[p] \in 0 .. MaxVersion[p] /\ offset[p] + n \in 0 .. MaxLength[p]
          /\ offset[p] \in Nat /\ n \in Nat /\ length[p] \in Nat
      BY <1>1, <2>1, Constants DEF CallsTypeOK
    <2>3. /\ position[p] = offset[p]
          /\ recovery[i[p]] = Bytes(p, version[p], offset[p])
      BY <2>1 DEF FilesOK, SaveProgress
    <2>4. recovery' = [recovery EXCEPT ![i[p]] = Bytes(p, version[p], offset[p] + n)]
      <3>1. WriteAt(recovery[i[p]], position[p],
                    SubSeq(Document(p), offset[p] + 1, offset[p] + n))
              = Bytes(p, version[p], offset[p] + n)
        BY <2>1, <2>2, <2>3, WriteContinues DEF Document
      <3>. QED
        BY <1>3, <3>1 DEF Write
    <2>5. SaveProgress(p)'
      <3>1. recovery'[i[p]] = Bytes(p, version[p], offset[p] + n)
        BY <1>1, <2>4 DEF RecoveryTypeOK
      <3>. QED
        BY <2>1, <2>3, <3>1 DEF SaveProgress
    <2>6. pc[p] \in Owner /\ pc'[p] \in Owner
      BY <2>1 DEF Owner, Open
    <2>. QED
      BY <2>1, <2>2, <2>4, <2>5, <2>6, FileStep
  <1>. QED
    BY <1>2, <1>3

(* The copy is made under a name that only p has.                          *)
LEMMA CopyStep ==
  ASSUME FilesOK, NEW p \in Instances, OthersStay(p), CallsTypeOK', CopyToSuggestedName(p)
  PROVE  FilesOK'
  <1>1. CallsTypeOK /\ RecoveryTypeOK /\ i[p] \in Name
    BY TypeParts DEF FilesOK, CallsTypeOK
  <1>2. /\ pc[p] = "dialog" /\ pc'[p] = "ended" /\ i' = i /\ recovery' = recovery
        /\ saved' = [saved EXCEPT ![i[p]] = recovery[i[p]]]
    BY <1>1 DEF CopyToSuggestedName, Goto, CallsTypeOK
  <1>3. \A n \in Name : n # i[p] => saved'[n] = saved[n]
    BY <1>1, <1>2 DEF RecoveryTypeOK
  <1>4. RecoveryTypeOK'
    <2>1. recovery' \in [Name -> File] /\ saved' \in [Name -> File]
      BY <1>1, <1>2 DEF RecoveryTypeOK
    <2>. QED
      BY <2>1 DEF RecoveryTypeOK, CallsTypeOK
  <1>5. NamesDiffer'
    BY <1>2 DEF FilesOK, NamesDiffer, OthersStay, Owner, Open
  <1>6. OwnsFile(p)' /\ SaveProgress(p)' /\ NameIsFree(p)'
    BY <1>2 DEF OwnsFile, SaveProgress, NameIsFree, Owner, Open
  <1>7. pc[p] \in Owner
    BY <1>2 DEF Owner
  <1>8. \A q \in Instances : OwnsFile(q)' /\ SaveProgress(q)' /\ NameIsFree(q)'
    <2>. SUFFICES ASSUME NEW q \in Instances, q # p
                  PROVE  OwnsFile(q)' /\ SaveProgress(q)' /\ NameIsFree(q)'
      BY <1>6
    <2>1. i[q] \in Name
      BY <1>1 DEF CallsTypeOK
    <2>2. pc[q] \in Owner => i[q] # i[p]
      BY <1>7 DEF FilesOK, NamesDiffer
    <2>3. recovery[i[p]] # Absent
      BY <1>7, OwnedFileIsThere
    <2>. QED
      BY <1>2, <1>3, <2>1, <2>2, <2>3, OthersKeep
  <1>9. FileIsBeginningOfOneVersion'
    BY <1>2 DEF FilesOK, FileIsBeginningOfOneVersion
  <1>. QED
    BY <1>4, <1>5, <1>8, <1>9 DEF FilesOK

(* A recovery file that is deleted belongs to nobody who runs.             *)
LEMMA DeleteStep ==
  ASSUME FilesOK, NEW n \in Name, DeleteRecoveryFile(n)
  PROVE  FilesOK'
  <1>1. /\ recovery' = [recovery EXCEPT ![n] = Absent]
        /\ UNCHANGED <<pc, i, version, length, offset, position, timer, final, saved>>
        /\ \A p \in Instances : pc[p] # "open" /\ (pc[p] \in Owner => i[p] # n)
    BY DEF DeleteRecoveryFile, documentVars, saveVars, Owner, Open
  <1>2. CallsTypeOK /\ RecoveryTypeOK
    BY TypeParts DEF FilesOK
  <1>3. \A m \in Name : recovery'[m] = IF m = n THEN Absent ELSE recovery[m]
    BY <1>1, <1>2 DEF RecoveryTypeOK
  <1>4. RecoveryTypeOK'
    <2>1. recovery' \in [Name -> File]
      BY <1>1, <1>2 DEF RecoveryTypeOK, File
    <2>. QED
      BY <1>1, <1>2, <2>1 DEF RecoveryTypeOK
  <1>5. NamesDiffer'
    BY <1>1 DEF FilesOK, NamesDiffer
  <1>6. ASSUME NEW p \in Instances
        PROVE  OwnsFile(p)' /\ SaveProgress(p)' /\ NameIsFree(p)'
    <2>1. i[p] \in Name /\ (pc[p] \in {"lseek", "write", "dialog"} => pc[p] \in Owner)
      BY <1>2 DEF CallsTypeOK, Owner, Open
    <2>2. pc[p] \in Owner => recovery'[i[p]] = recovery[i[p]]
      BY <1>1, <1>3, <2>1
    <2>. QED
      BY <1>1, <2>1, <2>2 DEF FilesOK, OwnsFile, SaveProgress, NameIsFree, Document
  <1>7. FileIsBeginningOfOneVersion'
    BY <1>1, <1>3 DEF FilesOK, FileIsBeginningOfOneVersion
  <1>. QED
    BY <1>4, <1>5, <1>6, <1>7 DEF FilesOK

-----------------------------------------------------------------------------
(* The invariant.                                                          *)

LEMMA FilesInit == Init => FilesOK
  <1>. SUFFICES ASSUME Init PROVE FilesOK
    OBVIOUS
  <1>1. RecoveryTypeOK
    BY Constants DEF Init, RecoveryTypeOK, PC, File
  <1>. QED
    BY <1>1 DEF Init, FilesOK, NamesDiffer, OwnsFile, SaveProgress, NameIsFree,
                FileIsBeginningOfOneVersion, Owner, Open

LEMMA FilesStep == FilesOK /\ [Next]_vars => FilesOK'
  <1>. SUFFICES ASSUME FilesOK, [Next]_vars PROVE FilesOK'
    OBVIOUS
  <1>1. ASSUME NEW p \in Instances, Step(p)
        PROVE  FilesOK'
    <2>1. CallsTypeOK' /\ OthersStay(p)
      BY <1>1, StepType DEF FilesOK, SaveProgress
    <2>. QED
      BY <1>1, <2>1, QuietSteps, OpenStep, SaveSteps, CopyStep DEF Step
  <1>2. ASSUME NEW n \in Name, DeleteRecoveryFile(n)
        PROVE  FilesOK'
    BY <1>2, DeleteStep
  <1>3. CASE UNCHANGED vars
    BY <1>3 DEF vars, documentVars, saveVars, fileVars, FilesOK, RecoveryTypeOK, NamesDiffer,
                OwnsFile, SaveProgress, NameIsFree, FileIsBeginningOfOneVersion, Document
  <1>. QED
    BY <1>1, <1>2, <1>3 DEF Next, Done

LEMMA FilesAlwaysOK == Spec => []FilesOK
  BY FilesInit, FilesStep, PTL DEF Spec

(* Type correctness for any number of instances and names.                 *)
THEOREM RecoveryTypeCorrect == Spec => []RecoveryTypeOK
  <1>1. FilesOK => RecoveryTypeOK
    BY DEF FilesOK
  <1>. QED
    BY <1>1, FilesAlwaysOK, PTL

(* No two instances that run share a recovery file (storage.c:58).         *)
THEOREM FilesAreNotShared == Spec => []NoSharedRecoveryFile
  <1>1. FilesOK => NoSharedRecoveryFile
    BY DEF FilesOK, NamesDiffer, NoSharedRecoveryFile, Owner
  <1>. QED
    BY <1>1, FilesAlwaysOK, PTL

(* What a kill leaves is the beginning of one version                      *)
(* (storage.c:144-163).                                                    *)
THEOREM KillLeavesOneVersion == Spec => []FileIsBeginningOfOneVersion
  <1>1. FilesOK => FileIsBeginningOfOneVersion
    BY DEF FilesOK
  <1>. QED
    BY <1>1, FilesAlwaysOK, PTL

(* The save dialog offers a whole document under a name that nobody else   *)
(* has taken (storage.c:43, save_dialog.c:46).                             *)
THEOREM DialogIsSafe == Spec => []DialogOffersWholeDocument
  <1>1. FilesOK => DialogOffersWholeDocument
    BY DEF FilesOK, OwnsFile, SaveProgress, DialogOffersWholeDocument, Owner
  <1>. QED
    BY <1>1, FilesAlwaysOK, PTL

(* The only files that a step of q touches are its own, and one that is    *)
(* not there.                                                              *)
LEMMA StepTouches ==
  ASSUME FilesOK, NEW q \in Instances, Step(q), NEW n \in Name, recovery'[n] # recovery[n]
  PROVE  /\ pc[q] # "ended" /\ i[q] = n
         /\ recovery[n] = Absent \/ pc[q] \in Owner
  <1>. recovery \in [Name -> File] /\ CallsTypeOK
    BY TypeParts DEF FilesOK
  <1>. USE DEF fileVars, Goto, CallsTypeOK
  <1>1. CASE OpenExclusively(q)
    BY <1>1 DEF OpenExclusively
  <1>2. CASE Ftruncate(q)
    BY <1>2 DEF Ftruncate, Owner, Open
  <1>3. ASSUME NEW k \in 1 .. MaxLength[q], Write(q, k)
        PROVE  pc[q] = "write" /\ i[q] = n
    BY <1>3 DEF Write
  <1>4. CASE \/ Start(q) \/ Access(q) \/ Edit(q) \/ SaveTimerExpires(q) \/ HandleSaveTimer(q)
             \/ FinalSave(q) \/ StartSaveTimer(q) \/ Lseek(q) \/ SaveFails(q)
             \/ SaveSucceeds(q) \/ CopyToSuggestedName(q) \/ LeaveDialog(q) \/ Killed(q)
    BY <1>4 DEF Start, Access, Edit, SaveTimerExpires, HandleSaveTimer, FinalSave,
                StartSaveTimer, Lseek, SaveFails, SaveSucceeds, CopyToSuggestedName,
                LeaveDialog, Killed
  <1>. QED
    BY <1>1, <1>2, <1>3, <1>4 DEF Step, Owner, Open

(* What an instance has left stays as it is, or is deleted by the user     *)
(* (storage.c:58).                                                         *)
THEOREM LeftFilesStay == Spec => LeftFilesAreKept
  <1>1. ASSUME FilesOK, Next, NEW p \in Instances, pc[p] = "ended",
               recovery[i[p]] # << >>, recovery[i[p]][1][1] = p
        PROVE  recovery'[i[p]] \in {recovery[i[p]], Absent}
    <2>1. i[p] \in Name /\ recovery \in [Name -> File]
      BY <1>1, TypeParts DEF FilesOK, CallsTypeOK
    <2>2. ASSUME NEW q \in Instances, Step(q), recovery'[i[p]] # recovery[i[p]]
          PROVE  FALSE
      <3>1. q # p /\ i[q] = i[p] /\ (recovery[i[p]] = Absent \/ pc[q] \in Owner)
        BY <1>1, <2>1, <2>2, StepTouches
      <3>2. CASE recovery[i[p]] = Absent
        <4>1. Absent[1][1] = "absent"
          BY DEF Absent
        <4>. QED
          BY <1>1, <3>2, <4>1, Constants
      <3>3. CASE pc[q] \in Owner
        <4>1. PICK v \in 0 .. MaxVersion[q], k \in 0 .. MaxLength[q] :
                recovery[i[q]] = Bytes(q, v, k)
          BY <1>1, <3>3 DEF FilesOK, OwnsFile
        <4>. QED
          BY <1>1, <3>1, <4>1, BytesIsFile
      <3>. QED
        BY <3>1, <3>2, <3>3
    <2>3. ASSUME NEW n \in Name, DeleteRecoveryFile(n)
          PROVE  recovery'[i[p]] \in {recovery[i[p]], Absent}
      BY <2>1, <2>3 DEF DeleteRecoveryFile
    <2>4. CASE UNCHANGED vars
      BY <2>4 DEF vars, fileVars
    <2>. QED
      BY <1>1, <2>2, <2>3, <2>4 DEF Next, Done
  <1>2. FilesOK /\ [Next]_vars =>
          [\A p \in Instances :
             LET f == recovery[i[p]] IN
             (pc[p] = "ended" /\ f # << >> /\ f[1][1] = p)
               => recovery'[i[p]] \in {f, Absent}]_vars
    BY <1>1
  <1>. QED
    BY <1>2, FilesAlwaysOK, PTL DEF Spec, LeftFilesAreKept
=============================================================================
