-------------------------- MODULE ResolvConfProofs --------------------------
(***************************************************************************)
(* Proofs about ResolvConf, for every original and every mode.             *)
(***************************************************************************)
EXTENDS ResolvConf, TLAPS

(* The operation belongs to the stage. *)
CallOfStage ==
    /\ stage \in {"off", "up"} => call = "none"
    /\ stage = "setup" => call \in ApplyCalls /\ ~reverted
    /\ stage \in {"lost", "stop", "cleanup"} => call \in RevertCalls
    /\ stage = "gap" => call \in ApplyCalls \cup {"none"}

(* A sound host has one kind of record, the one of its original, and a     *)
(* resolv.conf of the other kind never appears.                            *)
OneRecord ==
    Sound => /\ orig = "link" => /\ backup = "none" /\ link \in {"none", "target"}
                                 /\ etc # "file"
             /\ orig = "file" => /\ link = "none" /\ backup \in {"none", "file"}
                                 /\ etc # "link"

(* An apply changes resolv.conf only beside a record. *)
RecordFirst ==
    (Sound /\ call \in {"clear", "write"}) => link # "none" \/ backup # "none"

(* A revert knows the records it read, and has restored before the drop. *)
ReadFirst ==
    /\ call \in {"remove", "restore", "drop"} =>
           /\ mem.link = link /\ mem.backup = backup
           /\ link # "none" \/ backup # "none"
    /\ call = "drop" => etc = Restored(link, backup)

RInv == /\ TypeOK /\ CallOfStage /\ OneRecord /\ RecordFirst /\ ReadFirst
        /\ Restorable /\ EndIsOriginal
-----------------------------------------------------------------------------
USE OrigsAssumption DEF OrigsAssumption
USE DEF TypeOK, CallOfStage, OneRecord, RecordFirst, ReadFirst, Restorable,
        EndIsOriginal, WouldRestore, Sound, Contents, ApplyCalls, RevertCalls,
        NoMem, files, history

(* The operations of an apply (applyResolvConfFallback). *)
LEMMA ApplyStep ==
    ASSUME RInv, BackupResolvConf \/ RemoveForApply \/ WriteResolvConf
    PROVE  RInv'
  <1>1. CASE BackupResolvConf
    <2>1. TypeOK'
      BY <1>1 DEF RInv, BackupResolvConf, Restored
    <2>a. Sound' => Sound /\ (etc \in Contents => etc = orig)
      BY <1>1 DEF RInv, BackupResolvConf
    <2>2. CallOfStage' /\ ReadFirst' /\ EndIsOriginal'
      BY <1>1 DEF RInv, BackupResolvConf
    <2>3. OneRecord' /\ RecordFirst' /\ Restorable'
      <3> SUFFICES ASSUME Sound'
                   PROVE  OneRecord' /\ RecordFirst' /\ Restorable'
        OBVIOUS
      <3>1. CASE etc = "link"
        <4>1. orig = "link" /\ link' = "target" /\ backup' = "none"
          BY <1>1, <2>a, <3>1 DEF RInv, BackupResolvConf, Restored
        <4> QED
          BY <1>1, <4>1 DEF BackupResolvConf, Restored
      <3>2. CASE etc \in Contents
        <4>1. orig = "file" /\ etc = "file" /\ link' = "none" /\ backup' = "file"
          BY <1>1, <2>a, <3>2 DEF RInv, BackupResolvConf, Restored
        <4> QED
          BY <1>1, <4>1 DEF BackupResolvConf, Restored
      <3>3. CASE etc = "none"
        <4>1. /\ link' = link /\ backup' = backup /\ etc' = etc /\ orig' = orig
              /\ link # "none" \/ backup # "none"
          BY <1>1, <2>a, <3>3 DEF RInv, BackupResolvConf
        <4> QED
          BY <2>a, <4>1 DEF RInv, Restored
      <3> QED
        BY <3>1, <3>2, <3>3 DEF RInv
    <2> QED
      BY <2>1, <2>2, <2>3 DEF RInv
  <1>2. CASE RemoveForApply
    BY <1>2 DEF RInv, RemoveForApply, Restored
  <1>3. CASE WriteResolvConf
    BY <1>3 DEF RInv, WriteResolvConf, ApplyReturns, Exit, Restored
  <1> QED
    BY <1>1, <1>2, <1>3

(* The operations of a revert (revertResolvConfFallback). *)
LEMMA RevertStep ==
    ASSUME RInv, ReadRecords \/ RemoveForRevert \/ Restore \/ DropRecord
    PROVE  RInv'
  <1>1. CASE ReadRecords
    <2>m. mem' \in [link: {"none", "target", "cut"}, backup: Contents \cup {"none"}]
      BY <1>1 DEF RInv, ReadRecords, RevertReturns, Exit
    <2>1. TypeOK'
      <3>1. /\ stage' \in {"off", "setup", "up", "lost", "gap", "stop", "cleanup"}
            /\ call' \in ApplyCalls \cup RevertCalls \cup {"none"}
        BY <1>1 DEF RInv, ReadRecords, RevertReturns, Exit
      <3>2. reverted' \in BOOLEAN
        BY <1>1 DEF RInv, ReadRecords
      <3> QED
        BY <1>1, <2>m, <3>1, <3>2 DEF RInv, ReadRecords
    <2>2. CallOfStage' /\ OneRecord' /\ RecordFirst' /\ ReadFirst'
      BY <1>1 DEF RInv, ReadRecords, RevertReturns, Exit, Restored
    <2>3. Restorable' /\ EndIsOriginal'
      BY <1>1 DEF RInv, ReadRecords, RevertReturns, Exit, Restored
    <2> QED
      BY <2>1, <2>2, <2>3 DEF RInv
  <1>2. CASE RemoveForRevert
    BY <1>2 DEF RInv, RemoveForRevert, Restored
  <1>3. CASE Restore
    BY <1>3 DEF RInv, Restore, Restored
  <1>4. CASE DropRecord
    BY <1>4 DEF RInv, DropRecord, RevertReturns, Exit, Restored
  <1> QED
    BY <1>1, <1>2, <1>3, <1>4

(* Failures and kills (Interrupted). *)
LEMMA FailStep ==
    ASSUME RInv, ApplyFails \/ RevertFails \/ Kill
    PROVE  RInv'
  <1>1. CASE ApplyFails
    <2>m. mem' \in [link: {"none", "target", "cut"}, backup: Contents \cup {"none"}]
      BY <1>1 DEF RInv, ApplyFails, ApplyReturns, Exit
    <2>1. TypeOK'
      BY <1>1, <2>m, ZenonT(90) DEF RInv, ApplyFails, Interrupted, Cut, ApplyReturns, Exit
    <2>2. CallOfStage' /\ OneRecord' /\ RecordFirst' /\ ReadFirst'
      BY <1>1 DEF RInv, ApplyFails, Interrupted, Cut, ApplyReturns, Exit, Restored
    <2>3. Restorable' /\ EndIsOriginal'
      BY <1>1 DEF RInv, ApplyFails, Interrupted, Cut, ApplyReturns, Exit, Restored
    <2> QED
      BY <2>1, <2>2, <2>3 DEF RInv
  <1>2. CASE RevertFails
    <2>m. mem' \in [link: {"none", "target", "cut"}, backup: Contents \cup {"none"}]
      BY <1>2 DEF RInv, RevertFails, RevertReturns, Exit
    <2>1. TypeOK'
      BY <1>2, <2>m, ZenonT(90) DEF RInv, RevertFails, Interrupted, Cut, RevertReturns, Exit
    <2>2. CallOfStage' /\ OneRecord' /\ RecordFirst' /\ ReadFirst'
      BY <1>2 DEF RInv, RevertFails, Interrupted, Cut, RevertReturns, Exit, Restored
    <2>3. Restorable' /\ EndIsOriginal'
      BY <1>2 DEF RInv, RevertFails, Interrupted, Cut, RevertReturns, Exit, Restored
    <2> QED
      BY <2>1, <2>2, <2>3 DEF RInv
  <1>3. CASE Kill
    <2>1. TypeOK'
      BY <1>3, ZenonT(90) DEF RInv, Kill, Interrupted, Cut, Exit, Restored
    <2>2. CallOfStage' /\ OneRecord' /\ RecordFirst' /\ ReadFirst'
      BY <1>3 DEF RInv, Kill, Interrupted, Cut, Exit, Restored
    <2>3. Restorable' /\ EndIsOriginal'
      BY <1>3 DEF RInv, Kill, Interrupted, Cut, Exit, Restored
    <2> QED
      BY <2>1, <2>2, <2>3 DEF RInv
  <1> QED
    BY <1>1, <1>2, <1>3

(* The calls of the session. *)
LEMMA CallStep ==
    ASSUME RInv, Lost \/ Reconnect \/ Stop \/ \E m \in Modes : Begin(m)
    PROVE  RInv'
  <1>1. CASE Lost \/ Reconnect \/ Stop
    <2>1. TypeOK'
      BY <1>1, ZenonT(90) DEF RInv, Lost, Reconnect, Stop, Calls, Restored
    <2>2. CallOfStage' /\ OneRecord' /\ RecordFirst' /\ ReadFirst'
      BY <1>1 DEF RInv, Lost, Reconnect, Stop, Calls, Restored
    <2>3. Restorable' /\ EndIsOriginal'
      BY <1>1 DEF RInv, Lost, Reconnect, Stop, Calls, Restored
    <2> QED
      BY <2>1, <2>2, <2>3 DEF RInv
  <1>2. ASSUME NEW m \in Modes, Begin(m) PROVE RInv'
    <2>m. mode' \in {"unit", "foreground"}
      BY <1>2 DEF Begin
    <2>1. TypeOK'
      <3>1. /\ stage' \in {"off", "setup", "up", "lost", "gap", "stop", "cleanup"}
            /\ call' \in ApplyCalls \cup RevertCalls \cup {"none"}
            /\ reverted' \in BOOLEAN
        BY <1>2 DEF Begin
      <3>2. UNCHANGED <<orig, etc, link, backup, mem, over, torn>>
        BY <1>2 DEF Begin
      <3> QED
        BY <2>m, <3>1, <3>2 DEF RInv
    <2>2. CallOfStage' /\ OneRecord' /\ RecordFirst' /\ ReadFirst'
      BY <1>2 DEF RInv, Begin
    <2>3. Restorable' /\ EndIsOriginal'
      BY <1>2 DEF RInv, Begin, Restored
    <2> QED
      BY <2>1, <2>2, <2>3 DEF RInv
  <1> QED
    BY <1>1, <1>2
-----------------------------------------------------------------------------
(* RInv is an invariant of the fallback. *)
THEOREM ResolvInductive == Spec => []RInv
  <1>1. Init => RInv
    <2> SUFFICES ASSUME Init PROVE RInv
      OBVIOUS
    <2>1. TypeOK
      BY DEF Init
    <2>2. CallOfStage /\ OneRecord /\ RecordFirst /\ ReadFirst
      BY DEF Init
    <2>3. Restorable /\ EndIsOriginal
      BY DEF Init
    <2> QED
      BY <2>1, <2>2, <2>3 DEF RInv
  <1>2. RInv /\ [Next]_vars => RInv'
    <2> SUFFICES ASSUME RInv, [Next]_vars PROVE RInv'
      OBVIOUS
    <2>1. CASE Next
      BY <2>1, ApplyStep, RevertStep, FailStep, CallStep DEF Next
    <2>2. CASE UNCHANGED vars
      BY <2>2 DEF RInv, vars
    <2> QED
      BY <2>1, <2>2
  <1> QED
    BY <1>1, <1>2, PTL DEF Spec

(* The files and the records keep their types (resolvconf.go). *)
THEOREM ResolvTypeCorrect == Spec => []TypeOK
  <1>1. RInv => TypeOK
    BY DEF RInv
  <1> QED
    BY <1>1, ResolvInductive, PTL

(* At every file operation the original can be restored, unless an apply   *)
(* ran over a file of tj or a record was cut (Restorable).                 *)
THEOREM RestorableCorrect == Spec => []Restorable
  <1>1. RInv => Restorable
    BY DEF RInv
  <1> QED
    BY <1>1, ResolvInductive, PTL

(* A last revert without an error leaves the original and no record        *)
(* (EndIsOriginal).                                                        *)
THEOREM EndCorrect == Spec => []EndIsOriginal
  <1>1. RInv => EndIsOriginal
    BY DEF RInv
  <1> QED
    BY <1>1, ResolvInductive, PTL
=============================================================================
