--------------------------- MODULE ReplaceTxProofs ----------------------------
(***************************************************************************)
(* Proofs about ReplaceTx for any set of paths, contents and ids.          *)
(*                                                                         *)
(* First type correctness, action by action; it needs that the record in   *)
(* memory is a real one wherever the code uses it (TypeInv, ReplaceTxInv). *)
(* Then, for a gateway that keeps a journal, the inductive invariant IInv: *)
(* what each program point knows of the server, of the record in memory    *)
(* and of the record on disk.  The safety properties follow from IInv.     *)
(* Last the refinement: with AtomicInv besides, every step is one of       *)
(* AtomicStore or none.                                                    *)
(***************************************************************************)
EXTENDS ReplaceTxInv, TLAPS

(* The part of the typing that an answer to a request does not touch. *)
StoresType ==
  /\ canon \in [Paths -> Values]
  /\ stage \in [Ids -> Contents \cup {Absent}]
  /\ backup \in [Ids -> Values]
  /\ disk \subseteq Record

(* The tree as the next request sees it holds values only. *)
LEMMA ViewType ==
  ASSUME NEW c \in [Paths -> Values], NEW b \in [Ids -> Values],
         NEW d \in SUBSET Record
  PROVE  ViewOf(c, b, d) \in [Paths -> Values]
<1>1. SUFFICES ASSUME NEW p \in Paths,
                      \E r \in d : r.dest = p /\ b[r.id] # Absent
               PROVE  b[(CHOOSE r \in d : r.dest = p /\ b[r.id] # Absent).id]
                        \in Values
  BY DEF ViewOf, Values
<1>2. (CHOOSE r \in d : r.dest = p /\ b[r.id] # Absent) \in Record
  BY <1>1
<1> QED
  BY <1>2 DEF Record

(* Answering a request keeps the types. *)
LEMMA ReturnType ==
  ASSUME TypeInv, StoresType', UNCHANGED faulty,
         NEW result \in {"ok", "failed", "refused", "uncertain"},
         Return(result)
  PROVE  TypeInv'
<1>1. View' \in [Paths -> Values]
  BY ViewType DEF StoresType, View
<1> QED
  BY <1>1 DEF Return, TypeInv, TypeOK, StoresType, OpPC, TxPCs, PCs, NoOp

(* Going on to the next step of an operation keeps the types. *)
LEMMA ContinueType ==
  ASSUME TypeInv, StoresType', UNCHANGED faulty,
         NEW label \in PCs, Continue(label),
         label \in TxPCs => tx \in Record,
         label \in {"statDest", "statMove", "direct", "directReply"} => OpPC'
  PROVE  TypeInv'
  BY DEF Continue, TypeInv, TypeOK, StoresType, OpPC

(* Both ways out of a failed operation keep the types. *)
LEMMA FailType ==
  ASSUME TypeInv, StoresType', UNCHANGED faulty, pc \in TxPCs, Fail
  PROVE  TypeInv'
<1>1. CASE Return("uncertain")
  BY <1>1, ReturnType
<1>2. CASE ~Return("uncertain")
  BY <1>2 DEF Fail, TypeInv, TypeOK, StoresType, OpPC, TxPCs, PCs
<1> QED
  BY <1>1, <1>2

(* Every way out of a failed recovery keeps the types. *)
LEMMA RecoveryFailsType ==
  ASSUME TypeInv, StoresType', UNCHANGED faulty, RecoveryFails
  PROVE  TypeInv'
<1>1. CASE Stopped
  BY <1>1 DEF Stopped, TypeInv, TypeOK, StoresType, OpPC, TxPCs, PCs
<1>2. CASE ~Stopped
  BY <1>2, ReturnType DEF RecoveryFails
<1> QED
  BY <1>1, <1>2

(* saveUpload and forgetUpload leave a set of records. *)
LEMMA JournalType ==
  ASSUME disk \subseteq Record, tx \in Record
  PROVE  Saved(tx) \in SUBSET Record /\ Forgotten(tx) \in SUBSET Record
  BY DEF Saved, Forgotten

(* removeKnown leaves values at the hidden names. *)
LEMMA RemovedType ==
  ASSUME NEW S, Absent \in S, NEW names \in [Ids -> S], NEW v
  PROVE  Removed(names, v) \in [Ids -> S]
  BY DEF Removed

(* The steps of RecoverPending and recoverUpload keep the types. *)
LEMMA TypeRecovery ==
  ASSUME TypeInv, RecoveryStep
  PROVE  TypeInv'
<1> USE RecoveryFailsType, ContinueType, JournalType
<1>1. CASE ScanRecord
  BY <1>1 DEF ScanRecord, OpPC, remote, TypeInv, TypeOK, StoresType, TxPCs,
       PCs
<1>2. CASE ScanDone
  BY <1>2 DEF ScanDone, FirstStep, Continue, OpPC, Ops, NoOp, remote,
       TypeInv, TypeOK, StoresType, TxPCs, PCs
<1>3. CASE ScanFails
  BY <1>3 DEF ScanFails, remote, TypeInv, TypeOK, StoresType, TxPCs, PCs
<1>4. CASE RecoverUnready
  BY <1>4 DEF RecoverUnready, TypeInv, TypeOK, StoresType, TxPCs, PCs
<1>5. CASE RecoverUnreadyFails
  BY <1>5 DEF RecoverUnreadyFails, TypeInv, TypeOK, StoresType, TxPCs, PCs
<1>6. CASE RecoverForward
  BY <1>6 DEF RecoverForward, Record, OpPC, remote, TypeInv, TypeOK,
       StoresType, TxPCs, PCs
<1>7. CASE RecoverBack
  BY <1>7 DEF RecoverBack, remote, TypeInv, TypeOK, StoresType, TxPCs, PCs
<1>8. CASE RollSource
  BY <1>8 DEF RollSource, remote, TypeInv, TypeOK, StoresType, TxPCs, PCs
<1>9. CASE RollSourceFails
  BY <1>9 DEF RollSourceFails, remote, TypeInv, TypeOK, StoresType, TxPCs,
       PCs
<1>10. CASE RollDest
  BY <1>10 DEF RollDest, remote, TypeInv, TypeOK, StoresType, TxPCs, PCs
<1>11. CASE RollDestFails
  BY <1>11 DEF RollDestFails, remote, TypeInv, TypeOK, StoresType, TxPCs,
       PCs
<1>12. CASE Restore
  BY <1>12 DEF Restore, MoveBack, Values, Record, TypeInv, TypeOK,
       StoresType, TxPCs, PCs
<1>13. CASE RestoreLost
  BY <1>13 DEF RestoreLost, MoveBack, Values, Record, TypeInv, TypeOK,
       StoresType, TxPCs, PCs
<1>14. CASE RestoreFails
  BY <1>14 DEF RestoreFails, remote, TypeInv, TypeOK, StoresType, TxPCs, PCs
<1>15. CASE VerifyRestored
  BY <1>15 DEF VerifyRestored, remote, TypeInv, TypeOK, StoresType, TxPCs,
       PCs
<1>16. CASE VerifyRestoredFails
  BY <1>16 DEF VerifyRestoredFails, remote, TypeInv, TypeOK, StoresType,
       TxPCs, PCs
<1>17. CASE RemoveStage
  BY <1>17, RemovedType DEF RemoveStage, Values, TypeInv, TypeOK,
       StoresType, TxPCs, PCs
<1>18. CASE RemoveStageFails
  <2>1. Removed(stage, tx.hash) \in [Ids -> Contents \cup {Absent}]
    BY <1>18, RemovedType DEF TypeInv, TypeOK, Values
  <2>2. StoresType'
    BY <1>18, <2>1 DEF RemoveStageFails, TypeInv, TypeOK, StoresType
  <2> QED
    BY <1>18, <2>2 DEF RemoveStageFails, TxPCs, PCs
<1>19. CASE RemoveBackup
  BY <1>19, RemovedType DEF RemoveBackup, Values, TypeInv, TypeOK,
       StoresType, TxPCs, PCs
<1>20. CASE RemoveBackupFails
  <2>1. Removed(backup, tx.original) \in [Ids -> Values]
    BY <1>20, RemovedType DEF TypeInv, TypeOK, Values
  <2>2. StoresType'
    BY <1>20, <2>1 DEF RemoveBackupFails, TypeInv, TypeOK, StoresType
  <2> QED
    BY <1>20, <2>2 DEF RemoveBackupFails, TxPCs, PCs
<1>21. CASE SaveDone
  BY <1>21 DEF SaveDone, SaveError, remote, TypeInv, TypeOK, StoresType,
       TxPCs, PCs
<1>22. CASE RecForget
  BY <1>22, ReturnType DEF RecForget, Recovered, OpPC, remote, TypeInv,
       TypeOK, StoresType, TxPCs, PCs
<1> QED
  BY <1>1, <1>2, <1>3, <1>4, <1>5, <1>6, <1>7, <1>8, <1>9, <1>10, <1>11,
     <1>12, <1>13, <1>14, <1>15, <1>16, <1>17, <1>18, <1>19, <1>20, <1>21,
     <1>22 DEF RecoveryStep

(* The steps of the operations keep the types. *)
LEMMA TypeOperation ==
  ASSUME TypeInv, OperationStep
  PROVE  TypeInv'
<1> USE ReturnType, ContinueType, FailType, JournalType
<1>1. CASE DirectPerformed
  BY <1>1 DEF DirectPerformed, Effect, Continue, Values, Ops, NoOp, OpPC,
       TypeInv, TypeOK, StoresType, TxPCs, PCs
<1>2. CASE DirectReply
  BY <1>2 DEF DirectReply, remote, TypeInv, TypeOK, StoresType, TxPCs, PCs
<1>3. CASE DirectRefused
  BY <1>3 DEF DirectRefused, remote, TypeInv, TypeOK, StoresType, TxPCs, PCs
<1>4. CASE StatDest
  <2>1. op.dest \in Paths /\ op.data \in Contents
    BY <1>4 DEF StatDest, Ops, NoOp, OpPC, TypeInv, TypeOK
  <2>2. PICK i \in Ids : tx' = NewTx(i)
    BY <1>4 DEF StatDest
  <2>3. tx' \in Record
    BY <2>1, <2>2 DEF NewTx, NoTx, Record
  <2> QED
    BY <1>4, <2>3 DEF StatDest, OpPC, remote, TypeInv, TypeOK, PCs
<1>5. CASE StatFails
  BY <1>5 DEF StatFails, remote, TypeInv, TypeOK, StoresType, TxPCs, PCs
<1>6. CASE SaveNew
  BY <1>6 DEF SaveNew, SaveFirst, SaveError, remote, TypeInv, TypeOK,
       StoresType, TxPCs, PCs
<1>7. CASE Upload
  BY <1>7 DEF Upload, TypeInv, TypeOK, StoresType, TxPCs, PCs
<1>8. CASE VerifyStage
  BY <1>8 DEF VerifyStage, remote, TypeInv, TypeOK, StoresType, TxPCs, PCs
<1>9. CASE ReadOriginal
  BY <1>9 DEF ReadOriginal, Record, Values, OpPC, remote, TypeInv, TypeOK,
       StoresType, TxPCs, PCs
<1>10. CASE ReadOriginalFails
  BY <1>10 DEF ReadOriginalFails, remote, TypeInv, TypeOK, StoresType,
       TxPCs, PCs
<1>11. CASE SaveReady
  BY <1>11 DEF SaveReady, SaveOrFail, SaveError, remote, TypeInv, TypeOK,
       StoresType, TxPCs, PCs
<1>12. CASE CleanupStage
  BY <1>12 DEF CleanupStage, TypeInv, TypeOK, StoresType, TxPCs, PCs
<1>13. CASE StatMove
  <2>1. op.dest \in Paths /\ op.source \in Paths
    BY <1>13 DEF StatMove, Ops, NoOp, OpPC, TypeInv, TypeOK
  <2>2. PICK i \in Ids : tx' = MoveTx(i)
    BY <1>13 DEF StatMove
  <2>3. canon[op.source] \in Contents /\ canon[op.dest] \in Contents \cup {Absent}
    BY <1>13, <2>1 DEF StatMove, TypeInv, TypeOK, Values
  <2>4. tx' \in Record
    BY <2>1, <2>2, <2>3 DEF MoveTx, NoTx, Record
  <2> QED
    BY <1>13, <2>4 DEF StatMove, OpPC, remote, TypeInv, TypeOK, PCs
<1>14. CASE StatMoveDirectory
  BY <1>14 DEF StatMoveDirectory, Continue, OpPC, remote, TypeInv, TypeOK,
       StoresType, TxPCs, PCs
<1>15. CASE SaveMove
  BY <1>15 DEF SaveMove, SaveFirst, SaveError, remote, TypeInv, TypeOK,
       StoresType, TxPCs, PCs
<1>16. CASE SaveStarted
  <2>1. tx' \in Record
    BY <1>16 DEF SaveStarted, Record, TypeInv, TxPCs, PCs
  <2>2. disk' \subseteq Record
    BY <1>16, <2>1 DEF SaveStarted, Saved, TypeInv, TypeOK
  <2> QED
    BY <1>16, <2>1, <2>2 DEF SaveStarted, OpPC, remote, TypeInv, TypeOK, PCs
<1>17. CASE Preserve
  BY <1>17 DEF Preserve, MoveToBackup, Values, Record, TypeInv, TypeOK,
       StoresType, TxPCs, PCs
<1>18. CASE PreserveLost
  BY <1>18 DEF PreserveLost, MoveToBackup, Values, Record, TypeInv, TypeOK,
       StoresType, TxPCs, PCs
<1>19. CASE PreserveFails
  BY <1>19 DEF PreserveFails, remote, TypeInv, TypeOK, StoresType, TxPCs,
       PCs
<1>20. CASE Promote
  BY <1>20 DEF Promote, MoveIntoPlace, Promoted, IsMove, Values, Record,
       TypeInv, TypeOK, StoresType, TxPCs, PCs
<1>21. CASE PromoteLost
  BY <1>21 DEF PromoteLost, PromotionFailed, MoveIntoPlace, Promoted,
       IsMove, Values, Record, TypeInv, TypeOK, StoresType, TxPCs, PCs
<1>22. CASE PromoteFails
  BY <1>22 DEF PromoteFails, PromotionFailed, remote, TypeInv, TypeOK,
       StoresType, TxPCs, PCs
<1>23. CASE Undo
  BY <1>23 DEF Undo, MoveBack, Values, Record, TypeInv, TypeOK, StoresType,
       TxPCs, PCs
<1>24. CASE UndoLost
  BY <1>24 DEF UndoLost, MoveBack, Values, Record, TypeInv, TypeOK,
       StoresType, TxPCs, PCs
<1>25. CASE UndoFails
  BY <1>25 DEF UndoFails, remote, TypeInv, TypeOK, StoresType, TxPCs, PCs
<1>26. CASE VerifyDest
  BY <1>26 DEF VerifyDest, Record, OpPC, remote, TypeInv, TypeOK,
       StoresType, TxPCs, PCs
<1>27. CASE VerifyDestFails
  BY <1>27 DEF VerifyDestFails, remote, TypeInv, TypeOK, StoresType, TxPCs,
       PCs
<1>28. CASE SaveCommitted
  BY <1>28 DEF SaveCommitted, SaveOrFail, SaveError, remote, TypeInv,
       TypeOK, StoresType, TxPCs, PCs
<1>29. CASE DropBackup
  BY <1>29, RemovedType DEF DropBackup, Values, TypeInv, TypeOK, StoresType,
       TxPCs, PCs
<1>30. CASE DropBackupFails
  <2>1. Removed(backup, tx.original) \in [Ids -> Values]
    BY <1>30, RemovedType DEF TypeInv, TypeOK, Values
  <2>2. StoresType'
    BY <1>30, <2>1 DEF DropBackupFails, TypeInv, TypeOK, StoresType
  <2> QED
    BY <1>30, <2>2 DEF DropBackupFails, TxPCs, PCs
<1>31. CASE Forget
  BY <1>31 DEF Forget, remote, TypeInv, TypeOK, StoresType, TxPCs, PCs
<1> QED
  BY <1>1, <1>2, <1>3, <1>4, <1>5, <1>6, <1>7, <1>8, <1>9, <1>10, <1>11,
     <1>12, <1>13, <1>14, <1>15, <1>16, <1>17, <1>18, <1>19, <1>20, <1>21,
     <1>22, <1>23, <1>24, <1>25, <1>26, <1>27, <1>28, <1>29, <1>30, <1>31
     DEF OperationStep

(* Every step keeps the types. *)
LEMMA TypeNext ==
  ASSUME TypeInv, [Next]_vars
  PROVE  TypeInv'
<1>1. CASE Start
  BY <1>1 DEF Start, TypeInv, TypeOK, OpPC, TxPCs, PCs, remote
<1>2. CASE \E o \in Ops : Begin(o)
  BY <1>2, ViewType
     DEF Begin, View, TypeInv, TypeOK, OpPC, TxPCs, PCs, remote
<1>3. CASE Crash
  BY <1>3, ViewType
     DEF Crash, View, TypeInv, TypeOK, OpPC, TxPCs, PCs, remote
<1>4. CASE Heal
  BY <1>4 DEF Heal, TypeInv, TypeOK, OpPC, remote
<1>5. CASE UNCHANGED vars
  BY <1>5 DEF vars, TypeInv, TypeOK, OpPC
<1> QED
  BY <1>1, <1>2, <1>3, <1>4, <1>5, TypeRecovery, TypeOperation DEF Next

(* The gateway starts well typed. *)
LEMMA TypeInit == Init => TypeInv
  BY ConstantsAssumption
     DEF Init, TypeInv, TypeOK, OpPC, TxPCs, PCs, Values, NoOp

(* Every variable keeps its type, for all paths, contents and ids, with or  *)
(* without a journal; in particular every step of UploadFile, MoveReplace   *)
(* and recoverUpload that uses the in-memory record has one.                *)
THEOREM TypeCorrect == Spec => []TypeOK
<1>1. TypeInv => TypeOK
  BY DEF TypeInv
<1> QED
  BY <1>1, TypeInit, TypeNext, PTL DEF Spec

-----------------------------------------------------------------------------
(* What the journal and the server owe each other, wherever the program is. *)
Durable ==
  /\ SinglePending
  /\ Covered
  /\ \A r \in disk : RecordOK(r)

(* What holds of the server and the journal depends on nothing else. *)
LEMMA DurableUnchanged ==
  ASSUME Durable, UNCHANGED <<canon, stage, backup, disk>>
  PROVE  Durable'
  BY DEF Durable, SinglePending, Covered, RecordOK, ReadyOK, UnreadyOK,
         Pristine, SetAside, InPlace

(* What a record claims of the server depends on the server alone. *)
LEMMA RecordUnchanged ==
  ASSUME NEW r, RecordOK(r), UNCHANGED <<canon, stage, backup>>
  PROVE  RecordOK(r)'
  BY DEF RecordOK, ReadyOK, UnreadyOK, Pristine, SetAside, InPlace

(* A request that ends leaves only the journal and the server behind. *)
LEMMA ReturnInv ==
  ASSUME TypeInv', Durable', NEW result, Return(result)
  PROVE  IInv'
  BY DEF Return, IInv, Durable, MemoryOK, JournalPC, RecordPC, ServerPC,
         RollPCs, TxPCs, PCs

(* A failed start-up leaves only the journal and the server behind. *)
LEMMA StoppedInv ==
  ASSUME TypeInv', Durable', Stopped
  PROVE  IInv'
  BY DEF Stopped, IInv, Durable, MemoryOK, JournalPC, RecordPC, ServerPC,
         RollPCs, TxPCs, PCs

(* A failed recovery leaves only the journal and the server behind. *)
LEMMA RecoveryFailsInv ==
  ASSUME TypeInv', Durable', RecoveryFails
  PROVE  IInv'
  BY ReturnInv, StoppedInv DEF RecoveryFails

(* An error after the defer hands the record to recoverUpload. *)
LEMMA FailInv ==
  ASSUME Journaled, TypeInv', Durable', Fail,
         RecordOK(tx)', \A r \in disk' : Lags(r)',
         disk' # {} \/ tx.committed
  PROVE  IInv'
  BY DEF Fail, Deferred, IInv, Durable, MemoryOK, JournalPC, RecordPC,
         ServerPC, RollPCs, TxPCs, PCs

(* Steps that change neither the server, the journal nor the record. *)
LEMMA StepInv ==
  ASSUME IInv, TypeInv', pc \in TxPCs, pc' \in TxPCs,
         UNCHANGED <<canon, stage, backup, disk, tx>>,
         JournalPC', RecordPC', ServerPC'
  PROVE  IInv'
  BY DurableUnchanged, RecordUnchanged
     DEF IInv, Durable, MemoryOK, Lags

(* Steps that change the hidden files of the current record only. *)
LEMMA DurableEdit ==
  ASSUME IInv, pc \in TxPCs, disk' = disk,
         \A i \in Ids : i # tx.id => /\ stage'[i] = stage[i]
                                     /\ backup'[i] = backup[i],
         disk = {} => stage'[tx.id] = Absent /\ backup'[tx.id] = Absent,
         \A r \in disk : RecordOK(r)'
  PROVE  Durable'
<1>1. SinglePending'
  BY DEF IInv, SinglePending
<1>2. Covered'
  <2>1. ASSUME NEW i \in Ids, i # tx.id,
               stage'[i] # Absent \/ backup'[i] # Absent
        PROVE  \E r \in disk : r.id = i
    BY <2>1 DEF IInv, Covered
  <2>2. ASSUME disk # {}
        PROVE  \E r \in disk : r.id = tx.id
    BY <2>2 DEF IInv, MemoryOK, Lags
  <2> QED
    BY <2>1, <2>2 DEF Covered
<1> QED
  BY <1>1, <1>2 DEF Durable

(* Deleting a staged file never hurts a record. *)
LEMMA StageDropped ==
  ASSUME NEW r \in Record, RecordOK(r), UNCHANGED <<canon, backup>>,
         stage'[r.id] \in {stage[r.id], Absent}
  PROVE  RecordOK(r)'
  BY DEF RecordOK, ReadyOK, UnreadyOK, Pristine, SetAside, InPlace

(* Deleting a backup is safe once the record is committed, or while the     *)
(* original is at its place.                                                *)
LEMMA BackupDropped ==
  ASSUME NEW r \in Record, RecordOK(r), UNCHANGED <<canon, stage>>,
         backup'[r.id] \in {backup[r.id], Absent},
         r.ready /\ ~r.committed => /\ canon[r.dest] = r.original
                                    /\ IsMove(r) => canon[r.source] = r.hash
  PROVE  RecordOK(r)'
  BY DEF RecordOK, ReadyOK, UnreadyOK, Pristine, SetAside, InPlace

(* Renaming the backup back makes the replacement pristine again. *)
LEMMA MovedBack ==
  ASSUME NEW r \in Record, RecordOK(r), r.ready, ~r.committed, SetAside(r),
         canon \in [Paths -> Values], backup \in [Ids -> Values],
         canon' = [canon EXCEPT ![r.dest] = backup[r.id]],
         backup' = [backup EXCEPT ![r.id] = Absent],
         UNCHANGED stage
  PROVE  RecordOK(r)' /\ Pristine(r)'
<1>1. r.dest \in Paths /\ r.id \in Ids /\ r.source \in Paths \cup {NoPath}
  BY DEF Record
<1>2. IsMove(r) => r.source \in Paths /\ r.source # r.dest
  BY <1>1 DEF RecordOK, IsMove
<1>3. Pristine(r)'
  BY <1>1, <1>2 DEF SetAside, Pristine, IsMove
<1> QED
  BY <1>3 DEF RecordOK, ReadyOK, IsMove

(* A step within recovery that only deletes or restores hidden files. *)
LEMMA EditInv ==
  ASSUME TypeInv', Durable', pc' \in TxPCs,
         RecordOK(tx)', \A r \in disk' : Lags(r)',
         JournalPC', RecordPC', ServerPC'
  PROVE  IInv'
  BY DEF IInv, Durable, MemoryOK

(* How far the record on disk lags behind the one in memory. *)
LEMMA LagsUnchanged ==
  ASSUME IInv, pc \in TxPCs, UNCHANGED <<disk, tx>>
  PROVE  \A r \in disk' : Lags(r)'
  BY DEF IInv, MemoryOK, Lags

(* What the invariant says of the record in memory and the one on disk. *)
LEMMA Facts ==
  ASSUME IInv
  PROVE  /\ canon \in [Paths -> Values] /\ backup \in [Ids -> Values]
         /\ stage \in [Ids -> Contents \cup {Absent}]
         /\ pc \in TxPCs =>
              /\ tx \in Record /\ tx.id \in Ids /\ tx.dest \in Paths
              /\ RecordOK(tx)
              /\ \A r \in disk : /\ r \in Record /\ r.id = tx.id
                                 /\ RecordOK(r) /\ Lags(r)
  BY DEF IInv, TypeInv, TypeOK, MemoryOK, Lags, Record

(* A save leaves one record, the one in memory. *)
LEMMA SavedSingle ==
  ASSUME Journaled, IInv, pc \in TxPCs
  PROVE  Saved(tx) = {tx}
  BY DEF Saved, IInv, MemoryOK, Lags

(* saveUpload makes what the memory knows durable. *)
LEMMA DurableSave ==
  ASSUME IInv, pc \in TxPCs, disk' \in {disk, {tx}},
         UNCHANGED <<canon, stage, backup>>
  PROVE  Durable'
<1>1. CASE disk' = disk
  BY <1>1, DurableUnchanged DEF IInv, Durable
<1>2. CASE disk' = {tx}
  <2>1. SinglePending' /\ Covered'
    BY <1>2, Facts DEF SinglePending, Covered, IInv
  <2>2. RecordOK(tx) /\ \A r \in disk' : r = tx
    BY <1>2, Facts
  <2>3. \A r \in disk' : RecordOK(r)'
    BY <2>2, RecordUnchanged
  <2> QED
    BY <2>1, <2>3 DEF Durable
<1> QED
  BY <1>1, <1>2

(* forgetUpload loses nothing once the hidden files are gone. *)
LEMMA DurableForget ==
  ASSUME IInv, pc \in TxPCs, disk' \in {disk, {}},
         UNCHANGED <<canon, stage, backup>>,
         stage[tx.id] = Absent, backup[tx.id] = Absent
  PROVE  Durable'
<1>1. CASE disk' = disk
  BY <1>1, DurableUnchanged DEF IInv, Durable
<1>2. CASE disk' = {}
  BY <1>2, Facts DEF Durable, SinglePending, Covered, IInv
<1> QED
  BY <1>1, <1>2

(* Dropping the backup is allowed: after a durable commit, or with the      *)
(* original verified in place.                                              *)
BackupSafe ==
  \/ disk = {tx} /\ tx.committed
  \/ /\ ~tx.committed
     /\ canon[tx.dest] = tx.original
     /\ IsMove(tx) => canon[tx.source] = tx.hash

(* Renaming the backup back keeps the invariant, wherever it is done. *)
LEMMA MoveBackInv ==
  ASSUME IInv, pc \in TxPCs, disk # {}, tx.ready, ~tx.committed,
         HadOriginal(tx), SetAside(tx), MoveBack
  PROVE  /\ Durable'
         /\ UNCHANGED tx => RecordOK(tx)' /\ Pristine(tx)'
<1>1. ASSUME NEW r \in disk
      PROVE  r.ready /\ ~r.committed /\ SetAside(r)
  BY Facts, <1>1 DEF HadOriginal, SetAside, RecordOK, UnreadyOK, Lags, IsMove
<1>2. \A r \in disk : RecordOK(r)'
  BY <1>1, Facts, MovedBack DEF MoveBack, Lags
<1>3. \A i \in Ids : i # tx.id => stage'[i] = stage[i] /\ backup'[i] = backup[i]
  BY Facts DEF MoveBack
<1>4. Durable'
  BY <1>2, <1>3, DurableEdit DEF MoveBack
<1>5. tx \in Record /\ RecordOK(tx)
  BY Facts
<1>6. ASSUME UNCHANGED tx
      PROVE  RecordOK(tx)' /\ Pristine(tx)'
  BY <1>5, <1>6, Facts, MovedBack DEF MoveBack
<1> QED
  BY <1>4, <1>6

(* The steps of RecoverPending and recoverUpload keep the invariant. *)
LEMMA InvRecovery ==
  ASSUME Journaled, IInv, TypeInv', RecoveryStep
  PROVE  IInv'
<1>0. /\ canon \in [Paths -> Values] /\ backup \in [Ids -> Values]
      /\ stage \in [Ids -> Contents \cup {Absent}]
      /\ pc \in TxPCs =>
           /\ tx \in Record /\ tx.id \in Ids /\ tx.dest \in Paths
           /\ RecordOK(tx)
           /\ \A r \in disk : /\ r \in Record /\ r.id = tx.id
                              /\ RecordOK(r) /\ Lags(r)
  BY Facts
<1>1. CASE ScanRecord
  <2>1. PICK r \in disk : tx' = r
    BY <1>1 DEF ScanRecord
  <2>2. Durable' /\ RecordOK(tx)' /\ (\A s \in disk' : Lags(s)')
    BY <1>1, <2>1, DurableUnchanged, RecordUnchanged
       DEF ScanRecord, remote, IInv, Durable, SinglePending, Lags
  <2> QED
    BY <1>1, <2>1, <2>2
       DEF ScanRecord, IInv, Durable, MemoryOK, JournalPC, RecordPC, ServerPC,
           RollPCs, TxPCs, PCs
<1>2. CASE ScanDone
  <2>1. Durable'
    BY <1>2, DurableUnchanged DEF ScanDone, remote, IInv, Durable
  <2> QED
    BY <1>2, <2>1 DEF ScanDone, FirstStep, Continue, IInv, Durable, MemoryOK,
                   JournalPC, RecordPC, ServerPC, RollPCs, TxPCs, PCs
<1>3. CASE ScanFails
  BY <1>3, DurableUnchanged, RecoveryFailsInv DEF ScanFails, remote, IInv,
       Durable
<1>4. CASE RecoverUnready
  <2>1. pc \in TxPCs /\ UNCHANGED <<canon, backup, disk, tx>>
    BY <1>4 DEF RecoverUnready, Continue, TxPCs, PCs
  <2>2. /\ stage'[tx.id] = Absent
        /\ \A i \in Ids : i # tx.id => stage'[i] = stage[i]
    BY <1>4, <2>1, <1>0 DEF RecoverUnready
  <2>3. disk # {} /\ backup[tx.id] = Absent
    BY <1>4, <2>1, <1>0
       DEF RecoverUnready, IInv, JournalPC, RecordOK, UnreadyOK
  <2>4. RecordOK(tx)' /\ \A r \in disk : RecordOK(r)'
    BY <1>0, <2>1, <2>2, StageDropped
  <2>5. Durable' /\ \A r \in disk' : Lags(r)'
    BY <2>1, <2>2, <2>3, <2>4, DurableEdit, LagsUnchanged
  <2>6. JournalPC' /\ RecordPC' /\ ServerPC'
    BY <1>4, <2>1, <2>2, <2>3 DEF RecoverUnready, Continue, remote, IInv,
         JournalPC, RecordPC, ServerPC, RollPCs, TxPCs, PCs
  <2> QED
    BY <1>4, <2>1, <2>4, <2>5, <2>6, EditInv DEF RecoverUnready, Continue,
         JournalPC, RecordPC, ServerPC, RollPCs, TxPCs, PCs
<1>5. CASE RecoverUnreadyFails
  <2>1. pc \in TxPCs /\ UNCHANGED <<canon, backup, disk>>
    BY <1>5 DEF RecoverUnreadyFails, TxPCs, PCs
  <2>2. /\ stage'[tx.id] \in {stage[tx.id], Absent}
        /\ \A i \in Ids : i # tx.id => stage'[i] = stage[i]
    BY <1>5, <2>1, <1>0 DEF RecoverUnreadyFails
  <2>3. disk # {}
    BY <1>5, <2>1, <1>0
       DEF RecoverUnreadyFails, IInv, JournalPC, RecordOK, UnreadyOK
  <2>4. \A r \in disk : RecordOK(r)'
    BY <1>0, <2>1, <2>2, StageDropped
  <2>5. Durable'
    BY <2>1, <2>2, <2>3, <2>4, DurableEdit
  <2> QED
    BY <1>5, <2>5, RecoveryFailsInv DEF RecoverUnreadyFails
<1>6. CASE RecoverForward
  <2>1. pc \in TxPCs /\ UNCHANGED <<canon, stage, backup, disk>>
    BY <1>6 DEF RecoverForward, remote, TxPCs, PCs
  <2>2. tx' = [tx EXCEPT !.committed = TRUE] /\ tx.ready
    BY <1>6 DEF RecoverForward
  <2>3. canon[tx.dest] = tx.hash /\ backup[tx.id] \in {Absent, tx.original}
    BY <1>6, <1>0, <2>1
       DEF RecoverForward, RecordOK, ReadyOK, Pristine, SetAside, InPlace
  <2>4. RecordOK(tx)'
    BY <1>0, <2>1, <2>2, <2>3 DEF RecordOK, ReadyOK, IsMove, Record
  <2>5. \A r \in disk' : Lags(r)'
    BY <1>0, <2>1, <2>2 DEF Lags, Record
  <2>6. Durable'
    BY <2>1, DurableUnchanged DEF IInv, Durable
  <2>7. tx'.ready /\ tx'.committed
    BY <1>0, <2>1, <2>2 DEF Record
  <2>8. JournalPC' /\ RecordPC' /\ ServerPC'
    BY <1>6, <2>7 DEF RecoverForward, Continue, remote, IInv, JournalPC,
         RecordPC, ServerPC, RollPCs, TxPCs, PCs
  <2> QED
    BY <1>6, <2>4, <2>5, <2>6, <2>8, EditInv DEF RecoverForward, Continue,
         JournalPC, RecordPC, ServerPC, RollPCs, TxPCs, PCs
<1>7. CASE RecoverBack
  <2>1. JournalPC' /\ RecordPC' /\ ServerPC'
    BY <1>7 DEF RecoverBack, Continue, remote, IInv, MemoryOK, RecordOK,
         ReadyOK, UnreadyOK, Pristine, SetAside, InPlace, IsMove,
         HadOriginal, JournalPC, RecordPC, ServerPC, RollPCs, TxPCs, PCs
  <2> QED
    BY <1>7, <2>1, StepInv DEF RecoverBack, Continue, remote, JournalPC,
         RecordPC, ServerPC, RollPCs, TxPCs, PCs
<1>8. CASE RollSource
  <2>1. JournalPC' /\ RecordPC' /\ ServerPC'
    BY <1>8 DEF RollSource, Continue, remote, IInv, MemoryOK, RecordOK,
         ReadyOK, UnreadyOK, Pristine, SetAside, InPlace, IsMove,
         HadOriginal, JournalPC, RecordPC, ServerPC, RollPCs, TxPCs, PCs
  <2> QED
    BY <1>8, <2>1, StepInv DEF RollSource, Continue, remote, JournalPC,
         RecordPC, ServerPC, RollPCs, TxPCs, PCs
<1>9. CASE RollSourceFails
  BY <1>9, DurableUnchanged, RecoveryFailsInv DEF RollSourceFails, remote,
       IInv, Durable
<1>10. CASE RollDest
  <2>1. JournalPC' /\ RecordPC' /\ ServerPC'
    BY <1>10 DEF RollDest, Continue, remote, IInv, MemoryOK, RecordOK, ReadyOK,
         UnreadyOK, Pristine, SetAside, InPlace, IsMove, HadOriginal,
         JournalPC, RecordPC, ServerPC, RollPCs, TxPCs, PCs
  <2> QED
    BY <1>10, <2>1, StepInv
       DEF RollDest, Continue, remote, JournalPC, RecordPC,
         ServerPC, RollPCs, TxPCs, PCs
<1>11. CASE RollDestFails
  BY <1>11, DurableUnchanged, RecoveryFailsInv DEF RollDestFails, remote, IInv,
       Durable
<1>12. CASE Restore
  <2>1. pc \in TxPCs /\ UNCHANGED <<stage, disk, tx>>
    BY <1>12 DEF Restore, MoveBack, Continue, TxPCs, PCs
  <2>2. RecordOK(tx)' /\ Pristine(tx)' /\ Durable'
    BY <1>12, <2>1, MoveBackInv
       DEF Restore, IInv, JournalPC, RecordPC, ServerPC,
         RollPCs
  <2>3. \A r \in disk' : Lags(r)'
    BY <2>1, LagsUnchanged
  <2>4. JournalPC' /\ RecordPC' /\ ServerPC'
    BY <1>12, <2>1, <2>2 DEF Restore, Continue, remote, IInv, Pristine,
         JournalPC, RecordPC, ServerPC, RollPCs, TxPCs, PCs
  <2> QED
    BY <1>12, <2>1, <2>2, <2>3, <2>4, EditInv DEF Restore, Continue, JournalPC,
         RecordPC, ServerPC, RollPCs, TxPCs, PCs
<1>13. CASE RestoreLost
  <2>1. Durable'
    BY <1>13, MoveBackInv
       DEF RestoreLost, IInv, JournalPC, RecordPC, ServerPC, RollPCs, TxPCs,
           PCs
  <2> QED
    BY <1>13, <2>1, RecoveryFailsInv DEF RestoreLost
<1>14. CASE RestoreFails
  BY <1>14, DurableUnchanged, RecoveryFailsInv DEF RestoreFails, remote, IInv,
       Durable
<1>15. CASE VerifyRestored
  <2>1. JournalPC' /\ RecordPC' /\ ServerPC'
    BY <1>15 DEF VerifyRestored, Continue, remote, IInv, MemoryOK, RecordOK,
         ReadyOK, UnreadyOK, Pristine, SetAside, InPlace, IsMove,
         HadOriginal, JournalPC, RecordPC, ServerPC, RollPCs, TxPCs, PCs
  <2> QED
    BY <1>15, <2>1, StepInv DEF VerifyRestored, Continue, remote, JournalPC,
         RecordPC, ServerPC, RollPCs, TxPCs, PCs
<1>16. CASE VerifyRestoredFails
  BY <1>16, DurableUnchanged, RecoveryFailsInv DEF VerifyRestoredFails, remote,
       IInv, Durable
<1>17. CASE RemoveStage
  <2>1. pc \in TxPCs /\ disk # {} /\ UNCHANGED <<canon, backup, disk, tx>>
    BY <1>17 DEF RemoveStage, Continue, IInv, JournalPC, RollPCs, TxPCs, PCs
  <2>2. /\ stage'[tx.id] = Absent
        /\ \A i \in Ids : i # tx.id => stage'[i] = stage[i]
    BY <1>17, <1>0, <2>1 DEF RemoveStage, Removed, NeedsStage, RecordOK
  <2>3. RecordOK(tx)' /\ \A r \in disk : RecordOK(r)'
    BY <1>0, <2>1, <2>2, StageDropped
  <2>4. Durable' /\ \A r \in disk' : Lags(r)'
    BY <2>1, <2>2, <2>3, DurableEdit, LagsUnchanged
  <2>5. JournalPC' /\ RecordPC' /\ ServerPC'
    BY <1>17, <2>1, <2>2 DEF RemoveStage, Continue, remote, IInv, JournalPC,
         RecordPC, ServerPC, RollPCs, TxPCs, PCs
  <2> QED
    BY <1>17, <2>1, <2>3, <2>4, <2>5, EditInv DEF RemoveStage, Continue,
         JournalPC, RecordPC, ServerPC, RollPCs, TxPCs, PCs
<1>18. CASE RemoveStageFails
  <2>1. pc \in TxPCs /\ disk # {} /\ UNCHANGED <<canon, backup, disk>>
    BY <1>18 DEF RemoveStageFails, IInv, JournalPC, RollPCs, TxPCs, PCs
  <2>2. /\ stage'[tx.id] \in {stage[tx.id], Absent}
        /\ \A i \in Ids : i # tx.id => stage'[i] = stage[i]
    BY <1>18, <1>0, <2>1 DEF RemoveStageFails, Removed
  <2>3. \A r \in disk : RecordOK(r)'
    BY <1>0, <2>1, <2>2, StageDropped
  <2>4. Durable'
    BY <2>1, <2>2, <2>3, DurableEdit
  <2> QED
    BY <1>18, <2>4, RecoveryFailsInv DEF RemoveStageFails
<1>19. CASE RemoveBackup
  <2>1. pc \in TxPCs /\ disk # {} /\ UNCHANGED <<canon, stage, disk, tx>>
    BY <1>19 DEF RemoveBackup, Continue, IInv, JournalPC, RollPCs, TxPCs, PCs
  <2>2. /\ backup'[tx.id] = Absent
        /\ \A i \in Ids : i # tx.id => backup'[i] = backup[i]
    BY <1>19, <1>0, <2>1
       DEF RemoveBackup, Removed, HadOriginal, IInv, RecordPC,
         RecordOK, ReadyOK, Pristine, SetAside, InPlace, RollPCs
  <2>3. BackupSafe
    BY <1>19, <1>0, <2>1
       DEF RemoveBackup, BackupSafe, IInv, JournalPC, RecordPC,
         ServerPC, RollPCs
  <2>4. RecordOK(tx)' /\ \A r \in disk : RecordOK(r)'
    BY <1>0, <2>1, <2>2, <2>3, BackupDropped DEF BackupSafe, Lags, IsMove
  <2>5. Durable' /\ \A r \in disk' : Lags(r)'
    BY <2>1, <2>2, <2>4, DurableEdit, LagsUnchanged
  <2>6. JournalPC' /\ RecordPC' /\ ServerPC'
    BY <1>19, <2>1, <2>2 DEF RemoveBackup, Continue, remote, IInv, JournalPC,
         RecordPC, ServerPC, RollPCs, TxPCs, PCs
  <2> QED
    BY <1>19, <2>1, <2>4, <2>5, <2>6, EditInv DEF RemoveBackup, Continue,
         JournalPC, RecordPC, ServerPC, RollPCs, TxPCs, PCs
<1>20. CASE RemoveBackupFails
  <2>1. pc \in TxPCs /\ disk # {} /\ UNCHANGED <<canon, stage, disk>>
    BY <1>20 DEF RemoveBackupFails, IInv, JournalPC, RollPCs, TxPCs, PCs
  <2>2. /\ backup'[tx.id] \in {backup[tx.id], Absent}
        /\ \A i \in Ids : i # tx.id => backup'[i] = backup[i]
    BY <1>20, <1>0, <2>1 DEF RemoveBackupFails, Removed
  <2>3. BackupSafe
    BY <1>20, <1>0, <2>1 DEF RemoveBackupFails, BackupSafe, IInv, JournalPC,
         RecordPC, ServerPC, RollPCs
  <2>4. \A r \in disk : RecordOK(r)'
    BY <1>0, <2>1, <2>2, <2>3, BackupDropped DEF BackupSafe, Lags, IsMove
  <2>5. Durable'
    BY <2>1, <2>2, <2>4, DurableEdit
  <2> QED
    BY <1>20, <2>5, RecoveryFailsInv DEF RemoveBackupFails
<1>21. CASE SaveDone
  <2>1. pc \in TxPCs /\ UNCHANGED <<canon, stage, backup>>
    BY <1>21 DEF SaveDone, remote, TxPCs, PCs
  <2>2. disk' \in {disk, {tx}}
    BY <1>21, <1>0, <2>1, SavedSingle DEF SaveDone, SaveError
  <2>3. Durable'
    BY <1>0, <2>1, <2>2, DurableSave
  <2>4. CASE disk' = Saved(tx) /\ Continue("doneBackup")
    <3>1. disk' = {tx} /\ UNCHANGED tx
      BY <1>0, <2>1, <2>4, SavedSingle DEF Continue
    <3>2. RecordOK(tx)' /\ \A r \in disk' : Lags(r)'
      BY <1>0, <2>1, <3>1, RecordUnchanged DEF Lags
    <3>3. JournalPC' /\ RecordPC' /\ ServerPC'
      BY <1>21, <2>1, <2>4, <3>1
         DEF SaveDone, Continue, IInv, JournalPC, RecordPC, ServerPC, RollPCs,
             TxPCs, PCs
    <3> QED
      BY <2>3, <2>4, <3>2, <3>3, EditInv DEF Continue, TxPCs, PCs
  <2> QED
    BY <1>21, <2>3, <2>4, RecoveryFailsInv DEF SaveDone
<1>22. CASE RecForget
  <2>1. pc \in TxPCs /\ UNCHANGED <<canon, stage, backup>>
    BY <1>22 DEF RecForget, remote, TxPCs, PCs
  <2>2. disk' \in {disk, {}}
    BY <1>22, <1>0, <2>1 DEF RecForget, Forgotten
  <2>3. stage[tx.id] = Absent /\ backup[tx.id] = Absent
    BY <1>22 DEF RecForget, IInv, ServerPC
  <2>4. Durable'
    BY <1>0, <2>1, <2>2, <2>3, DurableForget
  <2>5. CASE Recovered
    BY <2>4, <2>5, ReturnInv
       DEF Recovered, IInv, Durable, MemoryOK, JournalPC, RecordPC, ServerPC,
           RollPCs, TxPCs, PCs
  <2> QED
    BY <1>22, <2>4, <2>5, RecoveryFailsInv DEF RecForget
<1> QED
  BY <1>1, <1>2, <1>3, <1>4, <1>5, <1>6, <1>7, <1>8, <1>9, <1>10, <1>11,
       <1>12, <1>13, <1>14, <1>15, <1>16, <1>17, <1>18, <1>19, <1>20, <1>21,
       <1>22 DEF RecoveryStep

(* A call that failed without effect hands a sound record to recovery. *)
LEMMA QuietFail ==
  ASSUME Journaled, IInv, TypeInv', pc \in TxPCs, Fail,
         disk # {} \/ tx.committed,
         UNCHANGED <<canon, stage, backup, disk>>
  PROVE  IInv'
<1>1. UNCHANGED tx
  BY DEF Fail, Deferred
<1>2. Durable'
  BY DurableUnchanged DEF IInv, Durable
<1>3. RecordOK(tx)' /\ \A r \in disk' : Lags(r)'
  BY <1>1, Facts, RecordUnchanged, LagsUnchanged
<1> QED
  BY <1>1, <1>2, <1>3, FailInv

(* The first rename of a replacement sets the original aside. *)
MovedAside(r) == Durable' /\ RecordOK(r)' /\ SetAside(r)'

(* Renaming the original aside keeps it on the server, under a record. *)
LEMMA MoveToBackupInv ==
  ASSUME IInv, pc = "preserve", UNCHANGED tx, MoveToBackup
  PROVE  MovedAside(tx)
<1>1. /\ pc \in TxPCs /\ disk = {tx} /\ tx.ready /\ ~tx.committed
      /\ Pristine(tx)
  BY DEF IInv, JournalPC, RecordPC, ServerPC, TxPCs, PCs
<1>2. /\ canon' = [canon EXCEPT ![tx.dest] = Absent]
      /\ backup' = [backup EXCEPT ![tx.id] = canon[tx.dest]]
      /\ UNCHANGED <<stage, disk>>
  BY DEF MoveToBackup
<1>3. IsMove(tx) => tx.source \in Paths /\ tx.source # tx.dest
  BY <1>1, Facts DEF RecordOK, IsMove, Record
<1>4. SetAside(tx)'
  BY <1>1, <1>2, <1>3, Facts DEF Pristine, SetAside, IsMove
<1>5. RecordOK(tx)'
  BY <1>1, <1>2, <1>4, Facts DEF RecordOK, ReadyOK, IsMove
<1>6. \A r \in disk : RecordOK(r)'
  BY <1>1, <1>5
<1>7. \A i \in Ids : i # tx.id => stage'[i] = stage[i] /\ backup'[i] = backup[i]
  BY <1>2, Facts
<1>8. Durable'
  BY <1>1, <1>2, <1>6, <1>7, DurableEdit
<1> QED
  BY <1>4, <1>5, <1>8 DEF MovedAside

(* The second rename puts the new bytes in place. *)
MovedIn(r) == Durable' /\ RecordOK(r)' /\ InPlace(r)' /\ stage'[r.id] = Absent

(* Renaming the new file into place keeps the original set aside. *)
LEMMA MoveIntoPlaceInv ==
  ASSUME IInv, pc = "promote", UNCHANGED tx, MoveIntoPlace
  PROVE  MovedIn(tx)
<1>1. /\ pc \in TxPCs /\ disk = {tx} /\ tx.ready /\ ~tx.committed
      /\ SetAside(tx) /\ UNCHANGED <<backup, disk>>
      /\ IsMove(tx) => tx.moveStarted
      /\ ~IsMove(tx) => stage[tx.id] = tx.hash
  BY DEF MoveIntoPlace, IInv, JournalPC, RecordPC, ServerPC, TxPCs, PCs
<1>2. InPlace(tx)' /\ stage'[tx.id] = Absent
  <2>1. CASE IsMove(tx)
    <3>1. /\ canon' = [canon EXCEPT ![tx.dest] = canon[tx.source],
                                    ![tx.source] = Absent]
          /\ UNCHANGED stage
      BY <2>1 DEF MoveIntoPlace, Promoted
    <3>2. tx.source \in Paths /\ tx.source # tx.dest
      BY <1>1, <2>1, Facts DEF RecordOK, IsMove, Record
    <3> QED
      BY <1>1, <2>1, <3>1, <3>2, Facts DEF SetAside, InPlace, RecordOK, IsMove
  <2>2. CASE ~IsMove(tx)
    BY <1>1, <2>2, Facts
       DEF MoveIntoPlace, Promoted, SetAside, InPlace, IsMove
  <2> QED
    BY <2>1, <2>2
<1>3. RecordOK(tx)'
  BY <1>1, <1>2, Facts DEF RecordOK, ReadyOK, IsMove
<1>4. \A r \in disk : RecordOK(r)'
  BY <1>1, <1>3
<1>5. \A i \in Ids : i # tx.id => stage'[i] = stage[i] /\ backup'[i] = backup[i]
  BY <1>1, Facts DEF MoveIntoPlace
<1>6. Durable'
  BY <1>1, <1>4, <1>5, DurableEdit
<1> QED
  BY <1>2, <1>3, <1>6 DEF MovedIn

(* recoverReplacement finds something to restore only where the original   *)
(* was set aside.                                                          *)
LEMMA UndoSetAside ==
  ASSUME IInv, pc = "undo", HadOriginal(tx), MoveBack
  PROVE  SetAside(tx)
<1>1. pc \in TxPCs /\ tx.ready /\ ~tx.committed
  BY DEF IInv, RecordPC, TxPCs, PCs
<1>2. tx.hash # Absent
  BY <1>1, Facts, ConstantsAssumption DEF Record
<1> QED
  BY <1>1, <1>2, Facts
     DEF MoveBack, CanRestore, HadOriginal, RecordOK, ReadyOK, Pristine,
         InPlace

(* The steps of the operations keep the invariant. *)
LEMMA InvOperation ==
  ASSUME Journaled, IInv, TypeInv', OperationStep
  PROVE  IInv'
<1>0. /\ canon \in [Paths -> Values] /\ backup \in [Ids -> Values]
      /\ stage \in [Ids -> Contents \cup {Absent}]
      /\ pc \in TxPCs =>
           /\ tx \in Record /\ tx.id \in Ids /\ tx.dest \in Paths
           /\ RecordOK(tx)
           /\ \A r \in disk : /\ r \in Record /\ r.id = tx.id
                              /\ RecordOK(r) /\ Lags(r)
  BY Facts
<1>1. CASE DirectPerformed
  <2>1. disk = {} /\ UNCHANGED <<stage, backup, disk, tx>>
    BY <1>1 DEF DirectPerformed, Continue, IInv, JournalPC
  <2>2. Durable'
    BY <2>1 DEF IInv, Durable, SinglePending, Covered
  <2> QED
    BY <1>1, <2>1, <2>2
       DEF DirectPerformed, Continue, IInv, Durable, MemoryOK, JournalPC,
           RecordPC, ServerPC, RollPCs, TxPCs, PCs
<1>2. CASE DirectReply
  BY <1>2, DurableUnchanged, ReturnInv DEF DirectReply, remote, IInv, Durable
<1>3. CASE DirectRefused
  BY <1>3, DurableUnchanged, ReturnInv DEF DirectRefused, remote, IInv, Durable
<1>4. CASE StatDest
  <2>1. disk = {} /\ UNCHANGED <<canon, stage, backup, disk>>
    BY <1>4 DEF StatDest, remote, IInv, JournalPC
  <2>2. Durable'
    BY <2>1, DurableUnchanged DEF IInv, Durable
  <2>3. PICK i \in Ids : Fresh(i) /\ tx' = NewTx(i)
    BY <1>4 DEF StatDest
  <2>4. RecordOK(tx)' /\ ~tx'.ready
    BY <2>1, <2>3 DEF Fresh, NewTx, NoTx, RecordOK, UnreadyOK, IsMove
  <2> QED
    BY <1>4, <2>1, <2>2, <2>4, EditInv
       DEF StatDest, JournalPC, RecordPC, ServerPC, RollPCs, TxPCs, PCs
<1>5. CASE StatFails
  BY <1>5, DurableUnchanged, ReturnInv DEF StatFails, remote, IInv, Durable
<1>6. CASE SaveNew
  <2>1. pc \in TxPCs /\ UNCHANGED <<canon, stage, backup>>
    BY <1>6 DEF SaveNew, remote, TxPCs, PCs
  <2>2. disk' \in {disk, {tx}}
    BY <1>6, <2>1, SavedSingle DEF SaveNew, SaveFirst, SaveError
  <2>3. Durable'
    BY <2>1, <2>2, DurableSave
  <2>4. ASSUME disk' = Saved(tx), UNCHANGED tx
        PROVE  /\ disk' = {tx}
               /\ RecordOK(tx)' /\ \A r \in disk' : Lags(r)'
    BY <1>0, <2>1, <2>4, SavedSingle, RecordUnchanged DEF Lags
  <2>5. ASSUME disk' = Saved(tx), pc' # "idle", UNCHANGED tx
        PROVE  JournalPC' /\ RecordPC' /\ ServerPC'
    BY <1>6, <2>1, <2>4, <2>5 DEF SaveNew, SaveFirst, Continue, Return, IInv,
         JournalPC, RecordPC, ServerPC, RollPCs, TxPCs, PCs
  <2> QED
    BY <1>6, <2>3, <2>4, <2>5, ReturnInv, EditInv
       DEF SaveNew, SaveFirst, Continue, TxPCs, PCs
<1>7. CASE Upload
  <2>1. pc \in TxPCs /\ disk = {tx} /\ ~tx.ready
        /\ UNCHANGED <<canon, backup, disk, tx>>
    BY <1>7 DEF Upload, Continue, IInv, JournalPC, RecordPC, TxPCs, PCs
  <2>2. RecordOK(tx)' /\ \A r \in disk : RecordOK(r)'
    BY <1>0, <2>1 DEF RecordOK, UnreadyOK, IsMove
  <2>3. \A i \in Ids : i # tx.id => /\ stage'[i] = stage[i]
                                     /\ backup'[i] = backup[i]
    BY <1>7, <1>0, <2>1 DEF Upload
  <2>4. Durable' /\ \A r \in disk' : Lags(r)'
    BY <2>1, <2>2, <2>3, DurableEdit, LagsUnchanged
  <2>5. ~IsMove(tx) /\ ~tx.committed
    BY <1>0, <2>1 DEF RecordOK, UnreadyOK
  <2>6. JournalPC' /\ RecordPC' /\ ServerPC'
    BY <1>7, <2>1, <2>5 DEF Upload, Continue, remote, IInv, IsMove, JournalPC,
         RecordPC, ServerPC, RollPCs, TxPCs, PCs
  <2> QED
    BY <1>7, <2>2, <2>4, <2>6, EditInv DEF Upload, Continue, JournalPC,
         RecordPC, ServerPC, RollPCs, TxPCs, PCs
<1>8. CASE VerifyStage
  <2>1. JournalPC' /\ RecordPC' /\ ServerPC'
    BY <1>8 DEF VerifyStage, Continue, remote, IInv, MemoryOK, RecordOK,
         ReadyOK, UnreadyOK, Pristine, SetAside, InPlace, IsMove,
         HadOriginal, JournalPC, RecordPC, ServerPC, RollPCs, TxPCs, PCs
  <2> QED
    BY <1>8, <2>1, StepInv DEF VerifyStage, Continue, remote, JournalPC,
         RecordPC, ServerPC, RollPCs, TxPCs, PCs
<1>9. CASE ReadOriginal
  <2>1. pc \in TxPCs /\ disk = {tx} /\ ~tx.ready /\ stage[tx.id] = tx.hash
        /\ UNCHANGED <<canon, stage, backup, disk>>
    BY <1>9, <1>0
       DEF ReadOriginal, remote, IInv, JournalPC, RecordPC, ServerPC,
         RecordOK, UnreadyOK, TxPCs, PCs
  <2>2. Durable'
    BY <2>1, DurableUnchanged DEF IInv, Durable
  <2>3. tx' = [tx EXCEPT !.original = canon[tx.dest], !.ready = TRUE]
    BY <1>9 DEF ReadOriginal
  <2>4. UnreadyOK(tx)
    BY <1>0, <2>1 DEF RecordOK
  <2>5. /\ Pristine(tx)' /\ ~IsMove(tx)' /\ tx'.ready /\ ~tx'.committed
        /\ stage'[tx'.id] = tx'.hash
    BY <1>0, <2>1, <2>3, <2>4 DEF UnreadyOK, Pristine, IsMove, Record
  <2>6. RecordOK(tx)'
    BY <2>5 DEF RecordOK, ReadyOK
  <2>7. \A r \in disk' : Lags(r)'
    BY <1>0, <2>1, <2>3, <2>4 DEF UnreadyOK, Lags, Record
  <2>8. JournalPC' /\ RecordPC' /\ ServerPC'
    BY <1>9, <2>1, <2>5 DEF ReadOriginal, Continue, remote, IInv, JournalPC,
         RecordPC, ServerPC, RollPCs, TxPCs, PCs
  <2> QED
    BY <1>9, <2>2, <2>6, <2>7, <2>8, EditInv DEF ReadOriginal, Continue,
         JournalPC, RecordPC, ServerPC, RollPCs, TxPCs, PCs
<1>10. CASE ReadOriginalFails
  <2>1. JournalPC' /\ RecordPC' /\ ServerPC'
    BY <1>10 DEF ReadOriginalFails, Continue, remote, IInv, MemoryOK, RecordOK,
         ReadyOK, UnreadyOK, Pristine, SetAside, InPlace, IsMove,
         HadOriginal, JournalPC, RecordPC, ServerPC, RollPCs, TxPCs, PCs
  <2> QED
    BY <1>10, <2>1, StepInv DEF ReadOriginalFails, Continue, remote, JournalPC,
         RecordPC, ServerPC, RollPCs, TxPCs, PCs
<1>11. CASE SaveReady
  <2>1. pc \in TxPCs /\ disk # {} /\ UNCHANGED <<canon, stage, backup>>
    BY <1>11 DEF SaveReady, remote, IInv, JournalPC, TxPCs, PCs
  <2>2. disk' \in {disk, {tx}}
    BY <1>11, <2>1, SavedSingle DEF SaveReady, SaveOrFail, SaveError
  <2>3. Durable'
    BY <2>1, <2>2, DurableSave
  <2>4. UNCHANGED tx /\ RecordOK(tx)' /\ \A r \in disk' : Lags(r)'
    BY <1>11, <1>0, <2>1, <2>2, RecordUnchanged
       DEF SaveReady, SaveOrFail, Continue, Fail, Deferred, Lags
  <2>5. ASSUME disk' = Saved(tx), pc' # "recover"
        PROVE  JournalPC' /\ RecordPC' /\ ServerPC'
    BY <1>11, <1>0, <2>1, <2>4, <2>5, SavedSingle DEF SaveReady, SaveOrFail,
         Continue, Fail, Deferred, IInv, Pristine, SetAside, HadOriginal,
         IsMove, JournalPC, RecordPC, ServerPC, RollPCs, TxPCs, PCs
  <2>6. disk' # {}
    BY <2>1, <2>2
  <2> QED
    BY <1>11, <2>3, <2>4, <2>5, <2>6, FailInv, EditInv
       DEF SaveReady, SaveOrFail, Continue, TxPCs, PCs
<1>12. CASE CleanupStage
  <2>1. pc \in TxPCs /\ disk = {tx} /\ UNCHANGED <<canon, backup, disk, tx>>
    BY <1>12 DEF CleanupStage, Fail, Deferred, IInv, JournalPC, TxPCs, PCs
  <2>2. /\ stage'[tx.id] \in {stage[tx.id], Absent}
        /\ \A i \in Ids : i # tx.id => stage'[i] = stage[i]
    BY <1>12, <1>0, <2>1 DEF CleanupStage
  <2>3. RecordOK(tx)' /\ \A r \in disk : RecordOK(r)'
    BY <1>0, <2>1, <2>2, StageDropped
  <2>4. Durable' /\ \A r \in disk' : Lags(r)'
    BY <2>1, <2>2, <2>3, DurableEdit, LagsUnchanged
  <2> QED
    BY <1>12, <2>1, <2>3, <2>4, FailInv DEF CleanupStage
<1>13. CASE StatMove
  <2>1. disk = {} /\ UNCHANGED <<canon, stage, backup, disk>>
    BY <1>13 DEF StatMove, remote, IInv, JournalPC
  <2>2. Durable'
    BY <2>1, DurableUnchanged DEF IInv, Durable
  <2>3. op.source \in Paths /\ op.source # op.dest
    BY <1>13 DEF StatMove, IInv, TypeInv, TypeOK, OpPC, Ops, NoOp
  <2>4. PICK i \in Ids : Fresh(i) /\ tx' = MoveTx(i)
    BY <1>13 DEF StatMove
  <2>5. /\ tx'.id = i /\ tx'.source = op.source /\ tx'.dest = op.dest
        /\ tx'.hash = canon[op.source] /\ tx'.original = canon[op.dest]
        /\ tx'.ready /\ ~tx'.committed /\ ~tx'.moveStarted
    BY <2>4 DEF MoveTx, NoTx
  <2>6. Pristine(tx)' /\ IsMove(tx)' /\ stage'[tx'.id] = Absent
    BY <2>1, <2>3, <2>4, <2>5, ConstantsAssumption
       DEF Fresh, Pristine, IsMove
  <2>7. RecordOK(tx)'
    BY <2>3, <2>5, <2>6 DEF RecordOK, ReadyOK
  <2> QED
    BY <1>13, <2>1, <2>2, <2>5, <2>6, <2>7, EditInv
       DEF StatMove, JournalPC, RecordPC, ServerPC, RollPCs, TxPCs, PCs
<1>14. CASE StatMoveDirectory
  <2>1. Durable'
    BY <1>14, DurableUnchanged DEF StatMoveDirectory, remote, IInv, Durable
  <2> QED
    BY <1>14, <2>1 DEF StatMoveDirectory, Continue, IInv, Durable, MemoryOK,
         JournalPC, RecordPC, ServerPC, RollPCs, TxPCs, PCs
<1>15. CASE SaveMove
  <2>1. pc \in TxPCs /\ UNCHANGED <<canon, stage, backup>>
    BY <1>15 DEF SaveMove, remote, TxPCs, PCs
  <2>2. disk' \in {disk, {tx}}
    BY <1>15, <2>1, SavedSingle DEF SaveMove, SaveFirst, SaveError
  <2>3. Durable'
    BY <2>1, <2>2, DurableSave
  <2>4. ASSUME disk' = Saved(tx), UNCHANGED tx
        PROVE  /\ disk' = {tx}
               /\ RecordOK(tx)' /\ \A r \in disk' : Lags(r)'
    BY <1>0, <2>1, <2>4, SavedSingle, RecordUnchanged DEF Lags
  <2>5. ASSUME disk' = Saved(tx), pc' # "idle", UNCHANGED tx
        PROVE  JournalPC' /\ RecordPC' /\ ServerPC'
    BY <1>15, <2>1, <2>4, <2>5 DEF SaveMove, SaveFirst, Continue, Return, IInv,
         Pristine, SetAside, HadOriginal, IsMove, JournalPC, RecordPC,
         ServerPC, RollPCs, TxPCs, PCs
  <2> QED
    BY <1>15, <2>3, <2>4, <2>5, ReturnInv, EditInv
       DEF SaveMove, SaveFirst, Continue, TxPCs, PCs
<1>16. CASE SaveStarted
  <2>1. pc \in TxPCs /\ disk = {tx} /\ IsMove(tx) /\ SetAside(tx)
        /\ tx.ready /\ ~tx.committed /\ ~tx.moveStarted
        /\ UNCHANGED <<canon, stage, backup>>
    BY <1>16
       DEF SaveStarted, remote, IInv, JournalPC, RecordPC, ServerPC, TxPCs,
         PCs
  <2>2. tx' = [tx EXCEPT !.moveStarted = TRUE]
    BY <1>16 DEF SaveStarted
  <2>3. /\ SetAside(tx)' /\ IsMove(tx)' /\ tx'.id = tx.id
        /\ tx'.ready /\ ~tx'.committed /\ tx'.moveStarted
    BY <1>0, <2>1, <2>2 DEF SetAside, IsMove, Record
  <2>4. RecordOK(tx)'
    BY <1>0, <2>1, <2>2, <2>3 DEF RecordOK, ReadyOK, IsMove, Record
  <2>5. disk' \in {{tx}, {tx'}}
    BY <1>16, <2>1, <2>3 DEF SaveStarted, Saved
  <2>6. RecordOK(tx) /\ tx \in Record
    BY <1>0, <2>1
  <2>7. \A r \in disk' : RecordOK(r)'
    <3>1. CASE disk' = {tx}
      BY <2>1, <2>6, <3>1, RecordUnchanged
    <3>2. CASE disk' = {tx'}
      BY <2>4, <3>2
    <3> QED
      BY <2>5, <3>1, <3>2
  <2>8. Durable'
    BY <2>1, <2>3, <2>5, <2>7 DEF Durable, SinglePending, Covered, IInv
  <2>9. \A r \in disk' : Lags(r)'
    BY <2>1, <2>2, <2>5, <2>6 DEF Lags, Record
  <2>10. JournalPC' /\ RecordPC' /\ ServerPC'
    <3>1. pc' = "promote" => disk' = {tx'}
      BY <1>16, <2>1, <2>3 DEF SaveStarted, Saved
    <3> QED
      BY <1>16, <2>3, <2>5, <3>1
         DEF SaveStarted, JournalPC, RecordPC, ServerPC, RollPCs, TxPCs, PCs
  <2> QED
    BY <1>16, <2>4, <2>8, <2>9, <2>10, EditInv DEF SaveStarted, Continue,
         JournalPC, RecordPC, ServerPC, RollPCs, TxPCs, PCs
<1>17. CASE Preserve
  <2>1. pc \in TxPCs /\ UNCHANGED tx
    BY <1>17 DEF Preserve, Continue, TxPCs, PCs
  <2>2. MovedAside(tx)
    BY <1>17, <2>1, MoveToBackupInv DEF Preserve
  <2>3. \A r \in disk' : Lags(r)'
    BY <1>17, <2>1, LagsUnchanged DEF Preserve, MoveToBackup
  <2>4. JournalPC' /\ RecordPC' /\ ServerPC'
    BY <1>17, <2>1, <2>2 DEF Preserve, Continue, remote, IInv, MovedAside,
         MoveToBackup, IsMove, JournalPC, RecordPC, ServerPC, RollPCs,
         TxPCs, PCs
  <2> QED
    BY <1>17, <2>2, <2>3, <2>4, EditInv
       DEF Preserve, MovedAside, Continue, JournalPC,
         RecordPC, ServerPC, RollPCs, TxPCs, PCs
<1>18. CASE PreserveLost
  <2>1. pc \in TxPCs /\ UNCHANGED tx
    BY <1>18 DEF PreserveLost, Fail, Deferred, TxPCs, PCs
  <2>2. MovedAside(tx)
    BY <1>18, <2>1, MoveToBackupInv DEF PreserveLost
  <2>3. \A r \in disk' : Lags(r)'
    BY <1>18, <2>1, LagsUnchanged DEF PreserveLost, MoveToBackup
  <2>4. disk' # {}
    BY <1>18 DEF PreserveLost, MoveToBackup, IInv, JournalPC
  <2> QED
    BY <1>18, <2>2, <2>3, <2>4, FailInv DEF PreserveLost, MovedAside
<1>19. CASE PreserveFails
  BY <1>19, QuietFail DEF PreserveFails, remote, IInv, JournalPC, RecordPC,
       ServerPC, RollPCs, TxPCs, PCs
<1>20. CASE Promote
  <2>1. pc \in TxPCs /\ UNCHANGED <<tx, disk>>
    BY <1>20 DEF Promote, MoveIntoPlace, Continue, TxPCs, PCs
  <2>2. MovedIn(tx)
    BY <1>20, <2>1, MoveIntoPlaceInv DEF Promote
  <2>3. \A r \in disk' : Lags(r)'
    BY <2>1, LagsUnchanged
  <2>4. JournalPC' /\ RecordPC' /\ ServerPC'
    BY <1>20, <2>1, <2>2 DEF Promote, Continue, remote, IInv, MovedIn, IsMove,
         JournalPC, RecordPC, ServerPC, RollPCs, TxPCs, PCs
  <2> QED
    BY <1>20, <2>2, <2>3, <2>4, EditInv
       DEF Promote, MovedIn, Continue, JournalPC,
         RecordPC, ServerPC, RollPCs, TxPCs, PCs
<1>21. CASE PromoteLost
  <2>1. pc \in TxPCs /\ UNCHANGED <<tx, disk>>
    BY <1>21 DEF PromoteLost, PromotionFailed, MoveIntoPlace, Continue, Fail,
         Deferred, TxPCs, PCs
  <2>2. MovedIn(tx)
    BY <1>21, <2>1, MoveIntoPlaceInv DEF PromoteLost
  <2>3. \A r \in disk' : Lags(r)'
    BY <2>1, LagsUnchanged
  <2>4. disk' = {tx} /\ tx.ready /\ ~tx.committed
    BY <1>21, <2>1 DEF PromoteLost, IInv, JournalPC, RecordPC
  <2>5. CASE Fail
    BY <2>2, <2>3, <2>4, <2>5, FailInv DEF MovedIn
  <2>6. CASE ~IsMove(tx) /\ Continue("undo")
    <3>1. JournalPC' /\ RecordPC' /\ ServerPC'
      BY <2>1, <2>4, <2>6
         DEF Continue, IsMove, JournalPC, RecordPC, ServerPC, RollPCs, TxPCs,
             PCs
    <3> QED
      BY <2>2, <2>3, <2>6, <3>1, EditInv DEF MovedIn, Continue, TxPCs, PCs
  <2> QED
    BY <1>21, <2>5, <2>6 DEF PromoteLost, PromotionFailed
<1>22. CASE PromoteFails
  <2>1. CASE Fail
    BY <1>22, <2>1, QuietFail
       DEF PromoteFails, remote, IInv, JournalPC, TxPCs, PCs
  <2>2. CASE ~IsMove(tx) /\ Continue("undo")
    <3>1. JournalPC' /\ RecordPC' /\ ServerPC'
      BY <1>22, <2>2
         DEF PromoteFails, Continue, IsMove, IInv, remote, JournalPC, RecordPC,
             ServerPC, RollPCs, TxPCs, PCs
    <3> QED
      BY <1>22, <2>2, <3>1, StepInv
         DEF PromoteFails, Continue, remote, TxPCs, PCs
  <2> QED
    BY <1>22, <2>1, <2>2 DEF PromoteFails, PromotionFailed
<1>23. CASE Undo
  <2>1. pc \in TxPCs /\ disk = {tx} /\ UNCHANGED <<disk, tx>>
    BY <1>23 DEF Undo, MoveBack, Continue, IInv, JournalPC, TxPCs, PCs
  <2>2. Durable' /\ RecordOK(tx)'
    BY <1>23, <1>0, <2>1, UndoSetAside, MoveBackInv
       DEF Undo, IInv, RecordPC
  <2>3. \A r \in disk' : Lags(r)'
    BY <2>1, LagsUnchanged
  <2>4. JournalPC' /\ RecordPC' /\ ServerPC'
    BY <1>23, <2>1 DEF Undo, Continue, remote, IInv, IsMove, JournalPC,
         RecordPC, ServerPC, RollPCs, TxPCs, PCs
  <2> QED
    BY <1>23, <2>2, <2>3, <2>4, EditInv
       DEF Undo, Continue, JournalPC, RecordPC,
         ServerPC, RollPCs, TxPCs, PCs
<1>24. CASE UndoLost
  <2>1. pc \in TxPCs /\ disk = {tx} /\ UNCHANGED <<disk, tx>>
    BY <1>24
       DEF UndoLost, MoveBack, Fail, Deferred, IInv, JournalPC, TxPCs, PCs
  <2>2. Durable' /\ RecordOK(tx)'
    BY <1>24, <1>0, <2>1, UndoSetAside, MoveBackInv
       DEF UndoLost, IInv, RecordPC
  <2>3. \A r \in disk' : Lags(r)'
    BY <2>1, LagsUnchanged
  <2> QED
    BY <1>24, <2>1, <2>2, <2>3, FailInv DEF UndoLost
<1>25. CASE UndoFails
  BY <1>25, QuietFail DEF UndoFails, remote, IInv, JournalPC, RecordPC,
       ServerPC, RollPCs, TxPCs, PCs
<1>26. CASE VerifyDest
  <2>1. pc \in TxPCs /\ disk = {tx} /\ InPlace(tx) /\ stage[tx.id] = Absent
        /\ tx.ready /\ ~tx.committed /\ UNCHANGED <<canon, stage, backup, disk>>
    BY <1>26
       DEF VerifyDest, remote, IInv, JournalPC, RecordPC, ServerPC, TxPCs,
         PCs
  <2>2. tx' = [tx EXCEPT !.committed = TRUE]
    BY <1>26 DEF VerifyDest
  <2>3. Durable'
    BY <2>1, DurableUnchanged DEF IInv, Durable
  <2>4. tx'.ready /\ tx'.committed /\ stage'[tx'.id] = Absent
    BY <1>0, <2>1, <2>2 DEF Record
  <2>5. RecordOK(tx)'
    BY <1>0, <2>1, <2>2 DEF RecordOK, ReadyOK, InPlace, IsMove, Record
  <2>6. \A r \in disk' : Lags(r)'
    BY <1>0, <2>1, <2>2 DEF Lags, Record
  <2>7. JournalPC' /\ RecordPC' /\ ServerPC'
    BY <1>26, <2>1, <2>4 DEF VerifyDest, Continue, remote, IInv, JournalPC,
         RecordPC, ServerPC, RollPCs, TxPCs, PCs
  <2> QED
    BY <1>26, <2>3, <2>5, <2>6, <2>7, EditInv DEF VerifyDest, Continue,
         JournalPC, RecordPC, ServerPC, RollPCs, TxPCs, PCs
<1>27. CASE VerifyDestFails
  BY <1>27, QuietFail DEF VerifyDestFails, remote, IInv, JournalPC, RecordPC,
       ServerPC, RollPCs, TxPCs, PCs
<1>28. CASE SaveCommitted
  <2>1. pc \in TxPCs /\ disk # {} /\ UNCHANGED <<canon, stage, backup>>
    BY <1>28 DEF SaveCommitted, remote, IInv, JournalPC, TxPCs, PCs
  <2>2. disk' \in {disk, {tx}}
    BY <1>28, <2>1, SavedSingle DEF SaveCommitted, SaveOrFail, SaveError
  <2>3. Durable'
    BY <2>1, <2>2, DurableSave
  <2>4. UNCHANGED tx /\ RecordOK(tx)' /\ \A r \in disk' : Lags(r)'
    BY <1>28, <1>0, <2>1, <2>2, RecordUnchanged
       DEF SaveCommitted, SaveOrFail, Continue, Fail, Deferred, Lags
  <2>5. ASSUME disk' = Saved(tx), pc' # "recover"
        PROVE  JournalPC' /\ RecordPC' /\ ServerPC'
    BY <1>28, <1>0, <2>1, <2>4, <2>5, SavedSingle
       DEF SaveCommitted, SaveOrFail,
         Continue, Fail, Deferred, IInv, RecordOK, ReadyOK, HadOriginal,
         IsMove, JournalPC, RecordPC, ServerPC, RollPCs, TxPCs, PCs
  <2>6. disk' # {}
    BY <2>1, <2>2
  <2> QED
    BY <1>28, <2>3, <2>4, <2>5, <2>6, FailInv, EditInv
       DEF SaveCommitted, SaveOrFail, Continue, TxPCs, PCs
<1>29. CASE DropBackup
  <2>1. pc \in TxPCs /\ disk = {tx} /\ tx.committed
        /\ UNCHANGED <<canon, stage, disk, tx>>
    BY <1>29 DEF DropBackup, Continue, IInv, JournalPC, RecordPC, TxPCs, PCs
  <2>2. /\ backup'[tx.id] = Absent
        /\ \A i \in Ids : i # tx.id => backup'[i] = backup[i]
    BY <1>29, <1>0, <2>1 DEF DropBackup, Removed
  <2>3. RecordOK(tx)' /\ \A r \in disk : RecordOK(r)'
    BY <1>0, <2>1, <2>2, BackupDropped
  <2>4. Durable' /\ \A r \in disk' : Lags(r)'
    BY <2>1, <2>2, <2>3, DurableEdit, LagsUnchanged
  <2>5. JournalPC' /\ RecordPC' /\ ServerPC'
    BY <1>29, <2>1, <2>2 DEF DropBackup, Continue, remote, IInv, JournalPC,
         RecordPC, ServerPC, RollPCs, TxPCs, PCs
  <2> QED
    BY <1>29, <2>3, <2>4, <2>5, EditInv DEF DropBackup, Continue, JournalPC,
         RecordPC, ServerPC, RollPCs, TxPCs, PCs
<1>30. CASE DropBackupFails
  <2>1. pc \in TxPCs /\ disk = {tx} /\ tx.committed
        /\ UNCHANGED <<canon, stage, disk, tx>>
    BY <1>30
       DEF DropBackupFails, Fail, Deferred, IInv, JournalPC, RecordPC, TxPCs,
         PCs
  <2>2. /\ backup'[tx.id] \in {backup[tx.id], Absent}
        /\ \A i \in Ids : i # tx.id => backup'[i] = backup[i]
    BY <1>30, <1>0, <2>1 DEF DropBackupFails, Removed
  <2>3. RecordOK(tx)' /\ \A r \in disk : RecordOK(r)'
    BY <1>0, <2>1, <2>2, BackupDropped
  <2>4. Durable' /\ \A r \in disk' : Lags(r)'
    BY <2>1, <2>2, <2>3, DurableEdit, LagsUnchanged
  <2> QED
    BY <1>30, <2>1, <2>3, <2>4, FailInv DEF DropBackupFails
<1>31. CASE Forget
  <2>1. pc \in TxPCs /\ tx.committed /\ UNCHANGED <<canon, stage, backup>>
        /\ stage[tx.id] = Absent /\ backup[tx.id] = Absent
    BY <1>31 DEF Forget, remote, IInv, RecordPC, ServerPC, TxPCs, PCs
  <2>2. disk' \in {disk, {}}
    BY <1>31, <1>0, <2>1 DEF Forget, Forgotten
  <2>3. Durable'
    BY <2>1, <2>2, DurableForget
  <2>4. CASE Fail
    <3>1. UNCHANGED tx /\ RecordOK(tx)' /\ \A r \in disk' : Lags(r)'
      BY <1>0, <2>1, <2>2, <2>4, RecordUnchanged DEF Fail, Deferred, Lags
    <3> QED
      BY <2>1, <2>3, <2>4, <3>1, FailInv
  <2> QED
    BY <1>31, <2>3, <2>4, ReturnInv DEF Forget
<1> QED
  BY <1>1, <1>2, <1>3, <1>4, <1>5, <1>6, <1>7, <1>8, <1>9, <1>10, <1>11,
       <1>12, <1>13, <1>14, <1>15, <1>16, <1>17, <1>18, <1>19, <1>20, <1>21,
       <1>22, <1>23, <1>24, <1>25, <1>26, <1>27, <1>28, <1>29, <1>30, <1>31
       DEF OperationStep

-----------------------------------------------------------------------------
(* The invariant holds of an empty journal. *)
LEMMA InvInit == Init => IInv
<1> SUFFICES ASSUME Init PROVE IInv
  OBVIOUS
<1>1. TypeInv
  BY TypeInit
<1>2. SinglePending /\ Covered /\ \A r \in disk : RecordOK(r)
  BY DEF Init, SinglePending, Covered
<1> QED
  BY <1>1, <1>2 DEF Init, IInv, MemoryOK, JournalPC, RecordPC, ServerPC,
                    RollPCs, TxPCs, PCs

(* Every step keeps the invariant. *)
LEMMA InvNext ==
  ASSUME Journaled, IInv, [Next]_vars
  PROVE  IInv'
<1>0. TypeInv'
  BY TypeNext DEF IInv
<1>1. CASE Start
  <2>1. Durable'
    BY <1>1, DurableUnchanged DEF Start, remote, IInv, Durable
  <2> QED
    BY <1>0, <1>1, <2>1 DEF Start, IInv, Durable, MemoryOK, JournalPC,
         RecordPC, ServerPC, RollPCs, TxPCs, PCs
<1>2. CASE \E o \in Ops : Begin(o)
  <2>1. Durable'
    BY <1>2, DurableUnchanged DEF Begin, remote, IInv, Durable
  <2> QED
    BY <1>0, <1>2, <2>1 DEF Begin, IInv, Durable, MemoryOK, JournalPC,
         RecordPC, ServerPC, RollPCs, TxPCs, PCs
<1>3. CASE Crash
  <2>1. Durable'
    BY <1>3, DurableUnchanged DEF Crash, remote, IInv, Durable
  <2> QED
    BY <1>0, <1>3, <2>1 DEF Crash, IInv, Durable, MemoryOK, JournalPC,
         RecordPC, ServerPC, RollPCs, TxPCs, PCs
<1>4. CASE UNCHANGED <<canon, stage, backup, disk, pc, tx>>
  <2>1. Durable'
    BY <1>4, DurableUnchanged DEF IInv, Durable
  <2>2. MemoryOK'
    BY <1>4, RecordUnchanged DEF IInv, MemoryOK, Lags
  <2>3. JournalPC' /\ RecordPC' /\ ServerPC'
    BY <1>4 DEF IInv, JournalPC, RecordPC, ServerPC, RollPCs, IsMove,
         HadOriginal, Pristine, SetAside, InPlace
  <2> QED
    BY <1>0, <2>1, <2>2, <2>3 DEF IInv, Durable
<1> QED
  BY <1>0, <1>1, <1>2, <1>3, <1>4, InvRecovery, InvOperation
     DEF Next, Heal, remote, vars

(* With a journal, the journal, the record in memory and the server agree   *)
(* at every program point, through every failed call, lost reply and crash. *)
THEOREM InvariantHolds ==
  ASSUME Journaled
  PROVE  Spec => []IInv
  BY InvInit, InvNext, PTL DEF Spec

(* With a journal, no replaced byte is deleted before its replacement is    *)
(* verified and recorded, for every number of paths, contents and ids.      *)
THEOREM ReplacementsPreserveOriginals ==
  ASSUME Journaled
  PROVE  Spec => []OriginalPreserved
<1>1. IInv => OriginalPreserved
  BY DEF IInv, OriginalPreserved, RecordOK, ReadyOK, Pristine, SetAside,
         InPlace
<1> QED
  BY <1>1, InvariantHolds, PTL

(* With a journal, every hidden recovery file is named by a durable record  *)
(* that knows how to dispose of it, so none is orphaned by a crash.         *)
THEOREM RecoveryFilesAreJournaled ==
  ASSUME Journaled
  PROVE  Spec => []JournalCoversRemote
<1>1. ASSUME IInv, NEW i \in Ids, stage[i] # Absent
      PROVE  \E r \in disk : r.id = i /\ ~IsMove(r)
  <2>1. PICK r \in disk : r.id = i
    BY <1>1 DEF IInv, Covered
  <2> QED
    BY <1>1, <2>1 DEF IInv, RecordOK
<1>2. ASSUME IInv, NEW i \in Ids, backup[i] # Absent
      PROVE  \E r \in disk : r.id = i /\ r.ready /\ HadOriginal(r)
  <2>1. PICK r \in disk : r.id = i
    BY <1>2 DEF IInv, Covered
  <2>2. RecordOK(r)
    BY <1>2, <2>1 DEF IInv
  <2> QED
    BY <1>2, <2>1, <2>2 DEF RecordOK, ReadyOK, UnreadyOK, Pristine, SetAside,
         InPlace, HadOriginal
<1>3. IInv => JournalCoversRemote
  BY <1>1, <1>2 DEF JournalCoversRemote
<1> QED
  BY <1>3, InvariantHolds, PTL

(* With a journal, at most one replacement is ever pending. *)
THEOREM OnePendingReplacement ==
  ASSUME Journaled
  PROVE  Spec => []SinglePending
<1>1. IInv => SinglePending
  BY DEF IInv
<1> QED
  BY <1>1, InvariantHolds, PTL

(* With a journal, no record that the gateway wrote is rejected by the      *)
(* validation that guards recovery.                                         *)
THEOREM RecordsStayReadable ==
  ASSUME Journaled
  PROVE  Spec => []JournalReadable
<1>1. IInv => JournalReadable
  <2> SUFFICES ASSUME IInv, NEW r \in disk PROVE ValidRecord(r)
    BY DEF JournalReadable
  <2>1. r \in Record /\ RecordOK(r)
    BY DEF IInv, TypeInv, TypeOK
  <2> QED
    BY <2>1 DEF ValidRecord, RecordOK, UnreadyOK, HadOriginal, IsMove, Record
<1> QED
  BY <1>1, InvariantHolds, PTL
-----------------------------------------------------------------------------
(* ReplaceTx implements AtomicStore: every step of the protocol leaves the *)
(* tree as the next request sees it, or is the one step of a mutation that *)
(* changes it (AtomicInv, ReplaceTxInv, says which).                       *)

(* A step that keeps this and is one of AtomicStore, or none. *)
Simulated == AtomicInv' /\ [AS!Next]_(AS!vars)

(* What is seen of a tree with one replacement in progress. *)
Seen(c, b, q, i) ==
  [p \in Paths |-> IF c[p] = Absent /\ p = q THEN b[i] ELSE c[p]]

(* With one record, only its destination is seen otherwise than it is. *)
LEMMA ViewSingle ==
  ASSUME NEW c, NEW b, NEW d, NEW q, NEW i,
         \A r \in d : r.dest = q /\ r.id = i, d = {} => b[i] = Absent
  PROVE  ViewOf(c, b, d) = Seen(c, b, q, i)
<1>1. ASSUME NEW p \in Paths
      PROVE  ViewOf(c, b, d)[p] = IF c[p] = Absent /\ p = q THEN b[i] ELSE c[p]
  <2>1. CASE \E r \in d : r.dest = p /\ b[r.id] # Absent
    <3>1. LET r == CHOOSE r \in d : r.dest = p /\ b[r.id] # Absent
          IN  r.id = i /\ p = q
      BY <2>1
    <3> QED
      BY <2>1, <3>1 DEF ViewOf
  <2>2. CASE ~\E r \in d : r.dest = p /\ b[r.id] # Absent
    <3>1. p = q => b[i] = Absent
      BY <2>2
    <3> QED
      BY <2>2, <3>1 DEF ViewOf
  <2> QED
    BY <2>1, <2>2
<1> QED
  BY <1>1 DEF ViewOf, Seen

(* So it is while an operation or its recovery runs: the record is that one. *)
LEMMA ViewNow ==
  ASSUME IInv, pc \in TxPCs
  PROVE  View = Seen(canon, backup, tx.dest, tx.id)
<1>1. \A r \in disk : r.dest = tx.dest /\ r.id = tx.id
  BY Facts DEF Lags
<1>2. disk = {} => backup[tx.id] = Absent
  BY Facts DEF IInv, Covered
<1> QED
  BY <1>1, <1>2, ViewSingle DEF View

(* What is seen after a step on this record. *)
LEMMA ViewNext ==
  ASSUME IInv, IInv', pc \in TxPCs,
         \A r \in disk' : r.dest = tx.dest /\ r.id = tx.id
  PROVE  View' = Seen(canon', backup', tx.dest, tx.id)
<1>1. disk' = {} => backup'[tx.id] = Absent
  BY Facts DEF IInv, Covered
<1>2. ViewOf(canon', backup', disk') = Seen(canon', backup', tx.dest, tx.id)
  BY <1>1, ViewSingle
<1> QED
  BY <1>2 DEF View, ViewOf

(* Without a record the tree is seen as it is. *)
LEMMA ViewEmpty ==
  ASSUME IInv, disk = {}
  PROVE  View = canon
  BY Facts DEF View, ViewOf

(* A save does not change what the record is about. *)
LEMMA SameRecord ==
  ASSUME IInv, pc \in TxPCs, disk' \subseteq disk \cup {tx}
  PROVE  \A r \in disk' : r.dest = tx.dest /\ r.id = tx.id
  BY Facts DEF Lags

(* Nothing is seen of a step that leaves canonical files and backups. *)
LEMMA ViewQuiet ==
  ASSUME IInv, IInv', pc \in TxPCs, disk' \subseteq disk \cup {tx},
         UNCHANGED <<canon, backup>>
  PROVE  View' = View
  BY ViewNow, ViewNext, SameRecord

(* Nothing is seen of a rename to the backup or back. *)
LEMMA ViewMoved ==
  ASSUME IInv, IInv', pc \in TxPCs, MoveToBackup \/ MoveBack
  PROVE  View' = View
<1>1. tx.id \in Ids /\ tx.dest \in Paths /\ disk' = disk
  BY Facts DEF MoveToBackup, MoveBack
<1>2. Seen(canon', backup', tx.dest, tx.id) = Seen(canon, backup, tx.dest, tx.id)
  <2>1. CASE MoveToBackup
    BY <1>1, <2>1, Facts DEF MoveToBackup, CanPreserve, Seen
  <2>2. CASE MoveBack
    BY <1>1, <2>2, Facts DEF MoveBack, CanRestore, Seen
  <2> QED
    BY <2>1, <2>2
<1> QED
  BY <1>1, <1>2, ViewNow, ViewNext, SameRecord

(* Nothing is seen of a backup's deletion where there is a file. *)
LEMMA ViewDropped ==
  ASSUME IInv, IInv', pc \in TxPCs, UNCHANGED <<canon, disk>>,
         canon[tx.dest] # Absent
  PROVE  View' = View
<1>1. Seen(canon, backup', tx.dest, tx.id) = Seen(canon, backup, tx.dest, tx.id)
  BY DEF Seen
<1> QED
  BY <1>1, ViewNow, ViewNext, SameRecord

(* What is seen while the record is not committed. *)
LEMMA BeforeEffect ==
  ASSUME IInv, AtomicInv, Own, ~tx.ready \/ Pristine(tx) \/ SetAside(tx)
  PROVE  View = old
<1>1. /\ View = Seen(canon, backup, tx.dest, tx.id)
      /\ tx \in Record /\ tx.dest \in Paths /\ RecordOK(tx)
      /\ canon \in [Paths -> Values] /\ old \in [Paths -> Values]
  BY ViewNow, Facts DEF Own, IInv, TypeInv, TypeOK
<1>2. CASE ~tx.ready
  <2>1. backup[tx.id] = Absent /\ canon = old
    BY <1>1, <1>2 DEF AtomicInv, OwnView, RecordOK, UnreadyOK
  <2> QED
    BY <1>1, <2>1 DEF Seen
<1>3. CASE tx.ready /\ (Pristine(tx) \/ SetAside(tx))
  <2>1. /\ tx.original = old[tx.dest]
        /\ IsMove(tx) => tx.hash = old[tx.source] /\ canon[tx.source] = tx.hash
        /\ IsMove(tx) => tx.source # tx.dest
        /\ \A p \in Paths : p # tx.dest /\ p # tx.source => canon[p] = old[p]
    BY <1>1, <1>3 DEF AtomicInv, OwnTx, OwnView, Pristine, SetAside, RecordOK
  <2>2. ~IsMove(tx) => tx.source \notin Paths
    BY ConstantsAssumption DEF IsMove
  <2>3. \A p \in Paths : p # tx.dest => canon[p] = old[p]
    BY <2>1, <2>2
  <2>4. \/ canon[tx.dest] = old[tx.dest]
        \/ canon[tx.dest] = Absent /\ backup[tx.id] = old[tx.dest]
    BY <1>3, <2>1 DEF Pristine, SetAside
  <2>5. canon[tx.dest] = old[tx.dest] /\ canon[tx.dest] = Absent =>
          backup[tx.id] = Absent
    BY <1>1, <1>3, <2>1 DEF Pristine, SetAside
  <2> QED
    BY <1>1, <2>3, <2>4, <2>5 DEF Seen
<1> QED
  BY <1>2, <1>3

(* What is seen once the new bytes are in place. *)
LEMMA AfterEffect ==
  ASSUME IInv, AtomicInv, Own, tx.ready, InPlace(tx)
  PROVE  View = After
<1>1. /\ View = Seen(canon, backup, tx.dest, tx.id)
      /\ tx \in Record /\ tx.dest \in Paths /\ RecordOK(tx)
      /\ canon \in [Paths -> Values] /\ old \in [Paths -> Values]
  BY ViewNow, Facts DEF Own, IInv, TypeInv, TypeOK
<1>2. tx.hash # Absent /\ canon[tx.dest] = tx.hash
  BY <1>1, ConstantsAssumption DEF InPlace, Record
<1>3. /\ tx.dest = op.dest
      /\ \A p \in Paths : p # tx.dest /\ p # tx.source => canon[p] = old[p]
      /\ op.kind = IF IsMove(tx) THEN "move" ELSE "upload"
  BY DEF AtomicInv, OwnTx, OwnView
<1>4. CASE IsMove(tx)
  <2>1. /\ tx.source = op.source /\ tx.hash = old[op.source]
        /\ canon[tx.source] = Absent /\ tx.source # tx.dest
        /\ tx.source \in Paths
    BY <1>1, <1>4 DEF AtomicInv, OwnTx, InPlace, RecordOK, IsMove, Record
  <2>2. After = [old EXCEPT ![op.dest] = old[op.source], ![op.source] = Absent]
    BY <1>3, <1>4 DEF After, AS!Effect
  <2>3. ASSUME NEW p \in Paths
        PROVE  Seen(canon, backup, tx.dest, tx.id)[p] = After[p]
    BY <1>1, <1>2, <1>3, <2>1, <2>2 DEF Seen
  <2> QED
    BY <1>1, <2>2, <2>3 DEF Seen
<1>5. CASE ~IsMove(tx)
  <2>1. After = [old EXCEPT ![op.dest] = tx.hash]
    BY <1>3, <1>5 DEF After, AS!Effect, AtomicInv, OwnTx
  <2>2. tx.source \notin Paths
    BY <1>5, ConstantsAssumption DEF IsMove
  <2>3. ASSUME NEW p \in Paths
        PROVE  Seen(canon, backup, tx.dest, tx.id)[p] = After[p]
    BY <1>1, <1>2, <1>3, <2>1, <2>2 DEF Seen
  <2> QED
    BY <1>1, <2>1, <2>3 DEF Seen
<1> QED
  BY <1>4, <1>5

(* Uploading the bytes that are there has no effect to be seen. *)
LEMMA SameBytes ==
  ASSUME IInv, AtomicInv, Own, ~IsMove(tx), tx.ready, tx.hash = tx.original
  PROVE  After = old
<1>1. After = [old EXCEPT ![op.dest] = old[op.dest]]
  BY DEF After, AS!Effect, AtomicInv, OwnTx
<1>2. old \in [Paths -> Values]
  BY DEF IInv, TypeInv, TypeOK
<1> QED
  BY <1>1, <1>2

(* What the operation is going to do does not change on the way. *)
LEMMA AfterKept ==
  ASSUME UNCHANGED <<op, old>>
  PROVE  After' = After
  BY DEF After, AS!Effect

(* What is seen stays if the files and the records do. *)
LEMMA ViewKept ==
  ASSUME UNCHANGED <<canon, backup, disk>>
  PROVE  View' = View
  BY DEF View, ViewOf

(* Steps that nobody outside the gateway notices. *)
LEMMA Unnoticed ==
  ASSUME UNCHANGED <<op, old, reply>>, View' = View
  PROVE  [AS!Next]_(AS!vars)
  BY DEF AS!vars

(* An answer that is true ends the request. *)
LEMMA ReturnStep ==
  ASSUME op # NoOp, View' = View,
         NEW result \in {"ok", "failed", "refused", "uncertain"},
         Return(result),
         result = "ok" => View = After,
         result \in {"failed", "refused"} => View = old
  PROVE  Simulated
<1>1. AtomicInv'
  BY DEF Return, AtomicInv, CallerPC, OwnTx, OldView, OwnView, Own, StartPCs,
         WorkPCs, RecPCs, RollPCs, TxPCs, PCs
<1>2. AS!Return(result)
  BY DEF Return, AS!Return, After
<1> QED
  BY <1>1, <1>2 DEF Simulated, AS!Next

(* What a step of the code at work on a record leaves alone. *)
SameElsewhere ==
  /\ \A p \in Paths : p # tx.dest /\ p # tx.source => canon'[p] = canon[p]
  /\ ~tx.ready => canon' = canon

(* Going on with a record is not noticed. *)
LEMMA WorkStep ==
  ASSUME AtomicInv, pc \in TxPCs, NEW label \in TxPCs \ {"recover"},
         Continue(label), pc \in RecPCs <=> label \in RecPCs,
         View' = View, SameElsewhere,
         Own /\ label \in {"rollStage", "rollBackup", "recForget"}
           /\ ~tx.committed => View = old
  PROVE  Simulated
<1>1. UNCHANGED <<tx, op, caller, reply, old>> /\ pc' = label /\ After' = After
  BY AfterKept DEF Continue
<1>2. CallerPC'
  BY <1>1
     DEF AtomicInv, CallerPC, WorkPCs, RecPCs, RollPCs, StartPCs, TxPCs, PCs
<1>3. Own' = Own
  BY <1>1 DEF Own
<1>4. OwnTx'
  BY <1>1, <1>3 DEF AtomicInv, OwnTx, IsMove
<1>5. OldView'
  BY <1>1, <1>3 DEF AtomicInv, OldView, TxPCs, PCs
<1>6. OwnView'
  BY <1>1, <1>3 DEF AtomicInv, OwnView, SameElsewhere
<1> QED
  BY <1>1, <1>2, <1>4, <1>5, <1>6, Unnoticed DEF Simulated, AtomicInv

(* Handing a record to recoverUpload keeps what is known of it. *)
LEMMA FailKept ==
  ASSUME Journaled, AtomicInv, pc \in WorkPCs, Fail,
         View' = View \/ (~tx.committed), SameElsewhere,
         Begun => SetAside(tx)' \/ InPlace(tx)'
  PROVE  AtomicInv' /\ UNCHANGED <<op, old, reply>>
<1>1. UNCHANGED <<tx, op, reply, old>> /\ pc' = "recover" /\ caller' = "op"
      /\ After' = After /\ pc \in TxPCs
  BY AfterKept DEF Fail, Deferred, WorkPCs
<1>2. CallerPC' /\ Own /\ Own' /\ op # NoOp
  BY <1>1
     DEF AtomicInv, CallerPC, Own, WorkPCs, RecPCs, RollPCs, StartPCs, TxPCs,
         PCs
<1>3. OwnTx'
  BY <1>1, <1>2 DEF AtomicInv, OwnTx, IsMove
<1>4. OldView'
  BY <1>1, <1>2 DEF OldView
<1>5. OwnView'
  BY <1>1, <1>2 DEF AtomicInv, OwnView, SameElsewhere, Begun, IsMove
<1> QED
  BY <1>1, <1>2, <1>3, <1>4, <1>5 DEF AtomicInv

(* ... and is not noticed when nothing is seen of the step. *)
LEMMA FailStep ==
  ASSUME Journaled, AtomicInv, pc \in WorkPCs, Fail,
         View' = View, SameElsewhere,
         Begun => SetAside(tx)' \/ InPlace(tx)'
  PROVE  Simulated
  BY FailKept, Unnoticed DEF Simulated

(* A request whose recovery failed is answered "uncertain", or refused      *)
(* before it has begun.                                                    *)
LEMMA RecoveryFailsStep ==
  ASSUME IInv, AtomicInv, pc \in RecPCs \cup {"scan"}, RecoveryFails,
         View' = View
  PROVE  Simulated
<1>1. CASE caller = "op"
  BY <1>1, ReturnStep DEF RecoveryFails, AtomicInv, CallerPC
<1>2. CASE caller # "op" /\ op # NoOp
  <2>1. View = old
    BY <1>2 DEF AtomicInv, OldView, CallerPC, Own, RecPCs, RollPCs, TxPCs, PCs,
         IInv, TypeInv, TypeOK
  <2> QED
    BY <1>2, <2>1, ReturnStep DEF RecoveryFails
<1>3. CASE caller # "op" /\ op = NoOp
  <2>1. Stopped
    BY <1>3 DEF RecoveryFails
  <2>2. AtomicInv'
    BY <1>3, <2>1 DEF Stopped, AtomicInv, CallerPC, OwnTx, OldView, OwnView,
         Own, StartPCs, WorkPCs, RecPCs, RollPCs, TxPCs, PCs
  <2> QED
    BY <2>1, <2>2, Unnoticed DEF Stopped, Simulated
<1> QED
  BY <1>1, <1>2, <1>3

(* A recovery that ends answers its request, or lets the scan go on. *)
LEMMA RecoveredStep ==
  ASSUME IInv, AtomicInv, pc = "recForget", Recovered, View' = View
  PROVE  Simulated
<1>1. pc \in TxPCs /\ pc \in RecPCs
  BY DEF TxPCs, PCs, RecPCs
<1>2. CASE caller = "op"
  <2>1. op # NoOp /\ Own
    BY <1>1, <1>2 DEF AtomicInv, CallerPC, Own
  <2>2. IF tx.committed THEN View = After ELSE View = old
    BY <1>1, <2>1 DEF AtomicInv, OwnView
  <2> QED
    BY <1>2, <2>1, <2>2, ReturnStep DEF Recovered
<1>3. CASE caller # "op"
  <2>1. ~Own /\ UNCHANGED <<op, reply, old>> /\ pc' = "scan" /\ caller' = "none"
    BY <1>1, <1>3
       DEF Recovered, Own, AtomicInv, CallerPC, IInv, TypeInv, TypeOK
  <2>2. op # NoOp => View = old
    BY <1>1, <2>1 DEF AtomicInv, OldView
  <2>3. AtomicInv'
    BY <2>1, <2>2 DEF AtomicInv, CallerPC, OwnTx, OldView, OwnView,
         Own, StartPCs, WorkPCs, RecPCs, RollPCs, TxPCs, PCs
  <2> QED
    BY <2>1, <2>3, Unnoticed DEF Simulated
<1> QED
  BY <1>2, <1>3

(* The steps of RecoverPending and recoverUpload change nothing that can be *)
(* seen, and answer truthfully.                                            *)
LEMMA RecoverySimulated ==
  ASSUME Journaled, IInv, IInv', AtomicInv, RecoveryStep
  PROVE  Simulated
<1> USE DEF RecPCs, RollPCs, TxPCs, PCs
<1>0. pc \in TxPCs => /\ tx \in Record /\ RecordOK(tx) /\ tx.hash # Absent
                      /\ Saved(tx) = {tx} /\ Forgotten(tx) \subseteq disk
  BY Facts, SavedSingle, ConstantsAssumption DEF Record, Forgotten
<1>1. CASE ScanRecord
  <2>1. View' = View
    BY <1>1, ViewKept DEF ScanRecord, remote
  <2>2. AtomicInv'
    BY <1>1, <2>1 DEF ScanRecord, AtomicInv, CallerPC, OwnTx, OldView, OwnView,
         Own, StartPCs, WorkPCs
  <2> QED
    BY <1>1, <2>1, <2>2, Unnoticed DEF ScanRecord, Simulated
<1>2. CASE ScanDone
  <2>1. View' = View /\ UNCHANGED <<tx, op, caller, reply, old>>
    BY <1>2, ViewKept DEF ScanDone, Continue, remote
  <2>2. pc' = IF op = NoOp THEN "idle"
              ELSE IF op.kind = "upload" THEN "statDest"
              ELSE IF op.kind = "move" THEN "statMove" ELSE "direct"
    BY <1>2 DEF ScanDone, Continue, FirstStep, IInv, TypeInv, TypeOK, Ops, NoOp
  <2>3. AtomicInv'
    BY <1>2, <2>1, <2>2 DEF ScanDone, AtomicInv, CallerPC, OwnTx, OldView,
         OwnView, Own, StartPCs, WorkPCs
  <2> QED
    BY <2>1, <2>3, Unnoticed DEF Simulated
<1>3. CASE ScanFails
  BY <1>3, RecoveryFailsStep, ViewKept DEF ScanFails, remote
<1>4. CASE RecoverUnready
  <2>1. View' = View /\ SameElsewhere
    BY <1>4, ViewKept DEF RecoverUnready, SameElsewhere
  <2>2. Own => View = old
    BY <1>4, BeforeEffect DEF RecoverUnready
  <2> QED
    BY <1>4, <2>1, <2>2, WorkStep DEF RecoverUnready
<1>5. CASE RecoverUnreadyFails
  BY <1>5, RecoveryFailsStep, ViewKept DEF RecoverUnreadyFails
<1>6. CASE RecoverForward
  <2>1. /\ View' = View /\ UNCHANGED <<canon, op, caller, reply, old>>
        /\ pc = "recover" /\ pc' = "saveDone" /\ tx.ready
        /\ tx' = [tx EXCEPT !.committed = TRUE]
    BY <1>6, ViewKept DEF RecoverForward, remote
  <2>2. /\ tx'.id = tx.id /\ tx'.source = tx.source /\ tx'.dest = tx.dest
        /\ tx'.hash = tx.hash /\ tx'.original = tx.original
        /\ tx'.ready = tx.ready /\ IsMove(tx') = IsMove(tx)
    BY <1>0, <2>1 DEF Record, IsMove
  <2>3. Own => View = After
    <3> SUFFICES ASSUME Own PROVE View = After
      OBVIOUS
    <3>1. CASE tx.committed
      BY <3>1 DEF AtomicInv, OwnView
    <3>2. CASE ~tx.committed /\ InPlace(tx)
      BY <2>1, <3>2, AfterEffect
    <3>3. CASE ~tx.committed /\ ~InPlace(tx)
      <4>1. canon[tx.dest] = tx.hash /\ ProvesCommit(tx)
        BY <1>6, <3>3 DEF RecoverForward
      <4>2. Pristine(tx) /\ ~SetAside(tx)
        BY <1>0, <2>1, <3>3, <4>1 DEF RecordOK, ReadyOK, SetAside
      <4>3. ~IsMove(tx)
        BY <2>1, <3>3, <4>1, <4>2 DEF AtomicInv, OwnView, Begun, ProvesCommit
      <4>4. tx.hash = tx.original
        BY <4>1, <4>2 DEF Pristine
      <4> QED
        BY <2>1, <4>2, <4>3, <4>4, BeforeEffect, SameBytes
    <3> QED
      BY <3>1, <3>2, <3>3
  <2>4. After' = After
    BY <2>1, AfterKept
  <2>5. Own' = Own /\ OldView' /\ CallerPC'
    BY <2>1, <2>4 DEF AtomicInv, CallerPC, OldView, Own, StartPCs, WorkPCs
  <2>6. OwnTx'
    BY <2>1, <2>2, <2>5 DEF AtomicInv, OwnTx, IsMove
  <2>7. OwnView'
    BY <2>1, <2>2, <2>3, <2>4, <2>5 DEF AtomicInv, OwnView
  <2> QED
    BY <2>1, <2>5, <2>6, <2>7, Unnoticed DEF Simulated, AtomicInv
<1>7. CASE RecoverBack
  BY <1>7, WorkStep, ViewKept DEF RecoverBack, remote, SameElsewhere
<1>8. CASE RollSource
  BY <1>8, WorkStep, ViewKept DEF RollSource, remote, SameElsewhere
<1>9. CASE RollSourceFails
  BY <1>9, RecoveryFailsStep, ViewKept DEF RollSourceFails, remote
<1>10. CASE RollDest
  <2>1. View' = View /\ SameElsewhere
    BY <1>10, ViewKept DEF RollDest, remote, SameElsewhere
  <2>2. tx.ready /\ ~tx.committed
    BY <1>10 DEF RollDest, IInv, RecordPC
  <2>3. CASE Continue("rollStage")
    <3>1. canon[tx.dest] = Absent
      BY <1>10, <2>3 DEF RollDest, Continue
    <3>2. Pristine(tx) \/ SetAside(tx)
      BY <1>0, <1>10, <2>2, <3>1 DEF RollDest, RecordOK, ReadyOK, InPlace
    <3>3. Own => View = old
      BY <2>2, <3>2, BeforeEffect
    <3> QED
      BY <1>10, <2>1, <2>3, <3>3, WorkStep DEF RollDest
  <2>4. CASE Continue("verifyRestored") \/ Continue("restore")
    BY <1>10, <2>1, <2>4, WorkStep DEF RollDest
  <2> QED
    BY <1>10, <2>3, <2>4 DEF RollDest
<1>11. CASE RollDestFails
  BY <1>11, RecoveryFailsStep, ViewKept DEF RollDestFails, remote
<1>12. CASE Restore
  <2>1. View' = View
    BY <1>12, ViewMoved DEF Restore
  <2>2. SameElsewhere
    BY <1>12, Facts DEF Restore, MoveBack, SameElsewhere, IInv, RecordPC
  <2> QED
    BY <1>12, <2>1, <2>2, WorkStep DEF Restore
<1>13. CASE RestoreLost
  BY <1>13, ViewMoved, RecoveryFailsStep DEF RestoreLost
<1>14. CASE RestoreFails
  BY <1>14, RecoveryFailsStep, ViewKept DEF RestoreFails, remote
<1>15. CASE VerifyRestored
  <2>1. View' = View /\ SameElsewhere
    BY <1>15, ViewKept DEF VerifyRestored, remote, SameElsewhere
  <2>2. /\ tx.ready /\ ~tx.committed /\ canon[tx.dest] = tx.original
        /\ IsMove(tx) => canon[tx.source] = tx.hash
    BY <1>15 DEF VerifyRestored, IInv, RecordPC, ServerPC
  <2>3. Own => View = old
    <3> SUFFICES ASSUME Own PROVE View = old
      OBVIOUS
    <3>1. CASE InPlace(tx)
      <4>1. ~IsMove(tx) /\ tx.hash = tx.original
        BY <1>0, <1>15, <2>2, <3>1 DEF VerifyRestored, InPlace
      <4> QED
        BY <2>2, <3>1, <4>1, AfterEffect, SameBytes
    <3>2. CASE ~InPlace(tx)
      BY <1>0, <1>15, <2>2, <3>2, BeforeEffect
         DEF VerifyRestored, RecordOK, ReadyOK
    <3> QED
      BY <3>1, <3>2
  <2> QED
    BY <1>15, <2>1, <2>3, WorkStep DEF VerifyRestored
<1>16. CASE VerifyRestoredFails
  BY <1>16, RecoveryFailsStep, ViewKept DEF VerifyRestoredFails, remote
<1>17. CASE RemoveStage
  <2>1. View' = View /\ SameElsewhere
    BY <1>17, ViewKept DEF RemoveStage, SameElsewhere
  <2>2. Own /\ ~tx.committed => View = old
    BY <1>17 DEF RemoveStage, IInv, RecordPC, AtomicInv, OwnView
  <2> QED
    BY <1>17, <2>1, <2>2, WorkStep DEF RemoveStage
<1>18. CASE RemoveStageFails
  BY <1>18, RecoveryFailsStep, ViewKept DEF RemoveStageFails
<1>19. CASE RemoveBackup \/ RemoveBackupFails
  <2>1. UNCHANGED <<canon, disk>> /\ pc \in {"rollBackup", "doneBackup"}
    BY <1>19 DEF RemoveBackup, RemoveBackupFails
  <2>2. canon[tx.dest] # Absent \/ backup' = backup
    BY <1>0, <1>19, <2>1
       DEF RemoveBackup, RemoveBackupFails, HadOriginal, IInv,
         RecordPC, ServerPC, RecordOK, ReadyOK
  <2>3. View' = View /\ SameElsewhere
    BY <2>1, <2>2, ViewDropped, ViewKept DEF SameElsewhere
  <2>4. Own /\ pc = "rollBackup" /\ ~tx.committed => View = old
    BY DEF AtomicInv, OwnView
  <2>5. CASE RemoveBackup
    BY <2>1, <2>3, <2>4, <2>5, WorkStep DEF RemoveBackup
  <2>6. CASE RemoveBackupFails
    BY <2>1, <2>3, <2>6, RecoveryFailsStep DEF RemoveBackupFails
  <2> QED
    BY <1>19, <2>5, <2>6
<1>20. CASE SaveDone
  <2>1. /\ pc = "saveDone" /\ UNCHANGED <<canon, backup>>
        /\ disk' \subseteq disk \cup {tx}
    BY <1>0, <1>20 DEF SaveDone, SaveError, remote
  <2>2. View' = View /\ SameElsewhere
    BY <2>1, ViewQuiet DEF SameElsewhere
  <2> QED
    BY <1>20, <2>1, <2>2, WorkStep, RecoveryFailsStep DEF SaveDone
<1>21. CASE RecForget
  <2>1. /\ pc = "recForget" /\ UNCHANGED <<canon, backup>>
        /\ disk' \subseteq disk \cup {tx}
    BY <1>0, <1>21 DEF RecForget, remote
  <2>2. View' = View
    BY <2>1, ViewQuiet
  <2> QED
    BY <1>21, <2>1, <2>2, RecoveredStep, RecoveryFailsStep DEF RecForget
<1> QED
  BY <1>1, <1>2, <1>3, <1>4, <1>5, <1>6, <1>7, <1>8, <1>9, <1>10, <1>11,
     <1>12, <1>13, <1>14, <1>15, <1>16, <1>17, <1>18, <1>19, <1>20, <1>21
     DEF RecoveryStep

(* What is seen without a record is what is there. *)
LEMMA EmptyView ==
  ASSUME NEW c \in [Paths -> Values], NEW b
  PROVE  ViewOf(c, b, {}) = c
  BY DEF ViewOf

(* The promotion is the one step at which an upload or a move happens. *)
LEMMA PromotionApplies ==
  ASSUME IInv, IInv', AtomicInv, pc = "promote", MoveIntoPlace,
         UNCHANGED <<tx, op, old, reply>>
  PROVE  /\ AS!Apply
         /\ View' = After
         /\ SameElsewhere
         /\ InPlace(tx)'
<1>1. /\ pc \in TxPCs /\ Own /\ op # NoOp
      /\ tx.ready /\ ~tx.committed /\ SetAside(tx)
      /\ IsMove(tx) => tx.moveStarted
      /\ ~IsMove(tx) => stage[tx.id] = tx.hash
  BY DEF IInv, RecordPC, ServerPC, TxPCs, PCs, RollPCs, Own, AtomicInv,
         CallerPC,
         WorkPCs, RecPCs
<1>2. /\ tx \in Record /\ tx.dest \in Paths /\ tx.id \in Ids /\ RecordOK(tx)
      /\ canon \in [Paths -> Values] /\ old \in [Paths -> Values]
      /\ tx.hash # Absent
  BY <1>1, Facts, ConstantsAssumption DEF IInv, TypeInv, TypeOK, Record
<1>3. View = old
  BY <1>1, BeforeEffect
<1>4. /\ tx.dest = op.dest /\ tx.original = old[tx.dest]
      /\ \A p \in Paths : p # tx.dest /\ p # tx.source => canon[p] = old[p]
      /\ op.kind = IF IsMove(tx) THEN "move" ELSE "upload"
      /\ IsMove(tx) => /\ tx.source = op.source /\ tx.hash = old[op.source]
                       /\ tx.source \in Paths /\ tx.source # tx.dest
      /\ ~IsMove(tx) => tx.hash = op.data /\ tx.source \notin Paths
  BY <1>1, <1>2, ConstantsAssumption
     DEF AtomicInv, OwnTx, OwnView, RecordOK, IsMove, Record
<1>5. /\ canon'[tx.dest] = tx.hash
      /\ IsMove(tx) => canon'[tx.source] = Absent
      /\ \A p \in Paths : p # tx.dest /\ p # tx.source => canon'[p] = canon[p]
      /\ canon' \in [Paths -> Values] /\ backup' = backup /\ disk' = disk
  BY <1>1, <1>2, <1>4
     DEF MoveIntoPlace, Promoted, SetAside, IInv, TypeInv, TypeOK
<1>6. SameElsewhere /\ InPlace(tx)'
  BY <1>1, <1>5 DEF SameElsewhere, InPlace, SetAside, IsMove
<1>7. View' = Seen(canon', backup', tx.dest, tx.id)
  BY <1>1, <1>5, ViewNext, SameRecord
<1>8. After = IF IsMove(tx)
              THEN [old EXCEPT ![tx.dest] = tx.hash, ![tx.source] = Absent]
              ELSE [old EXCEPT ![tx.dest] = tx.hash]
  BY <1>4 DEF After, AS!Effect
<1>9. ASSUME NEW p \in Paths
      PROVE  Seen(canon', backup', tx.dest, tx.id)[p] = After[p]
  BY <1>2, <1>4, <1>5, <1>8 DEF Seen
<1>10. View' = After
  BY <1>2, <1>7, <1>8, <1>9 DEF Seen
<1> QED
  BY <1>1, <1>3, <1>6, <1>10 DEF AS!Apply, After

(* The steps of the operations change the tree in one step or not at all, *)
(* and answer truthfully.                                                 *)
LEMMA OperationSimulated ==
  ASSUME Journaled, IInv, IInv', AtomicInv, OperationStep
  PROVE  Simulated
<1> USE DEF RecPCs, WorkPCs, RollPCs, TxPCs, PCs
<1>0. /\ pc \in TxPCs => /\ tx \in Record /\ RecordOK(tx) /\ tx.hash # Absent
                         /\ Saved(tx) = {tx} /\ Forgotten(tx) \subseteq disk
      /\ canon \in [Paths -> Values] /\ old \in [Paths -> Values]
      /\ op \in Ops \cup {NoOp}
  BY Facts, SavedSingle, ConstantsAssumption
     DEF Record, Forgotten, IInv, TypeInv, TypeOK
<1>a. /\ pc \in WorkPCs \cup StartPCs => caller = "none" /\ op # NoOp
      /\ pc \in WorkPCs => Own
      /\ pc \in {"statDest", "statMove", "direct"} => View = old /\ canon = old
  <2>1. pc \in WorkPCs \cup StartPCs => caller = "none" /\ op # NoOp
    BY DEF AtomicInv, CallerPC
  <2>2. pc \in {"statDest", "statMove", "direct"} => View = old /\ disk = {}
    BY <2>1 DEF AtomicInv, OldView, Own, IInv, JournalPC, StartPCs
  <2> QED
    BY <1>0, <2>1, <2>2, EmptyView DEF Own, View
<1>1. CASE DirectPerformed
  <2>1. /\ pc = "direct" /\ disk = {} /\ disk' = {}
        /\ canon' \in [Paths -> Values]
        /\ UNCHANGED <<tx, op, caller, reply, old>> /\ pc' = "directReply"
    BY <1>1 DEF DirectPerformed, Continue, IInv, JournalPC, TypeInv, TypeOK
  <2>2. View' = canon'
    <3>1. ViewOf(canon', backup', {}) = canon'
      BY <2>1, EmptyView
    <3> QED
      BY <2>1, <3>1 DEF View, ViewOf
  <2>3. Effect(op, old) = After
    <3>1. op.kind \in {"move", "rename", "mkdir", "delete"}
      BY <1>0, <2>1 DEF IInv, TypeInv, OpPC, Ops, NoOp
    <3> QED
      BY <3>1 DEF Effect, After, AS!Effect
  <2>4. View' = After /\ After' = After
    BY <1>1, <1>a, <2>1, <2>2, <2>3, AfterKept DEF DirectPerformed
  <2>5. AS!Apply
    BY <1>a, <2>1, <2>4 DEF AS!Apply, After, StartPCs
  <2>6. AtomicInv'
    BY <1>a, <2>1, <2>4 DEF AtomicInv, CallerPC, OwnTx, OldView, OwnView, Own,
         StartPCs
  <2> QED
    BY <2>5, <2>6 DEF Simulated, AS!Next
<1>2. CASE DirectReply
  <2>1. View' = View /\ View = After /\ op # NoOp
    BY <1>2, <1>a, ViewKept
       DEF DirectReply, remote, AtomicInv, OldView, StartPCs
  <2> QED
    BY <1>2, <2>1, ReturnStep DEF DirectReply
<1>3. CASE DirectRefused
  <2>1. View' = View /\ View = old /\ op # NoOp
    BY <1>3, <1>a, ViewKept DEF DirectRefused, remote, StartPCs
  <2> QED
    BY <1>3, <2>1, ReturnStep DEF DirectRefused
<1>4. CASE StatDest
  <2>1. /\ pc = "statDest" /\ pc' = "saveNew" /\ op.kind = "upload"
        /\ UNCHANGED <<canon, backup, disk, op, caller, reply, old>>
    BY <1>4 DEF StatDest, remote, IInv, TypeInv, OpPC
  <2>2. PICK i \in Ids : tx' = NewTx(i)
    BY <1>4 DEF StatDest
  <2>3. /\ tx'.dest = op.dest /\ tx'.hash = op.data /\ tx'.source = NoPath
        /\ ~tx'.ready /\ ~tx'.committed
    BY <2>2 DEF NewTx, NoTx
  <2>4. View' = View
    BY <2>1, ViewKept
  <2>5. AtomicInv'
    BY <1>a, <2>1, <2>3 DEF AtomicInv, CallerPC, OwnTx, OldView, OwnView, Own,
         StartPCs, IsMove
  <2> QED
    BY <2>1, <2>4, <2>5, Unnoticed DEF Simulated
<1>5. CASE StatFails
  <2>1. View' = View /\ View = old /\ op # NoOp
    BY <1>5, <1>a, ViewKept DEF StatFails, remote, StartPCs
  <2> QED
    BY <1>5, <2>1, ReturnStep DEF StatFails
<1>6. CASE SaveNew \/ SaveMove
  <2>1. /\ pc \in {"saveNew", "saveMove"} /\ UNCHANGED <<canon, backup>>
        /\ disk' \subseteq disk \cup {tx}
    BY <1>0, <1>6 DEF SaveNew, SaveMove, SaveFirst, SaveError, remote
  <2>2. View' = View /\ SameElsewhere
    BY <2>1, ViewQuiet DEF SameElsewhere
  <2>3. View = old
    BY <1>a, <2>1, BeforeEffect DEF IInv, RecordPC, ServerPC
  <2>4. CASE Return("failed")
    BY <1>a, <2>1, <2>2, <2>3, <2>4, ReturnStep
  <2>5. ASSUME NEW label \in {"upload", "preserve", "saveStarted"},
               Continue(label)
        PROVE  Simulated
    BY <2>1, <2>2, <2>5, WorkStep
  <2> QED
    BY <1>6, <2>4, <2>5 DEF SaveNew, SaveMove, SaveFirst
<1>7. CASE Upload \/ VerifyStage \/ ReadOriginalFails
  <2>1. UNCHANGED <<canon, backup, disk>>
    BY <1>7 DEF Upload, VerifyStage, ReadOriginalFails, remote
  <2> QED
    BY <1>7, <2>1, WorkStep, ViewKept
       DEF Upload, VerifyStage, ReadOriginalFails, SameElsewhere
<1>8. CASE ReadOriginal
  <2>1. /\ pc = "readOriginal" /\ pc' = "saveReady" /\ ~tx.ready
        /\ UNCHANGED <<canon, backup, disk, op, caller, reply, old>>
        /\ tx' = [tx EXCEPT !.original = canon[tx.dest], !.ready = TRUE]
    BY <1>8 DEF ReadOriginal, remote, IInv, RecordPC
  <2>2. /\ tx'.source = tx.source /\ tx'.dest = tx.dest /\ tx'.hash = tx.hash
        /\ tx'.original = canon[tx.dest] /\ tx'.ready
        /\ tx'.committed = tx.committed
    BY <1>0, <2>1 DEF Record
  <2>3. canon = old /\ ~tx.committed /\ View' = View
    BY <1>0, <1>a, <2>1, ViewKept DEF AtomicInv, OwnView, RecordOK, UnreadyOK
  <2>4. AtomicInv'
    BY <1>a, <2>1, <2>2, <2>3 DEF AtomicInv, CallerPC, OwnTx, OldView, OwnView,
         Own, StartPCs, IsMove
  <2> QED
    BY <2>1, <2>3, <2>4, Unnoticed DEF Simulated
<1>9. CASE SaveReady \/ SaveCommitted
  <2>1. /\ pc \in {"saveReady", "saveCommitted"} /\ UNCHANGED <<canon, backup>>
        /\ disk' \subseteq disk \cup {tx}
    BY <1>0, <1>9 DEF SaveReady, SaveCommitted, SaveOrFail, SaveError, remote
  <2>2. View' = View /\ SameElsewhere /\ ~Begun
    BY <2>1, ViewQuiet DEF SameElsewhere, Begun, IInv, RecordPC
  <2>3. CASE Fail
    BY <2>1, <2>2, <2>3, FailStep
  <2>4. ASSUME NEW label \in {"preserve", "promote", "dropBackup", "forget"},
               Continue(label)
        PROVE  Simulated
    BY <2>1, <2>2, <2>4, WorkStep
  <2> QED
    BY <1>9, <2>3, <2>4 DEF SaveReady, SaveCommitted, SaveOrFail
<1>10. CASE CleanupStage
  <2>1. View' = View /\ SameElsewhere /\ ~Begun
    BY <1>10, ViewKept DEF CleanupStage, SameElsewhere, Begun, IInv, RecordPC
  <2> QED
    BY <1>10, <2>1, FailStep DEF CleanupStage
<1>11. CASE StatMove
  <2>1. /\ pc = "statMove" /\ pc' = "saveMove" /\ op.kind = "move"
        /\ UNCHANGED <<canon, backup, disk, op, caller, reply, old>>
    BY <1>11 DEF StatMove, remote, IInv, TypeInv, OpPC
  <2>2. PICK i \in Ids : tx' = MoveTx(i)
    BY <1>11 DEF StatMove
  <2>3. /\ tx'.dest = op.dest /\ tx'.hash = canon[op.source]
        /\ tx'.source = op.source /\ tx'.original = canon[op.dest]
        /\ tx'.ready /\ ~tx'.committed
    BY <2>2 DEF MoveTx, NoTx
  <2>4. View' = View /\ op.source # NoPath
    BY <1>0, <2>1, ViewKept, ConstantsAssumption DEF Ops, NoOp
  <2>5. AtomicInv'
    BY <1>a, <2>1, <2>3, <2>4 DEF AtomicInv, CallerPC, OwnTx, OldView, OwnView,
         Own, StartPCs, IsMove
  <2> QED
    BY <2>1, <2>4, <2>5, Unnoticed DEF Simulated
<1>12. CASE StatMoveDirectory
  <2>1. /\ View' = View /\ pc = "statMove" /\ pc' = "direct"
        /\ UNCHANGED <<tx, op, caller, reply, old>>
    BY <1>12, ViewKept DEF StatMoveDirectory, Continue, remote
  <2>2. AtomicInv'
    BY <1>a, <2>1
       DEF AtomicInv, CallerPC, OwnTx, OldView, OwnView, Own, StartPCs
  <2> QED
    BY <2>1, <2>2, Unnoticed DEF Simulated
<1>13. CASE SaveStarted
  <2>1. /\ pc = "saveStarted" /\ pc' \in {"promote", "recover"}
        /\ caller' = IF pc' = "promote" THEN caller ELSE "op"
        /\ UNCHANGED <<canon, backup, op, reply, old>>
        /\ tx' = [tx EXCEPT !.moveStarted = TRUE]
    BY <1>13 DEF SaveStarted, remote
  <2>2. /\ tx'.id = tx.id /\ tx'.source = tx.source /\ tx'.dest = tx.dest
        /\ tx'.hash = tx.hash /\ tx'.original = tx.original
        /\ tx'.ready = tx.ready /\ tx'.committed = tx.committed
    BY <1>0, <2>1 DEF Record
  <2>3. tx.ready /\ ~tx.committed /\ SetAside(tx)
    BY <2>1 DEF IInv, RecordPC, ServerPC
  <2>4. \A r \in disk' : r.dest = tx.dest /\ r.id = tx.id
    <3>1. \A r \in disk : r.dest = tx.dest /\ r.id = tx.id
      BY <2>1, Facts DEF Lags
    <3>2. ASSUME NEW r \in disk' PROVE r \in disk \/ r = tx'
      BY <1>13 DEF SaveStarted, Saved
    <3> QED
      BY <2>2, <3>1, <3>2
  <2>5. View' = View
    BY <2>1, <2>4, ViewNow, ViewNext
  <2>6. SetAside(tx)'
    BY <2>1, <2>2, <2>3 DEF SetAside, IsMove
  <2>7. CallerPC' /\ Own' /\ OldView'
    BY <1>a, <2>1 DEF CallerPC, Own, OldView, StartPCs
  <2>8. OwnTx'
    BY <1>a, <2>1, <2>2 DEF AtomicInv, OwnTx, IsMove
  <2>9. OwnView'
    BY <1>a, <2>1, <2>2, <2>3, <2>6 DEF AtomicInv, OwnView
  <2> QED
    BY <2>1, <2>5, <2>7, <2>8, <2>9, Unnoticed DEF Simulated, AtomicInv
<1>14. CASE Preserve \/ PreserveLost
  <2>1. pc = "preserve" /\ MoveToBackup
    BY <1>14 DEF Preserve, PreserveLost
  <2>2. View' = View
    BY <2>1, ViewMoved
  <2>3. SameElsewhere /\ ~Begun
    BY <1>0, <2>1 DEF MoveToBackup, SameElsewhere, Begun, IInv, RecordPC
  <2>4. CASE Preserve
    BY <2>1, <2>2, <2>3, <2>4, WorkStep DEF Preserve
  <2>5. CASE PreserveLost
    BY <2>1, <2>2, <2>3, <2>5, FailStep DEF PreserveLost
  <2> QED
    BY <1>14, <2>4, <2>5
<1>15. CASE PreserveFails
  <2>1. View' = View /\ SameElsewhere /\ ~Begun
    BY <1>15, ViewKept
       DEF PreserveFails, remote, SameElsewhere, Begun, IInv, RecordPC
  <2> QED
    BY <1>15, <2>1, FailStep DEF PreserveFails
<1>16. CASE Promote \/ PromoteLost
  <2>1. /\ pc = "promote" /\ MoveIntoPlace /\ UNCHANGED <<tx, op, old, reply>>
        /\ Continue("verifyDest") \/ Continue("undo") \/ Fail
    BY <1>16
       DEF Promote, PromoteLost, PromotionFailed, Continue, Fail, Deferred
  <2>2. AS!Apply /\ View' = After /\ SameElsewhere /\ InPlace(tx)'
    BY <2>1, PromotionApplies
  <2>3. Own /\ tx.ready /\ ~tx.committed
    BY <1>a, <2>1 DEF IInv, RecordPC
  <2>4. CASE Fail
    <3>1. AtomicInv'
      BY <2>1, <2>2, <2>3, <2>4, FailKept
    <3> QED
      BY <2>2, <3>1 DEF Simulated, AS!Next
  <2>5. CASE Continue("verifyDest") \/ Continue("undo")
    <3>1. /\ UNCHANGED <<tx, op, caller, reply, old>>
          /\ pc' \in {"verifyDest", "undo"}
      BY <2>5 DEF Continue
    <3>2. CallerPC' /\ Own' /\ OldView'
      BY <1>a, <2>1, <3>1 DEF CallerPC, Own, OldView, StartPCs
    <3>3. OwnTx'
      BY <2>3, <3>1 DEF AtomicInv, OwnTx, IsMove
    <3>4. OwnView'
      BY <2>2, <2>3, <3>1 DEF AtomicInv, OwnView, SameElsewhere
    <3> QED
      BY <2>2, <3>2, <3>3, <3>4 DEF Simulated, AtomicInv, AS!Next
  <2> QED
    BY <2>1, <2>4, <2>5
<1>17. CASE PromoteFails
  <2>1. View' = View /\ SameElsewhere
    BY <1>17, ViewKept DEF PromoteFails, remote, SameElsewhere
  <2>2. UNCHANGED tx /\ SetAside(tx)'
    BY <1>17
       DEF PromoteFails, PromotionFailed, Continue, Fail, Deferred, remote,
         SetAside, IsMove, IInv, ServerPC
  <2> QED
    BY <1>17, <2>1, <2>2, FailStep, WorkStep DEF PromoteFails, PromotionFailed
<1>18. CASE Undo \/ UndoLost
  <2>1. pc = "undo" /\ MoveBack
    BY <1>18 DEF Undo, UndoLost
  <2>2. View' = View
    BY <2>1, ViewMoved
  <2>3. SameElsewhere /\ ~Begun
    BY <1>0, <2>1 DEF MoveBack, SameElsewhere, Begun, IInv, RecordPC
  <2>4. CASE Undo
    BY <2>1, <2>2, <2>3, <2>4, WorkStep DEF Undo
  <2>5. CASE UndoLost
    BY <2>1, <2>2, <2>3, <2>5, FailStep DEF UndoLost
  <2> QED
    BY <1>18, <2>4, <2>5
<1>19. CASE UndoFails
  <2>1. View' = View /\ SameElsewhere /\ ~Begun
    BY <1>19, ViewKept
       DEF UndoFails, remote, SameElsewhere, Begun, IInv, RecordPC
  <2> QED
    BY <1>19, <2>1, FailStep DEF UndoFails
<1>20. CASE VerifyDest
  <2>1. /\ View' = View /\ UNCHANGED <<canon, op, caller, reply, old>>
        /\ pc = "verifyDest" /\ pc' = "saveCommitted"
        /\ tx' = [tx EXCEPT !.committed = TRUE]
    BY <1>20, ViewKept DEF VerifyDest, remote
  <2>2. /\ tx'.source = tx.source /\ tx'.dest = tx.dest /\ tx'.hash = tx.hash
        /\ tx'.original = tx.original /\ tx'.ready = tx.ready
    BY <1>0, <2>1 DEF Record
  <2>3. Own /\ tx.ready /\ View = After
    BY <1>a, <2>1, AfterEffect DEF IInv, RecordPC, ServerPC
  <2>4. After' = After
    BY <2>1, AfterKept
  <2>5. Own' /\ OldView' /\ CallerPC'
    BY <1>a, <2>1 DEF CallerPC, OldView, Own, StartPCs
  <2>6. OwnTx'
    BY <2>1, <2>2, <2>3 DEF AtomicInv, OwnTx, IsMove
  <2>7. OwnView'
    BY <2>1, <2>2, <2>3, <2>4 DEF AtomicInv, OwnView
  <2> QED
    BY <2>1, <2>5, <2>6, <2>7, Unnoticed DEF Simulated, AtomicInv
<1>21. CASE VerifyDestFails
  <2>1. View' = View /\ SameElsewhere
    BY <1>21, ViewKept DEF VerifyDestFails, remote, SameElsewhere
  <2>2. UNCHANGED tx /\ InPlace(tx)'
    BY <1>21
       DEF VerifyDestFails, Fail, Deferred, remote, InPlace, IsMove, IInv,
         ServerPC
  <2> QED
    BY <1>21, <2>1, <2>2, FailStep DEF VerifyDestFails
<1>22. CASE DropBackup \/ DropBackupFails
  <2>1. UNCHANGED <<canon, disk>> /\ pc = "dropBackup"
    BY <1>22 DEF DropBackup, DropBackupFails
  <2>2. canon[tx.dest] # Absent /\ tx.committed
    BY <1>0, <2>1 DEF IInv, RecordPC, RecordOK, ReadyOK
  <2>3. View' = View /\ SameElsewhere /\ ~Begun
    BY <2>1, <2>2, ViewDropped DEF SameElsewhere, Begun
  <2>4. CASE DropBackup
    BY <2>1, <2>3, <2>4, WorkStep DEF DropBackup
  <2>5. CASE DropBackupFails
    BY <2>1, <2>3, <2>5, FailStep DEF DropBackupFails
  <2> QED
    BY <1>22, <2>4, <2>5
<1>23. CASE Forget
  <2>1. /\ pc = "forget" /\ tx.committed /\ UNCHANGED <<canon, backup>>
        /\ disk' \subseteq disk \cup {tx}
    BY <1>0, <1>23 DEF Forget, remote, IInv, RecordPC
  <2>2. View' = View /\ SameElsewhere /\ ~Begun
    BY <2>1, ViewQuiet DEF SameElsewhere, Begun
  <2>3. View = After
    BY <1>a, <2>1 DEF AtomicInv, OwnView
  <2> QED
    BY <1>23, <1>a, <2>1, <2>2, <2>3, ReturnStep, FailStep DEF Forget
<1> QED
  BY <1>1, <1>2, <1>3, <1>4, <1>5, <1>6, <1>7, <1>8, <1>9, <1>10, <1>11,
     <1>12, <1>13, <1>14, <1>15, <1>16, <1>17, <1>18, <1>19, <1>20, <1>21,
     <1>22, <1>23 DEF OperationStep

(* Every step of the gateway is a step of AtomicStore, or none. *)
LEMMA StepSimulated ==
  ASSUME Journaled, IInv, AtomicInv, [Next]_vars
  PROVE  Simulated
<1>0. IInv'
  BY InvNext
<1>1. CASE Start \/ Heal
  <2>1. View' = View /\ UNCHANGED <<tx, op, caller, reply, old>>
    BY <1>1, ViewKept DEF Start, Heal, remote
  <2>2. /\ After' = After
        /\ \/ pc' = pc /\ canon' = canon
           \/ pc = "down" /\ pc' = "scan"
    BY <1>1, <2>1, AfterKept DEF Start, Heal, remote
  <2>3. CASE pc' = pc /\ canon' = canon
    <3>1. UNCHANGED <<stage, backup>>
      BY <1>1 DEF Start, Heal, remote
    <3> QED
      BY <2>1, <2>2, <2>3, <3>1, Unnoticed
         DEF Simulated, AtomicInv, CallerPC, OwnTx, OldView, OwnView, Own,
             Begun,
         SetAside, InPlace, IsMove
  <2>4. CASE pc = "down" /\ pc' = "scan"
    <3>1. AtomicInv'
      BY <2>1, <2>2, <2>4
         DEF AtomicInv, CallerPC, OwnTx, OldView, OwnView, Own,
         StartPCs, WorkPCs, RecPCs, RollPCs, TxPCs, PCs
    <3> QED
      BY <2>1, <3>1, Unnoticed DEF Simulated
  <2> QED
    BY <2>2, <2>3, <2>4
<1>2. ASSUME NEW o \in Ops, Begin(o)
      PROVE  Simulated
  <2>1. /\ pc = "idle" /\ pc' = "scan" /\ View' = View /\ op = NoOp
        /\ caller = "none" /\ caller' = "none"
        /\ op' = o /\ old' = View /\ reply' = "none"
    BY <1>2, ViewKept DEF Begin, remote, AtomicInv, CallerPC
  <2>2. AtomicInv'
    BY <2>1 DEF AtomicInv, CallerPC, OwnTx, OldView, OwnView, Own, StartPCs,
         WorkPCs, RecPCs, RollPCs, TxPCs, PCs
  <2>3. AS!Begin(o)
    BY <2>1 DEF AS!Begin
  <2> QED
    BY <2>2, <2>3 DEF Simulated, AS!Next
<1>3. CASE Crash
  <2>1. /\ pc' = "down" /\ View' = View /\ op' = NoOp /\ caller' = "none"
        /\ old' = View /\ reply' = "none"
    BY <1>3, ViewKept DEF Crash, remote
  <2>2. AtomicInv'
    BY <2>1 DEF AtomicInv, CallerPC, OwnTx, OldView, OwnView, Own, StartPCs,
         WorkPCs, RecPCs, RollPCs, TxPCs, PCs
  <2>3. AS!Crash
    BY <2>1 DEF AS!Crash
  <2> QED
    BY <2>2, <2>3 DEF Simulated, AS!Next
<1>4. CASE UNCHANGED vars
  <2>1. /\ View' = View /\ After' = After
        /\ UNCHANGED <<pc, tx, op, caller, reply, old, canon, stage, backup>>
    BY <1>4, ViewKept, AfterKept DEF vars
  <2> QED
    BY <2>1, Unnoticed
       DEF Simulated, AtomicInv, CallerPC, OwnTx, OldView, OwnView, Own, Begun,
         SetAside, InPlace, IsMove
<1> QED
  BY <1>0, <1>1, <1>2, <1>3, <1>4, RecoverySimulated, OperationSimulated
     DEF Next

(* With a journal, ReplaceTx implements AtomicStore: every request changes  *)
(* the tree, as the next request will find it, in one step or not at all,   *)
(* whatever call, reply or save is lost and wherever the process dies; a    *)
(* success or a clean failure is reported truthfully; and recovery changes  *)
(* nothing that can be seen.                                                *)
THEOREM ReplacementIsAtomic ==
  ASSUME Journaled
  PROVE  Spec => Atomic
<1>1. Init => AS!Init /\ AtomicInv
  <2> SUFFICES ASSUME Init PROVE AS!Init /\ AtomicInv
    OBVIOUS
  <2>1. View = canon
    BY EmptyView DEF Init, View
  <2> QED
    BY <2>1 DEF Init, AS!Init, AS!Values, Values, AtomicInv, CallerPC, OwnTx,
         OldView, OwnView, Own, StartPCs, WorkPCs, RecPCs, RollPCs, TxPCs, PCs
<1>2. IInv /\ AtomicInv /\ [Next]_vars => AtomicInv' /\ [AS!Next]_(AS!vars)
  BY StepSimulated DEF Simulated
<1> QED
  BY <1>1, <1>2, InvariantHolds, PTL DEF Spec, Atomic, AS!Spec

(* With a journal, a durable commit is final: from the save of the          *)
(* committed record to its removal no step of the gateway, its recovery     *)
(* included, changes the tree or that record.                              *)
THEOREM CommitsAreFinal ==
  ASSUME Journaled
  PROVE  Spec => CommitIsFinal
<1>1. ASSUME IInv, NEW r \in disk, r.committed
      PROVE  /\ pc \in {"down", "idle", "scan", "saveCommitted", "dropBackup",
                        "forget", "recover", "saveDone", "doneBackup",
                        "doneStage", "recForget"}
             /\ pc \in TxPCs => r = tx /\ Saved(tx) = {tx}
             /\ \A s \in disk : s = r
  <2>1. pc \in TxPCs => r = tx /\ RecordOK(tx) /\ Saved(tx) = {tx}
    BY <1>1, Facts, SavedSingle DEF Lags
  <2>2. pc \in PCs /\ \A s \in disk : s = r
    BY <1>1 DEF IInv, TypeInv, TypeOK, SinglePending
  <2> QED
    BY <1>1, <2>1, <2>2 DEF IInv, JournalPC, RecordPC, RecordOK, UnreadyOK,
         RollPCs, TxPCs, PCs
<1>2. ASSUME IInv, [Next]_vars, NEW r \in disk, r.committed
      PROVE  /\ canon' = canon
             /\ \A s \in disk' : s.id = r.id => s = r
  <2>1. CASE RecoveryStep
    <3>1. /\ canon' = canon
          /\ disk' \in {disk, Saved(tx), Forgotten(tx)}
          /\ pc \in TxPCs \/ disk' = disk
      <4>1. CASE Restore \/ RestoreLost
        BY <1>1, <1>2, <4>1 DEF Restore, RestoreLost, TxPCs, PCs
      <4>2. CASE SaveDone \/ RecForget
        BY <4>2 DEF SaveDone, RecForget, SaveError, remote, TxPCs, PCs
      <4>3. CASE UNCHANGED <<canon, disk>>
        BY <4>3
      <4> QED
        BY <2>1, <4>1, <4>2, <4>3
           DEF RecoveryStep, ScanRecord, ScanDone, ScanFails, RecoverUnready,
           RecoverUnreadyFails, RecoverForward, RecoverBack, RollSource,
           RollSourceFails, RollDest, RollDestFails, RestoreFails,
           VerifyRestored, VerifyRestoredFails, RemoveStage, RemoveStageFails,
           RemoveBackup, RemoveBackupFails, remote
    <3> QED
      BY <1>1, <1>2, <3>1 DEF Forgotten
  <2>2. CASE OperationStep
    <3>1. /\ canon' = canon
          /\ disk' \in {disk, Saved(tx), Forgotten(tx)}
          /\ pc \in {"saveCommitted", "dropBackup", "forget"}
      BY <1>1, <1>2, <2>2
         DEF OperationStep, DirectPerformed, DirectReply, DirectRefused,
             StatDest,
         StatFails, SaveNew, Upload, VerifyStage, ReadOriginal,
         ReadOriginalFails, SaveReady, CleanupStage, StatMove,
         StatMoveDirectory, SaveMove, SaveStarted, Preserve, PreserveLost,
         PreserveFails, Promote, PromoteLost, PromoteFails, Undo, UndoLost,
         UndoFails, VerifyDest, VerifyDestFails, SaveCommitted, SaveOrFail,
         DropBackup, DropBackupFails, Forget, SaveError, remote
    <3> QED
      BY <1>1, <1>2, <3>1 DEF Forgotten, TxPCs, PCs
  <2>3. CASE UNCHANGED <<canon, disk>>
    BY <1>1, <1>2, <2>3
  <2> QED
    BY <1>2, <2>1, <2>2, <2>3 DEF Next, Start, Begin, Crash, Heal, vars, remote
<1>3. IInv /\ [Next]_vars =>
        [\A r \in disk : r.committed =>
           /\ canon' = canon
           /\ \A s \in disk' : s.id = r.id => s = r]_vars
  BY <1>2
<1> QED
  BY <1>3, InvariantHolds, PTL DEF Spec, CommitIsFinal
===============================================================================
