----------------------- MODULE ReplaceTxExternalProofs -----------------------
(***************************************************************************)
(* Proofs about ReplaceTxExternal, for any set of paths, contents and ids, *)
(* any renames that may come late, any files the other client may write,   *)
(* and with or without a journal.                                          *)
(*                                                                         *)
(* IInv of ReplaceTxInv does not hold here: between any two steps another  *)
(* actor may change the tree.  EInv says only what the gateway knows in    *)
(* spite of that: its own journal, and of which original it may remove the *)
(* backup.                                                                 *)
(***************************************************************************)
EXTENDS ReplaceTxExternal, ReplaceTxProofs

ETypeInv ==
  /\ TypeInv
  /\ late \subseteq [kind : LateRenames, record : Record]
  /\ owed \subseteq Contents
  /\ raced \in BOOLEAN

Uncommitted ==
  RollPCs \cup {"saveNew", "upload", "verifyStage", "readOriginal",
                "saveReady", "saveMove", "preserve", "saveStarted", "promote",
                "undo", "verifyDest", "cleanupStage"}
Unpromoted ==
  {"saveNew", "upload", "verifyStage", "readOriginal", "saveReady", "saveMove",
   "preserve", "saveStarted"}
Committed ==
  {"saveCommitted", "dropBackup", "forget", "saveDone", "doneBackup",
   "doneStage"}

(* The journal holds one record, that of the transaction in memory if there *)
(* is one.  It may lag behind, but not in that it claims a commit.          *)
OneRecord ==
  /\ SinglePending
  /\ ~Journaled => disk = {}
  /\ pc \in StartPCs \cup {"saveNew", "saveMove"} => disk = {}
  /\ pc \notin TxPCs => tx = NoTx
  /\ pc \in TxPCs =>
       \A d \in disk : d.id = tx.id /\ (d.committed => d = tx)
  /\ pc \in {"doneBackup", "doneStage"} /\ Journaled => tx \in disk

(* What the code in memory knows of its own progress. *)
OwnProgress ==
  /\ pc \in Uncommitted => ~tx.committed
  /\ pc \in Committed => tx.committed
  /\ pc \in Unpromoted => ~tx.moveStarted
  /\ \A r \in disk \cup {tx} : IsMove(r) => r.source # r.dest /\ r.ready

JournalInv == OneRecord /\ OwnProgress

(* A preserving rename that is still to come is that of a transaction which *)
(* went straight to its recovery; without a journal, that of a move, whose  *)
(* promotion has not begun.                                                 *)
LateInv == \A l \in late :
  l.kind = "preserve" /\ l.record.id = tx.id =>
    /\ pc \in RecPCs
    /\ tx.committed => TakenAsVerified(l.record)
    /\ ~Journaled => IsMove(tx) /\ ~tx.moveStarted /\ ~tx.committed

(* The backup of r may go: its contents are owed to nobody, or are kept     *)
(* elsewhere.                                                               *)
Spared(r) ==
  \/ r.original \notin owed
  \/ r.original \in OnServer
  \/ \E j \in Ids \ {r.id} : backup[j] = r.original

(* A commit, or the readback of a restored original, spares the backup, and *)
(* the other actors leave it so.                                            *)
BackupsSpared ==
  /\ \A r \in disk \cup {tx} : r.committed => Spared(r)
  /\ pc \in {"rollStage", "rollBackup"} => Spared(tx)

EInv ==
  /\ ETypeInv
  /\ JournalInv
  /\ LateInv
  /\ ~raced => NoBytesLost /\ BackupsSpared

-----------------------------------------------------------------------------
(* The journal.                                                            *)

(* A save replaces the one record by that in memory; the types of both. *)
LEMMA JournalFacts ==
  ASSUME TypeInv, JournalInv, pc \in TxPCs
  PROVE  /\ tx \in Record
         /\ tx.id \in Ids /\ tx.dest \in Paths /\ NoId \notin Ids
         /\ Saved(tx) = IF Journaled THEN {tx} ELSE disk
         /\ Forgotten(tx) = {}
<1>1. tx \in Record /\ \A d \in disk : d.id = tx.id
  BY DEF TypeInv, JournalInv, OneRecord
<1> QED
  BY <1>1, ConstantsAssumption DEF Record, Saved, Forgotten

(* Dropping the record in memory leaves a journal of at most one record. *)
LEMMA DroppedJournal ==
  ASSUME TypeInv, JournalInv, pc' \in {"idle", "down", "scan"}, tx' = NoTx,
         \/ disk' = disk
         \/ pc \in TxPCs /\ disk' \in {disk, Saved(tx), Forgotten(tx)}
  PROVE  JournalInv'
<1>1. disk' = disk \/ disk' = {} \/ (Journaled /\ disk' = {tx})
  BY JournalFacts
<1>2. OneRecord'
  BY <1>1 DEF JournalInv, OneRecord, SinglePending, StartPCs, TxPCs
<1>3. OwnProgress'
  BY <1>1 DEF JournalInv, OwnProgress, IsMove, NoTx, Uncommitted, Unpromoted, Committed,
       RollPCs
<1> QED
  BY <1>2, <1>3 DEF JournalInv

(* The ways out of a failed recovery, and its end. *)
LEMMA RecoveryEndsJournal ==
  ASSUME TypeInv, JournalInv, pc \in TxPCs \/ disk' = disk,
         pc = "scan" \/ pc \in TxPCs,
         disk' \in {disk, Saved(tx), Forgotten(tx)},
         RecoveryFails \/ Recovered
  PROVE  JournalInv'
<1>1. pc' \in {"idle", "down", "scan"} /\ tx' = NoTx
  BY DEF RecoveryFails, Recovered, Return, Stopped
<1> QED
  BY <1>1, DroppedJournal

(* An error of an operation leaves the record to recovery or drops it. *)
LEMMA FailJournal ==
  ASSUME TypeInv, JournalInv, pc \in TxPCs,
         disk' \in {disk, Saved(tx), Forgotten(tx)}, Fail
  PROVE  JournalInv'
<1>1. CASE Return("uncertain")
  BY <1>1, DroppedJournal DEF Return
<1>2. CASE pc' = "recover" /\ tx' = tx
  <2>1. disk' = disk \/ disk' = {} \/ (Journaled /\ disk' = {tx})
    BY JournalFacts
  <2>2. OneRecord'
    BY <1>2, <2>1
       DEF JournalInv, OneRecord, SinglePending, StartPCs, TxPCs, PCs
  <2>3. OwnProgress'
    BY <1>2, <2>1 DEF JournalInv, OwnProgress, IsMove, Uncommitted, Unpromoted, Committed,
         RollPCs
  <2> QED
    BY <2>2, <2>3 DEF JournalInv
<1> QED
  BY <1>1, <1>2 DEF Fail

(* Going on with the same record and the same journal. *)
LEMMA GoOnJournal ==
  ASSUME TypeInv, JournalInv, pc \in TxPCs, pc' \in TxPCs,
         UNCHANGED <<disk, tx>>,
         pc' \notin {"saveNew", "saveMove", "doneBackup"},
         pc' \in Unpromoted => pc \in Unpromoted,
         pc' = "doneStage" => pc = "doneBackup",
         pc' \in Uncommitted => ~tx.committed,
         pc' \in Committed => tx.committed
  PROVE  JournalInv'
<1>1. OneRecord'
  BY DEF JournalInv, OneRecord, SinglePending, StartPCs, TxPCs
<1>2. OwnProgress'
  BY DEF JournalInv, OwnProgress, IsMove
<1> QED
  BY <1>1, <1>2 DEF JournalInv

(* The steps of RecoverPending and recoverUpload keep the journal. *)
LEMMA JournalRecovery ==
  ASSUME TypeInv, JournalInv, RecoveryStep
  PROVE  JournalInv'
<1> USE DEF TxPCs, PCs
<1>1. CASE ScanRecord
  <2>1. PICK r \in disk : tx' = r /\ pc' = "recover" /\ disk' = disk
    BY <1>1 DEF ScanRecord
  <2>2. OneRecord'
    BY <2>1 DEF JournalInv, OneRecord, SinglePending, StartPCs
  <2>3. OwnProgress'
    BY <2>1 DEF JournalInv, OwnProgress, IsMove, Uncommitted, Unpromoted, Committed,
         RollPCs
  <2> QED
    BY <2>2, <2>3 DEF JournalInv
<1>2. CASE ScanDone
  <2>1. /\ disk = {} /\ disk' = {} /\ tx' = tx /\ tx = NoTx
        /\ pc' \in {"idle", "statDest", "statMove", "direct"}
    BY <1>2 DEF ScanDone, Continue, FirstStep, JournalInv, OneRecord, TypeInv,
         TypeOK, Ops, NoOp
  <2>2. OneRecord'
    BY <2>1 DEF JournalInv, OneRecord, SinglePending
  <2>3. OwnProgress'
    BY <2>1 DEF JournalInv, OwnProgress, IsMove, NoTx, Uncommitted, Unpromoted, Committed,
         RollPCs
  <2> QED
    BY <2>2, <2>3 DEF JournalInv
<1>3. CASE ScanFails
  BY <1>3, RecoveryEndsJournal DEF ScanFails
<1>4. CASE RecoverForward
  <2>1. /\ pc = "recover" /\ pc' = "saveDone" /\ disk' = disk
        /\ tx' = [tx EXCEPT !.committed = TRUE]
    BY <1>4 DEF RecoverForward
  <2>2. tx \in Record /\ tx' \in Record
    BY <2>1, JournalFacts DEF Record
  <2>3. /\ tx'.id = tx.id /\ tx'.committed /\ (tx.committed => tx' = tx)
        /\ tx'.source = tx.source /\ tx'.dest = tx.dest /\ tx'.ready = tx.ready
    BY <2>1, <2>2 DEF Record
  <2>4. OneRecord'
    BY <2>1, <2>3 DEF JournalInv, OneRecord, SinglePending, StartPCs
  <2>5. OwnProgress'
    BY <2>1, <2>3 DEF JournalInv, OwnProgress, IsMove, Uncommitted, Unpromoted, Committed,
         RollPCs
  <2> QED
    BY <2>4, <2>5 DEF JournalInv
<1>5. CASE \/ RecoverUnreadyFails \/ RollSourceFails \/ RollDestFails
           \/ RestoreLost \/ RestoreFails \/ VerifyRestoredFails
           \/ RemoveStageFails \/ RemoveBackupFails
  BY <1>5, RecoveryEndsJournal
     DEF RecoverUnreadyFails, RollSourceFails, RollDestFails, RestoreLost,
         RestoreFails, VerifyRestoredFails, RemoveStageFails,
         RemoveBackupFails, MoveBack
<1>6. CASE RecoverUnready \/ RecoverBack \/ RollSource \/ RollDest
  BY <1>6, GoOnJournal
     DEF RecoverUnready, RecoverBack, RollSource, RollDest, Continue,
         JournalInv, OwnProgress, Uncommitted, Unpromoted, Committed, RollPCs
<1>7. CASE Restore \/ VerifyRestored \/ RemoveStage \/ RemoveBackup
  BY <1>7, GoOnJournal
     DEF Restore, VerifyRestored, RemoveStage, RemoveBackup, MoveBack,
         Continue, JournalInv, OwnProgress, Uncommitted, Unpromoted, Committed, RollPCs
<1>8. CASE SaveDone
  <2>1. CASE disk' = Saved(tx) /\ Continue("doneBackup")
    <3>1. /\ pc = "saveDone" /\ pc' = "doneBackup" /\ tx' = tx
          /\ disk' = IF Journaled THEN {tx} ELSE disk
      BY <1>8, <2>1, JournalFacts DEF SaveDone, Continue
    <3>2. OneRecord'
      BY <3>1 DEF JournalInv, OneRecord, SinglePending, StartPCs
    <3>3. OwnProgress'
      BY <3>1 DEF JournalInv, OwnProgress, IsMove, Uncommitted, Unpromoted, Committed,
           RollPCs
    <3> QED
      BY <3>2, <3>3 DEF JournalInv
  <2>2. CASE SaveError /\ RecoveryFails
    BY <1>8, <2>2, RecoveryEndsJournal DEF SaveDone, SaveError
  <2> QED
    BY <1>8, <2>1, <2>2 DEF SaveDone
<1>9. CASE RecForget
  BY <1>9, RecoveryEndsJournal DEF RecForget
<1> QED
  BY <1>1, <1>2, <1>3, <1>4, <1>5, <1>6, <1>7, <1>8, <1>9 DEF RecoveryStep

(* The steps of the operations keep the journal. *)
LEMMA JournalOperation ==
  ASSUME TypeInv, JournalInv, OperationStep
  PROVE  JournalInv'
<1> USE DEF TxPCs, PCs
<1>1. CASE DirectPerformed \/ StatMoveDirectory
  <2>1. /\ disk' = disk /\ tx' = tx /\ pc \in StartPCs
        /\ pc' \in {"direct", "directReply"}
    BY <1>1 DEF DirectPerformed, StatMoveDirectory, Continue, StartPCs
  <2>2. OneRecord'
    BY <2>1 DEF JournalInv, OneRecord, SinglePending, StartPCs
  <2>3. OwnProgress'
    BY <2>1 DEF JournalInv, OwnProgress, IsMove, Uncommitted, Unpromoted, Committed,
         RollPCs
  <2> QED
    BY <2>2, <2>3 DEF JournalInv
<1>2. CASE DirectReply \/ DirectRefused \/ StatFails
  BY <1>2, DroppedJournal DEF DirectReply, DirectRefused, StatFails, Return
<1>3. CASE StatDest \/ StatMove
  <2>1. /\ disk' = disk /\ pc' \in {"saveNew", "saveMove"} /\ disk = {}
        /\ \E i \in Ids : \/ tx' = NewTx(i)
                          \/ pc = "statMove" /\ tx' = MoveTx(i)
    BY <1>3 DEF StatDest, StatMove, JournalInv, OneRecord, StartPCs
  <2>2. pc = "statMove" => op.source # op.dest
    BY DEF TypeInv, TypeOK, OpPC, Ops, NoOp
  <2>3. PICK i \in Ids : tx' = NewTx(i) \/ (pc = "statMove" /\ tx' = MoveTx(i))
    BY <2>1
  <2>4. /\ ~tx'.committed /\ ~tx'.moveStarted
        /\ IsMove(tx)' => tx'.source # tx'.dest /\ tx'.ready
    BY <2>2, <2>3 DEF NewTx, MoveTx, NoTx, IsMove
  <2>5. OneRecord'
    BY <2>1 DEF JournalInv, OneRecord, SinglePending, StartPCs
  <2>6. OwnProgress'
    BY <2>1, <2>4 DEF JournalInv, OwnProgress, IsMove, Uncommitted, Unpromoted, Committed,
         RollPCs
  <2> QED
    BY <2>5, <2>6 DEF JournalInv
<1>4. CASE SaveNew \/ SaveMove \/ SaveReady \/ SaveCommitted
  <2>1. pc \in {"saveNew", "saveMove", "saveReady", "saveCommitted"}
    BY <1>4 DEF SaveNew, SaveMove, SaveReady, SaveCommitted
  <2>2. CASE SaveError /\ (Return("failed") \/ Fail)
    BY <2>1, <2>2, FailJournal, DroppedJournal DEF SaveError, Return
  <2>3. CASE ~(SaveError /\ (Return("failed") \/ Fail))
    <3>1. /\ tx' = tx /\ disk' = IF Journaled THEN {tx} ELSE disk
          /\ pc' \in TxPCs \ {"saveNew", "saveMove", "doneBackup", "doneStage"}
          /\ pc' \in Unpromoted => pc \in Unpromoted
          /\ pc' \in Uncommitted => pc \in Uncommitted
          /\ pc' \in Committed => pc \in Committed
      BY <1>4, <2>1, <2>3, JournalFacts
         DEF SaveNew, SaveMove, SaveReady, SaveCommitted, SaveFirst,
             SaveOrFail, Continue, Uncommitted, Unpromoted, Committed, RollPCs
    <3>2. OneRecord'
      BY <2>1, <3>1 DEF JournalInv, OneRecord, SinglePending, StartPCs
    <3>3. OwnProgress'
      BY <2>1, <3>1 DEF JournalInv, OwnProgress, IsMove
    <3> QED
      BY <3>2, <3>3 DEF JournalInv
  <2> QED
    BY <2>2, <2>3
<1>5. CASE Upload \/ VerifyStage \/ ReadOriginalFails
  BY <1>5, GoOnJournal
     DEF Upload, VerifyStage, ReadOriginalFails, Continue, JournalInv,
         OwnProgress, Uncommitted, Unpromoted, Committed, RollPCs
<1>6. CASE ReadOriginal \/ VerifyDest
  <2>1. /\ disk' = disk /\ pc \in TxPCs
        /\ \/ /\ pc = "readOriginal" /\ pc' = "saveReady"
              /\ tx' = [tx EXCEPT !.original = canon[tx.dest], !.ready = TRUE]
           \/ /\ pc = "verifyDest" /\ pc' = "saveCommitted"
              /\ tx' = [tx EXCEPT !.committed = TRUE]
    BY <1>6 DEF ReadOriginal, VerifyDest
  <2>2. tx \in Record /\ ~tx.committed /\ \A d \in disk : ~d.committed
    BY <2>1, JournalFacts DEF JournalInv, OneRecord, OwnProgress, Uncommitted
  <2>3. /\ tx'.id = tx.id /\ tx'.source = tx.source /\ tx'.dest = tx.dest
        /\ tx'.moveStarted = tx.moveStarted /\ (tx.ready => tx'.ready)
        /\ tx'.committed <=> pc = "verifyDest"
    BY <2>1, <2>2 DEF Record
  <2>4. OneRecord'
    BY <2>1, <2>2, <2>3 DEF JournalInv, OneRecord, SinglePending, StartPCs
  <2>5. OwnProgress'
    BY <2>1, <2>3 DEF JournalInv, OwnProgress, IsMove, Uncommitted, Unpromoted,
         Committed, RollPCs
  <2> QED
    BY <2>4, <2>5 DEF JournalInv
<1>7. CASE SaveStarted
  <2>1. /\ pc = "saveStarted" /\ pc' \in {"promote", "recover"}
        /\ tx' = [tx EXCEPT !.moveStarted = TRUE]
        /\ disk' \in {disk, Saved(tx')}
    BY <1>7 DEF SaveStarted
  <2>2. tx \in Record /\ ~tx.committed /\ \A d \in disk : d.id = tx.id /\ ~d.committed
    BY <2>1, JournalFacts DEF JournalInv, OneRecord, OwnProgress, Uncommitted
  <2>3. /\ tx'.id = tx.id /\ tx'.source = tx.source /\ tx'.dest = tx.dest
        /\ tx'.ready = tx.ready /\ ~tx'.committed
    BY <2>1, <2>2 DEF Record
  <2>4. disk' = disk \/ (Journaled /\ disk' = {tx'})
    BY <2>1, <2>2, <2>3 DEF Saved
  <2>5. OneRecord'
    BY <2>1, <2>2, <2>3, <2>4
       DEF JournalInv, OneRecord, SinglePending, StartPCs
  <2>6. OwnProgress'
    BY <2>1, <2>3, <2>4 DEF JournalInv, OwnProgress, IsMove, Uncommitted,
         Unpromoted, Committed, RollPCs
  <2> QED
    BY <2>5, <2>6 DEF JournalInv
<1>8. CASE \/ PreserveLost \/ PreserveFails \/ UndoLost \/ UndoFails
           \/ VerifyDestFails \/ CleanupStage \/ DropBackupFails
  BY <1>8, FailJournal
     DEF PreserveLost, PreserveFails, UndoLost, UndoFails, VerifyDestFails,
         CleanupStage, DropBackupFails, MoveToBackup, MoveBack
<1>9. CASE Preserve \/ Promote \/ Undo \/ DropBackup
  BY <1>9, GoOnJournal
     DEF Preserve, Promote, Undo, DropBackup, MoveToBackup, MoveIntoPlace,
         MoveBack, Continue, JournalInv, OwnProgress, Uncommitted, Unpromoted,
         Committed, RollPCs
<1>10. CASE PromoteLost \/ PromoteFails
  BY <1>10, GoOnJournal, FailJournal
     DEF PromoteLost, PromoteFails, PromotionFailed, MoveIntoPlace, remote,
         Continue, JournalInv, OwnProgress, Uncommitted, Unpromoted,
         Committed, RollPCs
<1>11. CASE Forget
  BY <1>11, DroppedJournal, FailJournal DEF Forget, Return
<1> QED
  BY <1>1, <1>2, <1>3, <1>4, <1>5, <1>6, <1>7, <1>8, <1>9, <1>10, <1>11
     DEF OperationStep

(* Every step of the gateway keeps the journal. *)
LEMMA JournalNext ==
  ASSUME TypeInv, JournalInv, Next
  PROVE  JournalInv'
<1>1. CASE Start \/ (\E o \in Ops : Begin(o)) \/ Crash
  BY <1>1, DroppedJournal
     DEF Start, Begin, Crash, JournalInv, OneRecord, TxPCs
<1>2. CASE Heal
  BY <1>2 DEF Heal, JournalInv, OneRecord, OwnProgress, SinglePending, IsMove
<1> QED
  BY <1>1, <1>2, JournalRecovery, JournalOperation DEF Next

-----------------------------------------------------------------------------
(* What a step of the gateway does to the record, and to the server.       *)

RenamePCs == {"preserve", "promote", "undo", "restore"}
RemovePCs == {"dropBackup", "rollBackup", "doneBackup"}

(* The record in memory is kept or dropped, read from the journal, changed *)
(* before its commit, or committed.                                        *)
LEMMA RecordSteps ==
  ASSUME TypeInv, JournalInv, Next
  PROVE  \/ /\ tx' \in {tx, NoTx}
            /\ disk' \in {disk, Saved(tx), Forgotten(tx)}
            /\ disk' = disk \/ pc \in TxPCs
         \/ pc = "scan" /\ tx = NoTx /\ tx' \in disk /\ disk' = disk
         \/ /\ ~tx'.committed
            /\ disk' \in {disk, Saved(tx')}
            /\ \A d \in disk : ~d.committed
         \/ /\ VerifyDest \/ RecoverForward
            /\ tx' = [tx EXCEPT !.committed = TRUE]
            /\ disk' = disk
<1>1. CASE RecoveryStep
  <2>1. pc = "scan" => tx = NoTx
    BY DEF JournalInv, OneRecord, TxPCs
  <2> QED
    BY <1>1, <2>1
       DEF RecoveryStep, ScanRecord, ScanDone, ScanFails, RecoverUnready,
         RecoverUnreadyFails, RecoverForward, RecoverBack, RollSource,
         RollSourceFails, RollDest, RollDestFails, Restore, RestoreLost,
         RestoreFails, VerifyRestored, VerifyRestoredFails, RemoveStage,
         RemoveStageFails, RemoveBackup, RemoveBackupFails, SaveDone, SaveError,
         RecForget, MoveBack, Continue, RecoveryFails, Recovered, Return,
         Stopped, TxPCs, PCs
<1>2. CASE StatDest \/ StatMove \/ ReadOriginal \/ SaveStarted
  <2>1. \/ /\ pc \in {"statDest", "statMove"} /\ disk' = disk
           /\ \E i \in Ids : tx' = NewTx(i) \/ tx' = MoveTx(i)
        \/ /\ pc = "readOriginal" /\ disk' = disk
           /\ tx' = [tx EXCEPT !.original = canon[tx.dest], !.ready = TRUE]
        \/ /\ pc = "saveStarted" /\ disk' \in {disk, Saved(tx')}
           /\ tx' = [tx EXCEPT !.moveStarted = TRUE]
    BY <1>2 DEF StatDest, StatMove, ReadOriginal, SaveStarted
  <2>2. CASE pc \in {"statDest", "statMove"}
    <3>1. disk = {}
      BY <2>2 DEF JournalInv, OneRecord, StartPCs
    <3> QED
      BY <2>1, <2>2, <3>1 DEF NewTx, MoveTx, NoTx
  <2>3. CASE pc \in {"readOriginal", "saveStarted"}
    <3>1. /\ tx \in Record /\ ~tx.committed
          /\ \A d \in disk : ~d.committed
      BY <2>3, JournalFacts
         DEF JournalInv, OneRecord, OwnProgress, Uncommitted, TxPCs, PCs
    <3>2. ~tx'.committed
      BY <2>1, <2>3, <3>1 DEF Record
    <3> QED
      BY <2>1, <2>3, <3>1, <3>2
  <2> QED
    BY <2>1, <2>2, <2>3
<1>3. CASE VerifyDest
  BY <1>3 DEF VerifyDest
<1>4. CASE OperationStep /\ ~(StatDest \/ StatMove \/ ReadOriginal
                               \/ SaveStarted \/ VerifyDest)
  BY <1>4
     DEF OperationStep, DirectPerformed, DirectReply, DirectRefused, StatFails,
       SaveNew, Upload, VerifyStage, ReadOriginalFails, SaveReady,
       CleanupStage, StatMoveDirectory, SaveMove, Preserve, PreserveLost,
       PreserveFails, Promote, PromoteLost, PromoteFails, PromotionFailed,
       Undo, UndoLost, UndoFails, VerifyDestFails, SaveCommitted, DropBackup,
       DropBackupFails, Forget, SaveFirst, SaveOrFail, SaveError, MoveToBackup,
       MoveIntoPlace, MoveBack, Continue, Fail, Return, TxPCs, PCs
<1>5. CASE Start \/ (\E o \in Ops : Begin(o)) \/ Crash \/ Heal
  BY <1>5 DEF Start, Begin, Crash, Heal
<1> QED
  BY <1>1, <1>2, <1>3, <1>4, <1>5 DEF Next

(* The tree and the backups change by a rename, by a direct call or by the *)
(* removal of a backup that holds the recorded original.                   *)
LEMMA ServerSteps ==
  ASSUME Next
  PROVE  \/ UNCHANGED <<canon, backup>>
         \/ /\ pc \in RenamePCs /\ tx' \in {tx, NoTx} /\ disk' = disk
            /\ MoveToBackup \/ MoveIntoPlace \/ MoveBack
         \/ DirectPerformed
         \/ /\ pc \in RemovePCs
            /\ tx' \in {tx, NoTx} /\ disk' = disk
            /\ canon' = canon
            /\ backup' = Removed(backup, tx.original)
<1>1. CASE RecoveryStep
  BY <1>1
     DEF RecoveryStep, ScanRecord, ScanDone, ScanFails, RecoverUnready,
       RecoverUnreadyFails, RecoverForward, RecoverBack, RollSource,
       RollSourceFails, RollDest, RollDestFails, Restore, RestoreLost,
       RestoreFails, VerifyRestored, VerifyRestoredFails, RemoveStage,
       RemoveStageFails, RemoveBackup, RemoveBackupFails, SaveDone, SaveError,
       RecForget, MoveBack, Continue, RecoveryFails, Return, Stopped, remote,
       RenamePCs, RemovePCs
<1>2. CASE OperationStep
  BY <1>2
     DEF OperationStep, DirectReply, DirectRefused, StatDest, StatMove,
       ReadOriginal, SaveStarted, VerifyDest, StatFails,
       SaveNew, Upload, VerifyStage, ReadOriginalFails, SaveReady,
       CleanupStage, StatMoveDirectory, SaveMove, Preserve, PreserveLost,
       PreserveFails, Promote, PromoteLost, PromoteFails, PromotionFailed,
       Undo, UndoLost, UndoFails, VerifyDestFails, SaveCommitted, DropBackup,
       DropBackupFails, Forget, SaveFirst, SaveOrFail, SaveError, MoveToBackup,
       MoveIntoPlace, MoveBack, Continue, Fail, Return, remote, RenamePCs,
       RemovePCs
<1> QED
  BY <1>1, <1>2 DEF Next, Start, Begin, Crash, Heal, remote

-----------------------------------------------------------------------------
(* What renames, the gateway's or late ones, do to bytes.                  *)

Servers == canon \in [Paths -> Values] /\ backup \in [Ids -> Values]

(* A file set aside under backup i is kept there. *)
LEMMA AsideKeeps ==
  ASSUME Servers, NEW p \in Paths, NEW i \in Ids, backup[i] = Absent,
         backup' = [backup EXCEPT ![i] = canon[p]],
         canon' = [canon EXCEPT ![p] = Absent],
         NEW v \in Contents
  PROVE  /\ Kept(v) => Kept(v)'
         /\ v \in OnServer => v \in OnServer' \/ backup'[i] = v
         /\ \A j \in Ids : backup[j] = v => backup'[j] = v
<1>1. v # Absent
  BY ConstantsAssumption
<1>2. \A j \in Ids : backup[j] = v => backup'[j] = v
  BY <1>1 DEF Servers
<1>3. ASSUME NEW q \in Paths, canon[q] = v
      PROVE  v \in OnServer' \/ backup'[i] = v
  <2>1. CASE q = p
    BY <1>3, <2>1 DEF Servers
  <2>2. CASE q # p
    BY <1>3, <2>2 DEF Servers, OnServer
  <2> QED
    BY <2>1, <2>2
<1> QED
  BY <1>2, <1>3 DEF Kept, OnServer

(* A backup that is put back is kept at its destination. *)
LEMMA BackKeeps ==
  ASSUME Servers, NEW p \in Paths, NEW i \in Ids, canon[p] = Absent,
         canon' = [canon EXCEPT ![p] = backup[i]],
         backup' = [backup EXCEPT ![i] = Absent],
         NEW v \in Contents
  PROVE  /\ Kept(v) => Kept(v)'
         /\ v \in OnServer => v \in OnServer'
         /\ \A j \in Ids : backup[j] = v => backup'[j] = v \/ v \in OnServer'
<1>1. v # Absent
  BY ConstantsAssumption
<1>2. canon'[p] = backup[i] /\ \A q \in Paths : q # p => canon'[q] = canon[q]
  BY DEF Servers
<1>3. v \in OnServer => v \in OnServer'
  BY <1>1, <1>2 DEF OnServer
<1>4. \A j \in Ids : backup[j] = v => backup'[j] = v \/ v \in OnServer'
  BY <1>2 DEF Servers, OnServer
<1> QED
  BY <1>3, <1>4 DEF Kept

(* A file renamed to, or appearing at, a free path displaces nothing. *)
LEMMA PlaceKeeps ==
  ASSUME Servers, NEW p \in Paths, NEW s \in Paths, canon[p] = Absent,
         NEW x,
         \/ canon' = [canon EXCEPT ![p] = x]
         \/ canon' = [canon EXCEPT ![p] = canon[s], ![s] = Absent]
            /\ canon[s] # Absent,
         backup' = backup,
         NEW v \in Contents
  PROVE  /\ Kept(v) => Kept(v)'
         /\ v \in OnServer => v \in OnServer'
<1>1. v # Absent
  BY ConstantsAssumption
<1>2. ASSUME NEW q \in Paths, canon[q] = v
      PROVE  v \in OnServer'
  <2>1. q # p
    BY <1>1, <1>2
  <2>2. CASE canon' = [canon EXCEPT ![p] = x]
    BY <1>2, <2>1, <2>2 DEF Servers, OnServer
  <2>3. CASE canon' = [canon EXCEPT ![p] = canon[s], ![s] = Absent]
             /\ canon[s] # Absent
    <3>1. s # p /\ canon'[p] = canon[s]
      BY <2>3 DEF Servers
    <3>2. CASE q = s
      BY <1>2, <3>1, <3>2 DEF OnServer
    <3>3. CASE q # s
      BY <1>2, <2>1, <2>3, <3>3 DEF Servers, OnServer
    <3> QED
      BY <3>2, <3>3
  <2> QED
    BY <2>2, <2>3
<1>3. v \in OnServer => v \in OnServer'
  BY <1>2 DEF OnServer
<1> QED
  BY <1>3 DEF Kept

(* The renames of a replacement lose nothing. *)
LEMMA RenamesKeep ==
  ASSUME Servers, tx.dest \in Paths, tx.id \in Ids,
         tx.source \in Paths \cup {NoPath},
         MoveToBackup \/ MoveIntoPlace \/ MoveBack,
         NEW v \in Contents, Kept(v)
  PROVE  Kept(v)'
<1>1. CASE MoveToBackup
  BY <1>1, AsideKeeps DEF MoveToBackup, CanPreserve
<1>2. CASE MoveIntoPlace
  <2>1. CASE IsMove(tx)
    BY <1>2, <2>1, PlaceKeeps DEF MoveIntoPlace, CanPromote, Promoted, IsMove
  <2>2. CASE ~IsMove(tx)
    BY <1>2, <2>2, PlaceKeeps DEF MoveIntoPlace, CanPromote, Promoted
  <2> QED
    BY <2>1, <2>2
<1>3. CASE MoveBack
  BY <1>3, BackKeeps DEF MoveBack, CanRestore
<1> QED
  BY <1>1, <1>2, <1>3

-----------------------------------------------------------------------------
(* The gateway's steps lose nothing.                                       *)

(* Only a readback of the new bytes at the destination commits. *)
LEMMA CommitSteps ==
  ASSUME TypeInv, JournalInv, Next, Commits
  PROVE  /\ tx \in Record /\ tx.hash \in OnServer
         /\ tx' = [tx EXCEPT !.committed = TRUE]
         /\ UNCHANGED <<canon, backup, disk>>
<1>1. ~(tx' \in {tx, NoTx}) /\ tx'.committed /\ ~tx.committed
  BY DEF Commits, NoTx
<1>2. pc = "scan" /\ tx = NoTx => tx' \notin disk
  <2>1. \A d \in disk : d.id \in Ids
    BY DEF TypeInv, TypeOK, Record
  <2> QED
    BY <2>1, ConstantsAssumption DEF Commits, NoTx
<1>3. VerifyDest \/ RecoverForward
  BY <1>1, <1>2, RecordSteps
<1>4. pc \in TxPCs
  BY <1>3 DEF VerifyDest, RecoverForward, TxPCs, PCs
<1>5. /\ canon[tx.dest] = tx.hash /\ tx' = [tx EXCEPT !.committed = TRUE]
      /\ UNCHANGED <<canon, backup, disk>>
  BY <1>1, <1>3 DEF VerifyDest, RecoverForward, remote
<1> QED
  BY <1>4, <1>5, JournalFacts DEF OnServer

(* A step gives up what a commit replaces or a DELETE deletes, and owes the *)
(* new bytes of a commit besides.                                           *)
LEMMA OweSteps ==
  ASSUME Owe
  PROVE  /\ Commits => /\ owed' \subseteq owed \cup {tx.hash}
                       /\ tx.original \in owed' =>
                            tx.original = tx.hash \/ tx.original \in OnServer'
         /\ ~Commits => owed' \subseteq owed
         /\ ~Commits /\ Deletes =>
              \A v \in owed' : v = canon[op.dest] => v \in OnServer'
         /\ ~Commits /\ ~Deletes => owed' = owed
  BY DEF Owe, OwedWithout

(* DELETE gives up what it deletes; MKCOL and a plain move delete nothing. *)
LEMMA DirectKeeps ==
  ASSUME ETypeInv, DirectPerformed, Owe, NEW v \in owed, v \in owed', Kept(v)
  PROVE  Kept(v)'
<1>1. /\ Servers /\ v \in Contents /\ op \in Ops /\ pc = "direct"
      /\ pc' = "directReply" /\ tx' = tx /\ backup' = backup
      /\ canon' = Effect(op, canon) /\ Permitted(op)
      /\ op.kind \in {"move", "rename", "mkdir", "delete"}
  BY DEF ETypeInv, TypeInv, TypeOK, OpPC, Servers, DirectPerformed, Continue,
     Ops, NoOp
<1>2. op.dest \in Paths
  BY <1>1 DEF Ops
<1>3. CASE op.kind = "delete"
  <2>1. ~Commits /\ Deletes
    BY <1>1, <1>3 DEF Commits, Deletes
  <2>2. canon' = [canon EXCEPT ![op.dest] = Absent]
    BY <1>1, <1>3 DEF Effect
  <2>3. CASE v = canon[op.dest]
    BY <2>1, <2>3, OweSteps DEF Kept
  <2>4. CASE v # canon[op.dest]
    BY <1>1, <1>2, <2>2, <2>4 DEF Kept, OnServer, Servers
  <2> QED
    BY <2>3, <2>4
<1>4. CASE op.kind = "mkdir"
  <2>1. canon[op.dest] = Absent /\ canon' = [canon EXCEPT ![op.dest] = Dir]
    BY <1>1, <1>4 DEF Effect, Permitted
  <2> QED
    BY <1>1, <1>2, <2>1, PlaceKeeps
<1>5. CASE op.kind \in {"move", "rename"}
  <2>1. /\ canon[op.dest] = Absent /\ canon[op.source] # Absent
        /\ canon' = [canon EXCEPT ![op.dest] = canon[op.source],
                                  ![op.source] = Absent]
    BY <1>1, <1>5 DEF Effect, Permitted
  <2>2. op.source \in Paths
    BY <1>1, <1>5 DEF Ops
  <2> QED
    BY <1>1, <1>2, <2>1, <2>2, PlaceKeeps
<1> QED
  BY <1>1, <1>3, <1>4, <1>5

(* A removed backup was spared. *)
LEMMA RemovalKeeps ==
  ASSUME ETypeInv, JournalInv, BackupsSpared, pc \in RemovePCs,
         canon' = canon, backup' = Removed(backup, tx.original),
         NEW v \in owed, Kept(v)
  PROVE  Kept(v)'
<1>1. Spared(tx)
  BY DEF BackupsSpared, RemovePCs, JournalInv, OwnProgress, Committed
<1>2. /\ v \in Contents /\ v # Absent /\ Servers
      /\ OnServer' = OnServer
  BY ConstantsAssumption DEF ETypeInv, TypeInv, TypeOK, Servers, OnServer
<1>3. \A j \in Ids : j # tx.id \/ v # tx.original => backup'[j] = v <=> backup[j] = v
  BY <1>2 DEF Removed, Known, Servers
<1>4. CASE v = tx.original
  BY <1>1, <1>2, <1>3, <1>4 DEF Spared, Kept
<1>5. CASE v # tx.original
  BY <1>2, <1>3, <1>5 DEF Kept
<1> QED
  BY <1>4, <1>5

(* After a step of the gateway every owed content is kept. *)
LEMMA GatewayKeeps ==
  ASSUME ETypeInv, JournalInv, NoBytesLost, BackupsSpared, Next, Owe
  PROVE  NoBytesLost'
<1> SUFFICES ASSUME NEW v \in owed'
             PROVE  Kept(v)'
  BY DEF NoBytesLost
<1>0. TypeInv /\ Servers /\ owed \subseteq Contents
  BY DEF ETypeInv, TypeInv, TypeOK, Servers
<1>1. CASE v \notin owed
  <2>1. Commits /\ v = tx.hash
    BY <1>1, OweSteps
  <2> QED
    BY <1>0, <2>1, CommitSteps DEF Kept, OnServer
<1>2. CASE v \in owed
  <2>1. Kept(v) /\ v \in Contents
    BY <1>0, <1>2 DEF NoBytesLost
  <2>2. CASE UNCHANGED <<canon, backup>>
    BY <2>1, <2>2 DEF Kept, OnServer
  <2>3. CASE pc \in RenamePCs /\ (MoveToBackup \/ MoveIntoPlace \/ MoveBack)
    <3>1. tx \in Record
      BY <1>0, <2>3, JournalFacts DEF RenamePCs, TxPCs, PCs
    <3> QED
      BY <1>0, <2>1, <2>3, <3>1, RenamesKeep DEF Record
  <2>4. CASE DirectPerformed
    BY <1>2, <2>1, <2>4, DirectKeeps
  <2>5. CASE /\ pc \in RemovePCs /\ canon' = canon
             /\ backup' = Removed(backup, tx.original)
    BY <1>2, <2>1, <2>5, RemovalKeeps
  <2> QED
    BY <2>2, <2>3, <2>4, <2>5, ServerSteps
<1> QED
  BY <1>1, <1>2

(* Contents that are spared stay so while neither the tree nor the other    *)
(* backups change.                                                          *)
LEMMA StaysSpared ==
  ASSUME TypeInv, JournalInv, Next, Owe, NEW r, Spared(r), canon' = canon,
         \A j \in Ids \ {r.id} : backup'[j] = backup[j]
  PROVE  Spared(r)'
<1>1. OnServer' = OnServer
  BY DEF OnServer
<1>2. r.original \in owed' => r.original \in owed \/ r.original \in OnServer
  BY OweSteps, CommitSteps
<1> QED
  BY <1>1, <1>2 DEF Spared

(* A record that is committed after a step was committed before it, or is  *)
(* the one that the step commits.                                          *)
LEMMA CommittedFrom ==
  ASSUME TypeInv, JournalInv, Next, NEW r \in disk' \cup {tx'}, r.committed
  PROVE  r \in disk \cup {tx} \/ (Commits /\ r = tx')
<1>1. CASE /\ tx' \in {tx, NoTx} /\ disk' \in {disk, Saved(tx), Forgotten(tx)}
  BY <1>1 DEF Saved, Forgotten, NoTx
<1>2. CASE pc = "scan" /\ tx' \in disk /\ disk' = disk
  BY <1>2
<1>3. CASE ~tx'.committed /\ disk' \in {disk, Saved(tx')}
  BY <1>3 DEF Saved
<1>4. CASE /\ VerifyDest \/ RecoverForward
           /\ tx' = [tx EXCEPT !.committed = TRUE] /\ disk' = disk
  <2>1. tx \in Record
    BY <1>4, JournalFacts DEF VerifyDest, RecoverForward, TxPCs, PCs
  <2>2. tx'.id = tx.id /\ tx'.committed /\ (tx.committed => tx' = tx)
    BY <1>4, <2>1 DEF Record
  <2> QED
    BY <1>4, <2>2 DEF Commits
<1> QED
  BY <1>1, <1>2, <1>3, <1>4, RecordSteps

(* Recovery removes a backup after a rollback only once it has seen the    *)
(* original at its destination, or that there was none.                    *)
LEMMA RollbackSteps ==
  ASSUME TypeInv, JournalInv, Next, pc' \in {"rollStage", "rollBackup"}
  PROVE  /\ tx' = tx /\ UNCHANGED <<canon, backup>>
         /\ \/ pc \in {"rollStage", "rollBackup"}
            \/ tx.original = Absent
            \/ tx.original \in OnServer
<1>1. CASE RollDest \/ VerifyRestored \/ RemoveStage
  <2>1. tx.dest \in Paths
    BY <1>1, JournalFacts DEF RollDest, VerifyRestored, RemoveStage, TxPCs, PCs
  <2> QED
    BY <1>1, <2>1
       DEF RollDest, VerifyRestored, RemoveStage, Continue, HadOriginal,
           OnServer, remote
<1>2. CASE RecoveryStep /\ ~(RollDest \/ VerifyRestored \/ RemoveStage)
  BY <1>2
     DEF RecoveryStep, ScanRecord, ScanDone, ScanFails, FirstStep,
       RecoverUnready, RecoverUnreadyFails, RecoverForward, RecoverBack,
       RollSource, RollSourceFails, RollDestFails, Restore, RestoreLost,
       RestoreFails, VerifyRestoredFails, RemoveStageFails, RemoveBackup,
       RemoveBackupFails, SaveDone, SaveError, RecForget, MoveBack, Continue,
       RecoveryFails, Recovered, Return, Stopped, TypeInv, TypeOK, Ops, NoOp
<1>3. CASE OperationStep
  BY <1>3
     DEF OperationStep, DirectPerformed, DirectReply, DirectRefused, StatDest,
       StatMove, ReadOriginal, SaveStarted, VerifyDest, StatFails,
       SaveNew, Upload, VerifyStage, ReadOriginalFails, SaveReady,
       CleanupStage, StatMoveDirectory, SaveMove, Preserve, PreserveLost,
       PreserveFails, Promote, PromoteLost, PromoteFails, PromotionFailed,
       Undo, UndoLost, UndoFails, VerifyDestFails, SaveCommitted, DropBackup,
       DropBackupFails, Forget, SaveFirst, SaveOrFail, SaveError, MoveToBackup,
       MoveIntoPlace, MoveBack, Continue, Fail, Return
<1>4. CASE Heal
  BY <1>4 DEF Heal, remote
<1> QED
  BY <1>1, <1>2, <1>3, <1>4 DEF Next, Start, Begin, Crash

(* No step of the gateway puts a backup in danger that may be removed.     *)
LEMMA GatewaySpares ==
  ASSUME ETypeInv, JournalInv, BackupsSpared, Next, Owe
  PROVE  BackupsSpared'
<1>0. TypeInv /\ owed \subseteq Contents
  BY DEF ETypeInv
<1>1. ASSUME NEW r \in disk' \cup {tx'}, r.committed
      PROVE  Spared(r)'
  <2>1. CASE Commits /\ r = tx'
    <3>1. /\ tx \in Record /\ tx.hash \in OnServer'
          /\ tx' = [tx EXCEPT !.committed = TRUE]
      BY <1>0, <2>1, CommitSteps DEF OnServer
    <3>2. tx'.original = tx.original
      BY <3>1 DEF Record
    <3>3. tx'.original \notin owed' \/ tx'.original \in OnServer'
      BY <2>1, <3>1, <3>2, OweSteps
    <3> QED
      BY <2>1, <3>3 DEF Spared
  <2>2. CASE r \in disk \cup {tx}
    <3>1. Spared(r)
      BY <1>1, <2>2 DEF BackupsSpared
    <3>2. pc \in TxPCs => tx.committed /\ r.id = tx.id
      BY <1>1, <2>2 DEF JournalInv, OneRecord
    <3>3. CASE UNCHANGED <<canon, backup>>
      BY <1>0, <3>1, <3>3, StaysSpared
    <3>4. CASE pc \in RenamePCs
      BY <3>2, <3>4 DEF RenamePCs, JournalInv, OwnProgress, Uncommitted,
           RollPCs, TxPCs, PCs
    <3>5. CASE DirectPerformed
      BY <1>1, <2>2, <3>5
         DEF DirectPerformed, JournalInv, OneRecord, StartPCs, TxPCs, NoTx
    <3>6. CASE /\ pc \in RemovePCs /\ canon' = canon
               /\ backup' = Removed(backup, tx.original)
      <4>1. r.id = tx.id
        BY <3>2, <3>6 DEF RemovePCs, TxPCs, PCs
      <4>2. \A j \in Ids \ {r.id} : backup'[j] = backup[j]
        BY <1>0, <3>6, <4>1 DEF Removed, TypeInv, TypeOK
      <4> QED
        BY <1>0, <3>1, <3>6, <4>2, StaysSpared
    <3> QED
      BY <3>3, <3>4, <3>5, <3>6, ServerSteps
  <2> QED
    BY <1>0, <1>1, <2>1, <2>2, CommittedFrom
<1>2. ASSUME pc' \in {"rollStage", "rollBackup"}
      PROVE  Spared(tx)'
  <2>1. Absent \notin owed
    BY <1>0, ConstantsAssumption
  <2>2. /\ tx' = tx /\ UNCHANGED <<canon, backup>>
        /\ Spared(tx)
    BY <1>0, <1>2, <2>1, RollbackSteps DEF BackupsSpared, Spared
  <2>3. owed' = owed /\ OnServer' = OnServer
    BY <1>2, <2>2, OweSteps DEF Commits, Deletes, OnServer
  <2> QED
    BY <2>2, <2>3 DEF Spared
<1> QED
  BY <1>1, <1>2 DEF BackupsSpared

-----------------------------------------------------------------------------
(* Late preserving renames.                                                *)

(* recoverUpload keeps its record to the end, but for marking it committed. *)
LEMMA RecoverySteps ==
  ASSUME Next, pc \in RecPCs, tx' # NoTx
  PROVE  /\ pc' \in RecPCs /\ disk' \in {disk, Saved(tx)}
         /\ \/ /\ tx' = tx
               /\ pc = "saveDone" => pc' \in {"saveDone", "doneBackup"}
               /\ pc = "doneBackup" => pc' \in {"doneBackup", "doneStage"}
            \/ RecoverForward
<1> USE DEF RecPCs, RollPCs
<1>1. CASE RecoveryStep
  BY <1>1
     DEF RecoveryStep, ScanRecord, ScanDone, ScanFails, RecoverUnready,
       RecoverUnreadyFails, RecoverForward, RecoverBack, RollSource,
       RollSourceFails, RollDest, RollDestFails, Restore, RestoreLost,
       RestoreFails, VerifyRestored, VerifyRestoredFails, RemoveStage,
       RemoveStageFails, RemoveBackup, RemoveBackupFails, SaveDone, SaveError,
       RecForget, MoveBack, Continue, RecoveryFails, Recovered, Return,
       Stopped
<1>2. CASE OperationStep
  BY <1>2
     DEF OperationStep, DirectPerformed, DirectReply, DirectRefused, StatDest,
       StatMove, ReadOriginal, SaveStarted, VerifyDest, StatFails, SaveNew,
       Upload, VerifyStage, ReadOriginalFails, SaveReady, CleanupStage,
       StatMoveDirectory, SaveMove, Preserve, PreserveLost, PreserveFails,
       Promote, PromoteLost, PromoteFails, Undo, UndoLost, UndoFails,
       VerifyDestFails, SaveCommitted, DropBackup, DropBackupFails, Forget
<1> QED
  BY <1>1, <1>2 DEF Next, Start, Begin, Crash, Heal

(* A record comes into memory from the journal or by a new transaction.    *)
LEMMA FirstSteps ==
  ASSUME TypeInv, JournalInv, Next, pc \notin TxPCs, tx' # tx
  PROVE  ScanRecord \/ tx' = NoTx \/ (disk = {} /\ pc \in StartPCs)
<1>1. CASE RecoveryStep
  BY <1>1
     DEF RecoveryStep, ScanDone, ScanFails, RecoverUnready,
       RecoverUnreadyFails, RecoverForward, RecoverBack, RollSource,
       RollSourceFails, RollDest, RollDestFails, Restore, RestoreLost,
       RestoreFails, VerifyRestored, VerifyRestoredFails, RemoveStage,
       RemoveStageFails, RemoveBackup, RemoveBackupFails, SaveDone,
       RecForget, Continue, RecoveryFails, Return, Stopped, TxPCs, PCs
<1>2. CASE OperationStep
  <2>1. pc \in StartPCs => disk = {}
    BY DEF JournalInv, OneRecord
  <2>2. pc \in StartPCs
    BY <1>2
       DEF OperationStep, DirectPerformed, DirectReply, DirectRefused,
       StatDest, StatMove, ReadOriginal, SaveStarted, VerifyDest, StatFails,
       SaveNew, Upload, VerifyStage, ReadOriginalFails, SaveReady,
       CleanupStage, StatMoveDirectory, SaveMove, Preserve, PreserveLost,
       PreserveFails, Promote, PromoteLost, PromoteFails, Undo, UndoLost,
       UndoFails, VerifyDestFails, SaveCommitted, DropBackup, DropBackupFails,
       Forget, StartPCs, TxPCs, PCs
  <2> QED
    BY <2>1, <2>2
<1> QED
  BY <1>1, <1>2 DEF Next, Start, Begin, Crash, Heal

(* Steps that give nothing up keep what is known of late renames. *)
LEMMA LateGateway ==
  ASSUME ETypeInv, JournalInv, JournalInv', LateInv, Next, late' = late,
         \A l \in late : tx'.id = l.record.id => tx.id = tx'.id \/ tx' \in disk
  PROVE  LateInv'
<1> SUFFICES ASSUME NEW l \in late, l.kind = "preserve", l.record.id = tx'.id
             PROVE  /\ pc' \in RecPCs
                    /\ tx'.committed => TakenAsVerified(l.record)'
                    /\ ~Journaled =>
                         IsMove(tx)' /\ ~tx'.moveStarted /\ ~tx'.committed
  BY DEF LateInv
<1>0. TypeInv /\ tx' # NoTx
  BY ConstantsAssumption DEF ETypeInv, Record, NoTx
<1>1. CASE tx.id = tx'.id
  <2>1. /\ pc \in RecPCs /\ pc \in TxPCs
        /\ tx.committed => TakenAsVerified(l.record)
        /\ ~Journaled => IsMove(tx) /\ ~tx.moveStarted /\ ~tx.committed
    BY <1>1 DEF LateInv, RecPCs, RollPCs, TxPCs, PCs
  <2>2. pc' \in RecPCs
    BY <1>0, <2>1, RecoverySteps
  <2>3. CASE RecoverForward
    <3>1. Journaled
      BY <2>1, <2>3 DEF RecoverForward, ProvesCommit
    <3>2. pc' = "saveDone"
      BY <2>3 DEF RecoverForward
    <3> QED
      BY <2>2, <3>1, <3>2 DEF TakenAsVerified
  <2>4. CASE tx' = tx /\ ~RecoverForward
    <3>1. ASSUME tx.committed, \E d \in disk : d.id = tx.id /\ d.committed
          PROVE  \E d \in disk' : d.id = tx.id /\ d.committed
      BY <1>0, <2>1, <3>1, RecoverySteps DEF Saved
    <3>2. ASSUME tx.committed, Journaled, pc \in {"saveDone", "doneBackup"}
          PROVE  \/ pc' \in {"saveDone", "doneBackup"}
                 \/ tx \in disk'
      BY <1>0, <2>1, <2>4, <3>2, RecoverySteps DEF JournalInv, OneRecord
    <3>3. tx.committed => pc \notin {"rollStage", "rollBackup"}
      BY DEF JournalInv, OwnProgress, Uncommitted, RollPCs
    <3>4. tx.committed => TakenAsVerified(l.record)'
      BY <1>1, <2>1, <2>4, <3>1, <3>2, <3>3 DEF TakenAsVerified
    <3> QED
      BY <2>1, <2>2, <2>4, <3>4 DEF IsMove
  <2> QED
    BY <1>0, <2>1, <2>3, <2>4, RecoverySteps
<1>2. CASE tx' \in disk /\ tx.id # tx'.id
  <2>1. pc \notin TxPCs
    BY <1>2 DEF JournalInv, OneRecord
  <2>2. ScanRecord /\ Journaled
    BY <1>0, <1>2, <2>1, FirstSteps DEF JournalInv, OneRecord
  <2>3. pc' = "recover" /\ disk' = disk
    BY <2>2 DEF ScanRecord
  <2> QED
    BY <1>2, <2>2, <2>3 DEF TakenAsVerified, RecPCs
<1> QED
  BY <1>1, <1>2

(* A preserving rename is given up by a transaction that has not begun its *)
(* promotion.                                                              *)
LEMMA LateGivenUp ==
  ASSUME ETypeInv, JournalInv,
         \/ PreserveFails /\ GivenUp("preserve")
         \/ PromoteFails /\ GivenUp("promote")
         \/ RestoreFails /\ GivenUp("restore")
  PROVE  LateInv'
<1> SUFFICES ASSUME NEW l \in late', l.kind = "preserve", l.record.id = tx'.id
             PROVE  /\ pc' \in RecPCs /\ ~tx'.committed
                    /\ ~Journaled => IsMove(tx)' /\ ~tx'.moveStarted
  BY DEF LateInv
<1>1. PreserveFails /\ l.record = tx
  BY DEF GivenUp
<1>2. /\ tx \in Record /\ tx.id # NoId /\ ~tx.committed /\ ~tx.moveStarted
  BY <1>1, JournalFacts, ConstantsAssumption
     DEF ETypeInv, PreserveFails, JournalInv, OwnProgress, Uncommitted,
         Unpromoted, TxPCs, PCs
<1>3. Fail /\ tx'.id # NoId
  BY <1>1, <1>2 DEF PreserveFails
<1>4. tx' = tx /\ pc' = "recover" /\ Deferred
  BY <1>3 DEF Fail, Return, NoTx
<1> QED
  BY <1>2, <1>4 DEF Deferred, IsMove, RecPCs

-----------------------------------------------------------------------------
(* The three kinds of steps keep EInv.                                     *)

(* A given-up call is a failed one to the gateway. *)
LEMMA GatewaySteps ==
  ASSUME GatewayStep, TypeInv, JournalInv
  PROVE  Next /\ Owe /\ raced' = raced
<1>1. ASSUME PreserveFails \/ PromoteFails \/ RestoreFails
      PROVE  Next /\ ~Commits /\ ~Deletes
  <2>1. Next
    BY <1>1 DEF Next, RecoveryStep, OperationStep
  <2>2. tx' \in {tx, NoTx} /\ pc # "direct"
    BY <1>1 DEF PreserveFails, PromoteFails, RestoreFails, PromotionFailed,
       Continue, Fail, RecoveryFails, Return, Stopped
  <2> QED
    BY <2>1, <2>2 DEF Commits, Deletes, NoTx
<1> QED
  BY <1>1 DEF GatewayStep, GivenUp, Owe

(* A step of the gateway keeps the types. *)
LEMMA TypeGateway ==
  ASSUME ETypeInv, JournalInv, GatewayStep
  PROVE  ETypeInv'
<1>0. TypeInv /\ Next /\ Owe /\ raced' = raced
  BY GatewaySteps DEF ETypeInv
<1>1. TypeInv'
  BY <1>0, TypeNext
<1>2. owed' \subseteq Contents
  BY <1>0, OweSteps, CommitSteps DEF ETypeInv, Record
<1>3. late' \subseteq [kind : LateRenames, record : Record]
  <2>1. CASE late' = late
    BY <2>1 DEF ETypeInv
  <2>2. CASE pc \in {"preserve", "promote", "restore"}
             /\ \E kind : GivenUp(kind)
    BY <1>0, <2>2, JournalFacts DEF GivenUp, TxPCs, PCs
  <2> QED
    BY <2>1, <2>2 DEF GatewayStep, PreserveFails, PromoteFails, RestoreFails
<1> QED
  BY <1>0, <1>1, <1>2, <1>3 DEF ETypeInv

(* A step of the gateway keeps EInv. *)
LEMMA EInvGateway ==
  ASSUME EInv, GatewayStep
  PROVE  EInv'
<1>0. ETypeInv /\ TypeInv /\ JournalInv /\ LateInv
  BY DEF EInv, ETypeInv
<1>1. Next /\ Owe /\ raced' = raced
  BY <1>0, GatewaySteps
<1>2. ETypeInv' /\ JournalInv'
  BY <1>0, <1>1, TypeGateway, JournalNext
<1>3. LateInv'
  BY <1>0, <1>1, <1>2, LateGateway, LateGivenUp DEF GatewayStep
<1>4. ~raced => NoBytesLost' /\ BackupsSpared'
  BY <1>0, <1>1, GatewayKeeps, GatewaySpares DEF EInv
<1> QED
  BY <1>1, <1>2, <1>3, <1>4 DEF EInv

(* What another actor's step does to what is owed, kept and spared, said   *)
(* once for its three forms.                                               *)
LEMMA OthersSpare ==
  ASSUME owed \subseteq Contents, NEW r, Spared(r),
         r.original \in owed' =>
           r.original \in owed \/ r.original \in OnServer',
         r.original \in owed' /\ r.original \in OnServer =>
           \/ r.original \in OnServer'
           \/ \E j \in Ids \ {r.id} : backup'[j] = r.original,
         \A j \in Ids \ {r.id} : r.original \in owed /\ backup[j] = r.original =>
           backup'[j] = r.original \/ r.original \in OnServer'
  PROVE  Spared(r)'
  BY DEF Spared

(* The server performs a rename late, or finds that it cannot. *)
LEMMA EInvLate ==
  ASSUME EInv, LateRename
  PROVE  EInv'
<1>0. /\ ETypeInv /\ TypeInv /\ Servers /\ owed \subseteq Contents
      /\ JournalInv /\ LateInv
      /\ UNCHANGED <<disk, pc, tx, op, caller, reply, old, faulty, owed>>
  BY DEF EInv, ETypeInv, TypeInv, TypeOK, Servers, LateRename
<1>1. PICK l \in late :
        /\ late' = late \ {l}
        /\ \/ /\ l.kind = "preserve"
              /\ LatePreserve(l.record)
              /\ raced' = (raced \/ TakenAsVerified(l.record))
           \/ l.kind = "promote" /\ LatePromote(l.record) /\ UNCHANGED raced
           \/ l.kind = "restore" /\ LateRestore(l.record) /\ UNCHANGED raced
           \/ UNCHANGED <<remote, raced>>
  BY DEF LateRename
<1>2. /\ l.record \in Record /\ l.record.id \in Ids /\ l.record.dest \in Paths
      /\ l.record.source \in Paths \cup {NoPath}
  BY <1>0 DEF ETypeInv, Record
<1>3. Absent \in Values /\ Contents \cup {Absent} \subseteq Values
  BY DEF Values
<1>4. /\ canon' \in [Paths -> Values] /\ backup' \in [Ids -> Values]
      /\ stage' \in [Ids -> Contents \cup {Absent}]
  <2>1. stage \in [Ids -> Contents \cup {Absent}]
    BY <1>0 DEF TypeInv, TypeOK
  <2>2. CASE LatePreserve(l.record) \/ LateRestore(l.record)
    BY <1>0, <1>2, <1>3, <2>1, <2>2 DEF LatePreserve, LateRestore, Servers
  <2>3. CASE LatePromote(l.record)
    BY <1>0, <1>2, <1>3, <2>1, <2>3 DEF LatePromote, Servers, IsMove
  <2>4. CASE UNCHANGED remote
    BY <1>0, <2>1, <2>4 DEF remote, Servers
  <2> QED
    BY <1>1, <2>2, <2>3, <2>4
<1>5. ETypeInv'
  <2>1. TypeInv'
    BY <1>0, <1>4 DEF TypeInv, TypeOK, OpPC
  <2> QED
    BY <1>0, <1>1, <2>1 DEF ETypeInv
<1>6. JournalInv'
  BY <1>0 DEF JournalInv, OneRecord, OwnProgress, SinglePending, IsMove
<1>7. LateInv'
  BY <1>0, <1>1 DEF LateInv, TakenAsVerified, IsMove
<1>8. ASSUME NEW v \in owed, Kept(v)
      PROVE  Kept(v)'
  <2>1. CASE LatePreserve(l.record)
    BY <1>0, <1>2, <1>8, <2>1, AsideKeeps DEF LatePreserve
  <2>2. CASE LateRestore(l.record)
    BY <1>0, <1>2, <1>8, <2>2, BackKeeps DEF LateRestore
  <2>3. CASE LatePromote(l.record)
    BY <1>0, <1>2, <1>8, <2>3, PlaceKeeps DEF LatePromote, IsMove
  <2>4. CASE UNCHANGED remote
    BY <1>8, <2>4 DEF remote, Kept, OnServer
  <2> QED
    BY <1>1, <2>1, <2>2, <2>3, <2>4
<1>9. ASSUME NEW r, Spared(r),
             l.kind = "preserve" /\ LatePreserve(l.record) =>
               r.id # l.record.id
      PROVE  Spared(r)'
  <2>1. CASE r.original \notin owed
    BY <1>0, <2>1 DEF Spared
  <2>2. CASE r.original \in owed
    <3> DEFINE v == r.original
    <3>0. v \in Contents
      BY <1>0, <2>2
    <3>1. CASE l.kind = "preserve" /\ LatePreserve(l.record)
      <4>1. /\ v \in OnServer => v \in OnServer' \/ backup'[l.record.id] = v
            /\ \A j \in Ids : backup[j] = v => backup'[j] = v
        BY <1>0, <1>2, <3>0, <3>1, AsideKeeps DEF LatePreserve
      <4> QED
        BY <1>0, <1>2, <1>9, <3>1, <4>1, OthersSpare
    <3>2. CASE LateRestore(l.record)
      <4>1. /\ v \in OnServer => v \in OnServer'
            /\ \A j \in Ids : backup[j] = v => backup'[j] = v \/ v \in OnServer'
        BY <1>0, <1>2, <3>0, <3>2, BackKeeps DEF LateRestore
      <4> QED
        BY <1>0, <1>9, <4>1, OthersSpare
    <3>3. CASE LatePromote(l.record)
      <4>1. backup' = backup /\ (v \in OnServer => v \in OnServer')
        BY <1>0, <1>2, <3>0, <3>3, PlaceKeeps DEF LatePromote, IsMove
      <4> QED
        BY <1>0, <1>9, <4>1, OthersSpare
    <3>4. CASE UNCHANGED remote
      BY <1>0, <1>9, <3>4 DEF remote, Spared, OnServer
    <3> QED
      BY <1>1, <3>1, <3>2, <3>3, <3>4
  <2> QED
    BY <2>1, <2>2
<1>10. ASSUME ~raced', l.kind = "preserve", LatePreserve(l.record)
       PROVE  /\ ~TakenAsVerified(l.record)
              /\ \A r \in disk \cup {tx} : r.committed => r.id # l.record.id
              /\ pc \in {"rollStage", "rollBackup"} => tx.id # l.record.id
  <2>1. backup' # backup
    BY <1>0, <1>2, <1>10 DEF LatePreserve, Servers
  <2>2. ~TakenAsVerified(l.record)
    BY <1>1, <1>10, <2>1 DEF remote
  <2>3. tx.committed => tx.id # l.record.id
    BY <1>0, <1>10, <2>2 DEF LateInv
  <2> QED
    BY <2>2, <2>3 DEF TakenAsVerified
<1>11. ~raced' => NoBytesLost' /\ BackupsSpared'
  <2>1. ~raced' => ~raced
    BY <1>1
  <2>2. ASSUME ~raced' PROVE NoBytesLost'
    BY <1>0, <1>8, <2>1, <2>2 DEF EInv, NoBytesLost
  <2>3. ASSUME ~raced' PROVE BackupsSpared'
    BY <1>0, <1>9, <1>10, <2>1, <2>3 DEF EInv, BackupsSpared
  <2> QED
    BY <2>2, <2>3
<1> QED
  BY <1>5, <1>6, <1>7, <1>11 DEF EInv

(* Another client writes or deletes a file: it gives up what it overwrites. *)
LEMMA EInvExternal ==
  ASSUME EInv, NEW p \in Paths, NEW v \in Writable, ExternalWrite(p, v)
  PROVE  EInv'
<1>0. /\ ETypeInv /\ TypeInv /\ Servers /\ owed \subseteq Contents
      /\ JournalInv /\ LateInv
      /\ UNCHANGED <<stage, backup, disk, pc, tx, op, caller, reply, old,
                     faulty, late, raced>>
      /\ canon' = [canon EXCEPT ![p] = v]
      /\ owed' = OwedWithout(canon[p]) \cup ({v} \cap Contents)
  BY DEF EInv, ETypeInv, TypeInv, TypeOK, Servers, ExternalWrite
<1>1. v \in Values
  BY ExternalAssumption DEF Values
<1>2. TypeInv'
  BY <1>0, <1>1 DEF TypeInv, TypeOK, OpPC
<1>3. ETypeInv'
  BY <1>0, <1>2 DEF ETypeInv, OwedWithout
<1>4. JournalInv' /\ LateInv'
  BY <1>0 DEF JournalInv, OneRecord, OwnProgress, SinglePending, LateInv,
     TakenAsVerified, IsMove
<1>5. v \in OnServer' /\ \A q \in Paths : q # p => canon[q] \in OnServer'
  BY <1>0 DEF Servers, OnServer
<1>6. ASSUME NEW x \in owed'
      PROVE  /\ x \in owed \/ x \in OnServer'
             /\ x \in OnServer => x \in OnServer'
  <2>1. x \in owed \/ x \in OnServer'
    BY <1>0, <1>5 DEF OwedWithout
  <2>2. x = canon[p] => x \in OnServer'
    BY <1>0, <1>5 DEF OwedWithout
  <2> QED
    BY <1>5, <2>1, <2>2 DEF OnServer
<1>7. NoBytesLost => NoBytesLost'
  BY <1>0, <1>6 DEF NoBytesLost, Kept
<1>8. ASSUME NEW r, Spared(r)
      PROVE  Spared(r)'
  BY <1>0, <1>6, <1>8, OthersSpare
<1>9. BackupsSpared => BackupsSpared'
  BY <1>0, <1>8 DEF BackupsSpared
<1> QED
  BY <1>0, <1>3, <1>4, <1>7, <1>9 DEF EInv

(* EInv holds at the start: nothing is owed but what is on the server. *)
LEMMA EInvInit == EInit => EInv
<1> SUFFICES ASSUME EInit
             PROVE  EInv
  OBVIOUS
<1>1. ETypeInv
  BY TypeInit DEF EInit, ETypeInv
<1>2. JournalInv
  BY DEF EInit, Init, JournalInv, OneRecord, OwnProgress, SinglePending,
     StartPCs, TxPCs, NoTx, IsMove, Uncommitted, Unpromoted, Committed, RollPCs
<1>3. LateInv
  BY DEF EInit, LateInv
<1>4. NoBytesLost /\ BackupsSpared
  BY DEF EInit, Init, NoBytesLost, Kept, BackupsSpared, NoTx
<1> QED
  BY <1>1, <1>2, <1>3, <1>4 DEF EInv

(* Every step, whoever takes it, keeps EInv. *)
LEMMA EInvNext ==
  ASSUME EInv, [ENext]_evars
  PROVE  EInv'
<1>1. CASE UNCHANGED evars
  <2>1. ETypeInv' /\ JournalInv' /\ LateInv'
    BY <1>1 DEF EInv, ETypeInv, TypeInv, TypeOK, OpPC, JournalInv, OneRecord,
       OwnProgress, SinglePending, LateInv, TakenAsVerified, IsMove, evars, vars
  <2>2. NoBytesLost /\ BackupsSpared => NoBytesLost' /\ BackupsSpared'
    BY <1>1 DEF NoBytesLost, Kept, BackupsSpared, Spared, OnServer, evars, vars
  <2> QED
    BY <1>1, <2>1, <2>2 DEF EInv, evars
<1> QED
  BY <1>1, EInvGateway, EInvLate, EInvExternal DEF ENext

(* EInv holds always. *)
THEOREM EInvHolds == ESpec => []EInv
  BY EInvInit, EInvNext, PTL DEF ESpec

-----------------------------------------------------------------------------
(* Whatever another client writes and deletes, and whichever of the        *)
(* gateway's renames the server performs late, bytes that nobody gave up   *)
(* are lost only after a late preserving rename hit a destination that     *)
(* counted as verified; with or without a journal, for any number of       *)
(* files, contents and transactions.                                       *)
THEOREM BytesAreKept == ESpec => []NoBytesLostUnlessRaced
<1>1. EInv => NoBytesLostUnlessRaced
  BY DEF EInv, NoBytesLostUnlessRaced
<1> QED
  BY <1>1, EInvHolds, PTL

(* Without late preserving renames the race cannot happen, and nothing is  *)
(* ever lost, though promotions and restorations may still come late.      *)
THEOREM BytesAreKeptInTime ==
  ASSUME "preserve" \notin LateRenames
  PROVE  ESpec => []NoBytesLost
<1> DEFINE Unraced == ~raced /\ EInv
<1>1. EInit => Unraced
  BY EInvInit DEF EInit
<1>2. ASSUME Unraced, [ENext]_evars
      PROVE  Unraced'
  <2>1. EInv'
    BY <1>2, EInvNext
  <2>2. \A l \in late : l.kind # "preserve"
    BY <1>2 DEF EInv, ETypeInv
  <2>3. TypeInv /\ JournalInv
    BY <1>2 DEF EInv, ETypeInv
  <2>4. raced' = raced
    BY <1>2, <2>2, <2>3, GatewaySteps
       DEF ENext, LateRename, ExternalWrite, evars
  <2> QED
    BY <1>2, <2>1, <2>4
<1>3. Unraced => NoBytesLost
  BY DEF EInv
<1> QED
  BY <1>1, <1>2, <1>3, PTL DEF ESpec

(* The journal stays usable beside any other actor: it never holds two     *)
(* records, nor one that validateUploadRecord rejects, which would refuse  *)
(* every later mutation.                                                   *)
THEOREM JournalStaysReadable == ESpec => [](SinglePending /\ JournalReadable)
<1>1. EInv => SinglePending /\ JournalReadable
  <2>1. ASSUME EInv, NEW r \in disk
        PROVE  ValidRecord(r)
    <3>1. r \in Record /\ (IsMove(r) => r.source # r.dest /\ r.ready)
      BY <2>1 DEF EInv, ETypeInv, TypeInv, TypeOK, JournalInv, OwnProgress
    <3> QED
      BY <3>1 DEF Record, ValidRecord, HadOriginal
  <2> QED
    BY <2>1 DEF EInv, JournalInv, OneRecord, JournalReadable
<1> QED
  BY <1>1, EInvHolds, PTL

(* "A committed record never restores or deletes its canonical destination" *)
(* (journal.go:229), beside any other actor and without a journal as well:  *)
(* from the save of the committed record to its removal the gateway itself  *)
(* changes neither the tree nor the record.                                 *)
THEOREM CommitsStayFinal ==
  ESpec => [][GatewayStep => \A r \in disk : r.committed =>
                /\ canon' = canon
                /\ \A s \in disk' : s.id = r.id => s = r]_evars
<1>1. ASSUME EInv, GatewayStep, NEW r \in disk, r.committed
      PROVE  /\ canon' = canon
             /\ \A s \in disk' : s.id = r.id => s = r
  <2>1. TypeInv /\ JournalInv /\ Next
    BY <1>1, GatewaySteps DEF EInv, ETypeInv
  <2>2. /\ pc \in TxPCs => r = tx /\ tx.committed
        /\ disk # {} /\ \A s \in disk : s = r
    BY <1>1, <2>1 DEF JournalInv, OneRecord, SinglePending
  <2>3. canon' = canon
    <3>1. pc \notin RenamePCs
      BY <2>1, <2>2 DEF RenamePCs, JournalInv, OwnProgress, Uncommitted,
         RollPCs, TxPCs, PCs
    <3>2. ~DirectPerformed
      BY <2>1, <2>2 DEF DirectPerformed, JournalInv, OneRecord, StartPCs
    <3> QED
      BY <2>1, <3>1, <3>2, ServerSteps
  <2>4. ASSUME NEW s \in disk', s.id = r.id
        PROVE  s = r
    <3>1. CASE disk' = disk
      BY <2>2, <2>4, <3>1
    <3>2. CASE pc \in TxPCs /\ disk' \in {Saved(tx), Forgotten(tx)}
      BY <2>2, <2>4, <3>2 DEF Saved, Forgotten
    <3> QED
      BY <1>1, <2>1, <3>1, <3>2, RecordSteps
  <2> QED
    BY <2>3, <2>4
<1>2. EInv /\ [ENext]_evars =>
        [GatewayStep => \A r \in disk : r.committed =>
           /\ canon' = canon
           /\ \A s \in disk' : s.id = r.id => s = r]_evars
  BY <1>1
<1> QED
  BY <1>2, EInvHolds, PTL DEF ESpec
=============================================================================
