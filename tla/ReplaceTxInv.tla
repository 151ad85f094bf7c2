---------------------------- MODULE ReplaceTxInv ----------------------------
(***************************************************************************)
(* The inductive invariant behind the safety of the journaled replacement  *)
(* protocol: what each journal record says about the server, how far the   *)
(* record on disk may lag behind the one in memory, and what is known at   *)
(* each program point.                                                     *)
(***************************************************************************)
EXTENDS ReplaceTx

(* Program points at which the running code holds a record, and the request *)
(* each of the first steps belongs to.                                     *)
TxPCs == PCs \ {"down", "idle", "scan", "direct", "directReply",
                "statDest", "statMove"}

OpPC ==
  /\ pc = "statDest" => op.kind = "upload"
  /\ pc = "statMove" => op.kind = "move"
  /\ pc \in {"direct", "directReply"} => op.kind \notin {"none", "upload"}

(* Type correctness, made inductive: a record is in memory wherever one is *)
(* used.                                                                   *)
TypeInv ==
  /\ TypeOK
  /\ pc \in TxPCs => tx \in Record
  /\ OpPC

(* The three shapes of a pending replacement on the server.  A replacement *)
(* without an original has original = Absent: its first two coincide.      *)
Pristine(r) ==
  /\ canon[r.dest] = r.original
  /\ backup[r.id] = Absent
  /\ IsMove(r) => canon[r.source] = r.hash

SetAside(r) ==
  /\ canon[r.dest] = Absent
  /\ backup[r.id] = r.original
  /\ IsMove(r) => canon[r.source] = r.hash

InPlace(r) ==
  /\ canon[r.dest] = r.hash
  /\ backup[r.id] = r.original
  /\ IsMove(r) => r.moveStarted /\ canon[r.source] = Absent

ReadyOK(r) ==
  IF r.committed
  THEN canon[r.dest] = r.hash /\ backup[r.id] \in {Absent, r.original}
  ELSE Pristine(r) \/ SetAside(r) \/ InPlace(r)

UnreadyOK(r) ==
  /\ ~IsMove(r)
  /\ ~r.committed
  /\ r.original = Absent
  /\ backup[r.id] = Absent

RecordOK(r) ==
  /\ r.ready => ReadyOK(r)
  /\ ~r.ready => UnreadyOK(r)
  /\ IsMove(r) => r.source # r.dest /\ stage[r.id] = Absent
  /\ ~IsMove(r) /\ r.ready => stage[r.id] \in {Absent, r.hash}

(* A record on disk is the one in memory, or an earlier version of it. *)
Lags(r) ==
  /\ r.id = tx.id /\ r.source = tx.source /\ r.dest = tx.dest
  /\ r.hash = tx.hash
  /\ r.ready => tx.ready /\ r.original = tx.original
  /\ r.moveStarted => tx.moveStarted
  /\ r.committed => r = tx

RollPCs == {"rollSource", "rollDest", "restore", "verifyRestored",
            "rollStage", "rollBackup"}

(* Every hidden file belongs to the one record on disk. *)
Covered == \A i \in Ids :
  stage[i] # Absent \/ backup[i] # Absent => \E r \in disk : r.id = i

MemoryOK == IF pc \in TxPCs
            THEN /\ RecordOK(tx)
                 /\ \A r \in disk : Lags(r)
            ELSE tx = NoTx

(* The journal at each program point. *)
JournalPC ==
  /\ pc \in {"statDest", "statMove", "saveNew", "saveMove", "direct",
             "directReply"} => disk = {}
  /\ pc \in {"upload", "verifyStage", "readOriginal", "cleanupStage",
             "preserve", "saveStarted", "promote", "undo", "verifyDest",
             "dropBackup", "forget", "doneBackup", "doneStage"} => disk = {tx}
  /\ pc \in RollPCs \cup {"saveReady", "saveCommitted"} => disk # {}
  /\ pc \in {"recover", "saveDone"} /\ disk = {} => tx.committed

(* The record in memory at each program point. *)
RecordPC ==
  /\ pc \in {"saveNew", "upload", "verifyStage", "readOriginal"} => ~tx.ready
  /\ pc \in RollPCs \cup {"saveReady", "preserve", "saveStarted", "promote",
                          "undo", "verifyDest"} => tx.ready /\ ~tx.committed
  /\ pc \in {"saveCommitted", "dropBackup", "forget", "saveDone",
             "doneBackup", "doneStage"} => tx.ready /\ tx.committed
  /\ pc \in {"saveMove", "saveStarted"} => IsMove(tx) /\ ~tx.moveStarted
  /\ pc = "preserve" /\ IsMove(tx) => ~tx.moveStarted
  /\ pc = "saveMove" => tx.ready /\ ~tx.committed
  /\ pc = "promote" /\ IsMove(tx) => tx.moveStarted
  /\ pc \in {"saveReady", "undo", "cleanupStage"} => ~IsMove(tx)
  /\ pc = "cleanupStage" => ~tx.committed
  /\ pc \in {"preserve", "restore", "verifyRestored", "dropBackup"} =>
       HadOriginal(tx)

(* The server at each program point. *)
ServerPC ==
  /\ pc \in {"saveReady", "saveMove", "preserve"} => Pristine(tx)
  /\ pc \in {"saveStarted", "promote", "restore"} => SetAside(tx)
  /\ pc = "verifyDest" => InPlace(tx)
  /\ pc \in {"readOriginal", "saveReady", "preserve", "promote"}
       /\ ~IsMove(tx) => stage[tx.id] = tx.hash
  /\ pc \in {"verifyDest", "saveCommitted", "dropBackup", "forget",
             "rollBackup", "recForget"} => stage[tx.id] = Absent
  /\ pc \in {"forget", "doneStage", "recForget"} => backup[tx.id] = Absent
  /\ pc \in RollPCs \ {"rollSource"} /\ IsMove(tx) =>
       canon[tx.source] = tx.hash
  /\ pc \in {"rollStage", "rollBackup"} => canon[tx.dest] = tx.original

(* The journal, the record in memory and the server agree at every program *)
(* point of UploadFile, MoveReplace and recoverUpload.                     *)
IInv ==
  /\ TypeInv
  /\ SinglePending
  /\ Covered
  /\ \A r \in disk : RecordOK(r)
  /\ MemoryOK
  /\ JournalPC
  /\ RecordPC
  /\ ServerPC

-----------------------------------------------------------------------------
(* What ties the protocol to AtomicStore: who is at work, which request the *)
(* record in memory belongs to, and at which program points the request has *)
(* taken effect.                                                            *)

RecPCs ==
  RollPCs \cup {"recover", "saveDone", "doneBackup", "doneStage", "recForget"}
WorkPCs == TxPCs \ RecPCs
StartPCs == {"statDest", "statMove", "direct", "directReply"}

CallerPC ==
  /\ pc \in WorkPCs \cup StartPCs => caller = "none" /\ op # NoOp
  /\ pc \in RecPCs => caller # "none" /\ (caller = "op" => op # NoOp)
  /\ pc \in {"down", "idle"} => caller = "none" /\ op = NoOp
  /\ pc = "scan" => caller = "none"

(* The record in memory is the request's own, and not one that an earlier  *)
(* request left in the journal.                                            *)
Own == pc \in TxPCs /\ caller # "pending"

OwnTx == Own =>
  /\ op.kind = IF IsMove(tx) THEN "move" ELSE "upload"
  /\ tx.dest = op.dest
  /\ IsMove(tx) => tx.source = op.source /\ tx.hash = old[op.source]
  /\ ~IsMove(tx) => tx.hash = op.data
  /\ tx.ready => tx.original = old[op.dest]

(* The tree once the request has taken effect. *)
After == AS!Effect(op, old)

(* Before its own first call a request has changed nothing. *)
OldView ==
  /\ op # NoOp /\ ~Own /\ pc # "directReply" => View = old
  /\ pc = "directReply" => View = After

(* A move that recovery might take for committed has begun its promotion.  *)
Begun == IsMove(tx) /\ tx.moveStarted /\ ~tx.committed

OwnView == Own =>
  /\ \A p \in Paths : p # tx.dest /\ p # tx.source => canon[p] = old[p]
  /\ ~tx.ready => canon = old
  /\ tx.committed => View = After
  /\ pc \in {"rollStage", "rollBackup", "recForget"} /\ ~tx.committed =>
       View = old
  /\ pc = "recover" /\ Begun => SetAside(tx) \/ InPlace(tx)

(* With IInv it is kept by every step (ReplaceTxProofs). *)
AtomicInv == CallerPC /\ OwnTx /\ OldView /\ OwnView
=============================================================================
