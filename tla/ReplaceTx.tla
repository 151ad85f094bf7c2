------------------------------ MODULE ReplaceTx ------------------------------
(***************************************************************************)
(* The replacement transactions of internal/evs (UploadFile, MoveReplace,  *)
(* recoverUpload, RecoverPending), the gateway's only writers of existing  *)
(* remote files, together with the direct mutations (Delete, Mkdir,        *)
(* Rename) that the WebDAV handler lets through once RecoverPending has    *)
(* succeeded.                                                              *)
(*                                                                         *)
(* The remote server offers no atomic replace.  A replacement stages the   *)
(* new bytes under a unique hidden name, renames the old file to a second  *)
(* hidden name, renames the staged file into place, verifies it by         *)
(* checksum, and only then deletes the old bytes.  A journal record on the *)
(* local disk is rewritten at every phase, so that a restarted process can *)
(* finish or undo what a crash interrupted.                                *)
(*                                                                         *)
(* Every remote call is a step of its own, so a crash may fall between any *)
(* two of them, and while `faulty' holds each may fail without effect,     *)
(* fail after its effect (a lost reply), or, for a read, simply fail.      *)
(* Contents stand for (size, SHA-256) pairs: comparing a value with a      *)
(* recorded one is what verifyUpload does.  Paths are sibling files or     *)
(* directories; what lies inside a directory is not modelled.              *)
(***************************************************************************)
EXTENDS FiniteSets

CONSTANTS
  Paths,      \* canonical remote paths
  Contents,   \* file contents
  Ids,        \* transaction ids; an id is reused once nothing bears it
  Absent,     \* no file at a name
  Dir,        \* a directory
  NoPath,     \* the empty Source of an upload record
  NoId,       \* no transaction
  Journaled   \* TRUE under `serve' (EnableRecovery), FALSE under `probe'

ASSUME ConstantsAssumption ==
  /\ Absent \notin Contents /\ Dir \notin Contents /\ Absent # Dir
  /\ NoPath \notin Paths
  /\ NoId \notin Ids
  /\ Journaled \in BOOLEAN

Values == Contents \cup {Absent, Dir}

(* journal.go:23 uploadRecord.  `original = Absent' is HadOriginal = false. *)
Record ==
  [id : Ids, source : Paths \cup {NoPath}, dest : Paths, hash : Contents,
   original : Contents \cup {Absent},
   ready : BOOLEAN, moveStarted : BOOLEAN, committed : BOOLEAN]

NoTx ==
  [id |-> NoId, source |-> NoPath, dest |-> NoPath, hash |-> Absent,
   original |-> Absent,
   ready |-> FALSE, moveStarted |-> FALSE, committed |-> FALSE]

(* One mutating request: a PUT, a safe MOVE, a plain MOVE, a DELETE, MKCOL. *)
Ops ==
       [kind : {"upload"}, source : {NoPath}, dest : Paths, data : Contents]
  \cup {o \in [kind : {"move", "rename"}, source : Paths, dest : Paths,
               data : {Absent}] : o.source # o.dest}
  \cup [kind : {"delete", "mkdir"}, source : {NoPath}, dest : Paths,
        data : {Absent}]

NoOp == [kind |-> "none", source |-> NoPath, dest |-> NoPath, data |-> Absent]

VARIABLES
  canon,    \* the server: value at each canonical path
  stage,    \* the server: value at ".idrive-gateway-upload-<id>"
  backup,   \* the server: value at ".idrive-gateway-backup-<id>"
  disk,     \* the records in the journal directory
  pc,       \* where the one mutation in progress stands
  tx,       \* the record the running code holds in memory
  op,       \* the request in progress
  caller,   \* who called recoverUpload: the operation's defer, or a scan
  reply,    \* how the last request ended
  old,      \* history: the tree the request in progress started from
  faulty    \* calls may fail and the process may crash

remote == <<canon, stage, backup>>
vars == <<canon, stage, backup, disk, pc, tx, op, caller, reply, old, faulty>>

HadOriginal(r) == r.original # Absent
IsMove(r) == r.source # NoPath

(* The tree as the next gateway request will find it: recovery runs first, *)
(* so a path whose file is only at its recorded backup name still has it.  *)
ViewOf(c, b, d) == [p \in Paths |->
  IF c[p] # Absent THEN c[p]
  ELSE IF \E r \in d : r.dest = p /\ b[r.id] # Absent
       THEN b[(CHOOSE r \in d : r.dest = p /\ b[r.id] # Absent).id]
       ELSE Absent]

View == ViewOf(canon, backup, disk)

PCs == {"down", "idle", "scan", "direct", "directReply",
        "statDest", "saveNew", "upload", "verifyStage", "readOriginal",
        "saveReady", "statMove", "saveMove", "preserve", "saveStarted",
        "promote", "undo", "cleanupStage", "verifyDest", "saveCommitted",
        "dropBackup", "forget",
        "recover", "rollSource", "rollDest", "restore", "verifyRestored",
        "rollStage", "rollBackup", "saveDone", "doneBackup", "doneStage",
        "recForget"}

Init ==
  /\ canon \in [Paths -> Values]
  /\ stage = [i \in Ids |-> Absent]
  /\ backup = [i \in Ids |-> Absent]
  /\ disk = {}
  /\ pc = "down"
  /\ tx = NoTx
  /\ op = NoOp
  /\ caller = "none"
  /\ reply = "none"
  /\ old = canon
  /\ faulty = TRUE

-----------------------------------------------------------------------------
(* How a request ends, and how its failures are routed.                    *)

Return(result) ==
  /\ pc' = "idle"
  /\ reply' = result
  /\ op' = NoOp
  /\ tx' = NoTx
  /\ caller' = "none"
  /\ old' = View'

Continue(label) ==
  /\ pc' = label
  /\ UNCHANGED <<tx, op, caller, reply, old>>

(* upload.go:73 runs the deferred recovery only with a journal; move.go:72 *)
(* runs it always.                                                         *)
Deferred == Journaled \/ IsMove(tx)

(* An error after the transaction's defer is installed. *)
Fail ==
  IF Deferred
  THEN /\ pc' = "recover"
       /\ caller' = "op"
       /\ UNCHANGED <<tx, op, reply, old>>
  ELSE Return("uncertain")

(* recoverUpload returned a nil error: upload.go:77, move.go:76; in        *)
(* RecoverPending the scan goes on with the next record.                   *)
Recovered ==
  IF caller = "op"
  THEN Return(IF tx.committed THEN "ok" ELSE "failed")
  ELSE /\ pc' = "scan"
       /\ tx' = NoTx
       /\ caller' = "none"
       /\ UNCHANGED <<op, reply, old>>

(* recoverUpload returned an error: to the operation's caller, or, from    *)
(* RecoverPending, as a refused request or a failed start-up.              *)
Stopped ==
  /\ pc' = "down"
  /\ tx' = NoTx
  /\ caller' = "none"
  /\ UNCHANGED <<op, reply, old>>

RecoveryFails ==
  IF caller = "op" THEN Return("uncertain")
  ELSE IF op # NoOp THEN Return("refused") ELSE Stopped

(* saveUpload: atomicfile.Write replaces <id>.json; an error may come      *)
(* before or after the replacing rename.                                   *)
Saved(r) == IF Journaled THEN {d \in disk : d.id # r.id} \cup {r} ELSE disk

SaveError ==
  /\ faulty
  /\ Journaled
  /\ disk' \in {disk, Saved(tx)}

(* Mutant: the record's file is not removed. *)
KeptRecord(r) == disk

(* forgetUpload: the record's file is removed, then the directory synced. *)
Forgotten(r) == {d \in disk : d.id # r.id}

(* Mutants: bytes deleted unverified; a missing file taken for an error.    *)
AnyBytes(v, expected) == TRUE
OnlyExpected(v, expected) == v = expected

(* removeKnown succeeds when the name is free or holds the recorded bytes, *)
(* which it deletes; any other bytes are an error and stay.                *)
Known(v, expected) == v \in {Absent, expected}

Removed(names, expected) ==
  IF Known(names[tx.id], expected)
  THEN [names EXCEPT ![tx.id] = Absent] ELSE names

(* randomUploadID never repeats an id that names anything. *)
Fresh(i) ==
  /\ stage[i] = Absent
  /\ backup[i] = Absent
  /\ \A r \in disk : r.id # i

-----------------------------------------------------------------------------
(* Requests and the recovery scan that precedes each of them.              *)

(* serve starts: EnableRecovery scans before any request is accepted. *)
Start ==
  /\ pc = "down"
  /\ pc' = "scan"
  /\ UNCHANGED <<remote, disk, tx, op, caller, reply, old, faulty>>

(* The handler admits one mutation at a time (exclusive semaphore). *)
Begin(o) ==
  /\ pc = "idle"
  /\ op' = o
  /\ old' = View
  /\ reply' = "none"
  /\ pc' = "scan"
  /\ UNCHANGED <<remote, disk, tx, caller, faulty>>

FirstStep(kind) ==
  CASE kind = "none"   -> "idle"
    [] kind = "upload" -> "statDest"
    [] kind = "move"   -> "statMove"
    [] OTHER           -> "direct"

(* validateUploadRecord: a move record is complete from its first save.     *)
(* The scan also refuses what is no regular file or longer than 16 KiB      *)
(* (journal.go:110); the records here are regular files, of short paths.    *)
ValidRecord(r) ==
  /\ IsMove(r) => r.source # r.dest /\ r.ready
  /\ r.hash \in Contents
  /\ r.ready /\ HadOriginal(r) => r.original \in Contents

(* RecoverPending, one record at a time. *)
ScanRecord ==
  /\ pc = "scan"
  /\ \E r \in disk :
       /\ ValidRecord(r)
       /\ tx' = r
  /\ caller' = "pending"
  /\ pc' = "recover"
  /\ UNCHANGED <<remote, disk, op, reply, old, faulty>>

(* Mutant: the handler goes on although records are left. *)
ScanIgnored ==
  /\ pc = "scan"
  /\ Continue(FirstStep(op.kind))
  /\ UNCHANGED <<remote, disk, faulty>>

ScanDone ==
  /\ pc = "scan"
  /\ disk = {}
  /\ Continue(FirstStep(op.kind))
  /\ UNCHANGED <<remote, disk, faulty>>

(* The directory or a record cannot be read, or the cache not invalidated. *)
ScanFails ==
  /\ pc = "scan"
  /\ faulty \/ \E r \in disk : ~ValidRecord(r)
  /\ UNCHANGED <<remote, disk, faulty>>
  /\ RecoveryFails

-----------------------------------------------------------------------------
(* Delete, Mkdir, Rename and a directory's MoveReplace: one remote call.   *)

Effect(o, s) ==
  CASE o.kind \in {"move", "rename"} ->
         [s EXCEPT ![o.dest] = s[o.source], ![o.source] = Absent]
    [] o.kind = "mkdir"  -> [s EXCEPT ![o.dest] = Dir]
    [] o.kind = "delete" -> [s EXCEPT ![o.dest] = Absent]

(* What the pre-flight StatFresh and the server refuse. *)
Permitted(o) ==
  /\ o.kind \in {"move", "rename"} => canon[o.source] # Absent
  /\ o.kind # "delete" => canon[o.dest] = Absent

DirectPerformed ==
  /\ pc = "direct"
  /\ Permitted(op)
  /\ canon' = Effect(op, canon)
  /\ Continue("directReply")
  /\ UNCHANGED <<stage, backup, disk, faulty>>

DirectReply ==
  /\ pc = "directReply"
  /\ UNCHANGED <<remote, disk, faulty>>
  /\ \/ Return("ok")
     \/ faulty /\ Return("uncertain")

DirectRefused ==
  /\ pc = "direct"
  /\ UNCHANGED <<remote, disk, faulty>>
  /\ \/ ~Permitted(op) /\ Return("failed")
     \/ faulty /\ Return("uncertain")

-----------------------------------------------------------------------------
(* UploadFile up to the point where the record is Ready.                   *)

NewTx(i) == [NoTx EXCEPT !.id = i, !.dest = op.dest, !.hash = op.data]

StatDest ==
  /\ pc = "statDest"
  /\ canon[op.dest] # Dir
  /\ \E i \in Ids : Fresh(i) /\ tx' = NewTx(i)
  /\ pc' = "saveNew"
  /\ UNCHANGED <<remote, disk, op, caller, reply, old, faulty>>

(* An error before a record exists: nothing has happened. *)
StatFails ==
  /\ pc \in {"statDest", "statMove"}
  /\ \/ faulty
     \/ \A i \in Ids : ~Fresh(i)
     \/ canon[op.dest] = Dir
     \/ op.kind = "move" /\ canon[op.source] = Absent
     \/ op.kind = "move" /\ canon[op.source] = Dir /\ canon[op.dest] # Absent
  /\ UNCHANGED <<remote, disk, faulty>>
  /\ Return("failed")

(* The first save precedes the defer (upload.go:69, move.go:68): its error *)
(* returns at once, and may leave the record behind.                       *)
SaveFirst(next) ==
  \/ /\ disk' = Saved(tx)
     /\ Continue(next)
  \/ SaveError /\ Return("failed")

(* Mutant: the upload starts before its record is durable. *)
SaveNewSkipped ==
  /\ pc = "saveNew"
  /\ Continue("upload")
  /\ UNCHANGED <<remote, disk, faulty>>

SaveNew ==
  /\ pc = "saveNew"
  /\ UNCHANGED <<remote, faulty>>
  /\ SaveFirst("upload")

(* uploadSmall or uploadChunked: on a bad day any bytes, or none, appear. *)
Upload ==
  /\ pc = "upload"
  /\ \E v \in Contents \cup {Absent} :
       /\ v = tx.hash \/ faulty
       /\ stage' = [stage EXCEPT ![tx.id] = v]
  /\ \/ Continue("verifyStage")
     \/ faulty /\ Continue("cleanupStage")
  /\ UNCHANGED <<canon, backup, disk, faulty>>

VerifyStage ==
  /\ pc = "verifyStage"
  /\ \/ stage[tx.id] = tx.hash /\ Continue("readOriginal")
     \/ (stage[tx.id] # tx.hash \/ faulty) /\ Continue("cleanupStage")
  /\ UNCHANGED <<remote, disk, faulty>>

ReadOriginal ==
  /\ pc = "readOriginal"
  /\ canon[tx.dest] # Dir
  /\ tx' = [tx EXCEPT !.original = canon[tx.dest], !.ready = TRUE]
  /\ pc' = "saveReady"
  /\ UNCHANGED <<remote, disk, op, caller, reply, old, faulty>>

ReadOriginalFails ==
  /\ pc = "readOriginal"
  /\ canon[tx.dest] = Dir \/ faulty
  /\ Continue("cleanupStage")
  /\ UNCHANGED <<remote, disk, faulty>>

SaveOrFail(next) ==
  \/ /\ disk' = Saved(tx)
     /\ Continue(next)
  \/ SaveError /\ Fail

SaveReady ==
  /\ pc = "saveReady"
  /\ UNCHANGED <<remote, faulty>>
  /\ SaveOrFail(IF HadOriginal(tx) THEN "preserve" ELSE "promote")

(* cleanupStage deletes what it can and returns the original cause. *)
CleanupStage ==
  /\ pc = "cleanupStage"
  /\ \/ stage' = [stage EXCEPT ![tx.id] = Absent]
     \/ faulty /\ UNCHANGED stage
  /\ UNCHANGED <<canon, backup, disk, faulty>>
  /\ Fail

-----------------------------------------------------------------------------
(* MoveReplace up to the point where the record is saved.                  *)

(* Mutant: a move record saved without Ready. *)
UnreadyMoveTx(i) ==
  [NoTx EXCEPT !.id = i, !.source = op.source, !.dest = op.dest,
               !.hash = canon[op.source], !.original = canon[op.dest]]

MoveTx(i) ==
  [NoTx EXCEPT !.id = i, !.source = op.source, !.dest = op.dest,
               !.hash = canon[op.source], !.original = canon[op.dest],
               !.ready = TRUE]

(* Mutant: a directory target is not refused. *)
StatMoveAnyTarget ==
  /\ pc = "statMove"
  /\ canon[op.source] \in Contents
  /\ \E i \in Ids : Fresh(i) /\ tx' = MoveTx(i)
  /\ pc' = "saveMove"
  /\ UNCHANGED <<remote, disk, op, caller, reply, old, faulty>>

StatMove ==
  /\ pc = "statMove"
  /\ canon[op.source] \in Contents
  /\ canon[op.dest] # Dir
  /\ \E i \in Ids : Fresh(i) /\ tx' = MoveTx(i)
  /\ pc' = "saveMove"
  /\ UNCHANGED <<remote, disk, op, caller, reply, old, faulty>>

StatMoveDirectory ==
  /\ pc = "statMove"
  /\ canon[op.source] = Dir
  /\ canon[op.dest] = Absent
  /\ Continue("direct")
  /\ UNCHANGED <<remote, disk, faulty>>

SaveMove ==
  /\ pc = "saveMove"
  /\ UNCHANGED <<remote, faulty>>
  /\ SaveFirst(IF HadOriginal(tx) THEN "preserve" ELSE "saveStarted")

SaveStarted ==
  /\ pc = "saveStarted"
  /\ tx' = [tx EXCEPT !.moveStarted = TRUE]
  /\ \/ /\ disk' = Saved(tx')
        /\ pc' = "promote"
        /\ UNCHANGED caller
     \/ /\ faulty /\ Journaled
        /\ disk' \in {disk, Saved(tx')}
        /\ pc' = "recover"
        /\ caller' = "op"
  /\ UNCHANGED <<remote, op, reply, old, faulty>>

-----------------------------------------------------------------------------
(* The two renames of a replacement.  The server refuses a missing source  *)
(* or a target that exists.                                                *)

CanPreserve == canon[tx.dest] # Absent /\ backup[tx.id] = Absent

MoveToBackup ==
  /\ CanPreserve
  /\ backup' = [backup EXCEPT ![tx.id] = canon[tx.dest]]
  /\ canon' = [canon EXCEPT ![tx.dest] = Absent]
  /\ UNCHANGED <<stage, disk, faulty>>

Preserve ==
  /\ pc = "preserve"
  /\ MoveToBackup
  /\ Continue(IF IsMove(tx) THEN "saveStarted" ELSE "promote")

PreserveLost ==
  /\ pc = "preserve"
  /\ faulty
  /\ MoveToBackup
  /\ Fail

PreserveFails ==
  /\ pc = "preserve"
  /\ faulty \/ ~CanPreserve
  /\ UNCHANGED <<remote, disk, faulty>>
  /\ Fail

Promoted == IF IsMove(tx) THEN canon[tx.source] ELSE stage[tx.id]

CanPromote == canon[tx.dest] = Absent /\ Promoted # Absent

MoveIntoPlace ==
  /\ CanPromote
  /\ IF IsMove(tx)
     THEN /\ canon' = [canon EXCEPT ![tx.dest] = Promoted,
                                    ![tx.source] = Absent]
          /\ UNCHANGED stage
     ELSE /\ canon' = [canon EXCEPT ![tx.dest] = Promoted]
          /\ stage' = [stage EXCEPT ![tx.id] = Absent]
  /\ UNCHANGED <<backup, disk, faulty>>

(* A failed promotion: an upload first tries recoverReplacement. *)
PromotionFailed == IF IsMove(tx) THEN Fail ELSE Continue("undo")

Promote ==
  /\ pc = "promote"
  /\ MoveIntoPlace
  /\ Continue("verifyDest")

PromoteLost ==
  /\ pc = "promote"
  /\ faulty
  /\ MoveIntoPlace
  /\ PromotionFailed

PromoteFails ==
  /\ pc = "promote"
  /\ faulty \/ ~CanPromote
  /\ UNCHANGED <<remote, disk, faulty>>
  /\ PromotionFailed

(* recoverReplacement: with the destination missing, put the original back. *)
CanRestore == canon[tx.dest] = Absent /\ backup[tx.id] # Absent

MoveBack ==
  /\ CanRestore
  /\ canon' = [canon EXCEPT ![tx.dest] = backup[tx.id]]
  /\ backup' = [backup EXCEPT ![tx.id] = Absent]
  /\ UNCHANGED <<stage, disk, faulty>>

Undo ==
  /\ pc = "undo"
  /\ HadOriginal(tx)
  /\ MoveBack
  /\ Continue("cleanupStage")

UndoLost ==
  /\ pc = "undo"
  /\ faulty
  /\ HadOriginal(tx)
  /\ MoveBack
  /\ Fail

UndoFails ==
  /\ pc = "undo"
  /\ faulty \/ ~HadOriginal(tx) \/ ~CanRestore
  /\ UNCHANGED <<remote, disk, faulty>>
  /\ Fail

-----------------------------------------------------------------------------
(* Commit: verify in place, record it, drop the old bytes, forget.         *)

(* In memory the record is committed once the readback matched; the save   *)
(* that makes it durable is the next step.                                 *)
VerifyDest ==
  /\ pc = "verifyDest"
  /\ canon[tx.dest] = tx.hash
  /\ tx' = [tx EXCEPT !.committed = TRUE]
  /\ pc' = "saveCommitted"
  /\ UNCHANGED <<remote, disk, op, caller, reply, old, faulty>>

VerifyDestFails ==
  /\ pc = "verifyDest"
  /\ canon[tx.dest] # tx.hash \/ faulty
  /\ UNCHANGED <<remote, disk, faulty>>
  /\ Fail

(* Mutant: the original is deleted before the commit is durable. *)
CommitNotSaved ==
  /\ pc = "saveCommitted"
  /\ Continue(IF HadOriginal(tx) THEN "dropBackup" ELSE "forget")
  /\ UNCHANGED <<remote, disk, faulty>>

SaveCommitted ==
  /\ pc = "saveCommitted"
  /\ UNCHANGED <<remote, faulty>>
  /\ SaveOrFail(IF HadOriginal(tx) THEN "dropBackup" ELSE "forget")

DropBackup ==
  /\ pc = "dropBackup"
  /\ Known(backup[tx.id], tx.original)
  /\ backup' = Removed(backup, tx.original)
  /\ Continue("forget")
  /\ UNCHANGED <<canon, stage, disk, faulty>>

DropBackupFails ==
  /\ pc = "dropBackup"
  /\ faulty \/ ~Known(backup[tx.id], tx.original)
  /\ backup' \in {backup, Removed(backup, tx.original)}
  /\ UNCHANGED <<canon, stage, disk, faulty>>
  /\ Fail

Forget ==
  /\ pc = "forget"
  /\ UNCHANGED <<remote, faulty>>
  /\ \/ disk' = Forgotten(tx) /\ Return("ok")
     \/ faulty /\ Journaled /\ disk' \in {disk, Forgotten(tx)} /\ Fail

-----------------------------------------------------------------------------
(* recoverUpload: from the operation's defer (with the record in memory)   *)
(* or from RecoverPending (with the record read back from disk).           *)

(* No destination mutation is attempted until Ready is durable. *)
RecoverUnready ==
  /\ pc = "recover"
  /\ ~tx.ready
  /\ stage' = [stage EXCEPT ![tx.id] = Absent]
  /\ Continue("recForget")
  /\ UNCHANGED <<canon, backup, disk, faulty>>

RecoverUnreadyFails ==
  /\ pc = "recover"
  /\ ~tx.ready
  /\ faulty
  /\ stage' \in {stage, [stage EXCEPT ![tx.id] = Absent]}
  /\ UNCHANGED <<canon, backup, disk, faulty>>
  /\ RecoveryFails

(* Mutant: matching bytes at the destination prove any commit. *)
AlwaysProves(r) == TRUE

(* Identical source and target bytes do not prove that a move happened. *)
ProvesCommit(r) == ~IsMove(r) \/ r.moveStarted

(* Mutant: a ready record is completed without looking at the destination. *)
RecoverOnFaith ==
  /\ pc = "recover"
  /\ tx.ready
  /\ tx' = [tx EXCEPT !.committed = TRUE]
  /\ pc' = "saveDone"
  /\ UNCHANGED <<remote, disk, op, caller, reply, old, faulty>>

RecoverForward ==
  /\ pc = "recover"
  /\ tx.ready
  /\ tx.committed \/ (canon[tx.dest] = tx.hash /\ ProvesCommit(tx))
  /\ tx' = [tx EXCEPT !.committed = TRUE]
  /\ pc' = "saveDone"
  /\ UNCHANGED <<remote, disk, op, caller, reply, old, faulty>>

RecoverBack ==
  /\ pc = "recover"
  /\ tx.ready
  /\ ~tx.committed
  /\ faulty \/ canon[tx.dest] # tx.hash \/ ~ProvesCommit(tx)
  /\ Continue("rollSource")
  /\ UNCHANGED <<remote, disk, faulty>>

(* Mutant: a move is rolled back without checking its source. *)
RollSourceUnchecked ==
  /\ pc = "rollSource"
  /\ Continue("rollDest")
  /\ UNCHANGED <<remote, disk, faulty>>

(* A move is rolled back only with its source verified. *)
RollSource ==
  /\ pc = "rollSource"
  /\ IsMove(tx) => canon[tx.source] = tx.hash
  /\ Continue("rollDest")
  /\ UNCHANGED <<remote, disk, faulty>>

RollSourceFails ==
  /\ pc = "rollSource"
  /\ IsMove(tx)
  /\ canon[tx.source] # tx.hash \/ faulty
  /\ UNCHANGED <<remote, disk, faulty>>
  /\ RecoveryFails

(* A destination is restored only where there is none, from a verified     *)
(* backup; without an original, any destination is left alone.             *)
RollDest ==
  /\ pc = "rollDest"
  /\ \/ /\ HadOriginal(tx)
        /\ canon[tx.dest] # Absent
        /\ Continue("verifyRestored")
     \/ /\ HadOriginal(tx)
        /\ canon[tx.dest] = Absent
        /\ backup[tx.id] = tx.original
        /\ Continue("restore")
     \/ /\ ~HadOriginal(tx)
        /\ canon[tx.dest] = Absent
        /\ Continue("rollStage")
  /\ UNCHANGED <<remote, disk, faulty>>

RollDestFails ==
  /\ pc = "rollDest"
  /\ \/ faulty
     \/ /\ HadOriginal(tx)
        /\ canon[tx.dest] = Absent
        /\ backup[tx.id] # tx.original
     \/ /\ ~HadOriginal(tx)
        /\ canon[tx.dest] # Absent
  /\ UNCHANGED <<remote, disk, faulty>>
  /\ RecoveryFails

Restore ==
  /\ pc = "restore"
  /\ MoveBack
  /\ Continue("verifyRestored")

RestoreLost ==
  /\ pc = "restore"
  /\ faulty
  /\ MoveBack
  /\ RecoveryFails

RestoreFails ==
  /\ pc = "restore"
  /\ faulty \/ ~CanRestore
  /\ UNCHANGED <<remote, disk, faulty>>
  /\ RecoveryFails

VerifyRestored ==
  /\ pc = "verifyRestored"
  /\ canon[tx.dest] = tx.original
  /\ Continue("rollStage")
  /\ UNCHANGED <<remote, disk, faulty>>

VerifyRestoredFails ==
  /\ pc = "verifyRestored"
  /\ canon[tx.dest] # tx.original \/ faulty
  /\ UNCHANGED <<remote, disk, faulty>>
  /\ RecoveryFails

(* removeKnown of the stage (an upload's only) and of the backup, after a  *)
(* rollback ("roll...") or after a commit ("done...").                     *)
NeedsStage == ~IsMove(tx)

RemoveStage ==
  /\ pc \in {"rollStage", "doneStage"}
  /\ NeedsStage => Known(stage[tx.id], tx.hash)
  /\ stage' = IF NeedsStage THEN Removed(stage, tx.hash) ELSE stage
  /\ Continue(IF pc = "rollStage" THEN "rollBackup" ELSE "recForget")
  /\ UNCHANGED <<canon, backup, disk, faulty>>

RemoveStageFails ==
  /\ pc \in {"rollStage", "doneStage"}
  /\ NeedsStage
  /\ faulty \/ ~Known(stage[tx.id], tx.hash)
  /\ stage' \in {stage, Removed(stage, tx.hash)}
  /\ UNCHANGED <<canon, backup, disk, faulty>>
  /\ RecoveryFails

RemoveBackup ==
  /\ pc \in {"rollBackup", "doneBackup"}
  /\ HadOriginal(tx) => Known(backup[tx.id], tx.original)
  /\ backup' = IF HadOriginal(tx) THEN Removed(backup, tx.original) ELSE backup
  /\ Continue(IF pc = "rollBackup" THEN "recForget" ELSE "doneStage")
  /\ UNCHANGED <<canon, stage, disk, faulty>>

RemoveBackupFails ==
  /\ pc \in {"rollBackup", "doneBackup"}
  /\ HadOriginal(tx)
  /\ faulty \/ ~Known(backup[tx.id], tx.original)
  /\ backup' \in {backup, Removed(backup, tx.original)}
  /\ UNCHANGED <<canon, stage, disk, faulty>>
  /\ RecoveryFails

(* The commit is durable before anything is deleted. *)
SaveDone ==
  /\ pc = "saveDone"
  /\ UNCHANGED <<remote, faulty>>
  /\ \/ disk' = Saved(tx) /\ Continue("doneBackup")
     \/ SaveError /\ RecoveryFails

RecForget ==
  /\ pc = "recForget"
  /\ UNCHANGED <<remote, faulty>>
  /\ \/ disk' = Forgotten(tx) /\ Recovered
     \/ faulty /\ Journaled /\ disk' \in {disk, Forgotten(tx)} /\ RecoveryFails

-----------------------------------------------------------------------------
(* The environment.                                                        *)

Crash ==
  /\ faulty
  /\ pc # "down"
  /\ pc' = "down"
  /\ tx' = NoTx
  /\ op' = NoOp
  /\ caller' = "none"
  /\ reply' = "none"
  /\ old' = View
  /\ UNCHANGED <<remote, disk, faulty>>

Heal ==
  /\ faulty
  /\ faulty' = FALSE
  /\ UNCHANGED <<remote, disk, pc, tx, op, caller, reply, old>>

RecoveryStep ==
  \/ ScanRecord \/ ScanDone \/ ScanFails
  \/ RecoverUnready \/ RecoverUnreadyFails \/ RecoverForward \/ RecoverBack
  \/ RollSource \/ RollSourceFails \/ RollDest \/ RollDestFails
  \/ Restore \/ RestoreLost \/ RestoreFails
  \/ VerifyRestored \/ VerifyRestoredFails
  \/ RemoveStage \/ RemoveStageFails \/ RemoveBackup \/ RemoveBackupFails
  \/ SaveDone \/ RecForget

OperationStep ==
  \/ DirectPerformed \/ DirectReply \/ DirectRefused
  \/ StatDest \/ StatFails \/ SaveNew \/ Upload \/ VerifyStage
  \/ ReadOriginal \/ ReadOriginalFails \/ SaveReady \/ CleanupStage
  \/ StatMove \/ StatMoveDirectory \/ SaveMove \/ SaveStarted
  \/ Preserve \/ PreserveLost \/ PreserveFails
  \/ Promote \/ PromoteLost \/ PromoteFails
  \/ Undo \/ UndoLost \/ UndoFails
  \/ VerifyDest \/ VerifyDestFails \/ SaveCommitted
  \/ DropBackup \/ DropBackupFails \/ Forget

Next ==
  \/ Start
  \/ \E o \in Ops : Begin(o)
  \/ RecoveryStep
  \/ OperationStep
  \/ Crash
  \/ Heal

Spec == Init /\ [][Next]_vars

(* The process keeps running what it has begun; nobody has to send a       *)
(* request, restart the service or repair the network.                     *)
FairSpec == Spec /\ WF_vars(RecoveryStep \/ OperationStep)

-----------------------------------------------------------------------------
(* Every variable keeps its type; a directory is never recorded as an       *)
(* original.                                                                *)
TypeOK ==
  /\ canon \in [Paths -> Values]
  /\ stage \in [Ids -> Contents \cup {Absent}]
  /\ backup \in [Ids -> Values]
  /\ disk \subseteq Record
  /\ pc \in PCs
  /\ tx \in Record \cup {NoTx}
  /\ op \in Ops \cup {NoOp}
  /\ caller \in {"none", "op", "pending"}
  /\ reply \in {"none", "ok", "failed", "refused", "uncertain"}
  /\ old \in [Paths -> Values]
  /\ faulty \in BOOLEAN

(* The bytes a pending replacement took away from its destination are still *)
(* on the server, at the destination or at the recorded backup name, until  *)
(* the record says the new bytes were verified in place; a pending move's   *)
(* source bytes are at its source or at its destination.                    *)
OriginalPreserved ==
  \A r \in disk : r.ready /\ ~r.committed =>
    /\ HadOriginal(r) => r.original \in {canon[r.dest], backup[r.id]}
    /\ IsMove(r) => r.hash \in {canon[r.source], canon[r.dest]}

(* Write-ahead: a hidden recovery file exists only under a durable record   *)
(* that names it, and a backup only under a record that holds the           *)
(* original's checksum; so a restarted process can find every one of them.  *)
JournalCoversRemote ==
  \A i \in Ids :
    /\ stage[i] # Absent => \E r \in disk : r.id = i /\ ~IsMove(r)
    /\ backup[i] # Absent =>
         \E r \in disk : r.id = i /\ r.ready /\ HadOriginal(r)

(* Mutations wait for recovery, so replacements never pile up.  Recovery of *)
(* one record cannot meet another record's half-done renames.               *)
SinglePending == \A r, s \in disk : r = s

(* validateUploadRecord never rejects a record that saveUpload wrote: a     *)
(* record it rejected would refuse every later mutation.  The scan's limit  *)
(* of 16 KiB, which saveUpload does not check, is not part of it.           *)
JournalReadable == \A r \in disk : ValidRecord(r)

(* "A committed record never restores or deletes its canonical destination" *)
(* (journal.go:229): a durable commit is final, and until the record is     *)
(* forgotten no step of the gateway touches the tree.                       *)
CommitIsFinal ==
  [][\A r \in disk : r.committed =>
       /\ canon' = canon
       /\ \A s \in disk' : s.id = r.id => s = r]_vars

(* Every mutation is atomic, whatever fails: the tree as the next request   *)
(* sees it changes at one step of the operation, or not at all; success and *)
(* clean failure are reported truthfully, and recovery changes nothing that *)
(* can be seen.                                                             *)
AS == INSTANCE AtomicStore WITH store <- View
Atomic == AS!Spec

(* Every request is answered (or cut off by a crash): no retry loop and no  *)
(* waiting on the server's state.                                           *)
Answered == (op # NoOp) ~> (op = NoOp)

(* Once the server and the disk work again, the scan at start-up or before  *)
(* the next mutation clears the journal: no reachable record is one that    *)
(* recoverUpload refuses for ever.                                          *)
NeverWedged == (~faulty /\ pc = "scan") ~> (disk = {} /\ pc = "idle")

(* "Keep gateway readers and other mutations outside the replacement's     *)
(* backup/promotion window" (handler.go:113): between mutations a reader    *)
(* would find at every path what the next mutation will find there.         *)
ReadersSeeNoWindow == pc = "idle" => canon = View

=============================================================================
