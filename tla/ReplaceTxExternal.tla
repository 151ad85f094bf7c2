-------------------------- MODULE ReplaceTxExternal --------------------------
(***************************************************************************)
(* ReplaceTx beside the actors it cannot exclude: another IDrive client    *)
(* that writes and deletes canonical files at any moment (docs/safety.md:  *)
(* "Concurrent modifications from another gateway or the IDrive website    *)
(* cannot be made transactional by this local process"), and the server,   *)
(* which may perform a rename after the gateway gave up on its answer (the *)
(* request's context is cancelled by a disconnecting WebDAV client).       *)
(*                                                                         *)
(* The replacement is then no longer atomic, so the question is the weaker *)
(* one the documents answer: are bytes that nobody gave up ever deleted?   *)
(***************************************************************************)
EXTENDS ReplaceTx

CONSTANTS
  LateRenames,   \* which renames the server may perform late
  Writable       \* what the other client may write (Absent: delete)

ASSUME ExternalAssumption ==
  /\ LateRenames \subseteq {"preserve", "promote", "restore"}
  /\ Writable \subseteq Contents \cup {Absent}

VARIABLES
  late,   \* renames given up by the gateway that the server may still perform
  owed,   \* ghost: stored contents that nobody has deleted or replaced
  raced   \* ghost: a late rename hit a destination that counted as verified

evars == <<vars, late, owed, raced>>

OnServer == {canon[p] : p \in Paths}

EInit ==
  /\ Init
  /\ late = {}
  /\ owed = OnServer \cap Contents
  /\ raced = FALSE

(* Contents v are given up at one place by their owner: they stay owed      *)
(* while another canonical path holds them.                                 *)
OwedWithout(v) == owed \ ({v} \ OnServer')

(* The step that learns of a verified replacement gives the original up,   *)
(* and the new bytes are owed; a DELETE gives up what it deletes.           *)
Commits == tx'.id = tx.id /\ tx'.committed /\ ~tx.committed

Deletes == pc = "direct" /\ pc' = "directReply" /\ op.kind = "delete"

Owe ==
  owed' = IF Commits THEN OwedWithout(tx.original) \cup {tx.hash}
          ELSE IF Deletes THEN OwedWithout(canon[op.dest])
          ELSE owed

(* A rename whose answer never came, and that has not been performed yet.  *)
GivenUp(kind) ==
  /\ kind \in LateRenames
  /\ faulty
  /\ late = {}
  /\ late' = {[kind |-> kind, record |-> tx]}
  /\ UNCHANGED <<owed, raced>>

GatewayStep ==
  \/ /\ Next
     /\ UNCHANGED <<late, raced>>
     /\ Owe
     /\ \A l \in late : tx'.id = l.record.id => tx.id = tx'.id \/ tx' \in disk
  \/ PreserveFails /\ GivenUp("preserve")
  \/ PromoteFails /\ GivenUp("promote")
  \/ RestoreFails /\ GivenUp("restore")

(* The server performs the rename, or finds that it cannot. *)
LatePreserve(r) ==
  /\ canon[r.dest] # Absent /\ backup[r.id] = Absent
  /\ backup' = [backup EXCEPT ![r.id] = canon[r.dest]]
  /\ canon' = [canon EXCEPT ![r.dest] = Absent]
  /\ UNCHANGED stage

LatePromote(r) ==
  /\ canon[r.dest] = Absent
  /\ \/ /\ IsMove(r) /\ canon[r.source] # Absent
        /\ canon' = [canon EXCEPT ![r.dest] = canon[r.source],
                                  ![r.source] = Absent]
        /\ UNCHANGED stage
     \/ /\ ~IsMove(r) /\ stage[r.id] # Absent
        /\ canon' = [canon EXCEPT ![r.dest] = stage[r.id]]
        /\ stage' = [stage EXCEPT ![r.id] = Absent]
  /\ UNCHANGED backup

LateRestore(r) ==
  /\ canon[r.dest] = Absent /\ backup[r.id] # Absent
  /\ canon' = [canon EXCEPT ![r.dest] = backup[r.id]]
  /\ backup' = [backup EXCEPT ![r.id] = Absent]
  /\ UNCHANGED stage

(* Recovery has compared r's destination, or knows of the commit, and has   *)
(* the backup still to remove.                                              *)
TakenAsVerified(r) ==
  \/ \E d \in disk : d.id = r.id /\ d.committed
  \/ tx.id = r.id /\ pc \in {"rollStage", "rollBackup", "saveDone", "doneBackup"}

LateRename ==
  \E l \in late :
    /\ late' = late \ {l}
    /\ \/ /\ l.kind = "preserve"
          /\ LatePreserve(l.record)
          /\ raced' = (raced \/ TakenAsVerified(l.record))
       \/ l.kind = "promote" /\ LatePromote(l.record) /\ UNCHANGED raced
       \/ l.kind = "restore" /\ LateRestore(l.record) /\ UNCHANGED raced
       \/ UNCHANGED <<remote, raced>>
    /\ UNCHANGED <<disk, pc, tx, op, caller, reply, old, faulty, owed>>

(* The other client writes or deletes one file. *)
ExternalWrite(p, v) ==
  /\ canon[p] # v
  /\ canon[p] # Dir
  /\ canon' = [canon EXCEPT ![p] = v]
  /\ owed' = OwedWithout(canon[p]) \cup ({v} \cap Contents)
  /\ UNCHANGED <<stage, backup, disk, pc, tx, op, caller, reply, old, faulty,
                 late, raced>>

ENext ==
  \/ GatewayStep
  \/ LateRename
  \/ \E p \in Paths, v \in Writable : ExternalWrite(p, v)

ESpec == EInit /\ [][ENext]_evars

-----------------------------------------------------------------------------
(* Contents v are at some canonical path or backup name. *)
Kept(v) == v \in OnServer \/ \E i \in Ids : backup[i] = v

(* Nobody's bytes are deleted: what was stored at a path, and was not given *)
(* up by its owner, is still on the server ("the gateway preserves recovery *)
(* files ... rather than deleting uncertain bytes", docs/safety.md:13).  In *)
(* particular removeKnown deletes a backup only when the replacement is     *)
(* verified or the original is back in place.                               *)
NoBytesLost == \A v \in owed : Kept(v)

(* The only way to lose bytes is a preserving rename that the server        *)
(* performs after recoverUpload has verified its destination                *)
(* (journal.go:185, 210) and before removeKnown (journal.go:222, 235).      *)
NoBytesLostUnlessRaced == ~raced => NoBytesLost
=============================================================================
