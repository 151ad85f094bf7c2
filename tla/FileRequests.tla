---------------------------- MODULE FileRequests ----------------------------
(***************************************************************************)
(* What one GET, PUT, COPY or PROPPATCH does to one file: preconditions,   *)
(* the request body and its completeness (handler.go), the files handed to *)
(* the WebDAV library (fs.go: readFile, writeFile), the commit at Close    *)
(* and the retention of uploads that could not be saved (maintenance.go).  *)
(*                                                                         *)
(* Requests come one at a time: the mutations are alone in their process   *)
(* (Gateway: MutationsRunAlone), and a GET shares no state with another    *)
(* that is not in FileCache.  UploadFile is the single step that ReplaceTx *)
(* is shown to implement.  A block stands for a piece of a body.  A second *)
(* gateway process of the same user retains its own failed uploads in the  *)
(* same recovery directory; nobody else changes the remote file.           *)
(***************************************************************************)
EXTENDS Integers, Sequences, FiniteSets

CONSTANTS
  Bodies,      \* identities of request bodies, free again once forgotten
  Others,      \* identities of what the other process retains, free again likewise
  OtherSizes,  \* bound: the sizes of what it retains
  Old,         \* identity of the bytes that were there before
  Limit,       \* evs.MaxUploadSize, in blocks
  MetaSize,    \* the size of a retained upload's JSON file
  Budget,      \* IDRIVE_GATEWAY_RECOVERY_MAX_BYTES
  Absent       \* no file, no content

ASSUME FileRequestsAssumption ==
  /\ IsFiniteSet(Bodies)
  /\ Old \notin Bodies
  /\ Others \cap (Bodies \cup {Old}) = {} /\ OtherSizes \subseteq 0..Limit
  /\ LET contents == [body : Bodies \cup Others \cup {Old}, full : Nat, size : Nat]
     IN Absent \notin contents \cup [content : contents, meta : BOOLEAN]
  /\ Limit \in Nat /\ MetaSize \in Nat /\ Budget \in Nat

VARIABLES
  remote,      \* the file at its canonical path
  staging,     \* writeFile's temporary file
  strays,      \* accepted bodies left in the temporary directory
  recovery,    \* the files of the recovery directory
  foreign,     \* the file in it that the other process is writing
  overlap,     \* history: at the last prune the other process was retaining, too
  pc,          \* how far the request has come
  req,         \* the request
  checked,     \* how its name was understood for the precondition
  at,          \* how its name was understood for opening the file
  got,         \* blocks read from the body, or from COPY's source
  eof,         \* writeState.eof
  broken,      \* writeState.err is not nil
  cancelled,   \* the request's context is done
  handle,      \* a readFile's descriptor and pending position
  sent,        \* the blocks a GET has sent
  reply,       \* the last answer
  owed         \* history: bodies accepted, not overwritten and not evicted

body == <<got, eof, broken>>
retained == <<recovery, foreign, overlap>>
beside == <<foreign, overlap>>
local == <<staging, strays, retained>>
reading == <<handle, sent>>
naming == <<checked, at>>
vars == <<remote, local, pc, req, naming, body, cancelled, reading, reply, owed>>

Sizes == 0..Limit + 1
Content == [body : Bodies \cup Others \cup {Old}, full : Sizes, size : Sizes]
Whole(c) == c.size = c.full

(* A name below "/" is a display name.  "raw": rootAliases translated it.  *)
(* "display": the root could not be listed, and the name stands for itself. *)
Namings == {"raw", "display"}

(* "chunked": no Content-Length. *)
Lengths == Sizes \cup {-1}
Conditions ==
  [match : {"", "*", "tag"}, none : {"", "*", "current", "other"},
   since : {"", "before", "after"}]
Unconditional == [match |-> "", none |-> "", since |-> ""]
IfAbsent == [Unconditional EXCEPT !.none = "*"]

Methods == {"GET", "PUT", "COPY", "PROPPATCH"}
Requests ==
  [method : Methods, body : Bodies, size : Sizes, length : Lengths,
   cond : Conditions, from : Sizes]

NoFile == [open |-> FALSE, offset |-> 0, pending |-> 0]

Replies == {"none", "refused", "failed", "stored", "unchanged", "served",
            "staged", "copied", "kept"}

Init ==
  /\ remote \in {Absent} \cup {[body |-> Old, full |-> n, size |-> n] : n \in Sizes}
  /\ staging = Absent
  /\ strays = {}
  /\ recovery = {} /\ foreign = Absent /\ overlap = FALSE
  /\ pc = "idle"
  /\ \E b \in Bodies :
       req = [method |-> "GET", body |-> b, size |-> 0, length |-> 0,
              cond |-> Unconditional, from |-> 0]
  /\ checked = "raw" /\ at = "raw"
  /\ got = 0 /\ eof = FALSE /\ broken = FALSE
  /\ cancelled = FALSE
  /\ handle = NoFile /\ sent = <<>>
  /\ reply = "none"
  /\ owed = {}

-----------------------------------------------------------------------------
Named(b, contents) == \E c \in contents \ {Absent} : c.body = b

Retained == {f.content : f \in recovery}
Forgotten(b) == ~Named(b, {remote} \cup strays \cup Retained)

FileSize(f) == f.content.size + (IF f.meta THEN MetaSize ELSE 0)
Bytes(files) == UNION {{f} \X (1..FileSize(f)) : f \in files}
TotalSize(files) == Cardinality(Bytes(files))

(* The request and all that belongs to it are over. *)
Answer(r) ==
  /\ reply' = r
  /\ pc' = "idle"
  /\ got' = 0 /\ eof' = FALSE /\ broken' = FALSE
  /\ cancelled' = FALSE
  /\ checked' = "raw" /\ at' = "raw"
  /\ handle' = NoFile

(* It goes on. *)
Goto(label) == pc' = label /\ UNCHANGED reply

(* os.Remove(f.tempPath), or the temporary file stays where it is. *)
RemoveStaging == staging' = Absent /\ UNCHANGED strays
LeaveStaging ==
  /\ staging' = Absent
  /\ strays' = IF staging # Absent /\ staging.body \in owed
               THEN strays \cup {staging} ELSE strays

-----------------------------------------------------------------------------
(* Admission and preconditions.                                            *)

(* A request arrives, with a state of its own. *)
Arrive(r, label) ==
  /\ pc = "idle"
  /\ req' = r
  /\ sent' = <<>>
  /\ reply' = "none"
  /\ pc' = label
  /\ UNCHANGED <<remote, local, body, cancelled, naming, handle, owed>>

ArrivingPut(b, n, l, k) ==
  [method |-> "PUT", body |-> b, size |-> n, length |-> l, cond |-> k, from |-> 0]
ArrivingCopy(b, n) ==
  [method |-> "COPY", body |-> b, size |-> n, length |-> 0,
   cond |-> IfAbsent, from |-> 0]

(* The bound Tried keeps conditions to bodies of one block, with one       *)
(* condition each.                                                         *)
Tried(n, l) ==
  IF n = 1 /\ l = 1
  THEN {k \in Conditions : Cardinality({h \in DOMAIN k : k[h] # ""}) <= 1}
  ELSE {Unconditional}

(* Without conditions checkPreconditions returns at once.  The body may be *)
(* shorter than its Content-Length, or come without one.                   *)
Put ==
  \E b \in Bodies, n \in Sizes :
    /\ Forgotten(b)
    /\ \E l \in {n, n + 1, -1} :
         /\ l <= Limit
         /\ \E k \in Tried(n, l) :
              Arrive(ArrivingPut(b, n, l, k),
                     IF k = Unconditional THEN "open" ELSE "check")

(* Content-Length exceeds the limit. *)
PutTooLarge ==
  /\ pc = "idle"
  /\ reply' = "refused"
  /\ UNCHANGED <<remote, local, pc, req, naming, body, cancelled, reading, owed>>

(* The handler sets Overwrite:F, which is a condition on the destination;  *)
(* the body is read from a readFile of the source.                         *)
Copy ==
  \E b \in Bodies, n \in Sizes :
    /\ Forgotten(b)
    /\ Arrive(ArrivingCopy(b, n), "check")

Proppatch ==
  Arrive([req EXCEPT !.method = "PROPPATCH", !.cond = Unconditional, !.from = 0], "open")

Exists(naming_) == naming_ = "raw" /\ remote # Absent

(* Mutant: If-None-Match is only compared with the tag, "*" with nothing. *)
FailsUnlessTag(k, exists) ==
  IF k.match # "" THEN ~exists \/ k.match # "*"
  ELSE exists /\ (k.since = "before" \/ k.none = "current")

(* `failed' in checkPreconditions.  Tags are weak, so If-Match never holds   *)
(* for one.  "before": the file was modified after If-Unmodified-Since.    *)
Fails(k, exists) ==
  \/ IF k.match # "" THEN ~exists \/ k.match # "*"
     ELSE k.since = "before" /\ exists
  \/ k.none \in {"*", "current"} /\ exists

(* checkPreconditions, or the library's look at the destination of a COPY. *)
CheckPreconditions ==
  /\ pc = "check"
  /\ \E how \in Namings :
       \/ /\ Fails(req.cond, Exists(how))
          /\ Answer("refused")
       \/ /\ ~Fails(req.cond, Exists(how))
          /\ checked' = how
          /\ Goto("open")
          /\ UNCHANGED <<at, body, cancelled, handle>>
  /\ UNCHANGED <<remote, local, req, sent, owed>>

(* The file cannot be looked up, which is not the same as not finding it. *)
CheckFails ==
  /\ pc = "check"
  /\ Answer("refused")
  /\ UNCHANGED <<remote, local, req, sent, owed>>

-----------------------------------------------------------------------------
(* newWriteFile.                                                           *)

Creates == req.method \in {"PUT", "COPY"}

OpenWrite ==
  /\ pc = "open"
  /\ \E how \in Namings :
       /\ Creates \/ Exists(how)
       /\ at' = how
  /\ staging' = IF Creates
                THEN [body |-> req.body, full |-> req.size, size |-> 0]
                ELSE remote
  /\ Goto(IF Creates THEN "body" ELSE "close")
  /\ UNCHANGED <<remote, strays, retained, req, checked, body, cancelled,
                 reading, owed>>

(* CreateTemp, Stat, the download or a seek fails, or the file is missing; *)
(* the temporary file is removed.                                          *)
OpenFails ==
  /\ pc = "open"
  /\ Answer("failed")
  /\ UNCHANGED <<remote, local, req, sent, owed>>

-----------------------------------------------------------------------------
(* io.Copy from the request body, or from COPY's source, to the writeFile. *)

(* Reading a block, perhaps with the body's end, and writing it. *)
Transfer ==
  /\ pc = "body"
  /\ got < req.size /\ got < Limit
  /\ got' = got + 1
  /\ eof' \in {FALSE, req.method = "PUT" /\ got' = req.size}
  /\ \/ /\ staging' = [staging EXCEPT !.size = @ + 1]
        /\ pc' = IF eof' THEN "close" ELSE "body"
        /\ UNCHANGED broken
     \/ /\ broken' = TRUE     \* a full disk
        /\ pc' = "close"
        /\ UNCHANGED staging
  /\ UNCHANGED <<remote, strays, retained, req, naming, cancelled, reading,
                 reply, owed>>

(* io.EOF; requestBody notices it, a readFile does not tell. *)
TransferEnds ==
  /\ pc = "body"
  /\ got = req.size
  /\ eof' = (req.method = "PUT")
  /\ pc' = "close"
  /\ UNCHANGED <<remote, local, req, naming, got, broken, cancelled, reading,
                 reply, owed>>

(* MaxBytesReader refuses to read on, or Write to write on. *)
TransferTooLarge ==
  /\ pc = "body"
  /\ got = Limit /\ got < req.size
  /\ broken' = TRUE
  /\ pc' = "close"
  /\ UNCHANGED <<remote, local, req, naming, got, eof, cancelled, reading,
                 reply, owed>>

(* Mutant: no deadline, so that only a lost connection ends the read. *)
TransferBreaksOnCancel ==
  /\ pc = "body"
  /\ cancelled
  /\ broken' = TRUE
  /\ pc' = "close"
  /\ UNCHANGED <<remote, local, req, naming, got, eof, cancelled, reading,
                 reply, owed>>

(* The connection ends early, or stays silent for two minutes; or the      *)
(* source of COPY cannot be downloaded or read.                            *)
TransferBreaks ==
  /\ pc = "body"
  /\ broken' = TRUE
  /\ pc' = "close"
  /\ UNCHANGED <<remote, local, req, naming, got, eof, cancelled, reading,
                 reply, owed>>

-----------------------------------------------------------------------------
(* writeFile.Close.                                                        *)

(* Mutants: an error is forgotten; only written files are committed.       *)
CompleteByCount ==
  req.method = "PUT" => eof /\ (req.length >= 0 => got = req.length)
CommitsDirty == staging.size > 0 /\ Creates

(* writeState.complete *)
Complete ==
  /\ ~broken
  /\ req.method = "PUT" => eof /\ (req.length >= 0 => got = req.length)

(* dirty || commitOnClose: a file opened without O_TRUNC is never written. *)
Commits == Creates

CloseUnchanged ==
  /\ pc = "close"
  /\ ~Commits
  /\ RemoveStaging
  /\ Answer(IF Creates THEN "stored" ELSE "unchanged")
  /\ UNCHANGED <<remote, retained, req, sent, owed>>

(* The local close fails, the request is over, or its body is incomplete.  *)
CloseDiscards ==
  /\ pc = "close"
  /\ RemoveStaging
  /\ Answer("failed")
  /\ UNCHANGED <<remote, retained, req, sent, owed>>

CloseAccepts ==
  /\ pc = "close"
  /\ Commits
  /\ Complete
  /\ ~cancelled
  /\ owed' = owed \cup {req.body}
  /\ pc' = "commit"
  /\ UNCHANGED <<remote, local, req, naming, body, cancelled, reading, reply>>

(* UploadFile succeeds.  It refuses a parent directory that does not exist. *)
Commit ==
  /\ pc = "commit"
  /\ at = "raw"
  /\ remote' = staging
  /\ owed' = owed \ {b \in Bodies : b # staging.body /\ Named(b, {remote})}
  /\ pc' = "finish"
  /\ UNCHANGED <<local, req, naming, body, cancelled, reading, reply>>

(* The cached downloads cannot be invalidated, or UploadFile fails: before *)
(* its effect, or "uncertain" with the new bytes in place.                 *)
CommitFails ==
  /\ pc = "commit"
  /\ \/ UNCHANGED <<remote, owed>>
     \/ /\ at = "raw"
        /\ remote' = staging
        /\ owed' = owed \ {b \in Bodies : b # staging.body /\ Named(b, {remote})}
  /\ pc' = "retain"
  /\ UNCHANGED <<local, req, naming, body, cancelled, reading, reply>>

Finish ==
  /\ pc = "finish"
  /\ \/ RemoveStaging /\ Answer("stored")
     \/ LeaveStaging /\ Answer("failed")
  /\ UNCHANGED <<remote, retained, req, sent, owed>>

-----------------------------------------------------------------------------
(* retainUpload, and the answer that says where the bytes are.             *)

Upload(n, meta) == [content |-> [staging EXCEPT !.size = n], meta |-> meta]

(* Mutant: the budget is not reduced by the upload it makes room for. *)
FitsAlone(files) == TotalSize(files) <= Budget

(* pruneFiles: enough of the older files are gone for this one to fit.     *)
Fits(files) == TotalSize(files) + staging.size + MetaSize <= Budget

(* What is still owed when pruneFiles leaves only these.                   *)
Unevicted(kept) ==
  owed \ {b \in Bodies : \E f \in recovery \ kept : f.content.body = b}

(* Mutant: the temporary file is removed whatever became of the copy. *)
RetainFailsUnstaged ==
  /\ pc \in {"retain", "create"}
  /\ RemoveStaging
  /\ Answer("staged")
  /\ UNCHANGED <<remote, retained, req, sent, owed>>

(* The directory cannot be made or walked, the upload alone exceeds the    *)
(* budget, or a file cannot be created.                                    *)
RetainFails ==
  /\ pc \in {"retain", "create"}
  /\ LeaveStaging
  /\ Answer("staged")
  /\ UNCHANGED <<remote, retained, req, sent, owed>>

RetainPrune ==
  /\ pc = "retain"
  /\ staging.size <= Budget - MetaSize
  /\ \E kept \in SUBSET recovery :
       /\ Fits(kept)
       /\ recovery' = kept
       /\ owed' = Unevicted(kept)
  /\ overlap' = (foreign # Absent)
  /\ pc' = "create"
  /\ UNCHANGED <<remote, staging, strays, foreign, req, naming, body, cancelled,
                 reading, reply>>

RetainCreate ==
  /\ pc = "create"
  /\ recovery' = recovery \cup {Upload(0, FALSE)}
  /\ pc' = "copy"
  /\ UNCHANGED <<remote, staging, strays, beside, req, naming, body, cancelled,
                 reading, reply, owed>>

(* Replace the upload's file, if no other process has pruned it meanwhile. *)
Rewrite(old, new) ==
  recovery' = IF old \in recovery THEN (recovery \ {old}) \cup new ELSE recovery

RetainCopy ==
  /\ pc = "copy"
  /\ Rewrite(Upload(0, FALSE), {Upload(staging.size, FALSE)})
  /\ pc' = "describe"
  /\ UNCHANGED <<remote, staging, strays, beside, req, naming, body, cancelled,
                 reading, reply, owed>>

(* The copy cannot be written, synced or closed, and is removed. *)
RetainCopyFails ==
  /\ pc = "copy"
  /\ Rewrite(Upload(0, FALSE), {})
  /\ LeaveStaging
  /\ Answer("staged")
  /\ UNCHANGED <<remote, beside, req, sent, owed>>

RetainDescribe ==
  /\ pc = "describe"
  /\ Rewrite(Upload(staging.size, FALSE), {Upload(staging.size, TRUE)})
  /\ pc' = "unstage"
  /\ UNCHANGED <<remote, staging, strays, beside, req, naming, body, cancelled,
                 reading, reply, owed>>

(* The JSON file cannot be written (perhaps after its rename): both the    *)
(* copy and the temporary file stay.                                       *)
RetainDescribeFails ==
  /\ pc = "describe"
  /\ \E meta \in BOOLEAN :
       Rewrite(Upload(staging.size, FALSE), {Upload(staging.size, meta)})
  /\ LeaveStaging
  /\ Answer("copied")
  /\ UNCHANGED <<remote, beside, req, sent, owed>>

Unstage ==
  /\ pc = "unstage"
  /\ RemoveStaging
  /\ Answer("kept")
  /\ UNCHANGED <<remote, retained, req, sent, owed>>

(* The other gateway process: retainUpload there.  recoveryMu is its own,   *)
(* so it prunes for its upload alone, and may evict one that this process  *)
(* is still writing; this process may evict its own likewise.              *)
ForeignPrune ==
  /\ foreign = Absent
  /\ \E x \in Others, n \in OtherSizes, kept \in SUBSET recovery :
       /\ \A f \in kept : f.content.body # x
       /\ TotalSize(kept) + n + MetaSize <= Budget
       /\ foreign' = [content |-> [body |-> x, full |-> n, size |-> 0], meta |-> FALSE]
       /\ recovery' = kept \cup {foreign'}
       /\ owed' = Unevicted(kept)
  /\ overlap' = (pc \in {"create", "copy", "describe"})
  /\ UNCHANGED <<remote, staging, strays, pc, req, naming, body, cancelled,
                 reading, reply>>

ForeignCopy ==
  /\ foreign # Absent
  /\ foreign.content.size < foreign.content.full
  /\ foreign' = [foreign EXCEPT !.content.size = foreign.content.full]
  /\ Rewrite(foreign, {foreign'})
  /\ UNCHANGED <<remote, staging, strays, overlap, pc, req, naming, body, cancelled,
                 reading, reply, owed>>

ForeignDescribe ==
  /\ foreign # Absent
  /\ Whole(foreign.content)
  /\ Rewrite(foreign, {[foreign EXCEPT !.meta = TRUE]})
  /\ foreign' = Absent
  /\ UNCHANGED <<remote, staging, strays, overlap, pc, req, naming, body, cancelled,
                 reading, reply, owed>>

(* A step of it fails or its process dies: its copy is removed, or stays.   *)
ForeignFails ==
  /\ foreign # Absent
  /\ recovery' \in {recovery, recovery \ {foreign}}
  /\ foreign' = Absent
  /\ UNCHANGED <<remote, staging, strays, overlap, pc, req, naming, body, cancelled,
                 reading, reply, owed>>

(* The temporary directory is emptied by its user. *)
EmptyTemp ==
  /\ pc = "idle"
  /\ strays # {}
  /\ strays' = {}
  /\ owed' = owed \ {b \in Bodies : Named(b, strays)}
  /\ UNCHANGED <<remote, staging, retained, pc, req, naming, body, cancelled,
                 reading, reply>>

-----------------------------------------------------------------------------
(* GET: the library opens the file, may read its first block to guess its  *)
(* type, seeks to the range asked for and sends it.                        *)

Get ==
  \E n \in Sizes :
    /\ remote # Absent /\ n < remote.size
    /\ Arrive([req EXCEPT !.method = "GET", !.cond = Unconditional, !.from = n],
              "openRead")

OpenRead ==
  /\ pc = "openRead"
  /\ \E label \in {"sniff", "seek"} : Goto(label)
  /\ UNCHANGED <<remote, local, req, naming, body, cancelled, reading, owed>>

(* Stat fails, or the name could not be translated and is not found. *)
OpenReadFails ==
  /\ pc = "openRead"
  /\ Answer("failed")
  /\ UNCHANGED <<remote, local, req, sent, owed>>

(* Mutant: a position sought before the download is forgotten. *)
EnsureLocalAtStart(h) == [h EXCEPT !.open = TRUE, !.offset = 0]

(* readFile.ensureLocal, Seek from the start, and the offset after a Read. *)
EnsureLocal(h) ==
  IF h.open THEN h ELSE [h EXCEPT !.open = TRUE, !.offset = h.pending]
Seek(h, n) == IF h.open THEN [h EXCEPT !.offset = n] ELSE [h EXCEPT !.pending = n]
Advance(h) == [h EXCEPT !.offset = @ + 1]

Sniff ==
  /\ pc = "sniff"
  /\ handle' = Seek(Advance(EnsureLocal(handle)), 0)
  /\ pc' = "seek"
  /\ UNCHANGED <<remote, local, req, naming, body, cancelled, sent, reply, owed>>

(* Seek to the end and back for the size, then to the range. *)
SeekRange ==
  /\ pc = "seek"
  /\ handle' = Seek(Seek(Seek(handle, remote.size), 0), req.from)
  /\ pc' = "send"
  /\ UNCHANGED <<remote, local, req, naming, body, cancelled, sent, reply, owed>>

Send ==
  /\ pc = "send"
  /\ EnsureLocal(handle).offset < remote.size
  /\ sent' = Append(sent, EnsureLocal(handle).offset)
  /\ handle' = Advance(EnsureLocal(handle))
  /\ UNCHANGED <<remote, local, pc, req, naming, body, cancelled, reply, owed>>

SendEnds ==
  /\ pc = "send"
  /\ EnsureLocal(handle).offset = remote.size
  /\ Answer("served")
  /\ UNCHANGED <<remote, local, req, sent, owed>>

(* The download fails, or the client does not read on for two minutes. *)
ReadFails ==
  /\ pc \in {"sniff", "send"}
  /\ Answer("failed")
  /\ UNCHANGED <<remote, local, req, sent, owed>>

-----------------------------------------------------------------------------
(* Later, it only makes steps fail that may fail anyway. *)
Cancel ==
  /\ pc \in {"body", "close"}
  /\ ~cancelled
  /\ cancelled' = TRUE
  /\ UNCHANGED <<remote, local, pc, req, naming, body, reading, reply, owed>>

(* The process dies; its files stay, and nobody is answered. *)
Crash ==
  /\ pc # "idle"
  /\ LeaveStaging
  /\ Answer("none")
  /\ UNCHANGED <<remote, retained, req, sent, owed>>

(* The steps the code takes by itself.  The client decides about Transfer. *)
Step ==
  \/ CheckPreconditions \/ CheckFails \/ OpenWrite \/ OpenFails
  \/ TransferEnds \/ TransferTooLarge \/ TransferBreaks
  \/ CloseUnchanged \/ CloseDiscards \/ CloseAccepts
  \/ Commit \/ CommitFails \/ Finish
  \/ RetainFails \/ RetainPrune \/ RetainCreate \/ RetainCopy \/ RetainCopyFails
  \/ RetainDescribe \/ RetainDescribeFails \/ Unstage
  \/ OpenRead \/ OpenReadFails \/ Sniff \/ SeekRange \/ Send \/ SendEnds \/ ReadFails

Next ==
  \/ Put \/ PutTooLarge \/ Copy \/ Proppatch \/ Get \/ Transfer \/ Step
  \/ Cancel \/ Crash \/ EmptyTemp
  \/ ForeignPrune \/ ForeignCopy \/ ForeignDescribe \/ ForeignFails

Spec == Init /\ [][Next]_vars
FairSpec == Spec /\ WF_vars(Step)

-----------------------------------------------------------------------------
(* Every variable keeps its type. *)
TypeOK ==
  /\ remote \in Content \cup {Absent}
  /\ staging \in Content \cup {Absent}
  /\ strays \subseteq Content
  /\ recovery \subseteq [content : Content, meta : BOOLEAN]
  /\ foreign \in {Absent} \cup
       [content : [body : Others, full : 0..Limit, size : 0..Limit], meta : {FALSE}]
  /\ overlap \in BOOLEAN
  /\ pc \in {"idle", "check", "open", "body", "close", "commit", "finish",
             "retain", "create", "copy", "describe", "unstage",
             "openRead", "sniff", "seek", "send"}
  /\ req \in Requests
  /\ checked \in Namings /\ at \in Namings
  /\ got \in Sizes /\ eof \in BOOLEAN /\ broken \in BOOLEAN
  /\ cancelled \in BOOLEAN
  /\ handle \in [open : BOOLEAN, offset : Nat, pending : Nat]
  /\ sent \in Seq(Sizes)
  /\ reply \in Replies
  /\ owed \subseteq Bodies

(* "A failed or incomplete incoming request is discarded without           *)
(* committing its partial body" (safety.md:9): whatever breaks off, the    *)
(* connection, the disk or the source of a COPY, neither the file nor a    *)
(* described recovery copy is ever part of a body.                         *)
WholeBodiesOnly ==
  /\ remote # Absent => Whole(remote)
  /\ \A f \in recovery : f.meta => Whole(f.content)

(* An answer says where the body is: "stored" means the file is exactly    *)
(* this body; an error that names a recovery copy or a temporary file      *)
(* names one that is there ("the error identifies the staging/recovery     *)
(* file that remains", safety.md:15), unless it was evicted afterwards.    *)
TruthfulReply ==
  pc = "idle" =>
    LET mine == [body |-> req.body, full |-> req.size, size |-> req.size]
    IN /\ reply = "stored" => remote = mine
       /\ req.body \in owed =>
            /\ reply = "kept" => [content |-> mine, meta |-> TRUE] \in recovery
            /\ reply = "copied" => mine \in Retained
            /\ reply = "staged" => mine \in strays

(* A body that was accepted is kept somewhere in full, at every moment and *)
(* across crashes, until it is overwritten or evicted as an older one      *)
(* ("Complete local uploads that fail to save are retained", safety.md:15). *)
NothingLost ==
  \A b \in owed :
    \E c \in {remote, staging} \cup strays \cup Retained :
      c # Absent /\ c.body = b /\ Whole(c)

(* Retained uploads and their descriptions stay within the budget, crashes *)
(* half way through a retention included.  Two processes that retain at    *)
(* the same time prune for themselves only, and may reach twice the budget *)
(* until the next one prunes alone.                                        *)
WithinBudget == TotalSize(recovery) <= IF overlap THEN 2 * Budget ELSE Budget

(* What RFC 9110 lets a conditional write replace, given that tags are weak. *)
MayReplace(k, old) ==
  /\ k.match = "*" => old # Absent
  /\ k.match # "tag"
  /\ k.none \in {"*", "current"} => old = Absent
  /\ k.match = "" /\ k.since = "before" => old = Absent

(* "Evaluate write preconditions under the mutation guard"                 *)
(* (reliability-review-2026-10-27.md:26): the file a PUT replaces is one   *)
(* its conditions allow, although they were checked many steps before.     *)
(* Excepted are names that could not be translated when they were checked. *)
ConditionalWrite ==
  [][pc = "commit" /\ remote' # remote =>
       MayReplace(req.cond, remote) \/ checked = "display"]_vars

(* The same without the exception.                                         *)
ConditionsAlwaysHold ==
  [][pc = "commit" /\ remote' # remote => MayReplace(req.cond, remote)]_vars

(* A GET sends the range it was asked for, in order and complete, whether  *)
(* the position was sought before or after the file was downloaded.        *)
RangeServed ==
  /\ \A i \in DOMAIN sent : sent[i] = req.from + i - 1
  /\ reply = "served" => Len(sent) = remote.size - req.from

(* Every request is answered or dies with its process: a client that       *)
(* neither sends nor leaves cannot hold the mutation guard for ever.       *)
Answered == (pc # "idle") ~> (pc = "idle")

=============================================================================
