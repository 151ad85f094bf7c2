-------------------------- MODULE FileRequestsProofs --------------------------
(***************************************************************************)
(* Proofs about FileRequests, for any set of bodies and any limits, and    *)
(* about the names of RootAliases.                                         *)
(***************************************************************************)
EXTENDS FileRequests, RootAliases, FiniteSetTheorems, TLAPS

USE DEF retained, beside

(* Program points without a temporary file, those of a GET, and those      *)
(* after a body was accepted.                                              *)
Early == {"idle", "check", "open", "openRead", "sniff", "seek", "send"}
Reading == {"openRead", "sniff", "seek", "send"}
Late == {"commit", "finish", "retain", "create", "copy", "describe", "unstage"}

(* What a request has and has not done yet. *)
Progress ==
  /\ pc # "idle" => reply = "none"
  /\ pc \in Early => staging = Absent /\ got = 0 /\ ~eof /\ ~broken
  /\ pc \in Reading => remote # Absent /\ req.from < remote.size
  /\ pc \in {"check", "body"} \cup Late => Creates

(* What the temporary file holds: got blocks of the body while nothing has *)
(* broken, all of it once it is closed, and a copy of the file if that was *)
(* opened without truncating it.                                           *)
Staged ==
  /\ pc \notin Early => staging # Absent
  /\ pc \notin Early /\ Creates => staging.body = req.body /\ staging.full = req.size
  /\ pc = "body" => ~broken /\ staging.size = got
  /\ pc = "close" /\ Creates /\ ~broken => staging.size = req.size
  /\ pc = "close" /\ ~Creates => staging = remote
  /\ pc \in Late => staging.size = req.size

(* Where the body of the request is.  Until it is accepted it is owed to   *)
(* nobody; afterwards each step of the retention finds what the one before *)
(* it left in the recovery directory, unless it was evicted.               *)
Whereabouts ==
  /\ pc \in {"check", "open", "body", "close"} /\ Creates => req.body \notin owed
  /\ pc = "finish" => remote = staging
  /\ req.body \in owed =>
       /\ pc = "copy" => Upload(0, FALSE) \in recovery
       /\ pc = "describe" => Upload(staging.size, FALSE) \in recovery
       /\ pc = "unstage" => Upload(staging.size, TRUE) \in recovery

(* From the check to the commit nobody else changes the file. *)
ConditionHolds ==
  pc \in {"open", "body", "close", "commit"} /\ Creates /\ checked = "raw" =>
     ~Fails(req.cond, remote # Absent)

(* What a GET has sent ends where its descriptor stands. *)
Sending ==
  /\ pc \in {"openRead", "sniff", "seek"} => sent = << >>
  /\ pc = "send" => /\ EnsureLocal(handle).offset = req.from + Len(sent)
                    /\ EnsureLocal(handle).offset <= remote.size

IInv ==
  /\ TypeOK
  /\ Progress
  /\ Staged
  /\ Whereabouts
  /\ ConditionHolds
  /\ Sending
  /\ WholeBodiesOnly
  /\ TruthfulReply
  /\ NothingLost
  /\ RangeServed

-----------------------------------------------------------------------------
(* Type correctness.                                                       *)

Labels == Early \cup Late \cup {"body", "close"}
Uploads == [content : Content, meta : BOOLEAN]
ForeignUploads ==
  [content : [body : Others, full : 0..Limit, size : 0..Limit], meta : {FALSE}]

(* What no answer and no arrival of a request touches. *)
FilesType ==
  /\ remote \in Content \cup {Absent}
  /\ staging \in Content \cup {Absent}
  /\ strays \subseteq Content
  /\ recovery \subseteq Uploads
  /\ foreign \in {Absent} \cup ForeignUploads
  /\ overlap \in BOOLEAN
  /\ owed \subseteq Bodies

RequestType ==
  /\ pc \in Labels
  /\ req \in Requests
  /\ checked \in Namings /\ at \in Namings
  /\ got \in Sizes /\ eof \in BOOLEAN /\ broken \in BOOLEAN
  /\ cancelled \in BOOLEAN
  /\ handle \in [open : BOOLEAN, offset : Nat, pending : Nat]
  /\ sent \in Seq(Sizes)
  /\ reply \in Replies

(* The two halves of the type invariant. *)
LEMMA Types == TypeOK <=> FilesType /\ RequestType
  BY DEF TypeOK, FilesType, RequestType, Labels, Early, Late, Uploads, ForeignUploads

(* The same after a step. *)
LEMMA TypesNext == TypeOK' <=> FilesType' /\ RequestType'
  BY DEF TypeOK, FilesType, RequestType, Labels, Early, Late, Uploads, ForeignUploads

(* Sizes are counted in blocks. *)
LEMMA SizesAreNumbers == Sizes \subseteq Nat /\ 0 \in Sizes
  BY FileRequestsAssumption DEF Sizes

(* A missing file is told from every content. *)
LEMMA AbsentIsNoContent == Absent \notin Content
  BY FileRequestsAssumption, SizesAreNumbers DEF Content

(* Answering keeps the types. *)
LEMMA AnswerType ==
  ASSUME NEW r \in Replies, Answer(r), RequestType, req' = req, sent' = sent
  PROVE  RequestType'
  BY SizesAreNumbers DEF Answer, RequestType, Labels, Early, NoFile, Namings

(* The temporary file is gone, or stays behind where it was. *)
LEMMA StagingType ==
  ASSUME RemoveStaging \/ LeaveStaging, FilesType
  PROVE  staging' = Absent /\ strays' \subseteq Content
  BY DEF RemoveStaging, LeaveStaging, FilesType

(* The files that a retention makes are uploads. *)
LEMMA UploadType ==
  ASSUME NEW n \in Sizes, NEW meta \in BOOLEAN, staging \in Content
  PROVE  Upload(n, meta) \in Uploads
  BY DEF Upload, Content, Uploads

(* Whatever is evicted, the recovery directory holds files. *)
LEMMA RewriteType ==
  ASSUME NEW old, NEW new \in SUBSET Uploads, Rewrite(old, new), FilesType
  PROVE  recovery' \subseteq Uploads
  BY DEF Rewrite, FilesType

(* The conditions that are used are conditions. *)
LEMMA ConditionsType ==
  Unconditional \in Conditions /\ IfAbsent \in Conditions
  BY DEF Unconditional, IfAbsent, Conditions

(* What arrives, and where it goes first. *)
Arriving(r, label) ==
  /\ r \in Requests
  /\ Arrive(r, label)
  /\ \/ /\ r.method \in {"PUT", "COPY"}
        /\ Forgotten(r.body)
        /\ label = "check" \/ (label = "open" /\ r.cond = Unconditional)
     \/ r.method = "PROPPATCH" /\ label = "open"
     \/ /\ r.method = "GET" /\ label = "openRead"
        /\ remote # Absent /\ r.from < remote.size

(* Every request arrives in the same way. *)
LEMMA Arrivals ==
  ASSUME RequestType, Put \/ Copy \/ Proppatch \/ Get
  PROVE  \E r \in Requests, label \in {"check", "open", "openRead"} : Arriving(r, label)
<1>1. CASE Put
  <2>1. PICK b \in Bodies, n \in Sizes :
          /\ Forgotten(b)
          /\ \E l \in {n, n + 1, -1} :
               /\ l <= Limit
               /\ \E k \in Tried(n, l) :
                    Arrive(ArrivingPut(b, n, l, k),
                           IF k = Unconditional THEN "open" ELSE "check")
    BY <1>1 DEF Put
  <2>2. PICK l \in {n, n + 1, -1} :
          /\ l <= Limit
          /\ \E k \in Tried(n, l) :
               Arrive(ArrivingPut(b, n, l, k),
                      IF k = Unconditional THEN "open" ELSE "check")
    BY <2>1
  <2>3. PICK k \in Tried(n, l) :
          Arrive(ArrivingPut(b, n, l, k),
                 IF k = Unconditional THEN "open" ELSE "check")
    BY <2>2
  <2>4. k \in Conditions
    BY ConditionsType DEF Tried
  <2>5. ArrivingPut(b, n, l, k) \in Requests
    <3>1. l \in Lengths
      BY <2>2, FileRequestsAssumption DEF Lengths, Sizes
    <3> QED
      BY <2>4, <3>1, SizesAreNumbers DEF ArrivingPut, Requests, Methods
  <2>6. Arriving(ArrivingPut(b, n, l, k),
                 IF k = Unconditional THEN "open" ELSE "check")
    BY <2>1, <2>3, <2>5 DEF Arriving, ArrivingPut
  <2> QED
    BY <2>5, <2>6
<1>2. CASE Copy
  <2>1. PICK b \in Bodies, n \in Sizes :
          Forgotten(b) /\ Arrive(ArrivingCopy(b, n), "check")
    BY <1>2 DEF Copy
  <2>2. ArrivingCopy(b, n) \in Requests
    BY ConditionsType, SizesAreNumbers
       DEF ArrivingCopy, Requests, Methods, Lengths
  <2>3. Arriving(ArrivingCopy(b, n), "check")
    BY <2>1, <2>2 DEF Arriving, ArrivingCopy
  <2> QED
    BY <2>2, <2>3
<1>3. CASE Proppatch
  <2> DEFINE r == [req EXCEPT !.method = "PROPPATCH", !.cond = Unconditional, !.from = 0]
  <2>1. r \in Requests /\ r.method = "PROPPATCH"
    BY ConditionsType, SizesAreNumbers DEF RequestType, Requests, Methods
  <2>2. Arriving(r, "open")
    BY <1>3, <2>1 DEF Proppatch, Arriving
  <2> QED
    BY <2>1, <2>2
<1>4. CASE Get
  <2> DEFINE r(n) == [req EXCEPT !.method = "GET", !.cond = Unconditional, !.from = n]
  <2>1. PICK n \in Sizes :
          remote # Absent /\ n < remote.size /\ Arrive(r(n), "openRead")
    BY <1>4 DEF Get
  <2>2. r(n) \in Requests /\ r(n).method = "GET" /\ r(n).from = n
    BY ConditionsType DEF RequestType, Requests, Methods
  <2>3. Arriving(r(n), "openRead")
    BY <2>1, <2>2 DEF Arriving
  <2> QED
    BY <2>2, <2>3
<1> QED
  BY <1>1, <1>2, <1>3, <1>4

(* The whole body of the request, as a file. *)
Mine == [body |-> req.body, full |-> req.size, size |-> req.size]

(* An accepted body is in the temporary file, all of it. *)
LEMMA StagedIsMine ==
  ASSUME pc \in Late, FilesType, Progress, Staged
  PROVE  staging = Mine
<1>1. staging \in Content
  BY DEF Late, Early, Staged, FilesType
<1>2. staging.body = req.body /\ staging.full = req.size /\ staging.size = req.size
  BY DEF Late, Early, Staged, Progress
<1> QED
  BY <1>1, <1>2 DEF Content, Mine

(* The request's body is a content, and whole. *)
LEMMA MineIsThere ==
  ASSUME RequestType
  PROVE  Mine \in Content /\ Mine # Absent /\ Mine.body = req.body /\ Whole(Mine)
<1>1. Mine \in Content
  BY DEF RequestType, Requests, Mine, Content
<1> QED
  BY <1>1, AbsentIsNoContent DEF Mine, Whole

(* Where a body may be, and what it means that it is there. *)
Places == {remote, staging} \cup strays \cup Retained
Holds(c, b) == c # Absent /\ c.body = b /\ Whole(c)

(* Nothing is lost by a step that takes some places away, if whatever was  *)
(* kept there and is still owed is kept elsewhere.                         *)
LEMMA KeptElsewhere ==
  ASSUME NothingLost, owed' \subseteq owed, NEW gone, Places \ gone \subseteq Places',
         \A c \in gone : \A b \in owed' : Holds(c, b) => \E d \in Places' : Holds(d, b)
  PROVE  NothingLost'
<1>1. ASSUME NEW b \in owed' PROVE \E d \in Places' : Holds(d, b)
  <2>1. PICK c \in Places : Holds(c, b)
    BY DEF NothingLost, Places, Holds
  <2> QED
    BY <2>1
<1>2. ASSUME NEW b \in owed'
      PROVE  \E c \in {remote', staging'} \cup strays' \cup Retained' :
               c # Absent /\ c.body = b /\ Whole(c)
  BY <1>1 DEF Places, Holds
<1> QED
  BY <1>2 DEF NothingLost, Whole

(* A temporary file that stays behind still holds its body. *)
LEMMA StagingLeft ==
  ASSUME LeaveStaging, UNCHANGED <<remote, recovery, owed>>, NothingLost
  PROVE  NothingLost'
<1>1. Places \ {staging} \subseteq Places'
  BY DEF LeaveStaging, Places, Retained
<1>2. ASSUME NEW b \in owed', Holds(staging, b) PROVE staging \in Places'
  BY <1>2 DEF LeaveStaging, Places, Holds
<1> QED
  BY <1>1, <1>2, KeptElsewhere

(* What the other process does. *)
ForeignStep == ForeignPrune \/ ForeignCopy \/ ForeignDescribe \/ ForeignFails

(* The file that the other process writes is an upload, of nobody here. *)
LEMMA ForeignFile ==
  ASSUME NEW f \in ForeignUploads
  PROVE  /\ f \in Uploads /\ f # Absent
         /\ f.content.body \in Others /\ f.content.body \notin Bodies
         /\ f.content.full \in Nat /\ f.content.size \in Nat /\ ~f.meta
         /\ [f EXCEPT !.content.size = f.content.full] \in ForeignUploads
         /\ [f EXCEPT !.content.size = f.content.full].content.full = f.content.full
         /\ [f EXCEPT !.content.size = f.content.full].content.size = f.content.full
         /\ [f EXCEPT !.meta = TRUE] \in Uploads
         /\ [f EXCEPT !.meta = TRUE].content = f.content
<1>1. PICK c \in [body : Others, full : 0..Limit, size : 0..Limit] :
        f = [content |-> c, meta |-> FALSE]
  BY DEF ForeignUploads
<1>2. f.content = c /\ f.meta = FALSE
  BY <1>1
<1>3. /\ c \in Content /\ c.full \in Nat /\ c.size \in Nat
      /\ c.body \in Others /\ c.body \notin Bodies
  BY <1>1, FileRequestsAssumption DEF Content, Sizes
<1>4. \A meta \in BOOLEAN : [content |-> c, meta |-> meta] \in Uploads
  BY <1>3 DEF Uploads
<1>5. f # Absent
  <2>1. Absent \notin Uploads
    BY FileRequestsAssumption, SizesAreNumbers DEF Uploads, Content
  <2> QED
    BY <1>1, <1>4, <2>1
<1>6. f \in Uploads
  BY <1>1, <1>4
<1> DEFINE full == [f.content EXCEPT !.size = f.content.full]
<1>7. /\ full \in [body : Others, full : 0..Limit, size : 0..Limit]
      /\ full.full = c.full /\ full.size = c.full
  BY <1>1, <1>2
<1>8. /\ [f EXCEPT !.content = full] \in ForeignUploads
      /\ [f EXCEPT !.content = full].content = full
  <2> HIDE DEF full
  <2> QED
    BY <1>7 DEF ForeignUploads
<1>9. [f EXCEPT !.content.size = f.content.full] = [f EXCEPT !.content = full]
  OBVIOUS
<1>10. [f EXCEPT !.meta = TRUE] \in Uploads /\ [f EXCEPT !.meta = TRUE].content = f.content
  BY <1>6 DEF Uploads
<1> QED
  BY <1>2, <1>3, <1>5, <1>6, <1>7, <1>8, <1>9, <1>10

(* The other process evicts what it says it evicts, and adds or completes  *)
(* only its own.                                                           *)
LEMMA ForeignEffect ==
  ASSUME FilesType, ForeignStep
  PROVE  /\ UNCHANGED <<remote, staging, strays, pc, req, naming, body, cancelled,
                        reading, reply>>
         /\ recovery' \subseteq Uploads
         /\ foreign' \in {Absent} \cup ForeignUploads
         /\ overlap' \in BOOLEAN
         /\ owed' \subseteq owed
         /\ \A f \in recovery : f.content.body \in owed' => f \in recovery'
         /\ \A f \in recovery' \ recovery : f.meta => Whole(f.content)
<1>1. CASE ForeignPrune
  <2>1. PICK x \in Others, n \in OtherSizes, kept \in SUBSET recovery :
          /\ foreign' = [content |-> [body |-> x, full |-> n, size |-> 0], meta |-> FALSE]
          /\ recovery' = kept \cup {foreign'}
          /\ owed' = Unevicted(kept)
    BY <1>1 DEF ForeignPrune
  <2>2. foreign' \in ForeignUploads
    BY <2>1, FileRequestsAssumption DEF ForeignUploads
  <2>3. foreign' \in Uploads /\ ~foreign'.meta
    BY <2>2, ForeignFile
  <2>4. owed' \subseteq owed /\ \A f \in recovery : f.content.body \in owed' => f \in kept
    BY <2>1 DEF Unevicted, FilesType
  <2>5. \A f \in recovery' \ recovery : f = foreign'
    BY <2>1
  <2>6. /\ UNCHANGED <<remote, staging, strays, pc, req, naming, body, cancelled,
                       reading, reply>>
        /\ overlap' \in BOOLEAN
    BY <1>1 DEF ForeignPrune
  <2>7. recovery' \subseteq Uploads
    BY <2>1, <2>3 DEF FilesType
  <2>8. \A f \in recovery : f.content.body \in owed' => f \in recovery'
    BY <2>1, <2>4
  <2>9. \A f \in recovery' \ recovery : f.meta => Whole(f.content)
    BY <2>3, <2>5
  <2> QED
    BY <2>2, <2>4, <2>6, <2>7, <2>8, <2>9
<1>2. CASE ForeignCopy
  <2>1. foreign \in ForeignUploads
    BY <1>2 DEF ForeignCopy, FilesType
  <2>2. foreign' \in ForeignUploads /\ foreign' \in Uploads /\ ~foreign'.meta
    BY <1>2, <2>1, ForeignFile DEF ForeignCopy
  <2>3. /\ recovery' \subseteq recovery \cup {foreign'}
        /\ recovery \ {foreign} \subseteq recovery'
    BY <1>2 DEF ForeignCopy, Rewrite
  <2>4. \A f \in recovery : f.content.body \in owed => f \in recovery'
    BY <2>1, <2>3, ForeignFile DEF FilesType
  <2> QED
    BY <1>2, <2>2, <2>3, <2>4 DEF ForeignCopy, FilesType
<1>3. CASE ForeignDescribe
  <2> DEFINE new == [foreign EXCEPT !.meta = TRUE]
  <2>1. foreign \in ForeignUploads
    BY <1>3 DEF ForeignDescribe, FilesType
  <2>2. new \in Uploads /\ Whole(new.content)
    BY <1>3, <2>1, ForeignFile DEF ForeignDescribe
  <2>3. recovery' \subseteq recovery \cup {new} /\ recovery \ {foreign} \subseteq recovery'
    BY <1>3 DEF ForeignDescribe, Rewrite
  <2>4. \A f \in recovery : f.content.body \in owed => f \in recovery'
    BY <2>1, <2>3, ForeignFile DEF FilesType
  <2> QED
    BY <1>3, <2>2, <2>3, <2>4 DEF ForeignDescribe, FilesType
<1>4. CASE ForeignFails
  <2>1. foreign \in ForeignUploads
    BY <1>4 DEF ForeignFails, FilesType
  <2>2. recovery' \subseteq recovery /\ recovery \ {foreign} \subseteq recovery'
    BY <1>4 DEF ForeignFails
  <2>3. \A f \in recovery : f.content.body \in owed => f \in recovery'
    BY <2>1, <2>2, ForeignFile DEF FilesType
  <2> QED
    BY <1>4, <2>2, <2>3 DEF ForeignFails, FilesType
<1> QED
  BY <1>1, <1>2, <1>3, <1>4 DEF ForeignStep

(* Every step keeps the types of the files. *)
LEMMA FilesTypeStep ==
  ASSUME FilesType, RequestType, Progress, Staged, Next
  PROVE  FilesType'
<1>1. CASE Put \/ Copy \/ Proppatch \/ Get
  <2>1. PICK r \in Requests, label \in {"check", "open", "openRead"} : Arriving(r, label)
    BY <1>1, Arrivals
  <2> QED
    BY <2>1 DEF Arriving, Arrive, FilesType, local
<1>2. CASE PutTooLarge
  BY <1>2 DEF PutTooLarge, FilesType, local
<1>3. CASE Transfer
  <2>1. \A c \in Content, n \in Sizes : [c EXCEPT !.size = n] \in Content
    BY DEF Content
  <2>2. CASE UNCHANGED staging
    BY <1>3, <2>2 DEF Transfer, FilesType
  <2>3. CASE staging' = [staging EXCEPT !.size = @ + 1]
    <3>1. staging \in Content /\ staging.size = got
      BY <1>3 DEF Transfer, Staged, Early, FilesType
    <3>2. got + 1 \in Sizes
      BY <1>3, FileRequestsAssumption DEF Transfer, RequestType, Sizes
    <3>3. staging' = [staging EXCEPT !.size = got + 1]
      BY <2>3, <3>1
    <3>4. staging' \in Content
      BY <2>1, <3>1, <3>2, <3>3
    <3> QED
      BY <1>3, <3>4 DEF Transfer, FilesType
  <2> QED
    BY <1>3, <2>2, <2>3 DEF Transfer
<1>4. CASE CheckPreconditions
  BY <1>4 DEF CheckPreconditions, FilesType, local
<1>5. CASE CheckFails
  BY <1>5 DEF CheckFails, FilesType, local
<1>6. CASE OpenWrite
  <2>1. [body |-> req.body, full |-> req.size, size |-> 0] \in Content
    BY SizesAreNumbers DEF RequestType, Requests, Content
  <2>2. staging' \in Content \cup {Absent}
    BY <1>6, <2>1 DEF OpenWrite, FilesType
  <2> QED
    BY <1>6, <2>2 DEF OpenWrite, FilesType
<1>7. CASE OpenFails
  BY <1>7 DEF OpenFails, FilesType, local
<1>8. CASE TransferEnds
  BY <1>8 DEF TransferEnds, FilesType, local
<1>9. CASE TransferTooLarge
  BY <1>9 DEF TransferTooLarge, FilesType, local
<1>10. CASE TransferBreaks
  BY <1>10 DEF TransferBreaks, FilesType, local
<1>11. CASE CloseUnchanged
  BY <1>11, StagingType DEF CloseUnchanged, FilesType
<1>12. CASE CloseDiscards
  BY <1>12, StagingType DEF CloseDiscards, FilesType
<1>13. CASE CloseAccepts
  <2>1. req.body \in Bodies
    BY DEF RequestType, Requests
  <2> QED
    BY <1>13, <2>1 DEF CloseAccepts, FilesType, local
<1>14. CASE Commit
  BY <1>14 DEF Commit, FilesType, local
<1>15. CASE CommitFails
  BY <1>15 DEF CommitFails, FilesType, local
<1>16. CASE Finish
  BY <1>16, StagingType DEF Finish, FilesType
<1>17. CASE RetainFails
  BY <1>17, StagingType DEF RetainFails, FilesType
<1>18. CASE RetainPrune
  BY <1>18 DEF RetainPrune, Unevicted, FilesType
<1>19. CASE RetainCreate
  <2>1. staging \in Content /\ staging.size \in Sizes
    BY <1>19 DEF RetainCreate, Staged, Early, FilesType, Content
  <2>2. Upload(0, FALSE) \in Uploads
    BY <2>1, UploadType, SizesAreNumbers
  <2> QED
    BY <1>19, <2>2 DEF RetainCreate, FilesType
<1>20. CASE RetainCopy
  <2>1. staging \in Content /\ staging.size \in Sizes
    BY <1>20 DEF RetainCopy, Staged, Early, FilesType, Content
  <2>2. Upload(staging.size, FALSE) \in Uploads
    BY <2>1, UploadType
  <2>3. recovery' \subseteq Uploads
    BY <1>20, <2>2, RewriteType DEF RetainCopy
  <2> QED
    BY <1>20, <2>3 DEF RetainCopy, FilesType
<1>21. CASE RetainCopyFails
  <2>1. {} \in SUBSET Uploads
    OBVIOUS
  <2>2. recovery' \subseteq Uploads
    BY <1>21, <2>1, RewriteType DEF RetainCopyFails
  <2> QED
    BY <1>21, <2>2, StagingType DEF RetainCopyFails, FilesType
<1>22. CASE RetainDescribe
  <2>1. staging \in Content /\ staging.size \in Sizes
    BY <1>22 DEF RetainDescribe, Staged, Early, FilesType, Content
  <2>2. Upload(staging.size, TRUE) \in Uploads
    BY <2>1, UploadType
  <2>3. recovery' \subseteq Uploads
    BY <1>22, <2>2, RewriteType DEF RetainDescribe
  <2> QED
    BY <1>22, <2>3 DEF RetainDescribe, FilesType
<1>23. CASE RetainDescribeFails
  <2>1. staging \in Content /\ staging.size \in Sizes
    BY <1>23 DEF RetainDescribeFails, Staged, Early, FilesType, Content
  <2>2. recovery' \subseteq Uploads
    BY <1>23, <2>1, UploadType, RewriteType DEF RetainDescribeFails
  <2> QED
    BY <1>23, <2>2, StagingType DEF RetainDescribeFails, FilesType
<1>24. CASE Unstage
  BY <1>24, StagingType DEF Unstage, FilesType
<1>25. CASE OpenRead
  BY <1>25 DEF OpenRead, FilesType, local
<1>26. CASE OpenReadFails
  BY <1>26 DEF OpenReadFails, FilesType, local
<1>27. CASE Sniff
  BY <1>27 DEF Sniff, FilesType, local
<1>28. CASE SeekRange
  BY <1>28 DEF SeekRange, FilesType, local
<1>29. CASE Send
  BY <1>29 DEF Send, FilesType, local
<1>30. CASE SendEnds
  BY <1>30 DEF SendEnds, FilesType, local
<1>31. CASE ReadFails
  BY <1>31 DEF ReadFails, FilesType, local
<1>32. CASE Cancel
  BY <1>32 DEF Cancel, FilesType, local
<1>33. CASE Crash
  BY <1>33, StagingType DEF Crash, FilesType
<1>34. CASE ForeignStep
  BY <1>34, ForeignEffect DEF FilesType
<1>35. CASE EmptyTemp
  BY <1>35 DEF EmptyTemp, FilesType, local
<1> QED
  BY <1>1, <1>2, <1>3, <1>4, <1>5, <1>6, <1>7, <1>8, <1>9, <1>10, <1>11, <1>12,
     <1>13, <1>14, <1>15, <1>16, <1>17, <1>18, <1>19, <1>20, <1>21, <1>22,
     <1>23, <1>24, <1>25, <1>26, <1>27, <1>28, <1>29, <1>30, <1>31, <1>32,
     <1>33, <1>34, <1>35 DEF Next, Step, ForeignStep

(* Every step keeps the types of the request's own variables. *)
LEMMA RequestTypeStep ==
  ASSUME FilesType, RequestType, Progress, Next
  PROVE  RequestType'
<1>1. CASE Put \/ Copy \/ Proppatch \/ Get
  <2>1. PICK r \in Requests, label \in {"check", "open", "openRead"} : Arriving(r, label)
    BY <1>1, Arrivals
  <2> QED
    BY <2>1
       DEF Arriving, Arrive, RequestType, Labels, Early, Late, body, naming,
           reading, Replies, Early, Labels, naming
<1>2. CASE PutTooLarge
  BY <1>2
     DEF PutTooLarge, RequestType, Labels, Early, Late, body, naming, reading,
         Replies
<1>3. CASE Transfer
  <2>1. got' \in Sizes
    BY <1>3, FileRequestsAssumption DEF Transfer, RequestType, Sizes
  <2>2. eof' \in BOOLEAN /\ broken' \in BOOLEAN /\ pc' \in Labels
    BY <1>3 DEF Transfer, RequestType, Labels
  <2> QED
    BY <1>3, <2>1, <2>2 DEF Transfer, RequestType, naming, reading
<1>4. CASE CheckPreconditions
  <2>1. CASE Answer("refused")
    BY <1>4, <2>1, AnswerType DEF CheckPreconditions, Replies
  <2>2. CASE /\ pc' = "open" /\ checked' \in Namings
             /\ UNCHANGED <<reply, at, body, cancelled, handle>>
    BY <1>4, <2>2 DEF CheckPreconditions, RequestType, Labels, Early, body
  <2> QED
    BY <1>4, <2>1, <2>2 DEF CheckPreconditions, Goto
<1>5. CASE CheckFails
  BY <1>5, AnswerType DEF CheckFails, Replies
<1>6. CASE OpenWrite
  BY <1>6 DEF OpenWrite, Goto, RequestType, Labels, Early, Late, body, naming,
         reading, Replies
<1>7. CASE OpenFails
  BY <1>7, AnswerType DEF OpenFails, Replies
<1>8. CASE TransferEnds
  BY <1>8 DEF TransferEnds, RequestType, Labels, naming, reading, Replies
<1>9. CASE TransferTooLarge
  BY <1>9 DEF TransferTooLarge, RequestType, Labels, naming, reading, Replies
<1>10. CASE TransferBreaks
  BY <1>10 DEF TransferBreaks, RequestType, Labels, naming, reading, Replies
<1>11. CASE CloseUnchanged
  BY <1>11, AnswerType DEF CloseUnchanged, Replies
<1>12. CASE CloseDiscards
  BY <1>12, AnswerType DEF CloseDiscards, Replies
<1>13. CASE CloseAccepts
  BY <1>13
     DEF CloseAccepts, RequestType, Labels, Early, Late, body, naming, reading,
         Replies
<1>14. CASE Commit
  BY <1>14 DEF Commit, RequestType, Labels, Early, Late, body, naming, reading,
         Replies
<1>15. CASE CommitFails
  BY <1>15
     DEF CommitFails, RequestType, Labels, Early, Late, body, naming, reading,
         Replies
<1>16. CASE Finish
  BY <1>16, AnswerType DEF Finish, Replies
<1>17. CASE RetainFails
  BY <1>17, AnswerType DEF RetainFails, Replies
<1>18. CASE RetainPrune
  BY <1>18
     DEF RetainPrune, RequestType, Labels, Early, Late, body, naming, reading,
         Replies
<1>19. CASE RetainCreate
  BY <1>19
     DEF RetainCreate, RequestType, Labels, Early, Late, body, naming, reading,
         Replies
<1>20. CASE RetainCopy
  BY <1>20
     DEF RetainCopy, RequestType, Labels, Early, Late, body, naming, reading,
         Replies
<1>21. CASE RetainCopyFails
  BY <1>21, AnswerType DEF RetainCopyFails, Replies
<1>22. CASE RetainDescribe
  BY <1>22 DEF RetainDescribe, RequestType, Labels, Early, Late, body, naming,
         reading, Replies
<1>23. CASE RetainDescribeFails
  BY <1>23, AnswerType DEF RetainDescribeFails, Replies
<1>24. CASE Unstage
  BY <1>24, AnswerType DEF Unstage, Replies
<1>25. CASE OpenRead
  BY <1>25 DEF OpenRead, Goto, RequestType, Labels, Early, Late, body, naming,
         reading, Replies
<1>26. CASE OpenReadFails
  BY <1>26, AnswerType DEF OpenReadFails, Replies
<1>27. CASE Sniff
  <2>1. handle' \in [open : BOOLEAN, offset : Nat, pending : Nat]
    BY <1>27 DEF Sniff, RequestType, Seek, Advance, EnsureLocal
  <2> QED
    BY <1>27, <2>1 DEF Sniff, RequestType, Labels, Early, body, naming
<1>28. CASE SeekRange
  <2>1. remote.size \in Nat /\ req.from \in Nat
    BY <1>28, SizesAreNumbers
       DEF SeekRange, Progress, Reading, FilesType, RequestType, Content,
           Requests
  <2>2. \A h \in [open : BOOLEAN, offset : Nat, pending : Nat], n \in Nat :
          Seek(h, n) \in [open : BOOLEAN, offset : Nat, pending : Nat]
    BY DEF Seek
  <2>3. handle' \in [open : BOOLEAN, offset : Nat, pending : Nat]
    BY <1>28, <2>1, <2>2 DEF SeekRange, RequestType
  <2> QED
    BY <1>28, <2>3 DEF SeekRange, RequestType, Labels, Early, body, naming
<1>29. CASE Send
  <2>1. EnsureLocal(handle) \in [open : BOOLEAN, offset : Nat, pending : Nat]
    BY DEF EnsureLocal, RequestType
  <2>2. handle' \in [open : BOOLEAN, offset : Nat, pending : Nat]
    BY <1>29, <2>1 DEF Send, Advance
  <2>3. EnsureLocal(handle).offset \in Sizes
    <3>1. remote.size \in Sizes
      BY <1>29 DEF Send, Progress, Reading, FilesType, Content
    <3> QED
      BY <1>29, <2>1, <3>1, FileRequestsAssumption DEF Send, Sizes
  <2>4. sent' \in Seq(Sizes)
    BY <1>29, <2>3 DEF Send, RequestType
  <2> QED
    BY <1>29, <2>2, <2>4 DEF Send, RequestType, body, naming
<1>30. CASE SendEnds
  BY <1>30, AnswerType DEF SendEnds, Replies
<1>31. CASE ReadFails
  BY <1>31, AnswerType DEF ReadFails, Replies
<1>32. CASE Cancel
  BY <1>32 DEF Cancel, RequestType, Labels, Early, Late, body, naming, reading,
         Replies
<1>33. CASE Crash
  BY <1>33, AnswerType DEF Crash, Replies
<1>34. CASE ForeignStep
  BY <1>34, ForeignEffect DEF RequestType, body, naming, reading
<1>35. CASE EmptyTemp
  BY <1>35
     DEF EmptyTemp, RequestType, Labels, Early, Late, body, naming, reading,
         Replies
<1> QED
  BY <1>1, <1>2, <1>3, <1>4, <1>5, <1>6, <1>7, <1>8, <1>9, <1>10, <1>11, <1>12,
     <1>13, <1>14, <1>15, <1>16, <1>17, <1>18, <1>19, <1>20, <1>21, <1>22,
     <1>23, <1>24, <1>25, <1>26, <1>27, <1>28, <1>29, <1>30, <1>31, <1>32,
     <1>33, <1>34, <1>35 DEF Next, Step, ForeignStep

(* Only a PUT or COPY accepts a body, and an answered request has left      *)
(* nothing behind in the variables.                                         *)
LEMMA ProgressStep ==
  ASSUME FilesType, RequestType, Progress, Next
  PROVE  Progress'
<1>1. CASE Put \/ Copy \/ Proppatch \/ Get
  <2>1. PICK r \in Requests, label \in {"check", "open", "openRead"} : Arriving(r, label)
    BY <1>1, Arrivals
  <2> QED
    BY <2>1
       DEF Arriving, Arrive, Progress, Early, Reading, Late, Creates, local,
           body, reading, naming, Progress
<1>2. CASE PutTooLarge
  BY <1>2
     DEF PutTooLarge, Progress, Early, Reading, Late, Creates, local, body,
         reading, naming
<1>3. CASE Transfer
  BY <1>3 DEF Transfer, Progress, Early, Reading, Late, Creates, local
<1>4. CASE CheckPreconditions
  BY <1>4 DEF CheckPreconditions, Answer, Goto, Progress, Early, Reading, Late,
         Creates, local, body, reading, naming
<1>5. CASE CheckFails
  BY <1>5
     DEF CheckFails, Answer, Progress, Early, Reading, Late, Creates, local,
         body, reading, naming
<1>6. CASE OpenWrite
  BY <1>6 DEF OpenWrite, Goto, Progress, Early, Reading, Late, Creates
<1>7. CASE OpenFails
  BY <1>7
     DEF OpenFails, Answer, Progress, Early, Reading, Late, Creates, local,
         body, reading, naming
<1>8. CASE TransferEnds
  BY <1>8 DEF TransferEnds, Progress, Early, Reading, Late, Creates, local
<1>9. CASE TransferTooLarge
  BY <1>9 DEF TransferTooLarge, Progress, Early, Reading, Late, Creates, local
<1>10. CASE TransferBreaks
  BY <1>10 DEF TransferBreaks, Progress, Early, Reading, Late, Creates, local
<1>11. CASE CloseUnchanged
  <2>1. staging' = Absent
    BY <1>11, StagingType DEF CloseUnchanged
  <2> QED
    BY <1>11, <2>1
       DEF CloseUnchanged, Answer, Progress, Early, Reading, Late, Creates
<1>12. CASE CloseDiscards
  <2>1. staging' = Absent
    BY <1>12, StagingType DEF CloseDiscards
  <2> QED
    BY <1>12, <2>1
       DEF CloseDiscards, Answer, Progress, Early, Reading, Late, Creates
<1>13. CASE CloseAccepts
  BY <1>13
     DEF CloseAccepts, Commits, Progress, Early, Reading, Late, Creates, local,
         body
<1>14. CASE Commit
  BY <1>14 DEF Commit, Progress, Early, Reading, Late, Creates, local
<1>15. CASE CommitFails
  BY <1>15 DEF CommitFails, Progress, Early, Reading, Late, Creates, local
<1>16. CASE Finish
  <2>1. staging' = Absent
    BY <1>16, StagingType DEF Finish
  <2> QED
    BY <1>16, <2>1 DEF Finish, Answer, Progress, Early, Reading, Late, Creates
<1>17. CASE RetainFails
  <2>1. staging' = Absent
    BY <1>17, StagingType DEF RetainFails
  <2> QED
    BY <1>17, <2>1
       DEF RetainFails, Answer, Progress, Early, Reading, Late, Creates
<1>18. CASE RetainPrune
  BY <1>18 DEF RetainPrune, Progress, Early, Reading, Late, Creates, local
<1>19. CASE RetainCreate
  BY <1>19 DEF RetainCreate, Progress, Early, Reading, Late, Creates, local
<1>20. CASE RetainCopy
  BY <1>20 DEF RetainCopy, Progress, Early, Reading, Late, Creates, local
<1>21. CASE RetainCopyFails
  <2>1. staging' = Absent
    BY <1>21, StagingType DEF RetainCopyFails
  <2> QED
    BY <1>21, <2>1
       DEF RetainCopyFails, Answer, Progress, Early, Reading, Late, Creates
<1>22. CASE RetainDescribe
  BY <1>22 DEF RetainDescribe, Progress, Early, Reading, Late, Creates, local
<1>23. CASE RetainDescribeFails
  <2>1. staging' = Absent
    BY <1>23, StagingType DEF RetainDescribeFails
  <2> QED
    BY <1>23, <2>1
       DEF RetainDescribeFails, Answer, Progress, Early, Reading, Late,
           Creates
<1>24. CASE Unstage
  <2>1. staging' = Absent
    BY <1>24, StagingType DEF Unstage
  <2> QED
    BY <1>24, <2>1 DEF Unstage, Answer, Progress, Early, Reading, Late, Creates
<1>25. CASE OpenRead
  BY <1>25
     DEF OpenRead, Goto, Progress, Early, Reading, Late, Creates, local, body,
         reading, naming
<1>26. CASE OpenReadFails
  BY <1>26
     DEF OpenReadFails, Answer, Progress, Early, Reading, Late, Creates, local,
         body, reading, naming
<1>27. CASE Sniff
  BY <1>27
     DEF Sniff, Progress, Early, Reading, Late, Creates, local, body, reading,
         naming
<1>28. CASE SeekRange
  BY <1>28 DEF SeekRange, Progress, Early, Reading, Late, Creates, local, body,
         reading, naming
<1>29. CASE Send
  BY <1>29
     DEF Send, Progress, Early, Reading, Late, Creates, local, body, reading,
         naming
<1>30. CASE SendEnds
  BY <1>30
     DEF SendEnds, Answer, Progress, Early, Reading, Late, Creates, local,
         body, reading, naming
<1>31. CASE ReadFails
  BY <1>31
     DEF ReadFails, Answer, Progress, Early, Reading, Late, Creates, local,
         body, reading, naming
<1>32. CASE Cancel
  BY <1>32 DEF Cancel, Progress, Early, Reading, Late, Creates, local
<1>33. CASE Crash
  <2>1. staging' = Absent
    BY <1>33, StagingType DEF Crash
  <2> QED
    BY <1>33, <2>1 DEF Crash, Answer, Progress, Early, Reading, Late, Creates
<1>34. CASE ForeignStep
  BY <1>34, ForeignEffect DEF Progress, Creates, body
<1>35. CASE EmptyTemp
  BY <1>35 DEF EmptyTemp, Progress, Early, Reading, Late, Creates, local, body,
         reading, naming
<1> QED
  BY <1>1, <1>2, <1>3, <1>4, <1>5, <1>6, <1>7, <1>8, <1>9, <1>10, <1>11, <1>12,
     <1>13, <1>14, <1>15, <1>16, <1>17, <1>18, <1>19, <1>20, <1>21, <1>22,
     <1>23, <1>24, <1>25, <1>26, <1>27, <1>28, <1>29, <1>30, <1>31, <1>32,
     <1>33, <1>34, <1>35 DEF Next, Step, ForeignStep

(* The temporary file grows with what was received; an error is remembered  *)
(* until Close.                                                             *)
LEMMA StagedStep ==
  ASSUME FilesType, RequestType, Progress, Staged, Next
  PROVE  Staged'
<1>1. CASE Put \/ Copy \/ Proppatch \/ Get
  <2>1. PICK r \in Requests, label \in {"check", "open", "openRead"} : Arriving(r, label)
    BY <1>1, Arrivals
  <2> QED
    BY <2>1 DEF Arriving, Arrive, Staged, Early, Late, Creates, local
<1>2. CASE PutTooLarge
  BY <1>2 DEF PutTooLarge, Staged, Early, Late
<1>3. CASE Transfer
  <2>1. /\ staging # Absent /\ staging \in Content /\ staging.size = got
        /\ Creates /\ ~broken
        /\ staging.body = req.body /\ staging.full = req.size
    BY <1>3 DEF Transfer, Staged, Progress, Early, FilesType
  <2>2. UNCHANGED req /\ Creates'
    BY <1>3, <2>1 DEF Transfer, Creates
  <2>3. CASE broken' /\ pc' = "close" /\ UNCHANGED staging
    BY <2>1, <2>2, <2>3 DEF Staged, Early, Late
  <2>4. CASE /\ staging' = [staging EXCEPT !.size = @ + 1]
             /\ pc' = (IF eof' THEN "close" ELSE "body")
             /\ UNCHANGED broken
    <3>1. /\ staging'.size = got + 1
          /\ staging'.body = req.body /\ staging'.full = req.size
          /\ staging' # Absent
      <4>1. staging' \in [body : Bodies \cup Others \cup {Old}, full : Nat, size : Nat]
        BY <2>1, <2>4, SizesAreNumbers DEF Content
      <4> QED
        BY <2>1, <2>4, <4>1, FileRequestsAssumption
    <3>2. got' = got + 1 /\ (eof' => got' = req.size)
      BY <1>3 DEF Transfer
    <3> QED
      BY <2>1, <2>2, <2>4, <3>1, <3>2 DEF Staged, Early, Late
  <2> QED
    BY <1>3, <2>3, <2>4 DEF Transfer
<1>4. CASE CheckPreconditions
  BY <1>4
     DEF CheckPreconditions, Answer, Goto, Staged, Early, Late, Creates, local
<1>5. CASE CheckFails
  BY <1>5 DEF CheckFails, Answer, Staged, Early, Late, Creates, local
<1>6. CASE OpenWrite
  <2>1. UNCHANGED <<req, got, broken, remote>> /\ got = 0 /\ ~broken
    BY <1>6 DEF OpenWrite, Progress, Early, body
  <2>2. CASE Creates
    <3>1. [body |-> req.body, full |-> req.size, size |-> 0] # Absent
      BY AbsentIsNoContent, SizesAreNumbers DEF RequestType, Requests, Content
    <3> QED
      BY <1>6, <2>1, <2>2, <3>1
         DEF OpenWrite, Goto, Staged, Early, Late, Creates
  <2>3. CASE ~Creates
    BY <1>6, <2>1, <2>3
       DEF OpenWrite, Goto, Exists, Staged, Early, Late, Creates
  <2> QED
    BY <2>2, <2>3
<1>7. CASE OpenFails
  BY <1>7 DEF OpenFails, Answer, Staged, Early, Late, Creates, local
<1>8. CASE TransferEnds
  BY <1>8 DEF TransferEnds, Staged, Early, Late, Creates, local, body, reading,
         naming, Progress
<1>9. CASE TransferTooLarge
  BY <1>9
     DEF TransferTooLarge, Staged, Early, Late, Creates, local, body, reading,
         naming, Progress
<1>10. CASE TransferBreaks
  BY <1>10
     DEF TransferBreaks, Staged, Early, Late, Creates, local, body, reading,
         naming, Progress
<1>11. CASE CloseUnchanged
  BY <1>11 DEF CloseUnchanged, Answer, Staged, Early, Late, Creates, local
<1>12. CASE CloseDiscards
  BY <1>12 DEF CloseDiscards, Answer, Staged, Early, Late, Creates, local
<1>13. CASE CloseAccepts
  BY <1>13
     DEF CloseAccepts, Commits, Complete, Staged, Early, Late, Creates, local,
         body
<1>14. CASE Commit
  BY <1>14 DEF Commit, Staged, Early, Late, Creates, local, body
<1>15. CASE CommitFails
  BY <1>15 DEF CommitFails, Staged, Early, Late, Creates, local, body
<1>16. CASE Finish
  BY <1>16 DEF Finish, Answer, Staged, Early, Late, Creates, local
<1>17. CASE RetainFails
  BY <1>17 DEF RetainFails, Answer, Staged, Early, Late, Creates, local
<1>18. CASE RetainPrune
  BY <1>18 DEF RetainPrune, Staged, Early, Late, Creates, local, body
<1>19. CASE RetainCreate
  BY <1>19 DEF RetainCreate, Staged, Early, Late, Creates, local, body
<1>20. CASE RetainCopy
  BY <1>20 DEF RetainCopy, Staged, Early, Late, Creates, local, body
<1>21. CASE RetainCopyFails
  BY <1>21 DEF RetainCopyFails, Answer, Staged, Early, Late, Creates, local
<1>22. CASE RetainDescribe
  BY <1>22 DEF RetainDescribe, Staged, Early, Late, Creates, local, body
<1>23. CASE RetainDescribeFails
  BY <1>23 DEF RetainDescribeFails, Answer, Staged, Early, Late, Creates, local
<1>24. CASE Unstage
  BY <1>24 DEF Unstage, Answer, Staged, Early, Late, Creates, local
<1>25. CASE OpenRead
  BY <1>25 DEF OpenRead, Goto, Staged, Early, Late, Creates, local
<1>26. CASE OpenReadFails
  BY <1>26 DEF OpenReadFails, Answer, Staged, Early, Late, Creates, local
<1>27. CASE Sniff
  BY <1>27 DEF Sniff, Staged, Early, Late
<1>28. CASE SeekRange
  BY <1>28 DEF SeekRange, Staged, Early, Late
<1>29. CASE Send
  BY <1>29 DEF Send, Staged, Early, Late
<1>30. CASE SendEnds
  BY <1>30 DEF SendEnds, Answer, Staged, Early, Late, Creates, local
<1>31. CASE ReadFails
  BY <1>31 DEF ReadFails, Answer, Staged, Early, Late, Creates, local
<1>32. CASE Cancel
  BY <1>32 DEF Cancel, Staged, Early, Late, Creates, local, body
<1>33. CASE Crash
  BY <1>33 DEF Crash, Answer, Staged, Early, Late, Creates, local
<1>34. CASE ForeignStep
  BY <1>34, ForeignEffect DEF Staged, Creates, body
<1>35. CASE EmptyTemp
  BY <1>35 DEF EmptyTemp, Staged, Early, Late
<1> QED
  BY <1>1, <1>2, <1>3, <1>4, <1>5, <1>6, <1>7, <1>8, <1>9, <1>10, <1>11, <1>12,
     <1>13, <1>14, <1>15, <1>16, <1>17, <1>18, <1>19, <1>20, <1>21, <1>22,
     <1>23, <1>24, <1>25, <1>26, <1>27, <1>28, <1>29, <1>30, <1>31, <1>32,
     <1>33, <1>34, <1>35 DEF Next, Step, ForeignStep

(* A body is owed from its acceptance on, and each step of the retention    *)
(* finds what the one before it left.                                       *)
LEMMA WhereaboutsStep ==
  ASSUME FilesType, RequestType, Progress, Staged, Whereabouts, NothingLost, Next
  PROVE  Whereabouts'
<1>1. CASE Put \/ Copy \/ Proppatch \/ Get
  <2>1. PICK r \in Requests, label \in {"check", "open", "openRead"} : Arriving(r, label)
    BY <1>1, Arrivals
  <2> QED
    BY <2>1, AbsentIsNoContent
       DEF Arriving, Arrive, Whereabouts, Creates, Upload, local, body,
           reading, naming, Progress, Early, NothingLost, Forgotten, Named,
           Retained
<1>2. CASE PutTooLarge
  BY <1>2 DEF PutTooLarge, Whereabouts
<1>3. CASE Transfer
  BY <1>3 DEF Transfer, Whereabouts, Creates, Upload, local
<1>4. CASE CheckPreconditions
  BY <1>4
     DEF CheckPreconditions, Answer, Goto, Whereabouts, Creates, Upload, local
<1>5. CASE CheckFails
  BY <1>5 DEF CheckFails, Answer, Whereabouts, body, reading, naming
<1>6. CASE OpenWrite
  BY <1>6 DEF OpenWrite, Goto, Whereabouts, Creates, Upload, local
<1>7. CASE OpenFails
  BY <1>7 DEF OpenFails, Answer, Whereabouts, body, reading, naming
<1>8. CASE TransferEnds
  BY <1>8 DEF TransferEnds, Whereabouts, Creates, Upload, local
<1>9. CASE TransferTooLarge
  BY <1>9 DEF TransferTooLarge, Whereabouts, Creates, Upload, local
<1>10. CASE TransferBreaks
  BY <1>10 DEF TransferBreaks, Whereabouts, Creates, Upload, local
<1>11. CASE CloseUnchanged
  BY <1>11 DEF CloseUnchanged, Answer, Whereabouts, body, reading, naming
<1>12. CASE CloseDiscards
  BY <1>12 DEF CloseDiscards, Answer, Whereabouts, body, reading, naming
<1>13. CASE CloseAccepts
  BY <1>13 DEF CloseAccepts, Whereabouts
<1>14. CASE Commit
  BY <1>14 DEF Commit, Whereabouts, Creates, Upload, local
<1>15. CASE CommitFails
  BY <1>15 DEF CommitFails, Whereabouts
<1>16. CASE Finish
  BY <1>16 DEF Finish, Answer, Whereabouts, body, reading, naming
<1>17. CASE RetainFails
  BY <1>17 DEF RetainFails, Answer, Whereabouts, body, reading, naming
<1>18. CASE RetainPrune
  BY <1>18 DEF RetainPrune, Whereabouts
<1>19. CASE RetainCreate
  BY <1>19 DEF RetainCreate, Whereabouts, Creates, Upload, local
<1>20. CASE RetainCopy
  <2>1. req.body \in owed => Upload(0, FALSE) \in recovery
    BY <1>20 DEF RetainCopy, Whereabouts
  <2>2. req.body \in owed => Upload(staging.size, FALSE) \in recovery'
    BY <1>20, <2>1 DEF RetainCopy, Rewrite
  <2>3. UNCHANGED <<staging, req, owed>> /\ pc' = "describe"
    BY <1>20 DEF RetainCopy
  <2>4. Upload(staging.size, FALSE)' = Upload(staging.size, FALSE)
    BY <2>3 DEF Upload
  <2> QED
    BY <2>2, <2>3, <2>4 DEF Whereabouts
<1>21. CASE RetainCopyFails
  BY <1>21 DEF RetainCopyFails, Answer, Whereabouts, body, reading, naming
<1>22. CASE RetainDescribe
  <2>1. req.body \in owed => Upload(staging.size, FALSE) \in recovery
    BY <1>22 DEF RetainDescribe, Whereabouts
  <2>2. req.body \in owed => Upload(staging.size, TRUE) \in recovery'
    BY <1>22, <2>1 DEF RetainDescribe, Rewrite
  <2>3. UNCHANGED <<staging, req, owed>> /\ pc' = "unstage"
    BY <1>22 DEF RetainDescribe
  <2>4. Upload(staging.size, TRUE)' = Upload(staging.size, TRUE)
    BY <2>3 DEF Upload
  <2> QED
    BY <2>2, <2>3, <2>4 DEF Whereabouts
<1>23. CASE RetainDescribeFails
  BY <1>23 DEF RetainDescribeFails, Answer, Whereabouts, body, reading, naming
<1>24. CASE Unstage
  BY <1>24 DEF Unstage, Answer, Whereabouts, body, reading, naming
<1>25. CASE OpenRead
  BY <1>25 DEF OpenRead, Goto, Whereabouts
<1>26. CASE OpenReadFails
  BY <1>26 DEF OpenReadFails, Answer, Whereabouts, body, reading, naming
<1>27. CASE Sniff
  BY <1>27 DEF Sniff, Whereabouts
<1>28. CASE SeekRange
  BY <1>28 DEF SeekRange, Whereabouts
<1>29. CASE Send
  BY <1>29 DEF Send, Whereabouts
<1>30. CASE SendEnds
  BY <1>30 DEF SendEnds, Answer, Whereabouts, body, reading, naming
<1>31. CASE ReadFails
  BY <1>31 DEF ReadFails, Answer, Whereabouts, body, reading, naming
<1>32. CASE Cancel
  BY <1>32 DEF Cancel, Whereabouts, Creates, Upload, local
<1>33. CASE Crash
  BY <1>33 DEF Crash, Answer, Whereabouts, body, reading, naming
<1>34. CASE ForeignStep
  <2>1. /\ UNCHANGED <<remote, staging, req, pc>>
        /\ owed' \subseteq owed
        /\ \A f \in recovery : f.content.body \in owed' => f \in recovery'
    BY <1>34, ForeignEffect
  <2>2. ASSUME NEW n, NEW meta, req.body \in owed', pc \in Late,
               Upload(n, meta) \in recovery
        PROVE  Upload(n, meta) \in recovery'
    <3>1. staging \in Content /\ staging.body = req.body
      BY <2>2 DEF Late, Early, Staged, Progress, FilesType
    <3>2. Upload(n, meta).content.body = req.body
      BY <3>1 DEF Upload, Content
    <3> QED
      BY <2>1, <2>2, <3>2
  <2>3. \A n, meta : Upload(n, meta)' = Upload(n, meta)
    BY <2>1 DEF Upload
  <2>4. req.body \in owed' => req.body \in owed
    BY <2>1
  <2>5. pc = "copy" \/ pc = "describe" \/ pc = "unstage" => pc \in Late
    BY DEF Late
  <2>6. req.body \in owed' =>
          /\ pc = "copy" => Upload(0, FALSE) \in recovery'
          /\ pc = "describe" => Upload(staging.size, FALSE) \in recovery'
          /\ pc = "unstage" => Upload(staging.size, TRUE) \in recovery'
    BY <2>2, <2>4, <2>5 DEF Whereabouts
  <2> QED
    BY <2>1, <2>3, <2>4, <2>6 DEF Whereabouts, Creates
<1>35. CASE EmptyTemp
  BY <1>35 DEF EmptyTemp, Whereabouts
<1> QED
  BY <1>1, <1>2, <1>3, <1>4, <1>5, <1>6, <1>7, <1>8, <1>9, <1>10, <1>11, <1>12,
     <1>13, <1>14, <1>15, <1>16, <1>17, <1>18, <1>19, <1>20, <1>21, <1>22,
     <1>23, <1>24, <1>25, <1>26, <1>27, <1>28, <1>29, <1>30, <1>31, <1>32,
     <1>33, <1>34, <1>35 DEF Next, Step, ForeignStep

(* The condition was checked on the file that is there until the commit. *)
LEMMA ConditionHoldsStep ==
  ASSUME FilesType, RequestType, Progress, ConditionHolds, Next
  PROVE  ConditionHolds'
<1>1. CASE Put \/ Copy \/ Proppatch \/ Get
  <2>1. PICK r \in Requests, label \in {"check", "open", "openRead"} : Arriving(r, label)
    BY <1>1, Arrivals
  <2>2. ~Fails(Unconditional, remote # Absent)
    BY DEF Fails, Unconditional
  <2>3. pc' = label /\ req' = r /\ UNCHANGED remote
    BY <2>1 DEF Arriving, Arrive
  <2>4. ~Creates' \/ label = "check" \/ r.cond = Unconditional
    BY <2>1, <2>3 DEF Arriving, Creates
  <2>5. label # "check" /\ Creates' => ~Fails(req'.cond, remote' # Absent)
    BY <2>2, <2>3, <2>4
  <2> QED
    BY <2>3, <2>5 DEF ConditionHolds
<1>2. CASE PutTooLarge
  BY <1>2 DEF PutTooLarge, ConditionHolds
<1>3. CASE Transfer
  BY <1>3 DEF Transfer, ConditionHolds, Creates, local, body, reading, naming
<1>4. CASE CheckPreconditions
  <2>1. PICK how \in Namings :
          \/ Answer("refused")
          \/ /\ ~Fails(req.cond, Exists(how))
             /\ checked' = how /\ pc' = "open"
    BY <1>4 DEF CheckPreconditions, Goto
  <2>2. UNCHANGED <<req, remote>>
    BY <1>4 DEF CheckPreconditions
  <2>3. Exists("raw") = (remote # Absent)
    BY DEF Exists
  <2> QED
    BY <2>1, <2>2, <2>3 DEF ConditionHolds, Creates, Answer
<1>5. CASE CheckFails
  BY <1>5
     DEF CheckFails, Answer, ConditionHolds, Creates, local, body, reading,
         naming
<1>6. CASE OpenWrite
  BY <1>6 DEF OpenWrite, Goto, ConditionHolds, Creates, local
<1>7. CASE OpenFails
  BY <1>7 DEF OpenFails, Answer, ConditionHolds, Creates, local, body, reading,
         naming
<1>8. CASE TransferEnds
  BY <1>8 DEF TransferEnds, ConditionHolds, Creates, reading, naming
<1>9. CASE TransferTooLarge
  BY <1>9 DEF TransferTooLarge, ConditionHolds, Creates, reading, naming
<1>10. CASE TransferBreaks
  BY <1>10 DEF TransferBreaks, ConditionHolds, Creates, reading, naming
<1>11. CASE CloseUnchanged
  BY <1>11
     DEF CloseUnchanged, Answer, ConditionHolds, Creates, local, body, reading,
         naming
<1>12. CASE CloseDiscards
  BY <1>12
     DEF CloseDiscards, Answer, ConditionHolds, Creates, local, body, reading,
         naming
<1>13. CASE CloseAccepts
  BY <1>13 DEF CloseAccepts, ConditionHolds, Creates, reading, naming
<1>14. CASE Commit
  BY <1>14 DEF Commit, ConditionHolds
<1>15. CASE CommitFails
  BY <1>15 DEF CommitFails, ConditionHolds
<1>16. CASE Finish
  BY <1>16
     DEF Finish, Answer, ConditionHolds, Creates, local, body, reading, naming
<1>17. CASE RetainFails
  BY <1>17
     DEF RetainFails, Answer, ConditionHolds, Creates, local, body, reading,
         naming
<1>18. CASE RetainPrune
  BY <1>18 DEF RetainPrune, ConditionHolds
<1>19. CASE RetainCreate
  BY <1>19 DEF RetainCreate, ConditionHolds
<1>20. CASE RetainCopy
  BY <1>20 DEF RetainCopy, ConditionHolds
<1>21. CASE RetainCopyFails
  BY <1>21 DEF RetainCopyFails, Answer, ConditionHolds, Creates, local, body,
         reading, naming
<1>22. CASE RetainDescribe
  BY <1>22 DEF RetainDescribe, ConditionHolds
<1>23. CASE RetainDescribeFails
  BY <1>23
     DEF RetainDescribeFails, Answer, ConditionHolds, Creates, local, body,
         reading, naming
<1>24. CASE Unstage
  BY <1>24 DEF Unstage, Answer, ConditionHolds, Creates, local, body, reading,
         naming
<1>25. CASE OpenRead
  BY <1>25 DEF OpenRead, Goto, ConditionHolds, Creates, local
<1>26. CASE OpenReadFails
  BY <1>26
     DEF OpenReadFails, Answer, ConditionHolds, Creates, local, body, reading,
         naming
<1>27. CASE Sniff
  BY <1>27 DEF Sniff, ConditionHolds
<1>28. CASE SeekRange
  BY <1>28 DEF SeekRange, ConditionHolds
<1>29. CASE Send
  BY <1>29 DEF Send, ConditionHolds
<1>30. CASE SendEnds
  BY <1>30 DEF SendEnds, Answer, ConditionHolds, Creates, local, body, reading,
         naming
<1>31. CASE ReadFails
  BY <1>31
     DEF ReadFails, Answer, ConditionHolds, Creates, local, body, reading,
         naming
<1>32. CASE Cancel
  BY <1>32 DEF Cancel, ConditionHolds, Creates, reading, naming
<1>33. CASE Crash
  BY <1>33
     DEF Crash, Answer, ConditionHolds, Creates, local, body, reading, naming
<1>34. CASE ForeignStep
  BY <1>34, ForeignEffect DEF ConditionHolds, Creates, naming
<1>35. CASE EmptyTemp
  BY <1>35 DEF EmptyTemp, ConditionHolds
<1> QED
  BY <1>1, <1>2, <1>3, <1>4, <1>5, <1>6, <1>7, <1>8, <1>9, <1>10, <1>11, <1>12,
     <1>13, <1>14, <1>15, <1>16, <1>17, <1>18, <1>19, <1>20, <1>21, <1>22,
     <1>23, <1>24, <1>25, <1>26, <1>27, <1>28, <1>29, <1>30, <1>31, <1>32,
     <1>33, <1>34, <1>35 DEF Next, Step, ForeignStep

(* What was sent ends at the descriptor's offset, before the seek and after *)
(* it.                                                                      *)
LEMMA SendingStep ==
  ASSUME FilesType, RequestType, Progress, Sending, Next
  PROVE  Sending'
<1>1. CASE Put \/ Copy \/ Proppatch \/ Get
  <2>1. PICK r \in Requests, label \in {"check", "open", "openRead"} : Arriving(r, label)
    BY <1>1, Arrivals
  <2> QED
    BY <2>1 DEF Arriving, Arrive, Sending, EnsureLocal, local
<1>2. CASE PutTooLarge
  BY <1>2 DEF PutTooLarge, Sending
<1>3. CASE Transfer
  BY <1>3 DEF Transfer, Sending
<1>4. CASE CheckPreconditions
  BY <1>4 DEF CheckPreconditions, Answer, Goto, Sending, EnsureLocal, local
<1>5. CASE CheckFails
  BY <1>5 DEF CheckFails, Answer, Sending, EnsureLocal, local, body, reading,
         naming
<1>6. CASE OpenWrite
  BY <1>6 DEF OpenWrite, Goto, Sending, EnsureLocal, local
<1>7. CASE OpenFails
  BY <1>7
     DEF OpenFails, Answer, Sending, EnsureLocal, local, body, reading, naming
<1>8. CASE TransferEnds
  BY <1>8 DEF TransferEnds, Sending
<1>9. CASE TransferTooLarge
  BY <1>9 DEF TransferTooLarge, Sending
<1>10. CASE TransferBreaks
  BY <1>10 DEF TransferBreaks, Sending
<1>11. CASE CloseUnchanged
  BY <1>11
     DEF CloseUnchanged, Answer, Sending, EnsureLocal, local, body, reading,
         naming
<1>12. CASE CloseDiscards
  BY <1>12
     DEF CloseDiscards, Answer, Sending, EnsureLocal, local, body, reading,
         naming
<1>13. CASE CloseAccepts
  BY <1>13 DEF CloseAccepts, Sending
<1>14. CASE Commit
  BY <1>14 DEF Commit, Sending
<1>15. CASE CommitFails
  BY <1>15 DEF CommitFails, Sending
<1>16. CASE Finish
  BY <1>16
     DEF Finish, Answer, Sending, EnsureLocal, local, body, reading, naming
<1>17. CASE RetainFails
  BY <1>17 DEF RetainFails, Answer, Sending, EnsureLocal, local, body, reading,
         naming
<1>18. CASE RetainPrune
  BY <1>18 DEF RetainPrune, Sending
<1>19. CASE RetainCreate
  BY <1>19 DEF RetainCreate, Sending
<1>20. CASE RetainCopy
  BY <1>20 DEF RetainCopy, Sending
<1>21. CASE RetainCopyFails
  BY <1>21
     DEF RetainCopyFails, Answer, Sending, EnsureLocal, local, body, reading,
         naming
<1>22. CASE RetainDescribe
  BY <1>22 DEF RetainDescribe, Sending
<1>23. CASE RetainDescribeFails
  BY <1>23 DEF RetainDescribeFails, Answer, Sending, EnsureLocal, local, body,
         reading, naming
<1>24. CASE Unstage
  BY <1>24
     DEF Unstage, Answer, Sending, EnsureLocal, local, body, reading, naming
<1>25. CASE OpenRead
  BY <1>25
     DEF OpenRead, Goto, Sending, EnsureLocal, local, body, reading, naming
<1>26. CASE OpenReadFails
  BY <1>26
     DEF OpenReadFails, Answer, Sending, EnsureLocal, local, body, reading,
         naming
<1>27. CASE Sniff
  BY <1>27 DEF Sniff, Sending
<1>28. CASE SeekRange
  <2> DEFINE Handles == [open : BOOLEAN, offset : Nat, pending : Nat]
  <2>1. remote.size \in Nat /\ req.from \in Nat /\ req.from < remote.size
    BY <1>28, SizesAreNumbers
       DEF SeekRange, Progress, Reading, FilesType, RequestType, Content,
           Requests
  <2>2. \A h \in Handles, n \in Nat :
          Seek(h, n) \in Handles /\ EnsureLocal(Seek(h, n)).offset = n
    BY DEF Seek, EnsureLocal
  <2>3. \A h \in Handles, n \in Nat : Seek(h, n) \in Handles
    BY <2>2
  <2>4. EnsureLocal(handle').offset = req.from
    BY <1>28, <2>1, <2>2 DEF SeekRange, RequestType
  <2>5. UNCHANGED <<sent, req, remote>> /\ sent = << >> /\ pc' = "send"
    BY <1>28 DEF SeekRange, Sending
  <2>6. EnsureLocal(handle)' = EnsureLocal(handle')
    BY DEF EnsureLocal
  <2> QED
    BY <2>1, <2>4, <2>5 DEF Sending
<1>29. CASE Send
  <2> DEFINE Handles == [open : BOOLEAN, offset : Nat, pending : Nat]
  <2>1. \A h \in Handles :
          EnsureLocal(Advance(EnsureLocal(h))).offset = EnsureLocal(h).offset + 1
    BY DEF Advance, EnsureLocal
  <2>2. EnsureLocal(handle') .offset = EnsureLocal(handle).offset + 1
    BY <1>29, <2>1 DEF Send, RequestType
  <2>3. Len(sent') = Len(sent) + 1
    BY <1>29 DEF Send, RequestType
  <2>4. /\ EnsureLocal(handle).offset = req.from + Len(sent)
        /\ EnsureLocal(handle).offset < remote.size
        /\ UNCHANGED <<remote, req, pc>> /\ pc = "send"
    BY <1>29 DEF Send, Sending
  <2>5. remote.size \in Sizes /\ req.from \in Sizes /\ Len(sent) \in Nat
    BY <2>4 DEF Progress, Reading, FilesType, RequestType, Content, Requests
  <2>6. EnsureLocal(handle)' = EnsureLocal(handle')
    BY DEF EnsureLocal
  <2>7. remote.size \in Nat /\ req.from \in Nat
    BY <2>5, SizesAreNumbers
  <2>8. /\ EnsureLocal(handle').offset = req.from + Len(sent')
        /\ EnsureLocal(handle').offset <= remote.size
    BY <2>2, <2>3, <2>4, <2>5, <2>7
  <2> QED
    BY <2>4, <2>8 DEF Sending
<1>30. CASE SendEnds
  BY <1>30
     DEF SendEnds, Answer, Sending, EnsureLocal, local, body, reading, naming
<1>31. CASE ReadFails
  BY <1>31
     DEF ReadFails, Answer, Sending, EnsureLocal, local, body, reading, naming
<1>32. CASE Cancel
  BY <1>32 DEF Cancel, Sending
<1>33. CASE Crash
  BY <1>33
     DEF Crash, Answer, Sending, EnsureLocal, local, body, reading, naming
<1>34. CASE ForeignStep
  BY <1>34, ForeignEffect DEF Sending, EnsureLocal, reading
<1>35. CASE EmptyTemp
  BY <1>35 DEF EmptyTemp, Sending
<1> QED
  BY <1>1, <1>2, <1>3, <1>4, <1>5, <1>6, <1>7, <1>8, <1>9, <1>10, <1>11, <1>12,
     <1>13, <1>14, <1>15, <1>16, <1>17, <1>18, <1>19, <1>20, <1>21, <1>22,
     <1>23, <1>24, <1>25, <1>26, <1>27, <1>28, <1>29, <1>30, <1>31, <1>32,
     <1>33, <1>34, <1>35 DEF Next, Step, ForeignStep

(* Only Commit changes the file, and only the description makes a copy      *)
(* count: of a whole body each, as it was staged.                           *)
LEMMA WholeBodiesOnlyStep ==
  ASSUME FilesType, RequestType, Progress, Staged, WholeBodiesOnly, Next
  PROVE  WholeBodiesOnly'
<1>1. CASE Put \/ Copy \/ Proppatch \/ Get
  <2>1. PICK r \in Requests, label \in {"check", "open", "openRead"} : Arriving(r, label)
    BY <1>1, Arrivals
  <2> QED
    BY <2>1 DEF Arriving, Arrive, WholeBodiesOnly, Whole, local
<1>2. CASE PutTooLarge
  BY <1>2 DEF PutTooLarge, WholeBodiesOnly, local
<1>3. CASE Transfer
  BY <1>3 DEF Transfer, WholeBodiesOnly
<1>4. CASE CheckPreconditions
  BY <1>4 DEF CheckPreconditions, Answer, Goto, WholeBodiesOnly, Whole, local
<1>5. CASE CheckFails
  BY <1>5 DEF CheckFails, Answer, WholeBodiesOnly, Whole, local
<1>6. CASE OpenWrite
  BY <1>6 DEF OpenWrite, Goto, WholeBodiesOnly
<1>7. CASE OpenFails
  BY <1>7 DEF OpenFails, Answer, WholeBodiesOnly, Whole, local
<1>8. CASE TransferEnds
  BY <1>8 DEF TransferEnds, WholeBodiesOnly, local
<1>9. CASE TransferTooLarge
  BY <1>9 DEF TransferTooLarge, WholeBodiesOnly, local
<1>10. CASE TransferBreaks
  BY <1>10 DEF TransferBreaks, WholeBodiesOnly, local
<1>11. CASE CloseUnchanged
  BY <1>11 DEF CloseUnchanged, Answer, WholeBodiesOnly
<1>12. CASE CloseDiscards
  BY <1>12 DEF CloseDiscards, Answer, WholeBodiesOnly
<1>13. CASE CloseAccepts
  BY <1>13 DEF CloseAccepts, WholeBodiesOnly, local
<1>14. CASE Commit
  <2>1. Whole(staging)
    BY <1>14 DEF Commit, Progress, Staged, Late, Early, Whole
  <2> QED
    BY <1>14, <2>1 DEF Commit, WholeBodiesOnly, local, Whole
<1>15. CASE CommitFails
  <2>1. Whole(staging)
    BY <1>15 DEF CommitFails, Progress, Staged, Late, Early, Whole
  <2> QED
    BY <1>15, <2>1 DEF CommitFails, WholeBodiesOnly, local, Whole
<1>16. CASE Finish
  BY <1>16 DEF Finish, Answer, WholeBodiesOnly
<1>17. CASE RetainFails
  BY <1>17 DEF RetainFails, Answer, WholeBodiesOnly
<1>18. CASE RetainPrune
  BY <1>18 DEF RetainPrune, WholeBodiesOnly
<1>19. CASE RetainCreate
  <2>1. ~Upload(0, FALSE).meta
    BY DEF Upload
  <2> QED
    BY <1>19, <2>1 DEF RetainCreate, WholeBodiesOnly
<1>20. CASE RetainCopy
  <2>1. ~Upload(staging.size, FALSE).meta
    BY DEF Upload
  <2> QED
    BY <1>20, <2>1 DEF RetainCopy, Rewrite, WholeBodiesOnly, Whole
<1>21. CASE RetainCopyFails
  BY <1>21 DEF RetainCopyFails, Rewrite, WholeBodiesOnly
<1>22. CASE RetainDescribe
  <2>1. staging \in Content /\ staging.size = req.size /\ staging.full = req.size
    BY <1>22 DEF RetainDescribe, Progress, Staged, FilesType, Early, Late
  <2>2. \A meta \in BOOLEAN : Whole(Upload(staging.size, meta).content)
    BY <2>1 DEF Upload, Content, Whole
  <2> QED
    BY <1>22, <2>2 DEF RetainDescribe, Rewrite, WholeBodiesOnly, Whole
<1>23. CASE RetainDescribeFails
  <2>1. staging \in Content /\ staging.size = req.size /\ staging.full = req.size
    BY <1>23 DEF RetainDescribeFails, Progress, Staged, FilesType, Early, Late
  <2>2. \A meta \in BOOLEAN : Whole(Upload(staging.size, meta).content)
    BY <2>1 DEF Upload, Content, Whole
  <2> QED
    BY <1>23, <2>2 DEF RetainDescribeFails, Rewrite, WholeBodiesOnly, Whole
<1>24. CASE Unstage
  BY <1>24 DEF Unstage, Answer, WholeBodiesOnly
<1>25. CASE OpenRead
  BY <1>25 DEF OpenRead, Goto, WholeBodiesOnly, Whole, local
<1>26. CASE OpenReadFails
  BY <1>26 DEF OpenReadFails, Answer, WholeBodiesOnly, Whole, local
<1>27. CASE Sniff
  BY <1>27 DEF Sniff, WholeBodiesOnly, local
<1>28. CASE SeekRange
  BY <1>28 DEF SeekRange, WholeBodiesOnly, local
<1>29. CASE Send
  BY <1>29 DEF Send, WholeBodiesOnly, local
<1>30. CASE SendEnds
  BY <1>30 DEF SendEnds, Answer, WholeBodiesOnly, Whole, local
<1>31. CASE ReadFails
  BY <1>31 DEF ReadFails, Answer, WholeBodiesOnly, Whole, local
<1>32. CASE Cancel
  BY <1>32 DEF Cancel, WholeBodiesOnly, local
<1>33. CASE Crash
  BY <1>33 DEF Crash, Answer, WholeBodiesOnly
<1>34. CASE ForeignStep
  BY <1>34, ForeignEffect DEF WholeBodiesOnly, Whole
<1>35. CASE EmptyTemp
  BY <1>35 DEF EmptyTemp, WholeBodiesOnly
<1> QED
  BY <1>1, <1>2, <1>3, <1>4, <1>5, <1>6, <1>7, <1>8, <1>9, <1>10, <1>11, <1>12,
     <1>13, <1>14, <1>15, <1>16, <1>17, <1>18, <1>19, <1>20, <1>21, <1>22,
     <1>23, <1>24, <1>25, <1>26, <1>27, <1>28, <1>29, <1>30, <1>31, <1>32,
     <1>33, <1>34, <1>35 DEF Next, Step, ForeignStep

(* A reply that names a place is given where the body is there in full. *)
LEMMA TruthfulReplyStep ==
  ASSUME FilesType, RequestType, Progress, Staged, Whereabouts, TruthfulReply, Next
  PROVE  TruthfulReply'
<1>1. CASE Put \/ Copy \/ Proppatch \/ Get
  <2>1. PICK r \in Requests, label \in {"check", "open", "openRead"} : Arriving(r, label)
    BY <1>1, Arrivals
  <2> QED
    BY <2>1 DEF Arriving, Arrive, TruthfulReply
<1>2. CASE PutTooLarge
  BY <1>2 DEF PutTooLarge, TruthfulReply
<1>3. CASE Transfer
  BY <1>3 DEF Transfer, TruthfulReply
<1>4. CASE CheckPreconditions
  BY <1>4 DEF CheckPreconditions, Answer, Goto, TruthfulReply
<1>5. CASE CheckFails
  BY <1>5 DEF CheckFails, Answer, TruthfulReply
<1>6. CASE OpenWrite
  BY <1>6 DEF OpenWrite, Goto, TruthfulReply
<1>7. CASE OpenFails
  BY <1>7 DEF OpenFails, Answer, TruthfulReply
<1>8. CASE TransferEnds
  BY <1>8 DEF TransferEnds, TruthfulReply
<1>9. CASE TransferTooLarge
  BY <1>9 DEF TransferTooLarge, TruthfulReply
<1>10. CASE TransferBreaks
  BY <1>10 DEF TransferBreaks, TruthfulReply
<1>11. CASE CloseUnchanged
  BY <1>11 DEF CloseUnchanged, Commits, Answer, TruthfulReply
<1>12. CASE CloseDiscards
  BY <1>12 DEF CloseDiscards, Answer, TruthfulReply
<1>13. CASE CloseAccepts
  BY <1>13 DEF CloseAccepts, TruthfulReply
<1>14. CASE Commit
  BY <1>14 DEF Commit, TruthfulReply
<1>15. CASE CommitFails
  BY <1>15 DEF CommitFails, TruthfulReply
<1>16. CASE Finish
  <2>1. remote = Mine
    BY <1>16, StagedIsMine DEF Finish, Late, Whereabouts
  <2> QED
    BY <1>16, <2>1 DEF Finish, Answer, TruthfulReply, Mine
<1>17. CASE RetainFails
  <2>1. staging = Mine
    BY <1>17, StagedIsMine DEF RetainFails, Late
  <2>2. UNCHANGED <<req, owed>> /\ reply' = "staged" /\ LeaveStaging
    BY <1>17 DEF RetainFails, Answer
  <2>3. req.body \in owed => Mine \in strays'
    BY <2>1, <2>2, MineIsThere DEF LeaveStaging
  <2> QED
    BY <2>2, <2>3 DEF TruthfulReply, Mine
<1>18. CASE RetainPrune
  BY <1>18 DEF RetainPrune, TruthfulReply
<1>19. CASE RetainCreate
  BY <1>19 DEF RetainCreate, TruthfulReply
<1>20. CASE RetainCopy
  BY <1>20 DEF RetainCopy, TruthfulReply
<1>21. CASE RetainCopyFails
  <2>1. staging = Mine
    BY <1>21, StagedIsMine DEF RetainCopyFails, Late
  <2>2. UNCHANGED <<req, owed>> /\ reply' = "staged" /\ LeaveStaging
    BY <1>21 DEF RetainCopyFails, Answer
  <2>3. req.body \in owed => Mine \in strays'
    BY <2>1, <2>2, MineIsThere DEF LeaveStaging
  <2> QED
    BY <2>2, <2>3 DEF TruthfulReply, Mine
<1>22. CASE RetainDescribe
  BY <1>22 DEF RetainDescribe, TruthfulReply
<1>23. CASE RetainDescribeFails
  <2>1. staging = Mine
    BY <1>23, StagedIsMine DEF RetainDescribeFails, Late
  <2>2. PICK meta \in BOOLEAN :
           Rewrite(Upload(staging.size, FALSE), {Upload(staging.size, meta)})
    BY <1>23 DEF RetainDescribeFails
  <2>3. Upload(staging.size, meta).content = Mine
    BY <2>1 DEF Upload, Mine
  <2>4. req.body \in owed => Mine \in Retained'
    BY <1>23, <2>2, <2>3
       DEF RetainDescribeFails, Whereabouts, Rewrite, Retained
  <2>5. UNCHANGED <<req, owed>> /\ reply' = "copied"
    BY <1>23 DEF RetainDescribeFails, Answer
  <2> QED
    BY <2>4, <2>5 DEF TruthfulReply, Mine
<1>24. CASE Unstage
  <2>1. staging = Mine
    BY <1>24, StagedIsMine DEF Unstage, Late
  <2>2. Upload(staging.size, TRUE) = [content |-> Mine, meta |-> TRUE]
    BY <2>1 DEF Upload, Mine
  <2>3. req.body \in owed => [content |-> Mine, meta |-> TRUE] \in recovery
    BY <1>24, <2>2 DEF Unstage, Whereabouts
  <2> QED
    BY <1>24, <2>3 DEF Unstage, Answer, TruthfulReply, Mine
<1>25. CASE OpenRead
  BY <1>25 DEF OpenRead, Goto, TruthfulReply
<1>26. CASE OpenReadFails
  BY <1>26 DEF OpenReadFails, Answer, TruthfulReply
<1>27. CASE Sniff
  BY <1>27 DEF Sniff, TruthfulReply
<1>28. CASE SeekRange
  BY <1>28 DEF SeekRange, TruthfulReply
<1>29. CASE Send
  BY <1>29 DEF Send, TruthfulReply
<1>30. CASE SendEnds
  BY <1>30 DEF SendEnds, Answer, TruthfulReply
<1>31. CASE ReadFails
  BY <1>31 DEF ReadFails, Answer, TruthfulReply
<1>32. CASE Cancel
  BY <1>32 DEF Cancel, TruthfulReply
<1>33. CASE Crash
  BY <1>33 DEF Crash, Answer, TruthfulReply
<1>34. CASE ForeignStep
  <2>1. /\ UNCHANGED <<remote, strays, req, pc, reply>>
        /\ owed' \subseteq owed
        /\ \A f \in recovery : f.content.body \in owed' => f \in recovery'
    BY <1>34, ForeignEffect
  <2>2. ASSUME req.body \in owed', NEW f \in recovery, f.content = Mine
        PROVE  f \in recovery'
    BY <2>1, <2>2 DEF Mine
  <2>3. \A m : [content |-> Mine, meta |-> m].content = Mine
    OBVIOUS
  <2>4. ASSUME req.body \in owed', pc = "idle"
        PROVE  /\ reply = "kept" => [content |-> Mine, meta |-> TRUE] \in recovery'
               /\ reply = "copied" => Mine \in Retained'
               /\ reply = "staged" => Mine \in strays
    BY <2>1, <2>2, <2>3, <2>4 DEF TruthfulReply, Retained, Mine
  <2> QED
    BY <2>1, <2>4 DEF TruthfulReply, Mine
<1>35. CASE EmptyTemp
  <2>1. UNCHANGED <<remote, recovery, req, reply, pc>>
    BY <1>35 DEF EmptyTemp
  <2>2. owed' = owed \ {b \in Bodies : Named(b, strays)}
    BY <1>35 DEF EmptyTemp
  <2>3. req.body \in Bodies /\ Mine \in Content
    BY DEF RequestType, Requests, Mine, Content
  <2>4. Mine \in strays => Named(req.body, strays)
    BY <2>3, AbsentIsNoContent DEF Named, Mine
  <2>5. req.body \in owed' => Mine \notin strays /\ req.body \in owed
    BY <2>2, <2>3, <2>4
  <2> QED
    BY <2>1, <2>5 DEF TruthfulReply, Retained, Mine
<1> QED
  BY <1>1, <1>2, <1>3, <1>4, <1>5, <1>6, <1>7, <1>8, <1>9, <1>10, <1>11, <1>12,
     <1>13, <1>14, <1>15, <1>16, <1>17, <1>18, <1>19, <1>20, <1>21, <1>22,
     <1>23, <1>24, <1>25, <1>26, <1>27, <1>28, <1>29, <1>30, <1>31, <1>32,
     <1>33, <1>34, <1>35 DEF Next, Step, ForeignStep

(* A body changes its place by a step that copies it before the one that    *)
(* removes it, or is overwritten or evicted, and owed no more.              *)
LEMMA NothingLostStep ==
  ASSUME FilesType, RequestType, Progress, Staged, Whereabouts, NothingLost, Next
  PROVE  NothingLost'
<1>1. CASE Put \/ Copy \/ Proppatch \/ Get
  <2>1. PICK r \in Requests, label \in {"check", "open", "openRead"} : Arriving(r, label)
    BY <1>1, Arrivals
  <2> QED
    BY <2>1 DEF Arriving, Arrive, NothingLost, Retained, Whole, local
<1>2. CASE PutTooLarge
  BY <1>2 DEF PutTooLarge, NothingLost, Retained, Whole, local
<1>3. CASE Transfer
  <2>1. staging.body \notin owed
    BY <1>3 DEF Transfer, Progress, Staged, Whereabouts, Early
  <2>2. Places \ {staging} \subseteq Places' /\ UNCHANGED owed
    BY <1>3 DEF Transfer, Places, Retained
  <2> QED
    BY <2>1, <2>2, KeptElsewhere DEF Holds
<1>4. CASE CheckPreconditions
  BY <1>4 DEF CheckPreconditions, NothingLost, Retained, Whole, local
<1>5. CASE CheckFails
  BY <1>5 DEF CheckFails, Answer, NothingLost, Retained, Whole, local
<1>6. CASE OpenWrite
  <2>1. Places \ {Absent} \subseteq Places' /\ UNCHANGED owed
    BY <1>6 DEF OpenWrite, Progress, Early, Places, Retained
  <2> QED
    BY <2>1, KeptElsewhere DEF Holds
<1>7. CASE OpenFails
  BY <1>7 DEF OpenFails, Answer, NothingLost, Retained, Whole, local
<1>8. CASE TransferEnds
  BY <1>8 DEF TransferEnds, NothingLost, Retained, Whole, local
<1>9. CASE TransferTooLarge
  BY <1>9 DEF TransferTooLarge, NothingLost, Retained, Whole, local
<1>10. CASE TransferBreaks
  BY <1>10 DEF TransferBreaks, NothingLost, Retained, Whole, local
<1>11. CASE CloseUnchanged
  <2>1. Places \ {staging} \subseteq Places' /\ UNCHANGED <<remote, owed>>
    BY <1>11 DEF CloseUnchanged, RemoveStaging, Places, Retained
  <2>2. CASE Creates
    BY <1>11, <2>1, <2>2, KeptElsewhere
       DEF CloseUnchanged, Staged, Early, Whereabouts, Holds
  <2>3. CASE ~Creates
    <3>1. staging \in Places'
      BY <1>11, <2>1, <2>3 DEF CloseUnchanged, Staged, Places
    <3> QED
      BY <2>1, <3>1, KeptElsewhere
  <2> QED
    BY <2>2, <2>3
<1>12. CASE CloseDiscards
  <2>1. Places \ {staging} \subseteq Places' /\ UNCHANGED <<remote, owed>>
    BY <1>12 DEF CloseDiscards, RemoveStaging, Places, Retained
  <2>2. CASE Creates
    BY <1>12, <2>1, <2>2, KeptElsewhere
       DEF CloseDiscards, Staged, Early, Whereabouts, Holds
  <2>3. CASE ~Creates
    <3>1. staging \in Places'
      BY <1>12, <2>1, <2>3 DEF CloseDiscards, Staged, Places
    <3> QED
      BY <2>1, <3>1, KeptElsewhere
  <2> QED
    BY <2>2, <2>3
<1>13. CASE CloseAccepts
  <2>1. UNCHANGED Places /\ owed' = owed \cup {req.body}
    BY <1>13 DEF CloseAccepts, local, Places, Retained
  <2>2. staging \in Places /\ Holds(staging, req.body)
    BY <1>13 DEF CloseAccepts, Commits, Complete, Staged, Early, Places, Holds,
           Whole
  <2>3. \A b \in owed : \E c \in Places : Holds(c, b)
    BY DEF NothingLost, Places, Holds
  <2>4. \A b \in owed' : \E c \in Places : Holds(c, b)
    BY <2>1, <2>2, <2>3
  <2>5. UNCHANGED <<remote, staging, strays, recovery>>
    BY <1>13 DEF CloseAccepts, local
  <2> QED
    BY <2>4, <2>5 DEF NothingLost, Places, Holds, Retained
<1>14. CASE Commit
  <2>1. /\ remote' = staging
        /\ owed' = owed \ {b \in Bodies : b # staging.body /\ Named(b, {remote})}
    BY <1>14 DEF Commit
  <2>2. /\ Places \ {remote} \subseteq Places' /\ staging \in Places'
        /\ Holds(staging, staging.body)
    BY <1>14, <2>1
       DEF Commit, local, Places, Retained, Staged, Early, Late, Progress,
           Holds, Whole
  <2>3. ASSUME NEW b \in owed', Holds(remote, b) PROVE b = staging.body
    BY <2>1, <2>3 DEF Named, Holds, FilesType
  <2> QED
    BY <2>1, <2>2, <2>3, KeptElsewhere
<1>15. CASE CommitFails
  <2>1. CASE UNCHANGED <<remote, owed>>
    BY <1>15, <2>1, KeptElsewhere DEF CommitFails, local, NothingLost, Retained
  <2>2. CASE /\ remote' = staging
             /\ owed' = owed \ {b \in Bodies : b # staging.body /\ Named(b, {remote})}
    <3>1. /\ Places \ {remote} \subseteq Places' /\ staging \in Places'
          /\ Holds(staging, staging.body)
      BY <1>15, <2>2
         DEF CommitFails, local, Places, Retained, Staged, Early, Late,
             Progress, Holds, Whole
    <3>2. ASSUME NEW b \in owed', Holds(remote, b) PROVE b = staging.body
      BY <2>2, <3>2 DEF Named, Holds, FilesType
    <3> QED
      BY <2>2, <3>1, <3>2, KeptElsewhere
  <2> QED
    BY <1>15, <2>1, <2>2 DEF CommitFails
<1>16. CASE Finish
  <2>1. CASE RemoveStaging
    <3>1. Places \subseteq Places' /\ UNCHANGED owed
      BY <1>16, <2>1 DEF Finish, RemoveStaging, Places, Retained, Whereabouts
    <3> QED
      BY <3>1, KeptElsewhere
  <2>2. CASE LeaveStaging
    BY <1>16, <2>2, StagingLeft DEF Finish
  <2> QED
    BY <1>16, <2>1, <2>2 DEF Finish
<1>17. CASE RetainFails
  BY <1>17, StagingLeft DEF RetainFails
<1>18. CASE RetainPrune
  <2>1. PICK kept \in SUBSET recovery :
          /\ recovery' = kept
          /\ owed' = Unevicted(kept)
    BY <1>18 DEF RetainPrune
  <2> DEFINE lost == {f.content : f \in recovery \ kept}
  <2>2. Places \ lost \subseteq Places'
    BY <1>18, <2>1 DEF RetainPrune, Places, Retained
  <2>3. \A c \in lost : \A b \in owed' : ~Holds(c, b)
    BY <2>1 DEF Unevicted, Holds, FilesType
  <2>4. owed' \subseteq owed
    BY <2>1 DEF Unevicted
  <2> HIDE DEF lost
  <2> QED
    BY <2>2, <2>3, <2>4, KeptElsewhere
<1>19. CASE RetainCreate
  <2>1. Places \subseteq Places' /\ UNCHANGED owed
    BY <1>19 DEF RetainCreate, Places, Retained
  <2> QED
    BY <2>1, KeptElsewhere
<1>20. CASE RetainCopy
  <2> DEFINE old == Upload(0, FALSE).content
  <2>1. Places \ {old} \subseteq Places' /\ staging \in Places' /\ UNCHANGED owed
    BY <1>20 DEF RetainCopy, Rewrite, Places, Retained
  <2>2. Holds(staging, old.body)
    BY <1>20, StagedIsMine, MineIsThere
       DEF RetainCopy, Late, Upload, Content, Holds
  <2>3. \A b : Holds(old, b) => Holds(staging, b)
    BY <2>2 DEF Holds
  <2> QED
    BY <2>1, <2>3, KeptElsewhere
<1>21. CASE RetainCopyFails
  <2> DEFINE old == Upload(0, FALSE).content
  <2>1. Places \ {old, staging} \subseteq Places' /\ UNCHANGED owed
    BY <1>21 DEF RetainCopyFails, LeaveStaging, Rewrite, Places, Retained
  <2>2. Holds(staging, old.body)
    BY <1>21, StagedIsMine, MineIsThere
       DEF RetainCopyFails, Late, Upload, Content, Holds
  <2>3. \A b : Holds(old, b) \/ Holds(staging, b) => Holds(staging, b) /\ b = staging.body
    BY <2>2 DEF Holds
  <2>4. staging.body \in owed => staging \in Places'
    BY <1>21, <2>2 DEF RetainCopyFails, LeaveStaging, Places, Holds
  <2> HIDE DEF old
  <2> QED
    BY <2>1, <2>3, <2>4, KeptElsewhere
<1>22. CASE RetainDescribe
  <2> DEFINE old == Upload(staging.size, FALSE).content
  <2>1. Places \ {old} \subseteq Places' /\ staging \in Places' /\ UNCHANGED owed
    BY <1>22 DEF RetainDescribe, Rewrite, Places, Retained
  <2>2. Holds(staging, old.body)
    BY <1>22, StagedIsMine, MineIsThere
       DEF RetainDescribe, Late, Upload, Content, Holds
  <2>3. \A b : Holds(old, b) => Holds(staging, b)
    BY <2>2 DEF Holds
  <2> QED
    BY <2>1, <2>3, KeptElsewhere
<1>23. CASE RetainDescribeFails
  <2> DEFINE old == Upload(staging.size, FALSE).content
  <2>1. Places \ {old, staging} \subseteq Places' /\ UNCHANGED owed
    BY <1>23 DEF RetainDescribeFails, LeaveStaging, Rewrite, Places, Retained
  <2>2. Holds(staging, old.body)
    BY <1>23, StagedIsMine, MineIsThere
       DEF RetainDescribeFails, Late, Upload, Content, Holds
  <2>3. \A b : Holds(old, b) \/ Holds(staging, b) => Holds(staging, b) /\ b = staging.body
    BY <2>2 DEF Holds
  <2>4. staging.body \in owed => staging \in Places'
    BY <1>23, <2>2 DEF RetainDescribeFails, LeaveStaging, Places, Holds
  <2> HIDE DEF old
  <2> QED
    BY <2>1, <2>3, <2>4, KeptElsewhere
<1>24. CASE Unstage
  <2>1. Places \ {staging} \subseteq Places' /\ UNCHANGED <<owed, recovery>>
    BY <1>24 DEF Unstage, RemoveStaging, Places, Retained
  <2>2. staging = Mine
    BY <1>24, StagedIsMine DEF Unstage, Late
  <2>3. Upload(staging.size, TRUE).content = staging
    BY <2>2 DEF Upload, Mine
  <2>4. staging.body \in owed => staging \in Places'
    BY <1>24, <2>1, <2>2, <2>3 DEF Unstage, Whereabouts, Places, Retained, Mine
  <2> QED
    BY <2>1, <2>4, KeptElsewhere DEF Holds
<1>25. CASE OpenRead
  BY <1>25 DEF OpenRead, Goto, NothingLost, Retained, Whole, local
<1>26. CASE OpenReadFails
  BY <1>26 DEF OpenReadFails, Answer, NothingLost, Retained, Whole, local
<1>27. CASE Sniff
  BY <1>27 DEF Sniff, NothingLost, Retained, Whole, local
<1>28. CASE SeekRange
  BY <1>28 DEF SeekRange, NothingLost, Retained, Whole, local
<1>29. CASE Send
  BY <1>29 DEF Send, NothingLost, Retained, Whole, local
<1>30. CASE SendEnds
  BY <1>30 DEF SendEnds, Answer, NothingLost, Retained, Whole, local
<1>31. CASE ReadFails
  BY <1>31 DEF ReadFails, Answer, NothingLost, Retained, Whole, local
<1>32. CASE Cancel
  BY <1>32 DEF Cancel, NothingLost, Retained, Whole, local
<1>33. CASE Crash
  BY <1>33, StagingLeft DEF Crash
<1>34. CASE ForeignStep
  <2>1. /\ UNCHANGED <<remote, staging, strays>>
        /\ owed' \subseteq owed
        /\ \A f \in recovery : f.content.body \in owed' => f \in recovery'
    BY <1>34, ForeignEffect
  <2> DEFINE lost == {f.content : f \in recovery \ recovery'}
  <2>2. Places \ lost \subseteq Places'
    BY <2>1 DEF Places, Retained
  <2>3. \A c \in lost : \A b \in owed' : ~Holds(c, b)
    BY <2>1 DEF Holds
  <2> HIDE DEF lost
  <2> QED
    BY <2>1, <2>2, <2>3, KeptElsewhere
<1>35. CASE EmptyTemp
  <2>1. Places \ strays \subseteq Places'
    BY <1>35 DEF EmptyTemp, Places, Retained
  <2>2. owed' = owed \ {b \in Bodies : Named(b, strays)}
    BY <1>35 DEF EmptyTemp
  <2>3. \A c \in strays : \A b \in owed' : ~Holds(c, b)
    BY <2>2 DEF Holds, Named, FilesType
  <2> QED
    BY <2>1, <2>2, <2>3, KeptElsewhere
<1> QED
  BY <1>1, <1>2, <1>3, <1>4, <1>5, <1>6, <1>7, <1>8, <1>9, <1>10, <1>11, <1>12,
     <1>13, <1>14, <1>15, <1>16, <1>17, <1>18, <1>19, <1>20, <1>21, <1>22,
     <1>23, <1>24, <1>25, <1>26, <1>27, <1>28, <1>29, <1>30, <1>31, <1>32,
     <1>33, <1>34, <1>35 DEF Next, Step, ForeignStep

(* A GET ends when all of its range was sent. *)
LEMMA RangeServedStep ==
  ASSUME FilesType, RequestType, Progress, Sending, RangeServed, Next
  PROVE  RangeServed'
<1>1. CASE Put \/ Copy \/ Proppatch \/ Get
  <2>1. PICK r \in Requests, label \in {"check", "open", "openRead"} : Arriving(r, label)
    BY <1>1, Arrivals
  <2> QED
    BY <2>1 DEF Arriving, Arrive, RangeServed
<1>2. CASE PutTooLarge
  BY <1>2 DEF PutTooLarge, RangeServed, reading, naming
<1>3. CASE Transfer
  BY <1>3 DEF Transfer, RangeServed, local, body, reading, naming
<1>4. CASE CheckPreconditions
  BY <1>4 DEF CheckPreconditions, Answer, Goto, RangeServed, local
<1>5. CASE CheckFails
  BY <1>5 DEF CheckFails, Answer, RangeServed, reading, naming
<1>6. CASE OpenWrite
  BY <1>6 DEF OpenWrite, Goto, RangeServed, reading, naming
<1>7. CASE OpenFails
  BY <1>7 DEF OpenFails, Answer, RangeServed, reading, naming
<1>8. CASE TransferEnds
  BY <1>8 DEF TransferEnds, RangeServed, reading, naming
<1>9. CASE TransferTooLarge
  BY <1>9 DEF TransferTooLarge, RangeServed, reading, naming
<1>10. CASE TransferBreaks
  BY <1>10 DEF TransferBreaks, RangeServed, reading, naming
<1>11. CASE CloseUnchanged
  BY <1>11
     DEF CloseUnchanged, Answer, RangeServed, local, body, reading, naming
<1>12. CASE CloseDiscards
  BY <1>12 DEF CloseDiscards, Answer, RangeServed, local, body, reading, naming
<1>13. CASE CloseAccepts
  BY <1>13 DEF CloseAccepts, RangeServed, reading, naming
<1>14. CASE Commit
  BY <1>14 DEF Commit, Progress, RangeServed, reading
<1>15. CASE CommitFails
  BY <1>15 DEF CommitFails, Progress, RangeServed, reading
<1>16. CASE Finish
  BY <1>16 DEF Finish, Answer, RangeServed, local, body, reading, naming
<1>17. CASE RetainFails
  BY <1>17 DEF RetainFails, Answer, RangeServed, local, body, reading, naming
<1>18. CASE RetainPrune
  BY <1>18 DEF RetainPrune, RangeServed, reading, naming
<1>19. CASE RetainCreate
  BY <1>19 DEF RetainCreate, RangeServed, reading, naming
<1>20. CASE RetainCopy
  BY <1>20 DEF RetainCopy, RangeServed, reading, naming
<1>21. CASE RetainCopyFails
  BY <1>21
     DEF RetainCopyFails, Answer, RangeServed, local, body, reading, naming
<1>22. CASE RetainDescribe
  BY <1>22 DEF RetainDescribe, RangeServed, reading, naming
<1>23. CASE RetainDescribeFails
  BY <1>23 DEF RetainDescribeFails, Answer, RangeServed, local, body, reading,
         naming
<1>24. CASE Unstage
  BY <1>24 DEF Unstage, Answer, RangeServed, local, body, reading, naming
<1>25. CASE OpenRead
  BY <1>25 DEF OpenRead, Goto, RangeServed, reading, naming
<1>26. CASE OpenReadFails
  BY <1>26 DEF OpenReadFails, Answer, RangeServed, reading, naming
<1>27. CASE Sniff
  BY <1>27 DEF Sniff, RangeServed
<1>28. CASE SeekRange
  BY <1>28 DEF SeekRange, RangeServed
<1>29. CASE Send
  <2>1. /\ sent' = Append(sent, EnsureLocal(handle).offset)
        /\ EnsureLocal(handle).offset = req.from + Len(sent)
        /\ UNCHANGED <<remote, req, reply>> /\ reply = "none"
    BY <1>29 DEF Send, Sending, Progress
  <2>2. \A i \in DOMAIN sent' : sent'[i] = req.from + i - 1
    <3>1. sent \in Seq(Sizes) /\ req.from \in Sizes
      BY DEF RequestType, Requests
    <3>2. ASSUME NEW i \in DOMAIN sent' PROVE sent'[i] = req.from + i - 1
      <4>1. CASE i \in DOMAIN sent
        BY <2>1 DEF RangeServed
      <4>2. CASE i = Len(sent) + 1
        BY <2>1, <4>2
      <4> QED
        BY <2>1, <4>1
    <3> QED
      BY <3>2
  <2> QED
    BY <2>1, <2>2 DEF RangeServed
<1>30. CASE SendEnds
  <2>1. /\ EnsureLocal(handle).offset = req.from + Len(sent)
        /\ EnsureLocal(handle).offset = remote.size
        /\ UNCHANGED <<remote, req, sent>>
    BY <1>30 DEF SendEnds, Sending
  <2>2. req.from \in Sizes /\ sent \in Seq(Sizes)
    BY DEF RequestType, Requests
  <2>3. req.from \in Nat
    BY <2>2, SizesAreNumbers
  <2>4. reply' = "served" => Len(sent') = remote'.size - req'.from
    BY <2>1, <2>3
  <2> QED
    BY <2>1, <2>3 DEF RangeServed
<1>31. CASE ReadFails
  BY <1>31 DEF ReadFails, Answer, RangeServed, reading, naming
<1>32. CASE Cancel
  BY <1>32 DEF Cancel, RangeServed, reading, naming
<1>33. CASE Crash
  BY <1>33 DEF Crash, Answer, RangeServed, local, body, reading, naming
<1>34. CASE ForeignStep
  BY <1>34, ForeignEffect DEF RangeServed, reading
<1>35. CASE EmptyTemp
  BY <1>35 DEF EmptyTemp, RangeServed, reading, naming
<1> QED
  BY <1>1, <1>2, <1>3, <1>4, <1>5, <1>6, <1>7, <1>8, <1>9, <1>10, <1>11, <1>12,
     <1>13, <1>14, <1>15, <1>16, <1>17, <1>18, <1>19, <1>20, <1>21, <1>22,
     <1>23, <1>24, <1>25, <1>26, <1>27, <1>28, <1>29, <1>30, <1>31, <1>32,
     <1>33, <1>34, <1>35 DEF Next, Step, ForeignStep

-----------------------------------------------------------------------------
(* The invariant, and what it implies.                                     *)

(* The invariant holds of a new gateway, whatever file there is. *)
LEMMA Beginning == Init => IInv
<1> SUFFICES ASSUME Init PROVE IInv
  OBVIOUS
<1>1. PICK b \in Bodies :
        req = [method |-> "GET", body |-> b, size |-> 0, length |-> 0,
               cond |-> Unconditional, from |-> 0]
  BY DEF Init
<1>2. FilesType
  <2>1. \A n \in Sizes : [body |-> Old, full |-> n, size |-> n] \in Content
    BY DEF Content
  <2> QED
    BY <2>1 DEF Init, FilesType
<1>3. RequestType
  <2>1. req \in Requests
    BY <1>1, SizesAreNumbers, ConditionsType DEF Requests, Methods, Lengths
  <2>2. /\ pc = "idle" /\ got = 0 /\ eof = FALSE /\ broken = FALSE /\ cancelled = FALSE
        /\ checked = "raw" /\ at = "raw" /\ reply = "none"
    BY DEF Init
  <2>3. handle \in [open : BOOLEAN, offset : Nat, pending : Nat]
    BY DEF Init, NoFile
  <2>4. sent \in Seq(Sizes)
    BY DEF Init
  <2> QED
    BY <2>1, <2>2, <2>3, <2>4, SizesAreNumbers
       DEF RequestType, Labels, Early, Namings,
       Replies
<1>4. Progress /\ Staged /\ Whereabouts /\ ConditionHolds /\ Sending
  BY <1>1
     DEF Init, Progress, Staged, Whereabouts, ConditionHolds, Sending, Early,
     Reading, Late, Creates
<1>5. WholeBodiesOnly /\ TruthfulReply /\ NothingLost /\ RangeServed
  BY <1>1
     DEF Init, WholeBodiesOnly, TruthfulReply, NothingLost, RangeServed, Whole
<1> QED
  BY <1>2, <1>3, <1>4, <1>5, Types DEF IInv

(* A step that changes nothing keeps it. *)
LEMMA Stuttering == IInv /\ UNCHANGED vars => IInv'
<1> SUFFICES ASSUME IInv, UNCHANGED vars PROVE IInv'
  OBVIOUS
<1> USE DEF vars, local, naming, body, reading
<1>1. TypeOK'
  BY DEF IInv, TypeOK
<1>2. Progress' /\ Staged' /\ Whereabouts' /\ ConditionHolds' /\ Sending'
  BY DEF IInv, Progress, Staged, Whereabouts, ConditionHolds, Sending, Early,
         Reading,
     Late, Creates, Upload
<1>3. WholeBodiesOnly' /\ TruthfulReply' /\ NothingLost' /\ RangeServed'
  BY DEF IInv, WholeBodiesOnly, TruthfulReply, NothingLost, RangeServed, Whole,
         Retained
<1> QED
  BY <1>1, <1>2, <1>3 DEF IInv

(* Every step keeps it: its parts in turn. *)
LEMMA Invariance == IInv /\ Next => IInv'
<1> SUFFICES ASSUME IInv, Next PROVE IInv'
  OBVIOUS
<1>1. /\ FilesType /\ RequestType /\ Progress /\ Staged /\ Whereabouts
      /\ ConditionHolds /\ Sending
      /\ WholeBodiesOnly /\ TruthfulReply /\ NothingLost /\ RangeServed
  BY Types DEF IInv
<1>2. FilesType' /\ RequestType'
  BY <1>1, FilesTypeStep, RequestTypeStep
<1>3. TypeOK'
  BY <1>2, TypesNext
<1>4. Progress' /\ Staged' /\ Whereabouts' /\ ConditionHolds' /\ Sending'
  BY <1>1, ProgressStep, StagedStep, WhereaboutsStep, ConditionHoldsStep,
     SendingStep
<1>5. WholeBodiesOnly' /\ TruthfulReply' /\ NothingLost' /\ RangeServed'
  BY <1>1, WholeBodiesOnlyStep, TruthfulReplyStep, NothingLostStep,
     RangeServedStep
<1> QED
  BY <1>3, <1>4, <1>5 DEF IInv

(* The invariant holds in every reachable state. *)
THEOREM InvariantHolds == Spec => []IInv
<1>1. IInv /\ [Next]_vars => IInv'
  BY Invariance, Stuttering
<1> QED
  BY Beginning, <1>1, PTL DEF Spec

(* Every variable keeps its type. *)
THEOREM TypeCorrect == Spec => []TypeOK
<1>1. IInv => TypeOK
  BY DEF IInv
<1> QED
  BY InvariantHolds, <1>1, PTL

(* Whatever breaks off, the connection, the disk or the source of a COPY,  *)
(* neither the file nor a described recovery copy is part of a body.       *)
THEOREM BodiesAreWhole == Spec => []WholeBodiesOnly
<1>1. IInv => WholeBodiesOnly
  BY DEF IInv
<1> QED
  BY InvariantHolds, <1>1, PTL

(* "stored" means that the file is this body, and an error that names a    *)
(* recovery copy or a temporary file names one that holds all of it.       *)
THEOREM RepliesAreTrue == Spec => []TruthfulReply
<1>1. IInv => TruthfulReply
  BY DEF IInv
<1> QED
  BY InvariantHolds, <1>1, PTL

(* An accepted body is somewhere in full, at every moment and across       *)
(* crashes, until it is overwritten or evicted.                            *)
THEOREM AcceptedBodiesStay == Spec => []NothingLost
<1>1. IInv => NothingLost
  BY DEF IInv
<1> QED
  BY InvariantHolds, <1>1, PTL

(* A GET sends the range it was asked for, in order and complete.          *)
THEOREM RangesAreServed == Spec => []RangeServed
<1>1. IInv => RangeServed
  BY DEF IInv
<1> QED
  BY InvariantHolds, <1>1, PTL

(* The commit replaces a file that the request's conditions allow to be    *)
(* replaced, though they were checked before its body was read.            *)
THEOREM WritesAreConditional == Spec => ConditionalWrite
<1>1. ASSUME IInv, Next, pc = "commit", remote' # remote, checked # "display"
      PROVE  MayReplace(req.cond, remote)
  <2>1. checked = "raw" /\ Creates
    BY <1>1 DEF IInv, TypeOK, Namings, Progress, Late
  <2>2. ~Fails(req.cond, remote # Absent)
    BY <1>1, <2>1 DEF IInv, ConditionHolds
  <2> QED
    BY <2>2 DEF Fails, MayReplace
<1>2. IInv /\ [Next]_vars =>
        [pc = "commit" /\ remote' # remote =>
           MayReplace(req.cond, remote) \/ checked = "display"]_vars
  BY <1>1
<1> QED
  BY InvariantHolds, <1>2, PTL DEF Spec, ConditionalWrite

-----------------------------------------------------------------------------
(* The recovery directory's budget.                                        *)

(* The upload of this process that is being copied or described. *)
Retaining ==
  IF pc = "copy" THEN {Upload(0, FALSE)}
  ELSE IF pc = "describe" THEN {Upload(staging.size, FALSE)} ELSE {}

(* The files that nobody is writing, and what the two processes may still  *)
(* make of those that they are writing.                                    *)
Settled == recovery \ (Retaining \cup {foreign})
Reserve == IF pc \in {"create", "copy", "describe"} THEN staging.size + MetaSize ELSE 0
ForeignReserve == IF foreign = Absent THEN 0 ELSE foreign.content.full + MetaSize
Allowed == IF overlap THEN 2 * Budget ELSE Budget

(* From a process' eviction until its description is written there is room *)
(* for all of its upload beside the settled files, however little of it is *)
(* there; and for the other's as well, if twice the budget is allowed.     *)
Room ==
  /\ IsFiniteSet(recovery)
  /\ TotalSize(Settled) + Reserve + ForeignReserve <= Allowed
  /\ Reserve <= Budget /\ ForeignReserve <= Budget
  /\ foreign # Absent => foreign.content.size <= foreign.content.full

(* A file has a size, and at most this one. *)
LEMMA FileSizes ==
  ASSUME NEW f \in Uploads
  PROVE  FileSize(f) \in 0..Limit + 1 + MetaSize
  BY FileRequestsAssumption DEF FileSize, Uploads, Content, Sizes

(* Finitely many files have finitely many bytes. *)
LEMMA FiniteBytes ==
  ASSUME NEW files \in SUBSET Uploads, IsFiniteSet(files)
  PROVE  IsFiniteSet(Bytes(files)) /\ TotalSize(files) \in Nat
<1> DEFINE positions == 1..Limit + 1 + MetaSize
<1>1. Bytes(files) \subseteq files \X positions
  BY FileSizes, FileRequestsAssumption DEF Bytes
<1>2. IsFiniteSet(positions)
  BY FS_Interval, FileRequestsAssumption
<1>3. IsFiniteSet(files \X positions)
  BY <1>2, FS_Product
<1>4. IsFiniteSet(Bytes(files))
  BY <1>1, <1>3, FS_Subset
<1> QED
  BY <1>4, FS_CardinalityType DEF TotalSize

(* Fewer files have no more bytes. *)
LEMMA FewerFiles ==
  ASSUME NEW files \in SUBSET Uploads, IsFiniteSet(files), NEW kept \in SUBSET files
  PROVE  IsFiniteSet(kept) /\ TotalSize(kept) \in Nat /\ TotalSize(kept) <= TotalSize(files)
<1>1. IsFiniteSet(kept)
  BY FS_Subset
<1>2. Bytes(kept) \subseteq Bytes(files)
  BY DEF Bytes
<1> QED
  BY <1>1, <1>2, FiniteBytes, FS_Subset DEF TotalSize

(* One more file adds at most its own bytes. *)
LEMMA OneFileMore ==
  ASSUME NEW files \in SUBSET Uploads, IsFiniteSet(files), NEW f \in Uploads
  PROVE  /\ IsFiniteSet(files \cup {f})
         /\ TotalSize(files \cup {f}) <= TotalSize(files) + FileSize(f)
<1>1. IsFiniteSet(files \cup {f})
  BY FS_AddElement
<1>2. Bytes(files \cup {f}) = Bytes(files) \cup ({f} \X (1..FileSize(f)))
  BY DEF Bytes
<1>3. FileSize(f) \in Nat
  BY FileSizes, FileRequestsAssumption
<1>4. IsFiniteSet({f}) /\ Cardinality({f}) = 1
  BY FS_Singleton
<1>5. IsFiniteSet(1..FileSize(f)) /\ Cardinality(1..FileSize(f)) = FileSize(f)
  BY <1>3, FS_Interval
<1>6. /\ IsFiniteSet({f} \X (1..FileSize(f)))
      /\ Cardinality({f} \X (1..FileSize(f))) = FileSize(f)
  <2>1. /\ IsFiniteSet({f} \X (1..FileSize(f)))
        /\ Cardinality({f} \X (1..FileSize(f))) =
             Cardinality({f}) * Cardinality(1..FileSize(f))
    BY <1>4, <1>5, FS_Product
  <2>2. 1 * FileSize(f) = FileSize(f)
    BY <1>3
  <2> QED
    BY <1>4, <1>5, <2>1, <2>2
<1>7. IsFiniteSet(Bytes(files)) /\ TotalSize(files) \in Nat
  BY FiniteBytes
<1> DEFINE both == Bytes(files) \cap ({f} \X (1..FileSize(f)))
<1>8. Cardinality(both) \in Nat
  BY <1>7, FS_Intersection, FS_CardinalityType
<1>9. Cardinality(Bytes(files) \cup ({f} \X (1..FileSize(f)))) =
        Cardinality(Bytes(files)) + Cardinality({f} \X (1..FileSize(f)))
          - Cardinality(both)
  BY <1>6, <1>7, FS_Union
<1>10. TotalSize(files \cup {f}) = TotalSize(files) + FileSize(f) - Cardinality(both)
  <2>1. Cardinality(Bytes(files \cup {f})) =
          Cardinality(Bytes(files)) + FileSize(f) - Cardinality(both)
    BY <1>2, <1>6, <1>9
  <2> QED
    BY <2>1 DEF TotalSize
<1> QED
  BY <1>1, <1>3, <1>7, <1>8, <1>10

(* The upload's size at each stage of its retention. *)
LEMMA UploadSize ==
  ASSUME NEW n \in Sizes, NEW meta \in BOOLEAN, staging \in Content
  PROVE  FileSize(Upload(n, meta)) = n + (IF meta THEN MetaSize ELSE 0)
  BY DEF Upload, FileSize, Content

(* What is or may become of the reserved room is counted in numbers. *)
LEMMA RoomNumbers ==
  ASSUME FilesType, Staged, IsFiniteSet(recovery)
  PROVE  /\ Settled \in SUBSET Uploads /\ IsFiniteSet(Settled)
         /\ TotalSize(Settled) \in Nat
         /\ Reserve \in Nat /\ ForeignReserve \in Nat /\ Allowed \in Nat
         /\ Budget \in Nat /\ MetaSize \in Nat /\ Budget <= Allowed
<1>1. Settled \in SUBSET recovery /\ recovery \in SUBSET Uploads
  BY DEF Settled, FilesType
<1>2. ASSUME pc \in {"create", "copy", "describe"} PROVE staging.size \in Nat
  BY <1>2, SizesAreNumbers DEF FilesType, Staged, Early, Content
<1>3. ASSUME foreign # Absent PROVE foreign.content.full \in Nat
  BY <1>3, ForeignFile DEF FilesType
<1>4. Budget \in Nat /\ MetaSize \in Nat
  BY FileRequestsAssumption
<1>5. Reserve \in Nat
  BY <1>2, <1>4 DEF Reserve
<1>6. ForeignReserve \in Nat
  BY <1>3, <1>4 DEF ForeignReserve
<1>7. Allowed \in Nat /\ Budget <= Allowed
  BY <1>4 DEF Allowed
<1> QED
  BY <1>1, <1>4, <1>5, <1>6, <1>7, FewerFiles

(* A file that this process is writing has at most the reserved size, and  *)
(* so has what a failure leaves of it.                                     *)
LEMMA OwnFile ==
  ASSUME FilesType, Staged, NEW meta \in BOOLEAN, NEW n \in {0, staging.size},
         pc \in {"create", "copy", "describe"}
  PROVE  /\ Upload(n, meta) \in Uploads
         /\ FileSize(Upload(n, meta)) \in Nat
         /\ FileSize(Upload(n, meta)) <= Reserve
<1>1. staging \in Content /\ n \in Sizes
  BY SizesAreNumbers DEF FilesType, Staged, Early, Content
<1>2. staging.size \in Nat /\ n \in Nat /\ n <= staging.size /\ MetaSize \in Nat
  BY <1>1, SizesAreNumbers, FileRequestsAssumption DEF Content
<1>3. /\ Upload(n, meta) \in Uploads
      /\ FileSize(Upload(n, meta)) = n + (IF meta THEN MetaSize ELSE 0)
  BY <1>1, UploadType, UploadSize
<1>4. Reserve = staging.size + MetaSize
  BY DEF Reserve
<1> QED
  BY <1>2, <1>3, <1>4

(* So it is with a file that the other process is writing. *)
LEMMA OthersFile ==
  ASSUME FilesType, Room, foreign # Absent
  PROVE  /\ foreign \in Uploads
         /\ FileSize(foreign) \in Nat /\ FileSize(foreign) <= ForeignReserve
         /\ Whole(foreign.content) =>
              /\ [foreign EXCEPT !.meta = TRUE] \in Uploads
              /\ FileSize([foreign EXCEPT !.meta = TRUE]) \in Nat
              /\ FileSize([foreign EXCEPT !.meta = TRUE]) <= ForeignReserve
<1> DEFINE new == [foreign EXCEPT !.meta = TRUE]
<1>1. foreign \in ForeignUploads
  BY DEF FilesType
<1>2. /\ foreign \in Uploads /\ ~foreign.meta /\ new \in Uploads
      /\ new.content = foreign.content /\ new.meta = TRUE
      /\ foreign.content.size \in Nat /\ foreign.content.full \in Nat
  <2>1. new.meta = TRUE
    BY <1>1 DEF ForeignUploads
  <2> QED
    BY <1>1, <2>1, ForeignFile
<1>3. /\ foreign.content.size <= foreign.content.full /\ MetaSize \in Nat
      /\ ForeignReserve = foreign.content.full + MetaSize
  BY FileRequestsAssumption DEF Room, ForeignReserve
<1>4. FileSize(foreign) = foreign.content.size
  BY <1>2 DEF FileSize
<1>5. FileSize(new) = foreign.content.size + MetaSize
  BY <1>2 DEF FileSize
<1>6. FileSize(foreign) \in Nat /\ FileSize(foreign) <= ForeignReserve
  BY ONLY <1>2, <1>3, <1>4
<1>7. FileSize(new) \in Nat /\ FileSize(new) <= ForeignReserve
  <2> HIDE DEF new
  <2> QED
    BY ONLY <1>2, <1>3, <1>5
<1> QED
  BY <1>2, <1>6, <1>7

(* With room for both, the files are within what is allowed. *)
LEMMA RoomSuffices ==
  ASSUME FilesType, Staged, Room
  PROVE  WithinBudget
<1>1. /\ Settled \in SUBSET Uploads /\ IsFiniteSet(Settled)
      /\ TotalSize(Settled) \in Nat
      /\ Reserve \in Nat /\ ForeignReserve \in Nat /\ Allowed \in Nat
  BY RoomNumbers DEF Room
<1>2. PICK own \in SUBSET Uploads :
        /\ Settled \cup Retaining = own
        /\ IsFiniteSet(own) /\ TotalSize(own) \in Nat
        /\ TotalSize(own) <= TotalSize(Settled) + Reserve
  <2>1. CASE Retaining = {}
    <3>1. Settled \cup Retaining = Settled
      BY <2>1
    <3>2. TotalSize(Settled) <= TotalSize(Settled) + Reserve
      BY <1>1
    <3> QED
      BY <1>1, <3>1, <3>2
  <2>2. CASE pc \in {"copy", "describe"}
    <3>1. PICK x \in Uploads :
            Retaining = {x} /\ FileSize(x) \in Nat /\ FileSize(x) <= Reserve
      BY <2>2, OwnFile DEF Retaining
    <3> DEFINE own == Settled \cup {x}
    <3>2. /\ own \in SUBSET Uploads /\ IsFiniteSet(own)
          /\ TotalSize(own) <= TotalSize(Settled) + FileSize(x)
      BY <1>1, <3>1, OneFileMore
    <3>3. TotalSize(own) \in Nat
      BY <3>2, FiniteBytes
    <3>4. TotalSize(own) <= TotalSize(Settled) + Reserve
      BY <1>1, <3>1, <3>2, <3>3
    <3>5. Settled \cup Retaining = own
      BY <3>1
    <3> QED
      BY <3>2, <3>3, <3>4, <3>5
  <2> QED
    BY <2>1, <2>2 DEF Retaining
<1>3. TotalSize(recovery) \in Nat
  BY FiniteBytes DEF FilesType, Room
<1>4. TotalSize(Settled) + Reserve + ForeignReserve <= Allowed
  BY DEF Room
<1>5. CASE foreign = Absent
  <2>1. Absent \notin Uploads
    BY FileRequestsAssumption, SizesAreNumbers DEF Uploads, Content
  <2>2. recovery \in SUBSET own
    BY <1>2, <1>5, <2>1 DEF Settled, FilesType
  <2>3. TotalSize(recovery) <= TotalSize(own)
    BY <1>2, <2>2, FewerFiles
  <2>4. TotalSize(recovery) <= Allowed
    BY <1>1, <1>2, <1>3, <1>4, <2>3
  <2> QED
    BY <2>4 DEF WithinBudget, Allowed
<1>6. CASE foreign # Absent
  <2>1. /\ foreign \in Uploads /\ FileSize(foreign) \in Nat
        /\ FileSize(foreign) <= ForeignReserve
    BY <1>6, OthersFile
  <2> DEFINE all == own \cup {foreign}
  <2>2. /\ all \in SUBSET Uploads /\ IsFiniteSet(all)
        /\ TotalSize(all) <= TotalSize(own) + FileSize(foreign)
    BY <1>2, <2>1, OneFileMore
  <2>3. recovery \in SUBSET all
    BY <1>2 DEF Settled
  <2>4. /\ TotalSize(recovery) <= TotalSize(all) /\ TotalSize(all) \in Nat
    BY <2>2, <2>3, FewerFiles, FiniteBytes
  <2>5. TotalSize(recovery) <= Allowed
    BY <1>1, <1>2, <1>3, <1>4, <2>1, <2>2, <2>4
  <2> QED
    BY <2>5 DEF WithinBudget, Allowed
<1> QED
  BY <1>5, <1>6

(* There is still room when the settled files have become more by at most  *)
(* one, and room for it that had been reserved is given up.                *)
LEMMA RoomAfter ==
  ASSUME FilesType, Staged, Room, FilesType', Staged', IsFiniteSet(recovery'),
         \/ /\ Settled' \subseteq Settled
            /\ Reserve' + ForeignReserve' <= Reserve + ForeignReserve
         \/ \E x \in Uploads :
              /\ Settled' \subseteq Settled \cup {x}
              /\ Reserve' + ForeignReserve' + FileSize(x) <= Reserve + ForeignReserve,
         Reserve' <= Reserve, ForeignReserve' <= ForeignReserve,
         UNCHANGED overlap,
         foreign' # Absent => foreign'.content.size <= foreign'.content.full
  PROVE  Room'
<1>1. /\ Settled \in SUBSET Uploads /\ IsFiniteSet(Settled)
      /\ TotalSize(Settled) \in Nat
      /\ Reserve \in Nat /\ ForeignReserve \in Nat /\ Allowed \in Nat /\ Budget \in Nat
  BY RoomNumbers DEF Room
<1>2. Settled' = recovery' \ (Retaining' \cup {foreign'})
  BY DEF Settled
<1>3. Settled' \in SUBSET Uploads /\ IsFiniteSet(Settled')
  BY <1>2, FS_Subset DEF FilesType
<1>4. Reserve' \in Nat /\ ForeignReserve' \in Nat /\ Allowed' = Allowed
  <2>1. ASSUME pc' \in {"create", "copy", "describe"} PROVE staging'.size \in Nat
    BY <2>1, SizesAreNumbers DEF FilesType, Staged, Early, Content
  <2>2. ASSUME foreign' # Absent PROVE foreign'.content.full \in Nat
    BY <2>2, ForeignFile DEF FilesType
  <2>3. MetaSize \in Nat
    BY FileRequestsAssumption
  <2>4. Reserve' = IF pc' \in {"create", "copy", "describe"}
                   THEN staging'.size + MetaSize ELSE 0
    BY DEF Reserve
  <2>5. ForeignReserve' = IF foreign' = Absent THEN 0 ELSE foreign'.content.full + MetaSize
    BY DEF ForeignReserve
  <2>6. Reserve' \in Nat
    BY <2>1, <2>3, <2>4
  <2>7. ForeignReserve' \in Nat
    BY <2>2, <2>3, <2>5
  <2> QED
    BY <2>6, <2>7 DEF Allowed
<1>5. TotalSize(Settled') \in Nat
  BY <1>3, FiniteBytes
<1>6. TotalSize(Settled) + Reserve + ForeignReserve <= Allowed
  BY DEF Room
<1>7. TotalSize(Settled') + Reserve' + ForeignReserve' <= Allowed
  <2>1. CASE /\ Settled' \subseteq Settled
             /\ Reserve' + ForeignReserve' <= Reserve + ForeignReserve
    <3>1. TotalSize(Settled') <= TotalSize(Settled)
      BY <1>1, <2>1, FewerFiles
    <3> QED
      BY <1>1, <1>4, <1>5, <1>6, <2>1, <3>1
  <2>2. CASE \E x \in Uploads :
               /\ Settled' \subseteq Settled \cup {x}
               /\ Reserve' + ForeignReserve' + FileSize(x) <= Reserve + ForeignReserve
    <3>1. PICK x \in Uploads :
            /\ Settled' \subseteq Settled \cup {x}
            /\ Reserve' + ForeignReserve' + FileSize(x) <= Reserve + ForeignReserve
      BY <2>2
    <3>2. /\ IsFiniteSet(Settled \cup {x}) /\ Settled \cup {x} \in SUBSET Uploads
          /\ TotalSize(Settled \cup {x}) <= TotalSize(Settled) + FileSize(x)
      BY <1>1, OneFileMore
    <3>3. /\ TotalSize(Settled') <= TotalSize(Settled \cup {x})
          /\ TotalSize(Settled \cup {x}) \in Nat
      BY <3>1, <3>2, FewerFiles, FiniteBytes
    <3>4. FileSize(x) \in Nat
      <4>1. FileSize(x) \in 0..Limit + 1 + MetaSize
        BY FileSizes
      <4> QED
        BY ONLY <4>1, FileRequestsAssumption
    <3> QED
      BY <1>1, <1>4, <1>5, <1>6, <3>1, <3>2, <3>3, <3>4
  <2> QED
    BY <2>1, <2>2
<1>8. Reserve' <= Budget /\ ForeignReserve' <= Budget
  <2>1. Reserve <= Budget /\ ForeignReserve <= Budget
    BY DEF Room
  <2> QED
    BY <1>1, <1>4, <2>1
<1>9. TotalSize(Settled)' = TotalSize(Settled')
  BY DEF TotalSize, Bytes, FileSize
<1>10. (TotalSize(Settled) + Reserve + ForeignReserve <= Allowed)'
  BY <1>4, <1>7, <1>9
<1> QED
  BY <1>8, <1>10 DEF Room

(* When a retention of this process is over, or none was under way, at most *)
(* the upload that it was writing is left.                                 *)
LEMMA RoomLeft ==
  ASSUME FilesType, Staged, Room, FilesType', Staged', UNCHANGED beside,
         pc' \notin {"create", "copy", "describe"},
         \/ recovery' \subseteq recovery \ Retaining
         \/ /\ pc \in {"copy", "describe"}
            /\ \E n \in {0, staging.size}, meta \in BOOLEAN :
                 recovery' \subseteq (recovery \ Retaining) \cup {Upload(n, meta)}
  PROVE  Room'
<1>1. /\ Reserve \in Nat /\ ForeignReserve \in Nat
      /\ Reserve' = 0 /\ ForeignReserve' = ForeignReserve
  BY RoomNumbers DEF Room, Reserve, ForeignReserve
<1>2. Settled' = recovery' \ {foreign}
  BY DEF Settled, Retaining
<1>3. foreign' # Absent => foreign'.content.size <= foreign'.content.full
  BY DEF Room
<1>4. CASE recovery' \subseteq recovery \ Retaining
  <2>1. IsFiniteSet(recovery')
    BY <1>4, FS_Subset DEF Room
  <2>2. Settled' \subseteq Settled
    BY <1>2, <1>4 DEF Settled
  <2>3. Reserve' + ForeignReserve' <= Reserve + ForeignReserve
    BY <1>1
  <2>4. Reserve' <= Reserve /\ ForeignReserve' <= ForeignReserve
    BY <1>1
  <2> QED
    BY <1>3, <2>1, <2>2, <2>3, <2>4, RoomAfter
<1>5. CASE /\ pc \in {"copy", "describe"}
           /\ \E n \in {0, staging.size}, meta \in BOOLEAN :
                recovery' \subseteq (recovery \ Retaining) \cup {Upload(n, meta)}
  <2>1. PICK n \in {0, staging.size}, meta \in BOOLEAN :
          recovery' \subseteq (recovery \ Retaining) \cup {Upload(n, meta)}
    BY <1>5
  <2>2. /\ Upload(n, meta) \in Uploads /\ FileSize(Upload(n, meta)) \in Nat
        /\ FileSize(Upload(n, meta)) <= Reserve
    BY <1>5, OwnFile
  <2>3. IsFiniteSet(recovery \cup {Upload(n, meta)})
    BY FS_AddElement DEF Room
  <2>4. IsFiniteSet(recovery')
    BY <2>1, <2>3, FS_Subset
  <2>5. Settled' \subseteq Settled \cup {Upload(n, meta)}
    BY <1>2, <2>1 DEF Settled
  <2>6. Reserve' + ForeignReserve' + FileSize(Upload(n, meta)) <= Reserve + ForeignReserve
    BY <1>1, <2>2
  <2>7. Reserve' <= Reserve /\ ForeignReserve' <= ForeignReserve
    BY <1>1
  <2> QED
    BY <1>3, <2>2, <2>4, <2>5, <2>6, <2>7, RoomAfter
<1> QED
  BY <1>4, <1>5

(* A step that touches no retention of either process leaves the room. *)
LEMMA RoomUntouched ==
  ASSUME FilesType, Staged, Room, FilesType', Staged', UNCHANGED retained,
         pc' \notin {"create", "copy", "describe"}
  PROVE  Room'
<1>1. CASE Retaining = {}
  <2>1. recovery' \subseteq recovery \ Retaining
    BY <1>1
  <2> QED
    BY <2>1, RoomLeft
<1>2. CASE pc \in {"copy", "describe"}
  <2>1. PICK n \in {0, staging.size} : Retaining = {Upload(n, FALSE)}
    BY <1>2 DEF Retaining
  <2>2. recovery' \subseteq (recovery \ Retaining) \cup {Upload(n, FALSE)}
    BY <2>1
  <2> QED
    BY <1>2, <2>2, RoomLeft
<1> QED
  BY <1>1, <1>2 DEF Retaining

(* An eviction makes room for the one upload, and there is twice as much if *)
(* the other process is writing one, too.                                  *)
LEMMA RoomPruned ==
  ASSUME FilesType, Staged, Room, FilesType', Staged', RetainPrune \/ ForeignPrune
  PROVE  Room'
<1>1. /\ Reserve \in Nat /\ ForeignReserve \in Nat /\ Budget \in Nat /\ MetaSize \in Nat
  BY RoomNumbers DEF Room
<1>2. Reserve <= Budget /\ ForeignReserve <= Budget
  BY DEF Room
<1>3. recovery \in SUBSET Uploads /\ IsFiniteSet(recovery)
  BY DEF FilesType, Room
<1>4. TotalSize(Settled)' = TotalSize(Settled')
  BY DEF TotalSize, Bytes, FileSize
<1>5. CASE RetainPrune
  <2>1. PICK kept \in SUBSET recovery : Fits(kept) /\ recovery' = kept
    BY <1>5 DEF RetainPrune
  <2>2. /\ pc = "retain" /\ pc' = "create" /\ UNCHANGED <<staging, foreign>>
        /\ overlap' = (foreign # Absent) /\ staging.size <= Budget - MetaSize
    BY <1>5 DEF RetainPrune
  <2>3. staging.size \in Nat
    BY <2>2, SizesAreNumbers DEF FilesType, Staged, Early, Content
  <2>4. Reserve' = staging.size + MetaSize /\ ForeignReserve' = ForeignReserve
    BY <2>2 DEF Reserve, ForeignReserve
  <2>5. IsFiniteSet(kept) /\ TotalSize(kept) \in Nat
    BY <1>3, <2>1, FewerFiles
  <2>6. Settled' \in SUBSET kept
    BY <2>1 DEF Settled
  <2>7. TotalSize(Settled') \in Nat /\ TotalSize(Settled') <= TotalSize(kept)
    BY <1>3, <2>1, <2>5, <2>6, FewerFiles
  <2>8. TotalSize(kept) + staging.size + MetaSize <= Budget
    BY <2>1 DEF Fits
  <2>9. TotalSize(Settled') + Reserve' <= Budget /\ Reserve' <= Budget
    BY <1>1, <2>3, <2>4, <2>5, <2>7, <2>8
  <2>10. TotalSize(Settled') + Reserve' + ForeignReserve' <= Allowed'
    <3>1. CASE foreign = Absent
      <4>1. Allowed' = Budget /\ ForeignReserve' = 0
        BY <2>2, <2>4, <3>1 DEF Allowed, ForeignReserve
      <4> QED
        BY <1>1, <2>3, <2>4, <2>7, <2>9, <4>1
    <3>2. CASE foreign # Absent
      <4>1. Allowed' = 2 * Budget
        BY <2>2, <3>2 DEF Allowed
      <4> QED
        BY <1>1, <1>2, <2>3, <2>4, <2>7, <2>9, <4>1
    <3> QED
      BY <3>1, <3>2
  <2>11. foreign' # Absent => foreign'.content.size <= foreign'.content.full
    BY <2>2 DEF Room
  <2>12. IsFiniteSet(recovery') /\ ForeignReserve' <= Budget
    BY <1>2, <2>1, <2>4, <2>5
  <2>13. (TotalSize(Settled) + Reserve + ForeignReserve <= Allowed)'
    BY <1>4, <2>10
  <2> QED
    BY <2>9, <2>11, <2>12, <2>13 DEF Room
<1>6. CASE ForeignPrune
  <2>1. PICK x \in Others, n \in OtherSizes, kept \in SUBSET recovery :
          /\ TotalSize(kept) + n + MetaSize <= Budget
          /\ foreign' = [content |-> [body |-> x, full |-> n, size |-> 0], meta |-> FALSE]
          /\ recovery' = kept \cup {foreign'}
    BY <1>6 DEF ForeignPrune
  <2>2. /\ UNCHANGED <<pc, staging>>
        /\ overlap' = (pc \in {"create", "copy", "describe"})
    BY <1>6 DEF ForeignPrune
  <2>3. foreign' \in ForeignUploads /\ n \in Nat
    BY <2>1, FileRequestsAssumption DEF ForeignUploads
  <2>4. /\ foreign' # Absent
        /\ foreign'.content.full = n /\ foreign'.content.size = 0
    BY <2>1, <2>3, ForeignFile
  <2>5. Reserve' = Reserve /\ ForeignReserve' = n + MetaSize
    BY <2>2, <2>4 DEF Reserve, ForeignReserve
  <2>6. IsFiniteSet(kept) /\ TotalSize(kept) \in Nat
    BY <1>3, <2>1, FewerFiles
  <2>7. Settled' \in SUBSET kept
    BY <2>1 DEF Settled
  <2>8. TotalSize(Settled') \in Nat /\ TotalSize(Settled') <= TotalSize(kept)
    BY <1>3, <2>1, <2>6, <2>7, FewerFiles
  <2>9. TotalSize(Settled') + ForeignReserve' <= Budget /\ ForeignReserve' <= Budget
    BY <1>1, <2>1, <2>3, <2>5, <2>6, <2>8
  <2>10. TotalSize(Settled') + Reserve' + ForeignReserve' <= Allowed'
    <3>1. CASE pc \notin {"create", "copy", "describe"}
      <4>1. Allowed' = Budget /\ Reserve' = 0
        BY <2>2, <2>5, <3>1 DEF Allowed, Reserve
      <4> QED
        BY <1>1, <2>3, <2>5, <2>8, <2>9, <4>1
    <3>2. CASE pc \in {"create", "copy", "describe"}
      <4>1. Allowed' = 2 * Budget
        BY <2>2, <3>2 DEF Allowed
      <4> QED
        BY <1>1, <1>2, <2>3, <2>5, <2>8, <2>9, <4>1
    <3> QED
      BY <3>1, <3>2
  <2>11. foreign'.content.size <= foreign'.content.full
    BY <2>3, <2>4
  <2>12. IsFiniteSet(recovery') /\ Reserve' <= Budget
    BY <1>2, <2>1, <2>5, <2>6, FS_AddElement
  <2>13. (TotalSize(Settled) + Reserve + ForeignReserve <= Allowed)'
    BY <1>4, <2>10
  <2> QED
    BY <2>9, <2>11, <2>12, <2>13 DEF Room
<1> QED
  BY <1>5, <1>6

(* This process fills its file with the room that it has reserved. *)
LEMMA RoomFilled ==
  ASSUME FilesType, Staged, Room, FilesType', Staged', RetainCreate \/ RetainCopy
  PROVE  Room'
<1>1. /\ UNCHANGED <<staging, foreign, overlap>>
      /\ pc \in {"create", "copy"} /\ pc' \in {"copy", "describe"}
  BY DEF RetainCreate, RetainCopy
<1>2. Reserve' = Reserve /\ ForeignReserve' = ForeignReserve
  BY <1>1 DEF Reserve, ForeignReserve
<1>3. Reserve \in Nat /\ ForeignReserve \in Nat
  BY RoomNumbers DEF Room
<1>4. \E x : /\ Retaining' = {x}
             /\ recovery' \subseteq (recovery \ Retaining) \cup {x}
  <2>1. CASE RetainCreate
    BY <2>1 DEF RetainCreate, Retaining, Upload
  <2>2. CASE RetainCopy
    BY <2>2 DEF RetainCopy, Rewrite, Retaining, Upload
  <2> QED
    BY <2>1, <2>2
<1>5. PICK x : Retaining' = {x} /\ recovery' \subseteq (recovery \ Retaining) \cup {x}
  BY <1>4
<1>6. IsFiniteSet(recovery')
  <2>1. IsFiniteSet(recovery \cup {x})
    BY FS_AddElement DEF Room
  <2> QED
    BY <1>5, <2>1, FS_Subset
<1>7. Settled' \subseteq Settled
  BY <1>1, <1>5 DEF Settled
<1>8. Reserve' + ForeignReserve' <= Reserve + ForeignReserve
  BY <1>2, <1>3
<1>9. Reserve' <= Reserve /\ ForeignReserve' <= ForeignReserve
  BY <1>2, <1>3
<1>10. foreign' # Absent => foreign'.content.size <= foreign'.content.full
  BY <1>1 DEF Room
<1> QED
  BY <1>1, <1>6, <1>7, <1>8, <1>9, <1>10, RoomAfter

(* So does the other process, and at its end it leaves no larger file.     *)
LEMMA RoomOthers ==
  ASSUME FilesType, Staged, Room, FilesType', Staged',
         ForeignCopy \/ ForeignDescribe \/ ForeignFails
  PROVE  Room'
<1>1. UNCHANGED <<staging, overlap, pc>> /\ foreign # Absent
  BY DEF ForeignCopy, ForeignDescribe, ForeignFails
<1>2. Reserve' = Reserve /\ UNCHANGED Retaining
  BY <1>1 DEF Reserve, Retaining, Upload
<1>3. Reserve \in Nat /\ ForeignReserve \in Nat
  BY RoomNumbers DEF Room
<1>4. foreign \in ForeignUploads
  BY <1>1 DEF FilesType
<1>5. CASE ForeignCopy
  <2>1. foreign' # Absent /\ foreign'.content.full = foreign.content.full
        /\ foreign'.content.size = foreign.content.full /\ foreign.content.full \in Nat
    BY <1>4, <1>5, ForeignFile DEF ForeignCopy
  <2>2. ForeignReserve' = ForeignReserve
    BY <1>1, <2>1 DEF ForeignReserve
  <2>3. recovery' \subseteq (recovery \ {foreign}) \cup {foreign'}
    BY <1>5 DEF ForeignCopy, Rewrite
  <2>4. IsFiniteSet(recovery')
    <3>1. IsFiniteSet(recovery \cup {foreign'})
      BY FS_AddElement DEF Room
    <3> QED
      BY <2>3, <3>1, FS_Subset
  <2>5. Settled' \subseteq Settled
    BY <1>2, <2>3 DEF Settled
  <2>6. Reserve' + ForeignReserve' <= Reserve + ForeignReserve
    BY <1>2, <1>3, <2>2
  <2>7. Reserve' <= Reserve /\ ForeignReserve' <= ForeignReserve
    BY <1>2, <1>3, <2>2
  <2>8. foreign'.content.size <= foreign'.content.full
    BY <2>1
  <2> QED
    BY <1>1, <2>4, <2>5, <2>6, <2>7, <2>8, RoomAfter
<1>6. CASE ForeignDescribe \/ ForeignFails
  <2>1. /\ foreign' = Absent /\ ForeignReserve' = 0
    BY <1>6 DEF ForeignDescribe, ForeignFails, ForeignReserve
  <2>2. \E x \in Uploads :
          /\ FileSize(x) \in Nat /\ FileSize(x) <= ForeignReserve
          /\ recovery' \subseteq (recovery \ {foreign}) \cup {x}
    <3>1. CASE ForeignDescribe
      <4> DEFINE x == [foreign EXCEPT !.meta = TRUE]
      <4>1. /\ x \in Uploads /\ FileSize(x) \in Nat /\ FileSize(x) <= ForeignReserve
        BY <1>1, <3>1, OthersFile DEF ForeignDescribe
      <4>2. recovery' \subseteq (recovery \ {foreign}) \cup {x}
        BY <3>1 DEF ForeignDescribe, Rewrite
      <4> QED
        BY <4>1, <4>2
    <3>2. CASE ForeignFails
      <4>1. recovery' \subseteq (recovery \ {foreign}) \cup {foreign}
        BY <3>2 DEF ForeignFails
      <4> QED
        BY <1>1, <4>1, OthersFile
    <3> QED
      BY <1>6, <3>1, <3>2
  <2>3. PICK x \in Uploads :
          /\ FileSize(x) \in Nat /\ FileSize(x) <= ForeignReserve
          /\ recovery' \subseteq (recovery \ {foreign}) \cup {x}
    BY <2>2
  <2>4. IsFiniteSet(recovery')
    <3>1. IsFiniteSet(recovery \cup {x})
      BY FS_AddElement DEF Room
    <3> QED
      BY <2>3, <3>1, FS_Subset
  <2>5. Settled' \subseteq Settled \cup {x}
    BY <1>2, <2>3 DEF Settled
  <2>6. Reserve' + ForeignReserve' + FileSize(x) <= Reserve + ForeignReserve
    BY <1>2, <1>3, <2>1, <2>3
  <2>7. Reserve' <= Reserve /\ ForeignReserve' <= ForeignReserve
    BY <1>2, <1>3, <2>1
  <2> QED
    BY <1>1, <2>1, <2>4, <2>5, <2>6, <2>7, RoomAfter
<1> QED
  BY <1>5, <1>6

(* Every step keeps the room. *)
LEMMA RoomStep ==
  ASSUME FilesType, Staged, Room, FilesType', Staged', Next
  PROVE  Room'
<1> DEFINE Untouched ==
      UNCHANGED retained /\ pc' \notin {"create", "copy", "describe"}
<1>1. ASSUME Put \/ PutTooLarge \/ Copy \/ Proppatch \/ Get PROVE Room'
  <2>1. Untouched
    <3>1. CASE Put
      BY <3>1 DEF Put, Arrive, local
    <3>2. CASE PutTooLarge
      BY <3>2 DEF PutTooLarge, local
    <3>3. CASE Copy
      BY <3>3 DEF Copy, Arrive, local
    <3>4. CASE Proppatch
      BY <3>4 DEF Proppatch, Arrive, local
    <3>5. CASE Get
      <4>1. PICK r : Arrive(r, "openRead")
        BY <3>5 DEF Get
      <4> QED
        BY <4>1 DEF Arrive, local
    <3> QED
      BY <1>1, <3>1, <3>2, <3>3, <3>4, <3>5
  <2> QED
    BY <2>1, RoomUntouched
<1>2. ASSUME \/ Transfer \/ CheckPreconditions \/ CheckFails \/ OpenWrite \/ OpenFails
             \/ TransferEnds \/ TransferTooLarge \/ TransferBreaks
      PROVE  Room'
  <2>1. Untouched
    BY <1>2
       DEF Transfer, CheckPreconditions, CheckFails, OpenWrite, OpenFails,
           TransferEnds, TransferTooLarge, TransferBreaks, Answer, Goto, local
  <2> QED
    BY <2>1, RoomUntouched
<1>3. ASSUME \/ CloseUnchanged \/ CloseDiscards \/ CloseAccepts \/ Commit \/ CommitFails
             \/ Finish \/ RetainFails \/ Unstage
      PROVE  Room'
  <2>1. Untouched
    BY <1>3
       DEF CloseUnchanged, CloseDiscards, CloseAccepts, Commit, CommitFails,
           Finish, RetainFails, Unstage, Answer, local
  <2> QED
    BY <2>1, RoomUntouched
<1>4. ASSUME \/ OpenRead \/ OpenReadFails \/ Sniff \/ SeekRange \/ Send \/ SendEnds
             \/ ReadFails \/ Cancel \/ Crash \/ EmptyTemp
      PROVE  Room'
  <2>1. Untouched
    BY <1>4
       DEF OpenRead, OpenReadFails, Sniff, SeekRange, Send, SendEnds, ReadFails,
           Cancel, Crash, EmptyTemp, Answer, Goto, local
  <2> QED
    BY <2>1, RoomUntouched
<1>5. ASSUME RetainCopyFails PROVE Room'
  <2>1. recovery' \subseteq recovery \ Retaining /\ UNCHANGED beside /\ pc' = "idle"
    BY <1>5 DEF RetainCopyFails, Rewrite, Retaining, Answer
  <2> QED
    BY <2>1, RoomLeft
<1>6. ASSUME RetainDescribe \/ RetainDescribeFails PROVE Room'
  <2>1. /\ pc = "describe" /\ pc' \in {"unstage", "idle"} /\ UNCHANGED beside
        /\ Retaining = {Upload(staging.size, FALSE)}
    BY <1>6 DEF RetainDescribe, RetainDescribeFails, Retaining, Answer
  <2>2. \E meta \in BOOLEAN :
          recovery' \subseteq (recovery \ Retaining) \cup {Upload(staging.size, meta)}
    BY <1>6, <2>1 DEF RetainDescribe, RetainDescribeFails, Rewrite
  <2> QED
    BY <2>1, <2>2, RoomLeft
<1> QED
  BY <1>1, <1>2, <1>3, <1>4, <1>5, <1>6, RoomPruned, RoomFilled, RoomOthers
     DEF Next, Step

(* Retained uploads and their descriptions stay within the budget, however *)
(* far a retention gets: what is evicted for one leaves room for the whole *)
(* of it, and this process adds nothing before its next eviction.  Another *)
(* process that retains at the same time may add as much again, so that    *)
(* two of them stay within twice the budget, and within the budget from    *)
(* the next eviction on that one of them makes alone.                      *)
THEOREM RetentionStaysWithinBudget == Spec => []WithinBudget
<1>1. Init => Room
  <2> SUFFICES ASSUME Init PROVE Room
    OBVIOUS
  <2>1. recovery = {} /\ pc = "idle" /\ foreign = Absent /\ overlap = FALSE
    BY DEF Init
  <2>2. Settled = {} /\ Reserve = 0 /\ ForeignReserve = 0 /\ Allowed = Budget
    BY <2>1 DEF Settled, Reserve, ForeignReserve, Allowed
  <2>3. TotalSize({}) = 0
    <3>1. Bytes({}) = {}
      BY DEF Bytes
    <3> QED
      BY <3>1, FS_EmptySet DEF TotalSize
  <2> QED
    BY <2>1, <2>2, <2>3, FS_EmptySet, FileRequestsAssumption DEF Room
<1>2. IInv /\ Room /\ [Next]_vars => Room'
  <2> SUFFICES ASSUME IInv, Room, [Next]_vars PROVE Room'
    OBVIOUS
  <2>1. CASE Next
    <3>1. FilesType /\ Staged
      BY Types DEF IInv
    <3>2. FilesType' /\ Staged'
      BY <2>1, Invariance, TypesNext DEF IInv
    <3> QED
      BY <2>1, <3>1, <3>2, RoomStep
  <2>2. CASE UNCHANGED vars
    BY <2>2
       DEF Room, Settled, Retaining, Upload, Reserve, ForeignReserve, Allowed,
           TotalSize, Bytes, FileSize, vars, local
  <2> QED
    BY <2>1, <2>2
<1>3. IInv /\ Room => WithinBudget
  BY Types, RoomSuffices DEF IInv
<1> QED
  BY InvariantHolds, <1>1, <1>2, <1>3, PTL DEF Spec

-----------------------------------------------------------------------------
(* The names under which requests reach the devices (RootAliases): "accept *)
(* only unambiguous, single-component friendly names"                      *)
(* (reliability-review-2026-10-27.md), whatever the devices and the other  *)
(* folders below "/" are called.                                           *)

(* A device is shown under its own id, or under a name that no node and no *)
(* other device has.                                                       *)
LEMMA TwoKindsOfNames ==
  ASSUME NEW root, IsRoot(root), NEW raw \in Devices(root)
  PROVE  \/ rawToDisplay(root)[raw] = raw
         \/ /\ rawToDisplay(root)[raw] = Wanted(root, raw)
            /\ Wanted(root, raw) \in Valid
            /\ Unique(root, raw)
            /\ Wanted(root, raw) \notin root.nodes
  BY DEF rawToDisplay, Reserved

(* Two devices are never shown under the same name. *)
LEMMA AliasesAreInjective ==
  ASSUME NEW root, IsRoot(root),
         NEW raw \in Devices(root), NEW other \in Devices(root),
         rawToDisplay(root)[raw] = rawToDisplay(root)[other]
  PROVE  raw = other
<1>1. raw \in root.nodes /\ other \in root.nodes
  BY DEF IsRoot, Devices
<1>2. CASE rawToDisplay(root)[raw] = raw
  BY <1>1, <1>2, TwoKindsOfNames
<1>3. CASE rawToDisplay(root)[other] = other
  BY <1>1, <1>3, TwoKindsOfNames
<1>4. CASE /\ rawToDisplay(root)[raw] = Wanted(root, raw)
           /\ rawToDisplay(root)[other] = Wanted(root, other)
           /\ Unique(root, raw)
  BY <1>4 DEF Unique
<1>5. QED
  BY <1>2, <1>3, <1>4, TwoKindsOfNames

(* The name under which a node is listed leads back to this node: no       *)
(* display name hides another device or folder.                            *)
THEOREM ListedNamesResolve ==
  ASSUME NEW root, IsRoot(root), NEW raw \in root.nodes
  PROVE  Resolve(root, Expose(root, raw)) = raw
<1>1. CASE raw \in Devices(root)
  <2> DEFINE display == rawToDisplay(root)[raw]
  <2>1. Expose(root, raw) = display /\ display \in Displayed(root)
    BY <1>1 DEF Expose, Displayed
  <2>2. PICK other \in Devices(root) :
          /\ rawToDisplay(root)[other] = display
          /\ displayToRaw(root)[display] = other
    BY <1>1, <2>1 DEF displayToRaw
  <2>3. other = raw
    BY <1>1, <2>2, AliasesAreInjective
  <2>4. QED
    BY <2>1, <2>2, <2>3 DEF Resolve
<1>2. CASE raw \notin Devices(root)
  <2>1. raw \notin Displayed(root)
    BY <1>2, TwoKindsOfNames DEF Displayed
  <2>2. QED
    BY <1>2, <2>1 DEF Expose, Resolve
<1>3. QED
  BY <1>1, <1>2

(* So a listing shows no name twice. *)
THEOREM ListedNamesDiffer ==
  ASSUME NEW root, IsRoot(root), NEW raw \in root.nodes, NEW other \in root.nodes,
         raw # other
  PROVE  Expose(root, raw) # Expose(root, other)
  BY ListedNamesResolve

(* A node's id always denotes this node, alias or not: a path that was     *)
(* translated once may be translated again.                                *)
THEOREM IdsResolve ==
  ASSUME NEW root, IsRoot(root), NEW raw \in root.nodes
  PROVE  Resolve(root, raw) = raw
<1>1. CASE raw \in Displayed(root)
  <2>1. PICK other \in Devices(root) :
          /\ rawToDisplay(root)[other] = raw
          /\ displayToRaw(root)[raw] = other
    BY <1>1 DEF displayToRaw, Displayed
  <2>2. other = raw
    BY <2>1, TwoKindsOfNames
  <2>3. QED
    BY <1>1, <2>1, <2>2 DEF Resolve
<1>2. QED
  BY <1>1 DEF Resolve

(* A rename of a device's folder is refused under each of its names, to    *)
(* whatever name that does not denote the folder itself.                   *)
THEOREM DevicesAreProtected ==
  ASSUME NEW root, IsRoot(root), NEW raw \in Devices(root),
         NEW old \in {raw, Expose(root, raw)},
         NEW new, NEW newTop \in BOOLEAN,
         Resolve(root, new) # raw \/ ~newTop
  PROVE  Protected(root, old, TRUE, new, newTop)
<1>1. raw \in root.nodes
  BY DEF IsRoot, Devices
<1>2. Resolve(root, old) = raw
  BY <1>1, ListedNamesResolve, IdsResolve
<1>3. QED
  BY <1>2 DEF Protected

===============================================================================
