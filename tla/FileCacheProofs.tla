--------------------------- MODULE FileCacheProofs ----------------------------
(***************************************************************************)
(* Proofs about FileCache, for any finite sets of callers and targets and  *)
(* any budget.                                                             *)
(***************************************************************************)
EXTENDS FileCache, FiniteSetTheorems, TLAPS

(* The callers that pinned a target: everyone from Begin to Unpin. *)
Holders(t) == {c \in Callers : target[c] = t}

(* Whoever is in a call has a target, and its pin counts. *)
PinsCount ==
  /\ \A c \in Callers : pc[c] = "idle" <=> target[c] = NoTarget
  /\ \A t \in Targets : pins[t] = Cardinality(Holders(t))

TypeInv == TypeOK /\ PinsCount

(* A file lies in its directory. *)
FilesHaveDirs == files \subseteq dirs

(* The callers that rely on a file that is there: they made or found it,    *)
(* or wait to be told so.                                                  *)
Relies(c) ==
  \/ pc[c] \in {"open", "pruneAgain"}
  \/ pc[c] \in {"filled", "landed"} /\ outcome[c] = "ok"

FilesStay == \A c \in Callers : Relies(c) /\ target[c] \notin robbed => target[c] \in files

(* A cancellation that is reported, or about to be, is the caller's own.    *)
Cancellations ==
  \A c \in Callers : pc[c] \in {"filled", "unpin"} /\ outcome[c] = "cancelled" =>
    c \in cancelled

(* Who has a temporary file, and who owns a flight.                         *)
Belongings ==
  /\ \A c \in temps : pc[c] \in {"download", "publish"}
  /\ \A c \in leads :
       pc[c] \in {"fill", "temp", "download", "publish", "pruneAgain", "filled"}

(* Every flight has an owner, and every caller that waits, a flight.        *)
FlightsAreOwned ==
  /\ \A t \in flights : \E c \in leads : target[c] = t
  /\ \A c \in Callers : pc[c] = "wait" => target[c] \in flights

-----------------------------------------------------------------------------
(* A target has finitely many callers to count. *)
LEMMA HoldersFinite ==
  \A t : IsFiniteSet(Holders(t)) /\ Cardinality(Holders(t)) \in Nat
BY FileCacheAssumption, FS_Subset, FS_CardinalityType DEF Holders

(* Whoever is in a call has pinned a target. *)
LEMMA HoldersPin ==
  ASSUME TypeInv, NEW c \in Callers, pc[c] # "idle"
  PROVE  target[c] \in Targets /\ pins[target[c]] \in Nat \ {0}
<1>1. target[c] \in Targets /\ pins[target[c]] \in Nat
  BY DEF TypeInv, TypeOK, PinsCount
<1>2. Holders(target[c]) # {}
  BY DEF Holders
<1>3. Cardinality(Holders(target[c])) # 0
  BY <1>2, HoldersFinite, FS_EmptySet
<1> QED
  BY <1>1, <1>3 DEF TypeInv, PinsCount

(* Pruning spares what somebody has pinned, and its directory. *)
LEMMA PruneSpares ==
  ASSUME TypeInv, FilesHaveDirs, NEW c \in Callers, pc[c] # "idle",
         NEW protected, Prune(protected)
  PROVE  /\ target[c] \in files => target[c] \in files'
         /\ target[c] \in dirs => target[c] \in dirs'
BY HoldersPin DEF Prune, Unpinned, FreeDir, FilesHaveDirs

(* Every variable keeps its type.                                          *)
LEMMA TypeOKStep ==
  ASSUME TypeInv, [Next]_vars
  PROVE  TypeOK'
<1> USE FileCacheAssumption DEF TypeOK, TypeInv, Outcomes, Goto, disk
<1>1. ASSUME NEW c \in Callers, PruneFirst(c) \/ PruneAgain(c) PROVE TypeOK'
  BY <1>1 DEF PruneFirst, PruneAgain, Ends, Prune
<1>2. ASSUME NEW c \in Callers,
             PruneFails(c) \/ CheckFails(c) \/ FillCancelled(c) \/ FillFound(c)
             \/ FillFails(c) \/ CreateTempFails(c) \/ Open(c) \/ WaitCancelled(c)
      PROVE TypeOK'
  BY <1>2 DEF PruneFails, CheckFails, FillCancelled, FillFound, FillFails, CreateTempFails,
         Open, WaitCancelled, Ends
<1>3. ASSUME NEW c \in Callers,
             Check(c) \/ Download(c) \/ Landed(c) \/ Cancel(c) \/ CreateTemp(c)
      PROVE TypeOK'
  BY <1>3 DEF Check, Download, Landed, Cancel, CreateTemp
<1>4. ASSUME NEW c \in Callers, Enlist(c) PROVE TypeOK'
  BY <1>4, HoldersPin DEF Enlist
<1>5. ASSUME NEW c \in Callers, MkdirAll(c) PROVE TypeOK'
  BY <1>5, HoldersPin DEF MkdirAll
<1>6. ASSUME NEW c \in Callers, DownloadFails(c) \/ PublishFails(c)
      PROVE TypeOK'
  BY <1>6 DEF DownloadFails, PublishFails, Ends, Errors
<1>7. ASSUME NEW c \in Callers, Publish(c) PROVE TypeOK'
  BY <1>7, HoldersPin DEF Publish
<1>8. ASSUME NEW c \in Callers, Filled(c) PROVE TypeOK'
  BY <1>8 DEF Filled, AfterFill
<1>9. ASSUME NEW c \in Callers, Unpin(c) PROVE TypeOK'
  <2>1. pins' \in [Targets -> Nat]
    BY <1>9, HoldersPin DEF Unpin
  <2> QED
    BY <1>9, <2>1 DEF Unpin, Ends
<1>10. ASSUME NEW c \in Callers, NEW t \in Targets, Begin(c, t) PROVE TypeOK'
  BY <1>10 DEF Begin
<1>11. CASE Invalidate
  BY <1>11 DEF Invalidate
<1>12. CASE ForeignPrune
  BY <1>12 DEF ForeignPrune
<1>13. CASE UNCHANGED vars
  BY <1>13 DEF vars
<1> QED
  BY <1>1, <1>2, <1>3, <1>4, <1>5, <1>6, <1>7, <1>8, <1>9, <1>10, <1>11, <1>12,
     <1>13 DEF Next, CallerStep

(* Begin and Unpin count a caller up and down.                             *)
LEMMA PinsCountStep ==
  ASSUME TypeInv, [Next]_vars
  PROVE  PinsCount'
<1> USE FileCacheAssumption DEF PinsCount, TypeInv, TypeOK, Goto, disk
<1>1. ASSUME NEW c \in Callers, PruneFirst(c) \/ PruneAgain(c) PROVE PinsCount'
  BY <1>1 DEF PruneFirst, PruneAgain, Ends, Prune, Holders
<1>2. ASSUME NEW c \in Callers,
             PruneFails(c) \/ CheckFails(c) \/ FillCancelled(c) \/ FillFound(c)
             \/ FillFails(c) \/ CreateTempFails(c) \/ Open(c) \/ WaitCancelled(c)
      PROVE PinsCount'
  BY <1>2 DEF PruneFails, CheckFails, FillCancelled, FillFound, FillFails, CreateTempFails,
         Open, WaitCancelled, Ends, Holders
<1>3. ASSUME NEW c \in Callers,
             Check(c) \/ Download(c) \/ Landed(c) \/ Cancel(c) \/ CreateTemp(c)
      PROVE PinsCount'
  BY <1>3 DEF Check, Download, Landed, Cancel, CreateTemp, Holders
<1>4. ASSUME NEW c \in Callers, Enlist(c) PROVE PinsCount'
  BY <1>4 DEF Enlist, Holders
<1>5. ASSUME NEW c \in Callers, MkdirAll(c) PROVE PinsCount'
  BY <1>5 DEF MkdirAll, Holders
<1>6. ASSUME NEW c \in Callers, DownloadFails(c) \/ PublishFails(c)
      PROVE PinsCount'
  BY <1>6 DEF DownloadFails, PublishFails, Ends, Errors, Holders
<1>7. ASSUME NEW c \in Callers, Publish(c) PROVE PinsCount'
  BY <1>7 DEF Publish, Holders
<1>8. ASSUME NEW c \in Callers, Filled(c) PROVE PinsCount'
  BY <1>8 DEF Filled, AfterFill, Holders
<1>9. ASSUME NEW c \in Callers, Unpin(c) PROVE PinsCount'
  <2>1. target[c] \in Targets /\ pc[c] # "idle"
    BY <1>9, HoldersPin DEF Unpin
  <2>2. /\ target' = [target EXCEPT ![c] = NoTarget]
        /\ pins' = [pins EXCEPT ![target[c]] = @ - 1]
    BY <1>9 DEF Unpin
  <2>3. \A d \in Callers : pc'[d] = "idle" <=> target'[d] = NoTarget
    BY <1>9, <2>2 DEF Unpin, Ends
  <2>4. ASSUME NEW t \in Targets PROVE pins'[t] = Cardinality(Holders(t)')
    <3>1. CASE t = target[c]
      <4>1. Holders(t)' = Holders(t) \ {c} /\ c \in Holders(t)
        BY <2>1, <2>2, <3>1 DEF Holders
      <4>2. Cardinality(Holders(t) \ {c}) = Cardinality(Holders(t)) - 1
        BY <4>1, HoldersFinite, FS_RemoveElement
      <4>3. pins'[t] = pins[t] - 1
        BY <2>1, <2>2, <3>1
      <4> QED
        BY <4>1, <4>2, <4>3
    <3>2. CASE t # target[c]
      <4>1. Holders(t)' = Holders(t)
        BY <2>2, <3>2 DEF Holders
      <4> QED
        BY <2>2, <3>2, <4>1
    <3> QED
      BY <3>1, <3>2
  <2> QED
    BY <2>3, <2>4
<1>10. ASSUME NEW c \in Callers, NEW t \in Targets, Begin(c, t)
       PROVE PinsCount'
  <2>1. /\ target' = [target EXCEPT ![c] = t]
        /\ pins' = [pins EXCEPT ![t] = @ + 1]
        /\ target[c] = NoTarget
    BY <1>10 DEF Begin
  <2>2. \A d \in Callers : pc'[d] = "idle" <=> target'[d] = NoTarget
    BY <1>10, <2>1 DEF Begin
  <2>3. ASSUME NEW u \in Targets PROVE pins'[u] = Cardinality(Holders(u)')
    <3>1. CASE u = t
      <4>1. Holders(u)' = Holders(u) \cup {c} /\ c \notin Holders(u)
        BY <2>1, <3>1 DEF Holders
      <4>2. Cardinality(Holders(u) \cup {c}) = Cardinality(Holders(u)) + 1
        BY <4>1, HoldersFinite, FS_AddElement
      <4>3. pins'[u] = pins[u] + 1
        BY <2>1, <3>1
      <4> QED
        BY <4>1, <4>2, <4>3
    <3>2. CASE u # t
      <4>1. Holders(u)' = Holders(u)
        BY <2>1, <3>2 DEF Holders
      <4> QED
        BY <2>1, <3>2, <4>1
    <3> QED
      BY <3>1, <3>2
  <2> QED
    BY <2>2, <2>3
<1>11. CASE Invalidate
  BY <1>11 DEF Invalidate, Holders
<1>12. CASE ForeignPrune
  BY <1>12 DEF ForeignPrune, Holders
<1>13. CASE UNCHANGED vars
  BY <1>13 DEF vars, Holders
<1> QED
  BY <1>1, <1>2, <1>3, <1>4, <1>5, <1>6, <1>7, <1>8, <1>9, <1>10, <1>11, <1>12,
     <1>13 DEF Next, CallerStep

(* A file is published into its directory, which stays as long as it does. *)
LEMMA FilesHaveDirsStep ==
  ASSUME TypeInv, FilesHaveDirs, [Next]_vars
  PROVE  FilesHaveDirs'
<1> USE FileCacheAssumption DEF FilesHaveDirs, TypeInv, TypeOK, Goto, disk
<1>1. ASSUME NEW c \in Callers, PruneFirst(c) \/ PruneAgain(c)
      PROVE FilesHaveDirs'
  BY <1>1 DEF PruneFirst, PruneAgain, Ends, Prune
<1>2. ASSUME NEW c \in Callers,
             PruneFails(c) \/ CheckFails(c) \/ FillCancelled(c) \/ FillFound(c)
             \/ FillFails(c) \/ CreateTempFails(c) \/ Open(c) \/ WaitCancelled(c)
      PROVE FilesHaveDirs'
  BY <1>2 DEF PruneFails, CheckFails, FillCancelled, FillFound, FillFails, CreateTempFails,
         Open, WaitCancelled, Ends
<1>3. ASSUME NEW c \in Callers,
             Check(c) \/ Download(c) \/ Landed(c) \/ Cancel(c) \/ CreateTemp(c)
      PROVE FilesHaveDirs'
  BY <1>3 DEF Check, Download, Landed, Cancel, CreateTemp
<1>4. ASSUME NEW c \in Callers, Enlist(c) PROVE FilesHaveDirs'
  BY <1>4 DEF Enlist
<1>5. ASSUME NEW c \in Callers, MkdirAll(c) PROVE FilesHaveDirs'
  BY <1>5 DEF MkdirAll
<1>6. ASSUME NEW c \in Callers, DownloadFails(c) \/ PublishFails(c)
      PROVE FilesHaveDirs'
  BY <1>6 DEF DownloadFails, PublishFails, Ends, Errors
<1>7. ASSUME NEW c \in Callers, Publish(c) PROVE FilesHaveDirs'
  BY <1>7 DEF Publish
<1>8. ASSUME NEW c \in Callers, Filled(c) PROVE FilesHaveDirs'
  BY <1>8 DEF Filled, AfterFill
<1>9. ASSUME NEW c \in Callers, Unpin(c) PROVE FilesHaveDirs'
  BY <1>9 DEF Unpin, Ends
<1>10. ASSUME NEW c \in Callers, NEW t \in Targets, Begin(c, t)
       PROVE FilesHaveDirs'
  BY <1>10 DEF Begin
<1>11. CASE Invalidate
  BY <1>11 DEF Invalidate
<1>12. CASE ForeignPrune
  BY <1>12 DEF ForeignPrune
<1>13. CASE UNCHANGED vars
  BY <1>13 DEF vars
<1> QED
  BY <1>1, <1>2, <1>3, <1>4, <1>5, <1>6, <1>7, <1>8, <1>9, <1>10, <1>11, <1>12,
     <1>13 DEF Next, CallerStep

(* Only other processes remove a file that somebody relies on.             *)
LEMMA FilesStayStep ==
  ASSUME TypeInv, FilesHaveDirs, FilesStay, [Next]_vars
  PROVE  FilesStay'
<1> USE FileCacheAssumption
    DEF FilesStay, Relies, FilesHaveDirs, TypeInv, TypeOK, Holders, Goto, disk
<1>1. ASSUME NEW c \in Callers, PruneFirst(c) \/ PruneAgain(c) PROVE FilesStay'
  <2>1. PICK protected : Prune(protected)
    BY <1>1 DEF PruneFirst, PruneAgain
  <2>2. \A d \in Callers : pc[d] # "idle" /\ target[d] \in files => target[d] \in files'
    BY <2>1, PruneSpares
  <2> QED
    BY <1>1, <2>2 DEF PruneFirst, PruneAgain, Prune, Ends
<1>2. ASSUME NEW c \in Callers,
             PruneFails(c) \/ CheckFails(c) \/ FillCancelled(c) \/ FillFound(c)
             \/ FillFails(c) \/ CreateTempFails(c) \/ Open(c) \/ WaitCancelled(c)
      PROVE FilesStay'
  BY <1>2 DEF PruneFails, CheckFails, FillCancelled, FillFound, FillFails, CreateTempFails,
         Open, WaitCancelled, Ends
<1>3. ASSUME NEW c \in Callers,
             Check(c) \/ Download(c) \/ Landed(c) \/ Cancel(c) \/ CreateTemp(c)
      PROVE FilesStay'
  BY <1>3 DEF Check, Download, Landed, Cancel, CreateTemp
<1>4. ASSUME NEW c \in Callers, Enlist(c) PROVE FilesStay'
  BY <1>4 DEF Enlist
<1>5. ASSUME NEW c \in Callers, MkdirAll(c) PROVE FilesStay'
  BY <1>5 DEF MkdirAll
<1>6. ASSUME NEW c \in Callers, DownloadFails(c) \/ PublishFails(c)
      PROVE FilesStay'
  BY <1>6 DEF DownloadFails, PublishFails, Ends, Errors
<1>7. ASSUME NEW c \in Callers, Publish(c) PROVE FilesStay'
  BY <1>7 DEF Publish
<1>8. ASSUME NEW c \in Callers, Filled(c) PROVE FilesStay'
  BY <1>8 DEF Filled, AfterFill
<1>9. ASSUME NEW c \in Callers, Unpin(c) PROVE FilesStay'
  BY <1>9 DEF Unpin, Ends
<1>10. ASSUME NEW c \in Callers, NEW t \in Targets, Begin(c, t)
       PROVE FilesStay'
  <2>1. ASSUME NEW d \in Callers, pc[d] # "idle", target[d] \notin robbed'
        PROVE  target[d] \notin robbed
    BY <1>10, <2>1, HoldersPin DEF Begin
  <2> QED
    BY <1>10, <2>1 DEF Begin
<1>11. CASE Invalidate
  BY <1>11 DEF Invalidate
<1>12. CASE ForeignPrune
  <2>1. ASSUME NEW d \in Callers, pc[d] # "idle", target[d] \notin robbed',
               target[d] \in files
        PROVE  target[d] \notin robbed /\ target[d] \in files'
    BY <1>12, <2>1, HoldersPin DEF ForeignPrune
  <2> QED
    BY <1>12, <2>1 DEF ForeignPrune
<1>13. CASE UNCHANGED vars
  BY <1>13 DEF vars
<1> QED
  BY <1>1, <1>2, <1>3, <1>4, <1>5, <1>6, <1>7, <1>8, <1>9, <1>10, <1>11, <1>12,
     <1>13 DEF Next, CallerStep

(* Nor does this process remove the directory of a download.               *)
LEMMA FillKeepsDirectoryStep ==
  ASSUME TypeInv, FilesHaveDirs, FillKeepsDirectory, [Next]_vars
  PROVE  FillKeepsDirectory'
<1> USE FileCacheAssumption
    DEF FillKeepsDirectory, FilesHaveDirs, TypeInv, TypeOK, Goto, disk
<1>1. ASSUME NEW c \in Callers, PruneFirst(c) \/ PruneAgain(c)
      PROVE FillKeepsDirectory'
  <2>1. PICK protected : Prune(protected)
    BY <1>1 DEF PruneFirst, PruneAgain
  <2>2. \A d \in Callers : pc[d] # "idle" /\ target[d] \in dirs => target[d] \in dirs'
    BY <2>1, PruneSpares
  <2> QED
    BY <1>1, <2>2 DEF PruneFirst, PruneAgain, Prune, Ends
<1>2. ASSUME NEW c \in Callers,
             PruneFails(c) \/ CheckFails(c) \/ FillCancelled(c) \/ FillFound(c)
             \/ FillFails(c) \/ CreateTempFails(c) \/ Open(c) \/ WaitCancelled(c)
      PROVE FillKeepsDirectory'
  BY <1>2 DEF PruneFails, CheckFails, FillCancelled, FillFound, FillFails, CreateTempFails,
         Open, WaitCancelled, Ends
<1>3. ASSUME NEW c \in Callers,
             Check(c) \/ Download(c) \/ Landed(c) \/ Cancel(c) \/ CreateTemp(c)
      PROVE FillKeepsDirectory'
  BY <1>3 DEF Check, Download, Landed, Cancel, CreateTemp
<1>4. ASSUME NEW c \in Callers, Enlist(c) PROVE FillKeepsDirectory'
  BY <1>4 DEF Enlist
<1>5. ASSUME NEW c \in Callers, MkdirAll(c) PROVE FillKeepsDirectory'
  BY <1>5 DEF MkdirAll
<1>6. ASSUME NEW c \in Callers, DownloadFails(c) \/ PublishFails(c)
      PROVE FillKeepsDirectory'
  BY <1>6 DEF DownloadFails, PublishFails, Ends, Errors
<1>7. ASSUME NEW c \in Callers, Publish(c) PROVE FillKeepsDirectory'
  BY <1>7 DEF Publish
<1>8. ASSUME NEW c \in Callers, Filled(c) PROVE FillKeepsDirectory'
  BY <1>8 DEF Filled, AfterFill
<1>9. ASSUME NEW c \in Callers, Unpin(c) PROVE FillKeepsDirectory'
  BY <1>9 DEF Unpin, Ends
<1>10. ASSUME NEW c \in Callers, NEW t \in Targets, Begin(c, t)
       PROVE FillKeepsDirectory'
  <2>1. ASSUME NEW d \in Callers, pc[d] # "idle", target[d] \notin robbed'
        PROVE  target[d] \notin robbed
    BY <1>10, <2>1, HoldersPin DEF Begin
  <2> QED
    BY <1>10, <2>1 DEF Begin
<1>11. CASE Invalidate
  BY <1>11 DEF Invalidate
<1>12. CASE ForeignPrune
  <2>1. ASSUME NEW d \in Callers, pc[d] # "idle", target[d] \notin robbed',
               target[d] \in dirs
        PROVE  target[d] \notin robbed /\ target[d] \in dirs'
    BY <1>12, <2>1, HoldersPin DEF ForeignPrune
  <2> QED
    BY <1>12, <2>1 DEF ForeignPrune
<1>13. CASE UNCHANGED vars
  BY <1>13 DEF vars
<1> QED
  BY <1>1, <1>2, <1>3, <1>4, <1>5, <1>6, <1>7, <1>8, <1>9, <1>10, <1>11, <1>12,
     <1>13 DEF Next, CallerStep

(* A waiter does not take over its owner's cancellation.                   *)
LEMMA CancellationsStep ==
  ASSUME TypeInv, Cancellations, [Next]_vars
  PROVE  Cancellations'
<1> USE FileCacheAssumption
    DEF Cancellations, TypeInv, TypeOK, PinsCount, Goto, disk
<1>1. ASSUME NEW c \in Callers, PruneFirst(c) \/ PruneAgain(c)
      PROVE Cancellations'
  BY <1>1 DEF PruneFirst, PruneAgain, Ends, Prune
<1>2. ASSUME NEW c \in Callers,
             PruneFails(c) \/ CheckFails(c) \/ FillCancelled(c) \/ FillFound(c)
             \/ FillFails(c) \/ CreateTempFails(c) \/ Open(c) \/ WaitCancelled(c)
      PROVE Cancellations'
  BY <1>2 DEF PruneFails, CheckFails, FillCancelled, FillFound, FillFails, CreateTempFails,
         Open, WaitCancelled, Ends
<1>3. ASSUME NEW c \in Callers,
             Check(c) \/ Download(c) \/ Landed(c) \/ Cancel(c) \/ CreateTemp(c)
      PROVE Cancellations'
  BY <1>3 DEF Check, Download, Landed, Cancel, CreateTemp
<1>4. ASSUME NEW c \in Callers, Enlist(c) PROVE Cancellations'
  BY <1>4 DEF Enlist
<1>5. ASSUME NEW c \in Callers, MkdirAll(c) PROVE Cancellations'
  BY <1>5 DEF MkdirAll
<1>6. ASSUME NEW c \in Callers, DownloadFails(c) \/ PublishFails(c)
      PROVE Cancellations'
  BY <1>6 DEF DownloadFails, PublishFails, Ends, Errors
<1>7. ASSUME NEW c \in Callers, Publish(c) PROVE Cancellations'
  BY <1>7 DEF Publish
<1>8. ASSUME NEW c \in Callers, Filled(c) PROVE Cancellations'
  BY <1>8 DEF Filled, AfterFill
<1>9. ASSUME NEW c \in Callers, Unpin(c) PROVE Cancellations'
  BY <1>9 DEF Unpin, Ends
<1>10. ASSUME NEW c \in Callers, NEW t \in Targets, Begin(c, t)
       PROVE Cancellations'
  BY <1>10 DEF Begin
<1>11. CASE Invalidate
  BY <1>11 DEF Invalidate
<1>12. CASE ForeignPrune
  BY <1>12 DEF ForeignPrune
<1>13. CASE UNCHANGED vars
  BY <1>13 DEF vars
<1> QED
  BY <1>1, <1>2, <1>3, <1>4, <1>5, <1>6, <1>7, <1>8, <1>9, <1>10, <1>11, <1>12,
     <1>13 DEF Next, CallerStep

(* A download ends with its temporary file, a fill with its flight.        *)
LEMMA BelongingsStep ==
  ASSUME TypeInv, Belongings, [Next]_vars
  PROVE  Belongings'
<1> USE FileCacheAssumption DEF Belongings, TypeInv, TypeOK, Goto, disk
<1>1. ASSUME NEW c \in Callers, PruneFirst(c) \/ PruneAgain(c)
      PROVE Belongings'
  BY <1>1 DEF PruneFirst, PruneAgain, Ends, Prune
<1>2. ASSUME NEW c \in Callers,
             PruneFails(c) \/ CheckFails(c) \/ FillCancelled(c) \/ FillFound(c)
             \/ FillFails(c) \/ CreateTempFails(c) \/ Open(c) \/ WaitCancelled(c)
      PROVE Belongings'
  BY <1>2 DEF PruneFails, CheckFails, FillCancelled, FillFound, FillFails, CreateTempFails,
         Open, WaitCancelled, Ends
<1>3. ASSUME NEW c \in Callers,
             Check(c) \/ Download(c) \/ Landed(c) \/ Cancel(c) \/ CreateTemp(c)
      PROVE Belongings'
  BY <1>3 DEF Check, Download, Landed, Cancel, CreateTemp
<1>4. ASSUME NEW c \in Callers, Enlist(c) PROVE Belongings'
  BY <1>4 DEF Enlist
<1>5. ASSUME NEW c \in Callers, MkdirAll(c) PROVE Belongings'
  BY <1>5 DEF MkdirAll
<1>6. ASSUME NEW c \in Callers, DownloadFails(c) \/ PublishFails(c)
      PROVE Belongings'
  BY <1>6 DEF DownloadFails, PublishFails, Ends, Errors
<1>7. ASSUME NEW c \in Callers, Publish(c) PROVE Belongings'
  BY <1>7 DEF Publish
<1>8. ASSUME NEW c \in Callers, Filled(c) PROVE Belongings'
  BY <1>8 DEF Filled, AfterFill
<1>9. ASSUME NEW c \in Callers, Unpin(c) PROVE Belongings'
  BY <1>9 DEF Unpin, Ends
<1>10. ASSUME NEW c \in Callers, NEW t \in Targets, Begin(c, t)
       PROVE Belongings'
  BY <1>10 DEF Begin
<1>11. CASE Invalidate
  BY <1>11 DEF Invalidate
<1>12. CASE ForeignPrune
  BY <1>12 DEF ForeignPrune
<1>13. CASE UNCHANGED vars
  BY <1>13 DEF vars
<1> QED
  BY <1>1, <1>2, <1>3, <1>4, <1>5, <1>6, <1>7, <1>8, <1>9, <1>10, <1>11, <1>12,
     <1>13 DEF Next, CallerStep

(* The owner of a flight takes it along with its waiters.                  *)
LEMMA FlightsAreOwnedStep ==
  ASSUME TypeInv, Belongings, FlightsAreOwned, [Next]_vars
  PROVE  FlightsAreOwned'
<1> USE FileCacheAssumption
    DEF FlightsAreOwned, TypeInv, TypeOK, Belongings, Goto, disk
<1>1. ASSUME NEW c \in Callers, PruneFirst(c) \/ PruneAgain(c)
      PROVE FlightsAreOwned'
  BY <1>1 DEF PruneFirst, PruneAgain, Ends, Prune
<1>2. ASSUME NEW c \in Callers,
             PruneFails(c) \/ CheckFails(c) \/ FillCancelled(c) \/ FillFound(c)
             \/ FillFails(c) \/ CreateTempFails(c) \/ Open(c) \/ WaitCancelled(c)
      PROVE FlightsAreOwned'
  BY <1>2 DEF PruneFails, CheckFails, FillCancelled, FillFound, FillFails, CreateTempFails,
         Open, WaitCancelled, Ends
<1>3. ASSUME NEW c \in Callers,
             Check(c) \/ Download(c) \/ Landed(c) \/ Cancel(c) \/ CreateTemp(c)
      PROVE FlightsAreOwned'
  BY <1>3 DEF Check, Download, Landed, Cancel, CreateTemp
<1>4. ASSUME NEW c \in Callers, Enlist(c) PROVE FlightsAreOwned'
  BY <1>4 DEF Enlist
<1>5. ASSUME NEW c \in Callers, MkdirAll(c) PROVE FlightsAreOwned'
  BY <1>5 DEF MkdirAll
<1>6. ASSUME NEW c \in Callers, DownloadFails(c) \/ PublishFails(c)
      PROVE FlightsAreOwned'
  BY <1>6 DEF DownloadFails, PublishFails, Ends, Errors
<1>7. ASSUME NEW c \in Callers, Publish(c) PROVE FlightsAreOwned'
  BY <1>7 DEF Publish
<1>8. ASSUME NEW c \in Callers, Filled(c) PROVE FlightsAreOwned'
  BY <1>8 DEF Filled, AfterFill
<1>9. ASSUME NEW c \in Callers, Unpin(c) PROVE FlightsAreOwned'
  BY <1>9 DEF Unpin, Ends
<1>10. ASSUME NEW c \in Callers, NEW t \in Targets, Begin(c, t)
       PROVE FlightsAreOwned'
  BY <1>10 DEF Begin
<1>11. CASE Invalidate
  BY <1>11 DEF Invalidate
<1>12. CASE ForeignPrune
  BY <1>12 DEF ForeignPrune
<1>13. CASE UNCHANGED vars
  BY <1>13 DEF vars
<1> QED
  BY <1>1, <1>2, <1>3, <1>4, <1>5, <1>6, <1>7, <1>8, <1>9, <1>10, <1>11, <1>12,
     <1>13 DEF Next, CallerStep

-----------------------------------------------------------------------------
IInv ==
  /\ TypeInv /\ FilesHaveDirs /\ FilesStay /\ FillKeepsDirectory
  /\ Cancellations /\ Belongings /\ FlightsAreOwned

(* The invariant holds of an empty cache. *)
LEMMA InitInv == Init => IInv
<1> SUFFICES ASSUME Init PROVE IInv
  OBVIOUS
<1>1. \A t \in Targets : Holders(t) = {}
  BY FileCacheAssumption DEF Init, Holders
<1>2. PinsCount
  BY <1>1, FS_EmptySet DEF Init, PinsCount
<1> QED
  BY <1>2, FileCacheAssumption
     DEF Init, IInv, TypeInv, TypeOK, Outcomes, FilesHaveDirs, FilesStay, Relies,
         FillKeepsDirectory, Cancellations, Belongings, FlightsAreOwned

(* Every step keeps the invariant. *)
LEMMA InvStep == IInv /\ [Next]_vars => IInv'
<1> SUFFICES ASSUME IInv, [Next]_vars PROVE IInv'
  OBVIOUS
<1>1. TypeInv' /\ FilesHaveDirs' /\ FilesStay' /\ FillKeepsDirectory'
  BY TypeOKStep, PinsCountStep, FilesHaveDirsStep, FilesStayStep,
     FillKeepsDirectoryStep DEF IInv, TypeInv
<1>2. Cancellations' /\ Belongings' /\ FlightsAreOwned'
  BY CancellationsStep, BelongingsStep, FlightsAreOwnedStep DEF IInv
<1> QED
  BY <1>1, <1>2 DEF IInv

(* At every moment of every call: pins, files, flights and cancellations    *)
(* belong together, whatever is pruned or invalidated meanwhile.            *)
THEOREM InvariantHolds == Spec => []IInv
BY InitInv, InvStep, PTL DEF Spec

(* Every variable keeps its type. *)
THEOREM TypeCorrect == Spec => []TypeOK
<1>1. IInv => TypeOK
  BY DEF IInv, TypeInv
<1> QED
  BY <1>1, InvariantHolds, PTL

(* A file that a caller is about to open has not been evicted by any other  *)
(* caller of this process, at whatever moment that one pruned.              *)
THEOREM OpenedFilesAreThere == Spec => []OpenFindsFile
<1>1. IInv => OpenFindsFile
  BY DEF IInv, FilesStay, Relies, OpenFindsFile
<1> QED
  BY <1>1, InvariantHolds, PTL

(* Nor has the directory that a download is about to use.                   *)
THEOREM DownloadsKeepTheirDirectory == Spec => []FillKeepsDirectory
<1>1. IInv => FillKeepsDirectory
  BY DEF IInv
<1> QED
  BY <1>1, InvariantHolds, PTL

(* A caller is told of a cancellation only if it was cancelled itself,      *)
(* although it may have waited for another caller's download.               *)
THEOREM CancellationsAreOwn == Spec => []OwnCancellation
<1>1. IInv => OwnCancellation
  BY DEF IInv, Cancellations, OwnCancellation
<1> QED
  BY <1>1, InvariantHolds, PTL

(* Once all callers have left, nothing of them is left: no temporary file,  *)
(* no flight, no pin.                                                      *)
THEOREM NothingStaysBehind == Spec => []LeavesNothing
<1>1. ASSUME IInv, \A c \in Callers : pc[c] = "idle"
      PROVE  /\ temps = {} /\ flights = {} /\ leads = {}
             /\ \A t \in Targets : pins[t] = 0
  <2>1. temps = {} /\ leads = {}
    BY <1>1 DEF IInv, TypeInv, TypeOK, Belongings
  <2>2. flights = {}
    BY <1>1, <2>1 DEF IInv, FlightsAreOwned
  <2>3. \A t \in Targets : Holders(t) = {}
    BY <1>1, FileCacheAssumption DEF IInv, TypeInv, PinsCount, Holders
  <2>4. \A t \in Targets : pins[t] = 0
    BY <1>1, <2>3, FS_EmptySet DEF IInv, TypeInv, PinsCount
  <2> QED
    BY <2>1, <2>2, <2>4
<1>2. IInv => LeavesNothing
  BY <1>1 DEF LeavesNothing
<1> QED
  BY <1>2, InvariantHolds, PTL

(* Nobody waits for a download that has no owner any more: what Returns     *)
(* needs besides fairness.                                                 *)
THEOREM WaitersHaveOwners ==
  Spec => [](\A c \in Callers : pc[c] = "wait" =>
               \E d \in leads : pc[d] # "idle" /\ target[d] = target[c])
<1>1. IInv => \A c \in Callers : pc[c] = "wait" =>
                \E d \in leads : pc[d] # "idle" /\ target[d] = target[c]
  BY DEF IInv, FlightsAreOwned, Belongings
<1> QED
  BY <1>1, InvariantHolds, PTL
===============================================================================
