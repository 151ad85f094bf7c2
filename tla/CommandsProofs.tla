---------------------------- MODULE CommandsProofs ----------------------------
(***************************************************************************)
(* For every file that probe and smoke upload in chunks, whatever call     *)
(* fails, loses its answer or is performed late: the chunks are the file,  *)
(* a run that ends has removed its scratch directory or names it, and a    *)
(* run that succeeds has seen every byte come back.                        *)
(***************************************************************************)
EXTENDS Commands, TLAPS

-----------------------------------------------------------------------------
(* The chunks of an upload (ChunkPlan): a partition of the file,           *)
(* consecutive, none empty, the last one ending with the file.             *)

(* Each of the three chunk sizes, with the sizes of the files it is for.   *)
LEMMA ChunkSizes ==
  ASSUME NEW size \in ChunkedSizes
  PROVE  \/ getChunkSize(size) = MB /\ size < 20 * MB
         \/ getChunkSize(size) = 4 * MB /\ size < 102 * MB
         \/ getChunkSize(size) = 16 * MB
  BY SMT DEF ChunkedSizes, chunkEnableFileSize, MaxUploadSize, getChunkSize, MB

(* Division with the remainder rounded up.                                 *)
LEMMA RoundedUp ==
  ASSUME NEW size \in Nat \ {0}, NEW chunk \in Nat \ {0}, NEW n,
         n = (size + chunk - 1) \div chunk
  PROVE  /\ n \in Nat \ {0}
         /\ (n - 1) * chunk < size
         /\ size <= n * chunk
<1>1. n \in Nat
  BY SMT
<1>2. n * chunk <= size + chunk - 1
  BY SMT
<1>3. size + chunk - 1 < (n + 1) * chunk
  BY SMT
<1>4. QED
  BY <1>1, <1>2, <1>3, SMT

(* A chunk before the last is a whole one.                                 *)
LEMMA Below ==
  ASSUME NEW size \in Nat \ {0}, NEW chunk \in Nat \ {0}, NEW n \in Nat \ {0},
         (n - 1) * chunk < size,
         NEW index \in 0..n - 1
  PROVE  /\ index * chunk \in Nat
         /\ index * chunk < size
         /\ index # n - 1 => (index + 1) * chunk < size
<1>1. index * chunk <= (n - 1) * chunk
  BY SMT
<1>2. index # n - 1 => (index + 1) * chunk <= (n - 1) * chunk
  BY SMT
<1>3. QED
  BY <1>1, <1>2, SMT

(* No chunk is empty, each one begins where the one before it ends, and    *)
(* the last one ends with the file: what the server appends, chunk after   *)
(* chunk, is the file.                                                     *)
THEOREM ChunksPartition ==
  ASSUME NEW size \in ChunkedSizes
  PROVE  /\ totalChunks(size) \in Nat \ {0}
         /\ chunkOffset(size, 0) = 0
         /\ \A index \in 0..totalChunks(size) - 1 :
              /\ chunkLength(size, index) \in 1..getChunkSize(size)
              /\ chunkOffset(size, index) + chunkLength(size, index) =
                   IF index = totalChunks(size) - 1
                   THEN size ELSE chunkOffset(size, index + 1)
<1> DEFINE chunk == getChunkSize(size)
           n == totalChunks(size)
<1>1. size \in Nat \ {0} /\ chunk \in Nat \ {0}
  BY SMT DEF ChunkedSizes, chunkEnableFileSize, getChunkSize, MB
<1>2. n = (size + chunk - 1) \div chunk
  BY DEF totalChunks
<1> HIDE DEF chunk, n
<1>3. n \in Nat \ {0} /\ (n - 1) * chunk < size /\ size <= n * chunk
  BY <1>1, <1>2, RoundedUp, Zenon
<1>4. ASSUME NEW index \in 0..n - 1
      PROVE  /\ min64(chunk, size - index * chunk) \in 1..chunk
             /\ index * chunk + min64(chunk, size - index * chunk) =
                  IF index = n - 1 THEN size ELSE (index + 1) * chunk
  <2>1. /\ index * chunk \in Nat
        /\ index * chunk < size
        /\ index # n - 1 => (index + 1) * chunk < size
    BY <1>1, <1>3, Below, SMT
  <2>2. (index + 1) * chunk = index * chunk + chunk
    BY <1>1, SMT
  <2>3. CASE index = n - 1
    <3>1. size - index * chunk <= chunk
      BY <1>1, <1>3, <2>1, <2>2, <2>3, SMT
    <3>2. QED
      BY <1>1, <2>1, <2>3, <3>1, SMT DEF min64
  <2>4. CASE index # n - 1
    BY <1>1, <2>1, <2>2, <2>4, SMT DEF min64
  <2>5. QED
    BY <2>3, <2>4
<1>5. 0 * chunk = 0
  BY <1>1, SMT
<1>6. QED
  BY <1>3, <1>4, <1>5 DEF chunk, n, chunkOffset, chunkLength

(* However large the file, it needs no more than 120 requests. *)
THEOREM FewChunks ==
  ASSUME NEW size \in ChunkedSizes
  PROVE  totalChunks(size) <= 120
<1>1. CASE getChunkSize(size) = MB /\ size < 20 * MB
  BY <1>1, SMT DEF ChunkedSizes, chunkEnableFileSize, MB, totalChunks
<1>2. CASE getChunkSize(size) = 4 * MB /\ size < 102 * MB
  BY <1>2, SMT DEF ChunkedSizes, chunkEnableFileSize, MB, totalChunks
<1>3. CASE getChunkSize(size) = 16 * MB
  BY <1>3, SMT
     DEF ChunkedSizes, chunkEnableFileSize, MaxUploadSize, MB, totalChunks
<1>4. QED
  BY <1>1, <1>2, <1>3, ChunkSizes, SMT

-----------------------------------------------------------------------------
(* The steps of a command, and what they do to the scratch directory. *)

(* The steps, one by one. *)
LEMMA ProbeStepsAre ==
  ASSUME command = "probe"
  PROVE  /\ DOMAIN Steps = 1..22
         /\ Steps[1] = "browseRoot" /\ Steps[2] = "removeStale"
         /\ Steps[3] = "mkdirScratch" /\ Steps[4] = "prepareFiles"
         /\ Steps[5] = "uploadSmall" /\ Steps[6] = "promoteSmall"
         /\ Steps[7] = "openSession" /\ Steps[8] = "sendChunk"
         /\ Steps[9] = "closeSession" /\ Steps[10] = "promoteChunked"
         /\ Steps[11] = "rename" /\ Steps[12] = "mkdirDest"
         /\ Steps[13] = "copy" /\ Steps[14] = "move"
         /\ Steps[15] = "verifyMoved" /\ Steps[16] = "verifyCopied"
         /\ Steps[17] = "deleteCopied" /\ Steps[18] = "deleteMoved"
         /\ Steps[19] = "deleteDest" /\ Steps[20] = "deleteRenamed"
         /\ Steps[21] = "deleteScratch" /\ Steps[22] = "verifyGone"
  BY DEF Steps, ProbeSteps

(* The same of smoke. *)
LEMMA SmokeStepsAre ==
  ASSUME command = "smoke"
  PROVE  /\ DOMAIN Steps = 1..7
         /\ Steps[1] = "prepareFiles" /\ Steps[2] = "mkdirScratch"
         /\ Steps[3] = "promoteSmall" /\ Steps[4] = "cat"
         /\ Steps[5] = "rename" /\ Steps[6] = "deleteRenamed"
         /\ Steps[7] = "deleteScratch"
  BY DEF Steps, SmokeSteps

(* No step comes twice. *)
LEMMA StepsDistinct ==
  ASSUME NEW i \in DOMAIN Steps, NEW j \in DOMAIN Steps, Steps[i] = Steps[j]
  PROVE  i = j
<1>1. CASE command = "probe"
  BY <1>1, ProbeStepsAre
<1>2. CASE command = "smoke"
  BY <1>2, SmokeStepsAre
<1>3. CASE command \notin {"probe", "smoke"}
  BY <1>3 DEF Steps
<1> QED
  BY <1>1, <1>2, <1>3

(* The step at a position is at that position. *)
LEMMA PositionIs ==
  ASSUME NEW i \in DOMAIN Steps
  PROVE  Position(Steps[i]) = i
<1>1. \A j \in DOMAIN Steps : Steps[j] = Steps[i] <=> j = i
  BY StepsDistinct
<1> QED
  BY <1>1 DEF Position

(* The steps that the invariant speaks of. *)
LEMMA Places ==
  /\ Steps = <<>> \/ command \in {"probe", "smoke"}
  /\ command = "probe" =>
       /\ Len(Steps) = 22 /\ DOMAIN Steps = 1..22
       /\ Steps[3] = "mkdirScratch" /\ Steps[13] = "copy" /\ Steps[14] = "move"
       /\ Steps[15] = "verifyMoved" /\ Steps[16] = "verifyCopied"
       /\ Steps[22] = "verifyGone"
  /\ command = "smoke" =>
       /\ Len(Steps) = 7 /\ DOMAIN Steps = 1..7
       /\ Steps[2] = "mkdirScratch" /\ Steps[3] = "promoteSmall"
       /\ Steps[4] = "cat" /\ Steps[7] = "deleteScratch"
       /\ \A i \in 1..7 : Steps[i] \notin {"copy", "move"}
<1>1. CASE command = "probe"
  BY <1>1 DEF Steps, ProbeSteps
<1>2. CASE command = "smoke"
  BY <1>2 DEF Steps, SmokeSteps
<1>3. CASE command \notin {"probe", "smoke"}
  BY <1>3 DEF Steps
<1> QED
  BY <1>1, <1>2, <1>3

(* A step is one of the named ones. *)
LEMMA StepNamed ==
  ASSUME NEW i \in DOMAIN Steps
  PROVE  Steps[i] \in StepNames
<1>1. CASE command = "probe"
  BY <1>1 DEF Steps, StepNames
<1>2. CASE command = "smoke"
  BY <1>2 DEF Steps, StepNames
<1>3. CASE command \notin {"probe", "smoke"}
  BY <1>3 DEF Steps
<1> QED
  BY <1>1, <1>2, <1>3

(* What a call may do: nothing is made outside the scratch directory, which *)
(* takes everything with it.                                                *)
LEMMA Effects ==
  ASSUME NEW step \in StepNames
  PROVE  /\ Effect[step].gains \subseteq Everything
         /\ step = "mkdirScratch" => Effect[step] = Call({}, {}, {"scratch"})
         /\ step = "deleteScratch" => Effect[step] = Call({}, Everything, {})
         /\ step \notin {"mkdirScratch", "deleteScratch"} =>
              /\ "scratch" \notin Effect[step].gains \cup Effect[step].loses
              /\ Effect[step].gains # {} => Effect[step].needs # {}
         /\ step \in {"browseRoot", "removeStale", "prepareFiles",
                      "verifyGone"} =>
              Effect[step] = Call({}, {}, {})
         /\ step = "promoteSmall" => Effect[step].gains = {"small"}
         /\ step = "copy" => Effect[step].gains = {"copied"}
         /\ step = "move" => Effect[step].gains = {"moved"}
  BY DEF Effect, Call, Everything

-----------------------------------------------------------------------------
(* The inductive invariant. *)

(* A step before this one has not been taken. *)
Before(step) == Working /\ Position(pc) <= Position(step)
After(step) == Working /\ Position(pc) > Position(step)

(* A step is one of the command's own. *)
OwnStep == pc \in StepNames => Working

(* Nothing is there without the scratch directory. *)
Rooted == tree # {} => "scratch" \in tree

(* Nothing is there before the directory is made, or without steps. *)
NothingYet ==
  pc \in {"session", "login"} \/ Before("mkdirScratch") => tree = {}

(* Only probe's copying and moving and smoke's upload alter bytes, and the  *)
(* steps after the readbacks know that they did not.                        *)
Unaltered ==
  /\ command = "smoke" => altered \subseteq {"small"}
  /\ command # "smoke" => altered \subseteq {"copied", "moved"}
  /\ pc \in {"session", "login"} => altered = {}
  /\ command = "smoke" /\ (Before("mkdirScratch") \/ After("cat")) => altered = {}
  /\ After("verifyMoved") => "moved" \notin altered
  /\ After("verifyCopied") => "copied" \notin altered

(* Before the run ends, no step has failed and no call was given up. *)
Reported ==
  /\ pc \in {"session", "login"} \/ Working =>
       late = "none" /\ report.failed = "none"
  /\ pc # "ended" => ~report.success
  /\ late \in StepNames => report.failed = late
  /\ report.success => late = "none"

IInv ==
  /\ TypeOK
  /\ OwnStep
  /\ Rooted
  /\ NothingYet
  /\ Unaltered
  /\ Reported
  /\ NothingLeftUnreported
  /\ SuccessIsProven

(* Whatever is performed at whatever time, nothing is made outside the     *)
(* scratch directory, and only one call makes that.                        *)
LEMMA Performed ==
  ASSUME NEW step \in StepNames, NEW t \in SUBSET Everything,
         t # {} => "scratch" \in t
  PROVE  /\ Perform(step, t) \subseteq Everything
         /\ Perform(step, t) # {} => "scratch" \in Perform(step, t)
         /\ Perform(step, t) # {} => t # {} \/ step = "mkdirScratch"
         /\ step \in {"browseRoot", "removeStale", "prepareFiles",
                      "verifyGone"} =>
              Perform(step, t) = t
         /\ step = "deleteScratch" => Perform(step, t) = {}
<1>1. CASE step = "mkdirScratch"
  <2>1. /\ Effect[step].needs = {} /\ Effect[step].loses = {}
        /\ Effect[step].gains = {"scratch"}
    BY <1>1, Effects DEF Call
  <2>2. Perform(step, t) = t \cup {"scratch"}
    BY <2>1 DEF Perform, Possible
  <2> QED
    BY <1>1, <2>2 DEF Everything
<1>2. CASE step = "deleteScratch"
  BY <1>2, Effects DEF Perform, Possible, Call
<1>3. CASE step \in {"browseRoot", "removeStale", "prepareFiles", "verifyGone"}
  BY <1>3, Effects DEF Perform, Possible, Call
<1>4. CASE step \notin {"mkdirScratch", "deleteScratch", "browseRoot",
                      "removeStale", "prepareFiles", "verifyGone"}
  <2>1. /\ Effect[step].gains \subseteq Everything
        /\ "scratch" \notin Effect[step].gains \cup Effect[step].loses
        /\ Effect[step].gains # {} => Effect[step].needs # {}
    BY <1>4, Effects
  <2>2. CASE Possible(step, t)
    <3>1. Perform(step, t) = (t \ Effect[step].loses) \cup Effect[step].gains
      BY <2>2 DEF Perform
    <3>2. Perform(step, t) # {} => t # {}
      BY <2>1, <2>2, <3>1 DEF Possible
    <3>3. /\ Perform(step, t) \subseteq Everything
          /\ Perform(step, t) # {} => "scratch" \in Perform(step, t)
      BY <2>1, <3>1, <3>2
    <3> QED
      BY <1>4, <3>2, <3>3
  <2>3. CASE ~Possible(step, t)
    BY <1>4, <2>3 DEF Perform
  <2> QED
    BY <2>2, <2>3
<1> QED
  BY <1>1, <1>2, <1>3, <1>4

(* A step at work has a name and a place. *)
LEMMA AtWork ==
  ASSUME command \in Commands, Working
  PROVE  /\ command \in {"probe", "smoke"}
         /\ pc \in StepNames
         /\ pc \notin {"session", "login", "look", "delete", "ended"}
         /\ Position(pc) \in DOMAIN Steps /\ Steps[Position(pc)] = pc
         /\ DOMAIN Steps = 1..Len(Steps) /\ Len(Steps) \in Nat
<1>1. PICK i \in DOMAIN Steps : Steps[i] = pc
  BY DEF Working
<1>2. Position(pc) = i
  BY <1>1, PositionIs
<1>3. command \in {"probe", "smoke"}
  BY <1>1, Places
<1>4. pc \in StepNames
  BY <1>1, StepNamed
<1>5. pc \notin {"session", "login", "look", "delete", "ended"}
  BY <1>4 DEF StepNames, ProbeSteps, SmokeSteps
<1> QED
  BY <1>1, <1>2, <1>3, <1>4, <1>5, Places

(* The places of the steps that the invariant speaks of. *)
LEMMA Landmarks ==
  /\ command = "probe" =>
       /\ Position("mkdirScratch") = 3 /\ Position("copy") = 13
       /\ Position("move") = 14 /\ Position("verifyMoved") = 15
       /\ Position("verifyCopied") = 16 /\ Position("verifyGone") = 22
  /\ command = "smoke" =>
       /\ Position("mkdirScratch") = 2 /\ Position("cat") = 4
       /\ Position("deleteScratch") = 7
  /\ Working /\ pc = "sendChunk" => command = "probe" /\ Position(pc) = 8
<1>1. CASE command = "probe"
  <2>1. \A i \in 1..22 : Position(Steps[i]) = i
    BY <1>1, PositionIs, ProbeStepsAre
  <2>2. 3 \in 1..22 /\ 8 \in 1..22 /\ 13 \in 1..22 /\ 14 \in 1..22
        /\ 15 \in 1..22 /\ 16 \in 1..22 /\ 22 \in 1..22
    OBVIOUS
  <2> QED
    BY <1>1, <2>1, <2>2, ProbeStepsAre
<1>2. CASE command = "smoke"
  <2>1. \A i \in 1..7 : Position(Steps[i]) = i
    BY <1>2, PositionIs, SmokeStepsAre
  <2>2. 2 \in 1..7 /\ 4 \in 1..7 /\ 7 \in 1..7
    OBVIOUS
  <2> QED
    BY <1>2, <2>1, <2>2, SmokeStepsAre DEF Working
<1>3. CASE command \notin {"probe", "smoke"}
  BY <1>3 DEF Working, Steps
<1> QED
  BY <1>1, <1>2, <1>3

(* After a step comes the next one, or the successful end. *)
LEMMA Advance ==
  ASSUME command \in Commands, Working, StepDone, UNCHANGED command
  PROVE  \/ /\ Position(pc) = Len(Steps) /\ pc' = "ended"
            /\ report' = [report EXCEPT !.success = TRUE]
         \/ /\ Position(pc) # Len(Steps) /\ Working' /\ pc' \in StepNames
            /\ Position(pc)' = Position(pc) + 1 /\ UNCHANGED report
<1>1. CASE Position(pc) = Len(Steps)
  BY <1>1 DEF StepDone
<1>2. CASE Position(pc) # Len(Steps)
  <2> DEFINE n == Position(pc) + 1
  <2>1. n \in DOMAIN Steps /\ pc' = Steps[n] /\ UNCHANGED report
    BY <1>2, AtWork DEF StepDone
  <2>2. Position(Steps[n]) = n /\ Steps[n] \in StepNames
    BY <2>1, PositionIs, StepNamed
  <2>3. Steps' = Steps
    BY DEF Steps
  <2>4. Working'
    BY <2>1, <2>3 DEF Working
  <2>5. Position(pc)' = Position(Steps[n])
    BY <2>1, <2>3 DEF Position
  <2> QED
    BY <1>2, <2>1, <2>2, <2>4, <2>5
<1> QED
  BY <1>1, <1>2

(* A command that waits, cleans up or has ended is at no step. *)
LEMMA NotWorking ==
  ASSUME UNCHANGED command,
         pc' \in {"session", "login", "look", "delete", "ended"}
  PROVE  ~Working'
<1>1. \A i \in DOMAIN Steps : Steps[i] \in StepNames
  BY StepNamed
<1>2. pc' \notin StepNames
  BY DEF StepNames, ProbeSteps, SmokeSteps
<1> QED
  BY <1>1, <1>2 DEF Working, Steps

(* What the window does, the invariant does not notice. *)
LEMMA WindowInv ==
  ASSUME IInv, TypeOK', OwnStep',
         UNCHANGED <<command, pc, tree, altered, late, report>>
  PROVE  IInv'
<1>1. UNCHANGED <<Steps, Working, Position(pc), Position("mkdirScratch"),
                  Position("verifyMoved"), Position("verifyCopied"),
                  Position("cat")>>
  BY DEF Steps, Working, Position
<1> QED
  BY <1>1 DEF IInv, Rooted, NothingYet, Unaltered, Before, After, Reported,
         NothingLeftUnreported, SuccessIsProven

(* A run without a step to fail leaves nothing. *)
LEMMA EndInv ==
  ASSUME IInv, TypeOK', OwnStep',
         pc \in {"session", "login"}, pc' \in {"login", "ended"},
         UNCHANGED <<command, scratch>>,
         \/ UNCHANGED report
         \/ pc' = "ended" /\ report' = [report EXCEPT !.success = TRUE]
  PROVE  IInv'
<1>1. ~Working'
  BY NotWorking
<1>2. tree = {} /\ altered = {} /\ late = "none" /\ report.failed = "none"
  BY DEF IInv, NothingYet, Unaltered, Reported
<1>3. report'.failed = "none" /\ (pc' # "ended" => ~report'.success)
  BY <1>2 DEF IInv, TypeOK, Reported
<1> QED
  BY <1>1, <1>2, <1>3
     DEF IInv, scratch, Rooted, NothingYet, Unaltered, Before, After,
     Reported, NothingLeftUnreported, SuccessIsProven

(* The first step finds nothing. *)
LEMMA BeginInv ==
  ASSUME IInv, TypeOK', OwnStep', pc \in {"session", "login"}, Begin,
         UNCHANGED <<command, scratch>>
  PROVE  IInv'
<1>1. CASE Steps = <<>>
  BY <1>1, EndInv DEF Begin
<1>2. CASE Steps # <<>>
  <2>1. /\ 1 \in DOMAIN Steps /\ pc' = Steps[1] /\ UNCHANGED report
        /\ Steps[1] \in StepNames /\ pc' \notin {"session", "login", "ended"}
    <3>1. 1 \in DOMAIN Steps /\ pc' = Steps[1] /\ UNCHANGED report
      BY <1>2, Places DEF Begin
    <3>2. Steps[1] \in StepNames
      BY <3>1, StepNamed
    <3> QED
      BY <3>1, <3>2 DEF StepNames, ProbeSteps, SmokeSteps
  <2>2. tree = {} /\ altered = {} /\ late = "none" /\ report.failed = "none"
        /\ ~report.success
    BY DEF IInv, NothingYet, Unaltered, Reported
  <2> QED
    BY <2>1, <2>2 DEF IInv, scratch, Rooted, NothingYet, Unaltered, Reported,
       NothingLeftUnreported, SuccessIsProven
<1> QED
  BY <1>1, <1>2

(* Types, of the steps that go on. *)
Reports ==
  [success : BOOLEAN, failed : StepNames \cup {"none"}, leftover : BOOLEAN]

(* A command that goes on after its session takes a step of its own, or     *)
(* ends.                                                                    *)
LEMMA BeginType ==
  ASSUME TypeOK, Begin, UNCHANGED command
  PROVE  pc' \in StepNames \cup {"ended"} /\ report' \in Reports /\ OwnStep'
<1>1. CASE Steps = <<>>
  <2>1. pc' = "ended" /\ report' = [report EXCEPT !.success = TRUE]
    BY <1>1 DEF Begin
  <2>2. report' \in Reports
    BY <2>1 DEF TypeOK, Reports
  <2> QED
    BY <2>1, <2>2 DEF OwnStep, StepNames, ProbeSteps, SmokeSteps
<1>2. CASE Steps # <<>>
  <2>1. 1 \in DOMAIN Steps
    BY <1>2, Places
  <2>2. pc' = Steps[1] /\ UNCHANGED report /\ Steps' = Steps
    BY <1>2 DEF Begin, Steps
  <2>3. Working'
    BY <2>1, <2>2 DEF Working
  <2> QED
    BY <2>1, <2>2, <2>3, StepNamed DEF TypeOK, Reports, OwnStep
<1> QED
  BY <1>1, <1>2

(* So does one that has done a step. *)
LEMMA AdvanceType ==
  ASSUME TypeOK, Working, StepDone, UNCHANGED command
  PROVE  pc' \in StepNames \cup {"ended"} /\ report' \in Reports /\ OwnStep'
<1>1. command \in Commands /\ report \in Reports
  BY DEF TypeOK, Reports
<1>2. CASE pc' = "ended" /\ report' = [report EXCEPT !.success = TRUE]
  <2>1. report' \in Reports
    BY <1>1, <1>2 DEF Reports
  <2> QED
    BY <1>2, <2>1 DEF OwnStep, StepNames, ProbeSteps, SmokeSteps
<1>3. CASE Working' /\ pc' \in StepNames /\ UNCHANGED report
  BY <1>1, <1>3 DEF OwnStep
<1> QED
  BY <1>1, <1>2, <1>3, Advance

(* The window and its goroutine change nothing but themselves. *)
LEMMA WindowType ==
  ASSUME TypeOK, WindowStep \/ Callback \/ UserCloses \/ WatcherStep \/ Cancel,
         UNCHANGED <<command, pc, scratch, report>>
  PROVE  TypeOK'
<1> USE DEF TypeOK, scratch
<1>1. CASE OpenWindow
  BY <1>1 DEF OpenWindow
<1>2. CASE OpenWindowFails
  BY <1>2 DEF OpenWindowFails
<1>3. CASE Terminate
  BY <1>3 DEF Terminate
<1>4. CASE CloseDone
  BY <1>4 DEF CloseDone
<1>5. CASE TakeResult
  BY <1>5 DEF TakeResult
<1>6. CASE Exchange
  BY <1>6 DEF Exchange
<1>7. CASE Callback
  BY <1>7 DEF Callback
<1>8. CASE UserCloses
  BY <1>8 DEF UserCloses
<1>9. CASE Cancel
  BY <1>9 DEF Cancel
<1>10. CASE WatcherWakes
  BY <1>10 DEF WatcherWakes
<1>11. CASE WatcherSends
  BY <1>11 DEF WatcherSends
<1>12. CASE WatcherChecks
  BY <1>12 DEF WatcherChecks
<1>13. CASE WatcherDispatches
  BY <1>13 DEF WatcherDispatches
<1> QED
  BY <1>1, <1>2, <1>3, <1>4, <1>5, <1>6, <1>7, <1>8, <1>9, <1>10, <1>11, <1>12,
     <1>13
     DEF WindowStep, WatcherStep

(* Every step keeps the types, and the command at its own steps. *)
LEMMA TypeNext ==
  ASSUME TypeOK, OwnStep, [Next]_vars
  PROVE  TypeOK' /\ OwnStep'
<1>0. ASSUME pc' \in {"session", "login", "look", "delete", "ended"}
      PROVE  OwnStep'
  BY <1>0 DEF OwnStep, StepNames, ProbeSteps, SmokeSteps
<1>1. ASSUME UNCHANGED <<command, pc>>
      PROVE  OwnStep'
  BY <1>1 DEF OwnStep, Working, Steps
<1>2. CASE Session
  BY <1>0, <1>2, BeginType DEF Session, TypeOK, Reports, window, scratch, End
<1>3. CASE Login \/ Watch \/ Signal
  BY <1>1, <1>3, WindowType DEF Login, Watch, Signal
<1>4. CASE SaveLogin
  BY <1>0, <1>4, BeginType DEF SaveLogin, TypeOK, Reports, window, scratch, End
<1>5. CASE StepSucceeds
  <2>1. pc \in StepNames /\ Effect[pc].gains \subseteq Everything
    BY <1>5, AtWork, Effects DEF StepSucceeds, TypeOK
  <2>2. tree' \subseteq Everything /\ altered' \subseteq Everything
    BY <1>5, <2>1 DEF StepSucceeds, Perform, TypeOK
  <2>3. pc' \in StepNames \cup {"ended"} /\ report' \in Reports /\ OwnStep'
    BY <1>5, AdvanceType DEF StepSucceeds
  <2> QED
    BY <1>5, <2>2, <2>3 DEF StepSucceeds, TypeOK, Reports, window
<1>6. CASE SendChunk
  <2>1. Working /\ pc \in StepNames
    BY <1>6 DEF SendChunk, OwnStep, StepNames, ProbeSteps
  <2>2. pc' \in StepNames \cup {"ended"} /\ report' \in Reports /\ OwnStep'
    BY <1>1, <1>6, <2>1, AdvanceType DEF SendChunk, TypeOK, Reports
  <2> QED
    BY <1>6, <2>2 DEF SendChunk, TypeOK, Reports, window
<1>7. CASE StepFails
  <2>1. pc \in StepNames /\ Effect[pc].gains \subseteq Everything
    BY <1>7, AtWork, Effects DEF StepFails, TypeOK
  <2>2. tree' \subseteq Everything
    BY <1>7, <2>1 DEF StepFails, Perform, TypeOK
  <2>3. pc' \in {"look", "ended"}
    BY <1>7 DEF StepFails
  <2> QED
    BY <1>0, <1>7, <2>1, <2>2, <2>3 DEF StepFails, TypeOK, window
<1>8. CASE PerformLate
  <2>1. tree' \subseteq Everything
    BY <1>8, Effects DEF PerformLate, Perform, TypeOK
  <2> QED
    BY <1>1, <1>8, <2>1 DEF PerformLate, TypeOK, window
<1>9. CASE CleanupLook \/ CleanupDelete
  <2>1. [report EXCEPT !.leftover = TRUE] \in Reports /\ report \in Reports
    BY DEF TypeOK, Reports
  <2>2. report' \in Reports /\ pc' \in {"ended", "delete"}
    BY <1>9, <2>1 DEF CleanupLook, CleanupDelete, Leftover, End
  <2>3. tree' \subseteq Everything
    BY <1>9 DEF CleanupLook, CleanupDelete, TypeOK, scratch
  <2> QED
    BY <1>0, <1>9, <2>2, <2>3
       DEF CleanupLook, CleanupDelete, TypeOK, Reports, window, scratch
<1>10. CASE UNCHANGED vars
  BY <1>1, <1>10 DEF vars, TypeOK, window, scratch
<1> QED
  BY <1>2, <1>3, <1>4, <1>5, <1>6, <1>7, <1>8, <1>9, <1>10
     DEF Next, CommandStep

(* A step that succeeds. *)
LEMMA StepInv ==
  ASSUME IInv, TypeOK', OwnStep', StepSucceeds
  PROVE  IInv'
<1>1. /\ Working /\ Proved(pc) /\ StepDone
      /\ tree' = Perform(pc, tree) /\ UNCHANGED <<command, late>>
      /\ \/ altered' = altered
         \/ pc \in Altering /\ altered' = altered \cup Effect[pc].gains
  <2>1. \/ altered' = altered
        \/ pc \in Altering /\ altered' = altered \cup Effect[pc].gains
    <3>1. CASE pc \in Altering
      BY <3>1 DEF StepSucceeds
    <3>2. CASE pc \notin Altering
      BY <3>2 DEF StepSucceeds
    <3> QED
      BY <3>1, <3>2
  <2> QED
    BY <2>1 DEF StepSucceeds
<1>2. /\ command \in {"probe", "smoke"} /\ command \in Commands
      /\ pc \in StepNames /\ pc \notin {"session", "login", "ended"}
      /\ Position(pc) \in 1..Len(Steps) /\ Steps[Position(pc)] = pc
      /\ Len(Steps) \in Nat
  BY <1>1, AtWork DEF IInv, TypeOK
<1>3. /\ late = "none" /\ report.failed = "none" /\ ~report.success
      /\ report \in Reports
  BY <1>1, <1>2 DEF IInv, Reported, TypeOK, Reports
<1>4. /\ tree # {} => "scratch" \in tree
      /\ tree \subseteq Everything
  BY DEF IInv, Rooted, TypeOK
<1>5. /\ tree' # {} => "scratch" \in tree'
      /\ tree' # {} => tree # {} \/ pc = "mkdirScratch"
      /\ pc = "verifyGone" => tree' = tree
      /\ pc = "deleteScratch" => tree' = {}
  BY <1>1, <1>2, <1>4, Performed
<1>6. UNCHANGED <<Position("mkdirScratch"), Position("verifyMoved"),
                  Position("verifyCopied"), Position("cat")>>
  BY <1>1 DEF Steps, Position
<1>7. \/ /\ Position(pc) = Len(Steps) /\ pc' = "ended"
         /\ report' = [report EXCEPT !.success = TRUE]
         /\ ~Working'
      \/ /\ Position(pc) # Len(Steps) /\ Working' /\ pc' \in StepNames
         /\ Position(pc)' = Position(pc) + 1 /\ UNCHANGED report
  BY <1>1, <1>2, Advance, NotWorking
<1>8. Rooted'
  BY <1>5 DEF Rooted
<1>9. NothingYet'
  <2>1. ASSUME Working', Position(pc)' <= Position("mkdirScratch")'
        PROVE  tree' = {}
    <3>1. Position(pc) + 1 <= Position("mkdirScratch")
      BY <1>6, <1>7, <2>1 DEF StepNames, ProbeSteps, SmokeSteps
    <3>2. Position(pc) <= Position("mkdirScratch") /\ pc # "mkdirScratch"
      BY <1>2, <3>1, Landmarks
    <3>3. tree = {}
      BY <1>1, <3>2 DEF IInv, NothingYet, Before
    <3> QED
      BY <1>5, <3>2, <3>3
  <2>2. pc' \notin {"session", "login"}
    BY <1>7 DEF StepNames, ProbeSteps, SmokeSteps
  <2> QED
    BY <2>1, <2>2 DEF NothingYet, Before
<1>10. /\ command = "smoke" => altered' \subseteq {"small"}
       /\ command # "smoke" => altered' \subseteq {"copied", "moved"}
       /\ command = "probe" /\ Position(pc) >= 15 => altered' = altered
       /\ command = "smoke" /\ Position(pc) >= 4 => altered' = altered
  <2>1. CASE altered' = altered
    BY <1>2, <2>1 DEF IInv, Unaltered
  <2>2. CASE pc \in Altering /\ altered' = altered \cup Effect[pc].gains
    <3>1. CASE command = "probe"
      <4>1. pc \in {"copy", "move"}
        BY <2>2, <3>1 DEF Altering
      <4>2. Position(pc) \in {13, 14}
        BY <3>1, <4>1, Landmarks
      <4>3. Effect[pc].gains \in {{"copied"}, {"moved"}}
        BY <1>2, <4>1, Effects
      <4>4. altered \subseteq {"copied", "moved"}
        BY <3>1 DEF IInv, Unaltered
      <4>5. altered' \subseteq {"copied", "moved"}
        BY <2>2, <4>3, <4>4
      <4>6. ~(Position(pc) >= 15)
        BY <4>2
      <4> QED
        BY <3>1, <4>5, <4>6
    <3>2. CASE command = "smoke"
      <4>1. pc = "promoteSmall"
        BY <1>2, <2>2, <3>2, Places DEF Altering
      <4>2. Position(pc) = 3
        <5>1. Position(Steps[3]) = 3
          BY <3>2, PositionIs, SmokeStepsAre
        <5> QED
          BY <3>2, <4>1, <5>1, SmokeStepsAre
      <4>3. Effect[pc].gains = {"small"}
        BY <1>2, <4>1, Effects
      <4>4. altered \subseteq {"small"}
        BY <3>2 DEF IInv, Unaltered
      <4>5. altered' \subseteq {"small"}
        BY <2>2, <4>3, <4>4
      <4>6. ~(Position(pc) >= 4)
        BY <4>2
      <4> QED
        BY <3>2, <4>5, <4>6
    <3> QED
      BY <1>2, <3>1, <3>2
  <2> QED
    BY <1>1, <2>1, <2>2
<1>11. command = "probe" =>
         /\ Position(pc) >= 15 => "moved" \notin altered'
         /\ Position(pc) >= 16 => "copied" \notin altered'
  <2> SUFFICES ASSUME command = "probe"
               PROVE  /\ Position(pc) >= 15 => "moved" \notin altered'
                      /\ Position(pc) >= 16 => "copied" \notin altered'
    OBVIOUS
  <2>1. /\ Position("verifyMoved") = 15 /\ Position("verifyCopied") = 16
        /\ Position(pc) = 15 => pc = "verifyMoved"
        /\ Position(pc) = 16 => pc = "verifyCopied"
    BY <1>2, Landmarks, Places
  <2>2. /\ Position(pc) > 15 => "moved" \notin altered
        /\ Position(pc) > 16 => "copied" \notin altered
    BY <1>1, <2>1 DEF IInv, Unaltered, After
  <2>3. /\ Position(pc) = 15 => "moved" \notin altered
        /\ Position(pc) = 16 => "copied" \notin altered
    BY <1>1, <2>1 DEF Proved
  <2> QED
    BY <1>2, <1>10, <2>2, <2>3
<1>12. command = "smoke" /\ Position(pc) >= 4 => altered' = {}
  <2> SUFFICES ASSUME command = "smoke", Position(pc) >= 4 PROVE altered' = {}
    OBVIOUS
  <2>1. altered' = altered /\ altered \subseteq {"small"}
    BY <1>10 DEF IInv, Unaltered
  <2>2. Position("cat") = 4 /\ (Position(pc) = 4 => pc = "cat")
    BY <1>2, Landmarks, Places
  <2>3. CASE Position(pc) = 4
    BY <1>1, <2>1, <2>2, <2>3 DEF Proved
  <2>4. CASE Position(pc) # 4
    <3>1. After("cat")
      BY <1>1, <1>2, <2>2, <2>4 DEF After
    <3> QED
      BY <2>1, <3>1 DEF IInv, Unaltered
  <2> QED
    BY <2>3, <2>4
<1>13. ASSUME command = "smoke", Working', Position(pc)' <= 2
       PROVE  altered' = {}
  <2>1. Position(pc) <= 2 /\ Position("mkdirScratch") = 2
    BY <1>2, <1>7, <1>13, Landmarks DEF StepNames, ProbeSteps, SmokeSteps
  <2>2. altered = {}
    BY <1>1, <1>13, <2>1 DEF IInv, Unaltered, Before
  <2>3. pc # "promoteSmall"
    BY <1>2, <1>13, <2>1, SmokeStepsAre
  <2>4. pc \notin Altering
    BY <1>2, <1>13, <2>3, Places DEF Altering
  <2> QED
    BY <1>1, <2>2, <2>4
<1>14. Unaltered'
  <2>1. ASSUME Working', Position(pc)' > Position("verifyMoved")'
        PROVE  "moved" \notin altered'
    <3>1. CASE command = "probe"
      BY <1>2, <1>6, <1>7, <1>11, <2>1, <3>1, Landmarks
    <3>2. CASE command = "smoke"
      BY <1>10, <3>2
    <3> QED
      BY <1>2, <3>1, <3>2
  <2>2. ASSUME Working', Position(pc)' > Position("verifyCopied")'
        PROVE  "copied" \notin altered'
    <3>1. CASE command = "probe"
      BY <1>2, <1>6, <1>7, <1>11, <2>2, <3>1, Landmarks
    <3>2. CASE command = "smoke"
      BY <1>10, <3>2
    <3> QED
      BY <1>2, <3>1, <3>2
  <2>3. pc' \notin {"session", "login"}
    BY <1>7 DEF StepNames, ProbeSteps, SmokeSteps
  <2>4. ASSUME command' = "smoke", Before("mkdirScratch")'
        PROVE  altered' = {}
    <3>1. command = "smoke" /\ Position("mkdirScratch") = 2
      BY <1>1, <2>4, Landmarks
    <3>2. Working' /\ Position(pc)' <= 2
      BY <1>6, <2>4, <3>1 DEF Before
    <3> QED
      BY <1>13, <3>1, <3>2
  <2>5. ASSUME command' = "smoke", After("cat")'
        PROVE  altered' = {}
    <3>1. command = "smoke" /\ Position("cat") = 4
      BY <1>1, <2>5, Landmarks
    <3>2. Working' /\ Position(pc)' > 4
      BY <1>6, <2>5, <3>1 DEF After
    <3>3. Position(pc) >= 4
      BY <1>2, <1>7, <3>2 DEF StepNames, ProbeSteps, SmokeSteps
    <3> QED
      BY <1>12, <3>1, <3>3
  <2>6. After("verifyMoved")' => "moved" \notin altered'
    BY <2>1 DEF After
  <2>7. After("verifyCopied")' => "copied" \notin altered'
    BY <2>2 DEF After
  <2> QED
    BY <1>1, <1>10, <2>3, <2>4, <2>5, <2>6, <2>7 DEF Unaltered
<1>15. pc' # "ended" => UNCHANGED report
  BY <1>7
<1>16. Reported'
  <2>1. "none" \notin StepNames /\ report'.failed = "none"
    BY <1>3, <1>7 DEF StepNames, ProbeSteps, SmokeSteps, Reports
  <2> QED
    BY <1>1, <1>3, <1>15, <2>1 DEF Reported
<1>17. pc' = "ended" => tree' = {} /\ altered' = {}
  <2> SUFFICES ASSUME pc' = "ended" PROVE tree' = {} /\ altered' = {}
    OBVIOUS
  <2>1. Position(pc) = Len(Steps)
    BY <1>7 DEF StepNames, ProbeSteps, SmokeSteps
  <2>2. CASE command = "probe"
    <3>1. Position(pc) = 22 /\ pc = "verifyGone"
      BY <1>2, <2>1, <2>2, Places
    <3>2. "scratch" \notin tree
      BY <1>1, <3>1 DEF Proved
    <3> QED
      BY <1>4, <1>5, <1>10, <1>11, <2>2, <3>1, <3>2
  <2>3. CASE command = "smoke"
    <3>1. pc = "deleteScratch" /\ Position(pc) >= 4
      BY <1>2, <2>1, <2>3, Places
    <3> QED
      BY <1>5, <1>12, <2>3, <3>1
  <2> QED
    BY <1>2, <2>2, <2>3
<1>18. NothingLeftUnreported' /\ SuccessIsProven'
  BY <1>3, <1>15, <1>17 DEF NothingLeftUnreported, SuccessIsProven
<1> QED
  BY <1>8, <1>9, <1>14, <1>16, <1>18 DEF IInv

(* A step that fails. *)
LEMMA FailInv ==
  ASSUME IInv, TypeOK', OwnStep', StepFails
  PROVE  IInv'
<1>1. /\ Working /\ report' = [report EXCEPT !.failed = pc]
      /\ pc' = IF Deferred THEN "look" ELSE "ended"
      /\ UNCHANGED <<command, altered>>
      /\ tree' \in {tree, tree \ {"stage"}, Perform(pc, tree)}
      /\ late' \in {late, pc}
  BY DEF StepFails
<1>2. /\ command \in {"probe", "smoke"} /\ pc \in StepNames
      /\ pc \notin {"session", "login", "ended"} /\ ~Working'
      /\ late = "none" /\ ~report.success /\ report \in Reports
  BY <1>1, AtWork, NotWorking DEF IInv, TypeOK, Reported, Reports
<1>3. report'.failed = pc /\ ~report'.success
  BY <1>1, <1>2 DEF Reports
<1>4. /\ tree # {} => "scratch" \in tree
      /\ tree \subseteq Everything
  BY DEF IInv, Rooted, TypeOK
<1>5. /\ tree' # {} => "scratch" \in tree'
      /\ tree' # {} => tree # {} \/ pc = "mkdirScratch"
  BY <1>1, <1>2, <1>4, Performed
<1>6. NothingLeftUnreported'
  <2> SUFFICES ASSUME pc' = "ended", "scratch" \in tree'
               PROVE  report'.failed = "mkdirScratch" /\ command = "probe"
    BY <1>1 DEF NothingLeftUnreported
  <2>1. ~Deferred
    BY <1>1
  <2>2. tree = {}
    <3>1. Position(pc) \in Nat /\ Position("mkdirScratch") \in Nat
      BY <1>1, <1>2, AtWork, Landmarks DEF IInv, TypeOK
    <3> QED
      BY <1>1, <2>1, <3>1 DEF Deferred, IInv, NothingYet, Before
  <2> QED
    BY <1>2, <1>3, <1>5, <2>1, <2>2 DEF Deferred
<1>7. Rooted' /\ NothingYet' /\ Unaltered'
  BY <1>1, <1>2, <1>5 DEF Rooted, NothingYet, Unaltered, Before, After, IInv
<1>8. Reported'
  <2>1. "none" \notin StepNames
    BY DEF StepNames, ProbeSteps, SmokeSteps
  <2> QED
    BY <1>1, <1>2, <1>3, <2>1 DEF Reported
<1> QED
  BY <1>3, <1>6, <1>7, <1>8 DEF IInv, SuccessIsProven

(* A call that is performed after the gateway gave up on it. *)
LEMMA LateInv ==
  ASSUME IInv, TypeOK', OwnStep', PerformLate
  PROVE  IInv'
<1>1. /\ late \in StepNames
      /\ tree' = Perform(late, tree) /\ late' = "performed"
      /\ UNCHANGED <<command, pc, altered, report>>
  BY DEF PerformLate
<1>2. late # "none" /\ "performed" \notin StepNames
  BY <1>1 DEF StepNames, ProbeSteps, SmokeSteps
<1>3. /\ pc \notin {"session", "login"} /\ ~Working /\ ~report.success
      /\ report.failed = late
  BY <1>1, <1>2 DEF IInv, Reported
<1>4. ~Working'
  BY <1>1, <1>3 DEF Working, Steps
<1>5. /\ tree' # {} => "scratch" \in tree'
      /\ tree' # {} => tree # {} \/ late = "mkdirScratch"
  BY <1>1, Performed DEF IInv, Rooted, TypeOK
<1>6. NothingLeftUnreported'
  BY <1>1, <1>3, <1>5 DEF NothingLeftUnreported, IInv, Rooted
<1> QED
  BY <1>1, <1>2, <1>3, <1>4, <1>5, <1>6
     DEF IInv, Rooted, NothingYet, Unaltered,
     Before, After, Reported, SuccessIsProven

(* The deferred removal. *)
LEMMA CleanupInv ==
  ASSUME IInv, TypeOK', OwnStep', CleanupLook \/ CleanupDelete
  PROVE  IInv'
<1>1. /\ UNCHANGED <<command, altered, late>> /\ tree' \in {tree, {}}
      /\ pc \in {"look", "delete"} /\ pc' \in {"delete", "ended"}
      /\ \/ pc' = "ended" /\ report' = [report EXCEPT !.leftover = TRUE]
         \/ UNCHANGED report
      /\ pc' = "ended" /\ UNCHANGED report => "scratch" \notin tree'
         \/ report' = [report EXCEPT !.leftover = TRUE]
  BY DEF CleanupLook, CleanupDelete, Leftover, End, scratch
<1>2. /\ report \in Reports /\ ~report.success /\ ~Working'
  BY <1>1, NotWorking DEF IInv, TypeOK, Reported, Reports
<1>3. /\ report'.success = report.success /\ report'.failed = report.failed
      /\ report' = [report EXCEPT !.leftover = TRUE] => report'.leftover
  BY <1>1, <1>2 DEF Reports
<1> QED
  BY <1>1, <1>2, <1>3 DEF IInv, Rooted, NothingYet, Unaltered, Before, After,
     Reported, NothingLeftUnreported, SuccessIsProven

(* A chunk that is not the last step. *)
LEMMA ChunkInv ==
  ASSUME IInv, TypeOK', OwnStep', SendChunk
  PROVE  IInv'
<1>1. /\ Working /\ pc = "sendChunk"
      /\ UNCHANGED <<command, tree, altered, late>>
  BY DEF SendChunk, IInv, OwnStep, StepNames, ProbeSteps
<1>2. /\ command = "probe" /\ command \in Commands
      /\ Position(pc) = 8 /\ Len(Steps) = 22
  BY <1>1, Landmarks, Places DEF IInv, TypeOK
<1>3. CASE StepDone
  <2>1. /\ Working' /\ pc' \in StepNames /\ Position(pc)' = 9
        /\ UNCHANGED report
    BY <1>1, <1>2, <1>3, Advance
  <2>2. pc' \notin {"session", "login", "ended"}
    BY <2>1 DEF StepNames, ProbeSteps, SmokeSteps
  <2>3. /\ Position("mkdirScratch")' = 3 /\ Position("verifyMoved")' = 15
        /\ Position("verifyCopied")' = 16
    BY <1>1, <1>2, Landmarks DEF Position, Steps
  <2> QED
    BY <1>1, <1>2, <2>1, <2>2, <2>3
       DEF IInv, Rooted, NothingYet, Unaltered, Before, After, Reported,
           NothingLeftUnreported, SuccessIsProven
<1>4. CASE UNCHANGED <<pc, report>>
  BY <1>1, <1>4, WindowInv
<1> QED
  BY <1>3, <1>4 DEF SendChunk

(* The invariant holds of a command that begins. *)
LEMMA InvInit == Init => IInv
<1> SUFFICES ASSUME Init PROVE IInv
  OBVIOUS
<1>1. "session" \notin StepNames /\ "none" \notin StepNames
  BY DEF StepNames, ProbeSteps, SmokeSteps
<1>2. Working => pc \in StepNames
  BY StepNamed DEF Working
<1> QED
  BY <1>1, <1>2
     DEF Init, WindowInit, IInv, TypeOK, OwnStep, Rooted, NothingYet,
     Unaltered, Before, After, Reported, NothingLeftUnreported, SuccessIsProven

(* Every step keeps the invariant. *)
LEMMA InvNext ==
  ASSUME IInv, [Next]_vars
  PROVE  IInv'
<1>0. TypeOK' /\ OwnStep'
  BY TypeNext DEF IInv
<1>1. CASE Session \/ SaveLogin
  <2>1. pc \in {"session", "login"} /\ UNCHANGED <<command, scratch>>
    BY <1>1 DEF Session, SaveLogin
  <2>2. CASE Begin
    BY <1>0, <2>1, <2>2, BeginInv
  <2>3. CASE pc' \in {"login", "ended"} /\ UNCHANGED report
    BY <1>0, <2>1, <2>3, EndInv
  <2> QED
    BY <1>1, <2>2, <2>3 DEF Session, SaveLogin, End
<1>2. CASE Login \/ Watch \/ Signal \/ UNCHANGED vars
  <2>1. UNCHANGED <<command, pc, tree, altered, late, report>>
    BY <1>2 DEF Login, Watch, Signal, vars, scratch
  <2> QED
    BY <1>0, <2>1, WindowInv
<1> QED
  BY <1>0, <1>1, <1>2, StepInv, FailInv, LateInv, CleanupInv, ChunkInv
     DEF Next, CommandStep

(* At every moment of a command: what is in its scratch directory, which    *)
(* bytes may be altered, and what its report will have to say.              *)
THEOREM InvariantHolds == Spec => []IInv
  BY InvInit, InvNext, PTL DEF Spec

(* Every variable keeps its type. *)
THEOREM TypeCorrect == Spec => []TypeOK
<1>1. IInv => TypeOK
  BY DEF IInv
<1> QED
  BY <1>1, InvariantHolds, PTL

(* A run that has ended has removed its scratch directory or named it, but  *)
(* for one that was made by a call reported as failed, whatever call fails, *)
(* loses its answer or is performed late.                                   *)
THEOREM LeftoversAreNamed == Spec => []NothingLeftUnreported
<1>1. IInv => NothingLeftUnreported
  BY DEF IInv
<1> QED
  BY <1>1, InvariantHolds, PTL

(* probe and smoke succeed only if nothing came back altered and nothing is *)
(* left on the server.                                                      *)
THEOREM SuccessIsEarned == Spec => []SuccessIsProven
<1>1. IInv => SuccessIsProven
  BY DEF IInv
<1> QED
  BY <1>1, InvariantHolds, PTL
===============================================================================
