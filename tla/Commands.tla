------------------------------ MODULE Commands ------------------------------
(***************************************************************************)
(* One run of idrive-gateway login, serve, probe or smoke: the session or  *)
(* the login it begins with (main.go: ensureClient, LoginWindow), then the *)
(* steps of probe.go or smoke.go in their scratch directory on the server, *)
(* and its removal, which is deferred.  `serve' goes on in Gateway.        *)
(*                                                                         *)
(* EVS may refuse a call, lose its answer, or perform it only after the    *)
(* gateway gave up on it; a copy or a move may alter bytes, and so may the *)
(* way through rclone.  EVS performs nothing in a directory that does not  *)
(* exist.                                                                  *)
(***************************************************************************)
EXTENDS LoginWindow, ChunkPlan, Sequences

CONSTANTS
  ChunkedFile  \* the size of the probe's larger file

ASSUME CommandsAssumption == ChunkedFile \in ChunkedSizes

VARIABLES
  command,
  pc,          \* the step, or where the command is besides
  tree,        \* what there is of the scratch directory on the server
  chunks,      \* chunks of the current upload session
  altered,     \* the entries with other bytes than their original
  late,        \* a call the gateway gave up on, or that it was performed
  report       \* the outcome: success, the failed step, a leftover named

scratch == <<tree, chunks, altered, late>>
vars == <<window, command, pc, scratch, report>>

Commands == {"login", "serve", "probe", "smoke"}

ProbeSteps == <<
  "browseRoot", "removeStale", "mkdirScratch", "prepareFiles",
  "uploadSmall", "promoteSmall",
  "openSession", "sendChunk", "closeSession", "promoteChunked",
  "rename", "mkdirDest", "copy", "move", "verifyMoved", "verifyCopied",
  "deleteCopied", "deleteMoved", "deleteDest", "deleteRenamed",
  "deleteScratch", "verifyGone" >>

(* copyto is one request to the gateway, and moveto another. *)
SmokeSteps == <<
  "prepareFiles", "mkdirScratch", "promoteSmall", "cat", "rename",
  "deleteRenamed", "deleteScratch" >>

Steps == IF command = "probe" THEN ProbeSteps
         ELSE IF command = "smoke" THEN SmokeSteps ELSE << >>

StepNames == {ProbeSteps[i] : i \in DOMAIN ProbeSteps} \cup
             {SmokeSteps[i] : i \in DOMAIN SmokeSteps}

Everything == {"scratch", "stage", "small", "chunked", "renamed", "dest",
               "copied", "moved"}

(* What a call requires on the server, takes away and leaves there.  "stage" *)
(* is UploadFile's; promoting it includes its readbacks (ReplaceTx).        *)
Call(needs, loses, gains) == [needs |-> needs, loses |-> loses, gains |-> gains]
Effect ==
  [step \in StepNames |->
     CASE step = "mkdirScratch"   -> Call({}, {}, {"scratch"})
       [] step = "uploadSmall"    -> Call({"scratch"}, {}, {"stage"})
       [] step = "promoteSmall"   -> Call({"scratch"}, {"stage"}, {"small"})
       [] step = "closeSession"   -> Call({"scratch"}, {}, {"stage"})
       [] step = "promoteChunked" -> Call({"scratch"}, {"stage"}, {"chunked"})
       [] step = "rename"         -> Call({"small"}, {"small"}, {"renamed"})
       [] step = "mkdirDest"      -> Call({"scratch"}, {}, {"dest"})
       [] step = "copy"           -> Call({"renamed", "dest"}, {}, {"copied"})
       [] step = "move"           -> Call({"chunked", "dest"}, {"chunked"}, {"moved"})
       [] step = "deleteCopied"   -> Call({}, {"copied"}, {})
       [] step = "deleteMoved"    -> Call({}, {"moved"}, {})
       [] step = "deleteDest"     -> Call({}, {"dest", "copied", "moved"}, {})
       [] step = "deleteRenamed"  -> Call({}, {"renamed"}, {})
       [] step = "deleteScratch"  -> Call({}, Everything, {})
       [] OTHER                   -> Call({}, {}, {})]

Possible(step, t) == Effect[step].needs \subseteq t
Perform(step, t) ==
  IF Possible(step, t) THEN (t \ Effect[step].loses) \cup Effect[step].gains ELSE t

Init ==
  /\ WindowInit
  /\ command \in Commands
  /\ pc = "session"
  /\ tree = {} /\ chunks = 0 /\ altered = {} /\ late = "none"
  /\ report = [success |-> FALSE, failed |-> "none", leftover |-> FALSE]

-----------------------------------------------------------------------------
(* Go on with the first step after the session; a command without steps   *)
(* has done its part.                                                      *)
Begin ==
  IF Steps = << >>
  THEN pc' = "ended" /\ report' = [report EXCEPT !.success = TRUE]
  ELSE pc' = Steps[1] /\ UNCHANGED report

End == pc' = "ended" /\ UNCHANGED report

(* The saved session is loaded, valid and saved again; or it is not, which *)
(* opens the window if it is missing or was refused (or login is forced).  *)
Session ==
  /\ pc = "session"
  /\ \/ Begin
     \/ End
     \/ pc' = "login" /\ UNCHANGED report
  /\ UNCHANGED <<window, command, scratch>>

Login ==
  /\ pc = "login"
  /\ WindowStep \/ Callback \/ UserCloses
  /\ UNCHANGED <<command, pc, scratch, report>>

Watch ==
  /\ WatcherStep
  /\ UNCHANGED <<command, pc, scratch, report>>

(* Only serve's context is done by a signal. *)
Signal ==
  /\ command = "serve" /\ pc = "login"
  /\ Cancel
  /\ UNCHANGED <<command, pc, scratch, report>>

(* store.Save, and a client for the new session. *)
SaveLogin ==
  /\ pc = "login"
  /\ \/ ui = "session" /\ Begin
     \/ ui \in {"session", "failed", "crashed"} /\ End
  /\ UNCHANGED <<window, command, scratch>>

-----------------------------------------------------------------------------
Position(step) == CHOOSE i \in DOMAIN Steps : Steps[i] = step
Working == \E i \in DOMAIN Steps : Steps[i] = pc

StepDone ==
  IF Position(pc) = Len(Steps)
  THEN pc' = "ended" /\ report' = [report EXCEPT !.success = TRUE]
  ELSE pc' = Steps[Position(pc) + 1] /\ UNCHANGED report

(* Mutant: the copied file is not compared. *)
ProvedMoved(step) ==
  /\ step = "cat" => "small" \notin altered
  /\ step = "verifyMoved" => "moved" \notin altered
  /\ step = "verifyGone" => "scratch" \notin tree

(* What the steps that only look have to find: smoke compares what cat     *)
(* prints with the file it uploaded, probe downloads its moved and its     *)
(* copied file.                                                            *)
Proved(step) ==
  /\ step = "cat" => "small" \notin altered
  /\ step = "verifyMoved" => "moved" \notin altered
  /\ step = "verifyCopied" => "copied" \notin altered
  /\ step = "verifyGone" => "scratch" \notin tree

(* The steps that may come back with other bytes than they were given. *)
Altering == {"copy", "move"} \cup IF command = "smoke" THEN {"promoteSmall"} ELSE {}

StepSucceeds ==
  /\ Working /\ pc # "sendChunk"
  /\ Possible(pc, tree) /\ Proved(pc)
  /\ tree' = Perform(pc, tree)
  /\ altered' \in
       {altered, IF pc \in Altering THEN altered \cup Effect[pc].gains ELSE altered}
  /\ chunks' = IF pc = "closeSession" THEN 0 ELSE chunks
  /\ StepDone
  /\ UNCHANGED <<window, command, late>>

(* The loop of uploadChunked: no chunk is sent again. *)
SendChunk ==
  /\ pc = "sendChunk"
  /\ chunks' = chunks + 1
  /\ IF chunks' = totalChunks(ChunkedFile) THEN StepDone ELSE UNCHANGED <<pc, report>>
  /\ UNCHANGED <<window, command, tree, altered, late>>

(* Mutant: smoke, too, defers the removal only once the directory is made. *)
DeferredOnceMade == Position(pc) > Position("mkdirScratch")

(* The removal of the scratch directory is deferred. *)
Deferred ==
  \/ Position(pc) > Position("mkdirScratch")
  \/ command = "smoke" /\ pc = "mkdirScratch"

(* An error of any kind ends the run: nothing was done, or all of it, or   *)
(* it will be; and cleanupStage may have removed the stage.                *)
StepFails ==
  /\ Working
  /\ report' = [report EXCEPT !.failed = pc]
  /\ \/ tree' \in {tree, tree \ {"stage"}, Perform(pc, tree)} /\ UNCHANGED late
     \/ Perform(pc, tree) # tree /\ late' = pc /\ UNCHANGED tree
  /\ pc' = IF Deferred THEN "look" ELSE "ended"
  /\ UNCHANGED <<window, command, chunks, altered>>

PerformLate ==
  /\ late \in StepNames
  /\ tree' = Perform(late, tree)
  /\ late' = "performed"
  /\ UNCHANGED <<window, command, pc, chunks, altered, report>>

-----------------------------------------------------------------------------
(* The deferred function, with a context of its own.                       *)

Leftover == pc' = "ended" /\ report' = [report EXCEPT !.leftover = TRUE]

CleanupLook ==
  /\ pc = "look"
  /\ \/ "scratch" \notin tree /\ End
     \/ "scratch" \in tree /\ pc' = "delete" /\ UNCHANGED report
     \/ Leftover
  /\ UNCHANGED <<window, command, scratch>>

CleanupDelete ==
  /\ pc = "delete"
  /\ \/ tree' = {} /\ End
     \/ tree' \in {tree, {}} /\ Leftover
  /\ UNCHANGED <<window, command, chunks, altered, late>>

(* What the process does by itself. *)
CommandStep ==
  \/ SaveLogin \/ StepSucceeds \/ SendChunk \/ StepFails \/ CleanupLook \/ CleanupDelete

Next == Session \/ Login \/ Watch \/ Signal \/ CommandStep \/ PerformLate

Spec == Init /\ [][Next]_vars

(* Neither the user nor the page have to do anything. *)
FairSpec ==
  /\ Spec
  /\ WF_vars(CommandStep)
  /\ WF_vars(pc = "login" /\ WindowStep /\ UNCHANGED <<command, pc, scratch, report>>)
  /\ WF_vars(Watch)

-----------------------------------------------------------------------------
(* Every variable keeps its type. *)
TypeOK ==
  /\ ui \in {"setup", "run", "returned", "take", "exchange", "session", "failed", "crashed"}
  /\ watcher \in {"none", "select", "once", "check", "dispatch", "ended"}
  /\ once \in {"free", "running", "done"}
  /\ outcome \in {"none", "token", "refused", "cancelled"}
  /\ done \in BOOLEAN /\ terminate \in BOOLEAN /\ cancelled \in BOOLEAN
  /\ command \in Commands
  /\ pc \in StepNames \cup {"session", "login", "look", "delete", "ended"}
  /\ tree \subseteq Everything /\ altered \subseteq Everything
  /\ chunks \in Nat
  /\ late \in StepNames \cup {"none", "performed"}
  /\ report \in [success : BOOLEAN, failed : StepNames \cup {"none"}, leftover : BOOLEAN]

(* "Always attempt cleanup with an independent bounded context and report  *)
(* leftovers" (codebase-audit-2026-10-27.md:114): a run that has ended has *)
(* removed its scratch directory or named it in its error.  Excepted is a  *)
(* directory that the server made although the call failed: probe defers   *)
(* the removal too late for it, and smoke may look before it is there.     *)
NothingLeftUnreported ==
  pc = "ended" /\ "scratch" \in tree =>
    \/ report.leftover
    \/ /\ report.failed = "mkdirScratch"
       /\ command = "probe" \/ late = "performed"

(* A run succeeds only if what it uploaded came back unaltered, for probe  *)
(* from a chunked upload, a rename, a copy and a move, for smoke through   *)
(* rclone, and nothing is left.                                            *)
SuccessIsProven == report.success => tree = {} /\ altered = {}

(* Every run ends, one that waits for the user's login as soon as it is    *)
(* told to: the signal reaches the window, whatever it is doing.           *)
Ends ==
  (pc # "session" /\ (pc = "login" => cancelled)) ~> (pc = "ended")

=============================================================================
