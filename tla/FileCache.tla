------------------------------ MODULE FileCache ------------------------------
(***************************************************************************)
(* The gateway's on-disk cache of downloads (cache.go) and its eviction    *)
(* (maintenance.go): concurrent callers of Open for the same or different  *)
(* targets, shared downloads, cancellation, and pruneFiles, which runs in  *)
(* every call and removes files and empty directories.                     *)
(*                                                                         *)
(* A target is one version of one remote file (targetPath); it lies in a   *)
(* directory of its own.  Pins, pruning and invalidation each hold         *)
(* maintenanceMu throughout; the file operations of `fill' do not.         *)
(***************************************************************************)
EXTENDS Integers, FiniteSets

CONSTANTS
  Callers,   \* requests that open cached files
  Targets,   \* cache files
  NoTarget,  \* a caller that opens nothing
  Budget     \* cache files kept by pruneFiles (IDRIVE_GATEWAY_CACHE_MAX_BYTES)

ASSUME FileCacheAssumption ==
  /\ IsFiniteSet(Callers)
  /\ IsFiniteSet(Targets)
  /\ NoTarget \notin Targets
  /\ Budget \in Nat

VARIABLES
  files,      \* the targets that exist
  dirs,       \* the targets whose directory exists
  temps,      \* the callers whose temporary download exists
  pins,       \* cachePins
  flights,    \* the targets with an entry in fileCache.flights
  pc,         \* where each caller stands
  target,     \* what it opens
  outcome,    \* what its fill, or the flight it waited for, returned
  leads,      \* the callers that own the flight of their target
  cancelled,  \* the callers whose context is done
  robbed      \* history: targets another process pruned under their callers

vars == <<files, dirs, temps, pins, flights, pc, target, outcome, leads,
          cancelled, robbed>>
disk == <<files, dirs, temps>>

(* "expired": the transfer client's own 30 minutes are over; the error looks *)
(* like a context's deadline.                                              *)
Outcomes == {"none", "ok", "failed", "cancelled", "expired"}

Init ==
  /\ files \in SUBSET Targets
  /\ dirs = files
  /\ temps = {}
  /\ pins = [t \in Targets |-> 0]
  /\ flights = {}
  /\ pc = [c \in Callers |-> "idle"]
  /\ target = [c \in Callers |-> NoTarget]
  /\ outcome = [c \in Callers |-> "none"]
  /\ leads = {}
  /\ cancelled = {}
  /\ robbed = {}

Goto(c, label) == pc' = [pc EXCEPT ![c] = label]

Ends(c, result, label) ==
  /\ outcome' = [outcome EXCEPT ![c] = result]
  /\ Goto(c, label)

-----------------------------------------------------------------------------
(* pruneFiles                                                              *)

(* Mutants: pins are ignored. *)
UnpinnedAnyway(t, protected) == t # protected
FreeDirAnyway(t, protected) == t # protected

Unpinned(t, protected) == t # protected /\ pins[t] = 0

(* A directory is kept for the sake of a pinned or protected file in it. *)
FreeDir(t, protected) == t # protected /\ pins[t] = 0

(* Old files go, then the least recently used ones until the rest fits;    *)
(* then directories that are empty.  Temporary files are left alone.       *)
Prune(protected) ==
  \E gone \in SUBSET {t \in files : Unpinned(t, protected)} :
    /\ Cardinality(files \ gone) <= Budget
       \/ \A t \in files \ gone : ~Unpinned(t, protected)
    /\ files' = files \ gone
    /\ dirs' = {t \in dirs :
                  \/ t \in files'
                  \/ \E c \in temps : target[c] = t
                  \/ ~FreeDir(t, protected)}

(* Another gateway process prunes the same directory; its pins are its own. *)
ForeignPrune ==
  /\ \E gone \in SUBSET files :
       /\ files' = files \ gone
       /\ dirs' = {t \in dirs : t \in files' \/ \E c \in temps : target[c] = t}
  /\ robbed' = robbed \cup {t \in dirs \ (files' \cap dirs') : pins[t] > 0}
  /\ UNCHANGED <<temps, pins, flights, pc, target, outcome, leads, cancelled>>

(* invalidate and invalidateAll, from a mutation: no reader is active       *)
(* (Gateway: MutationsRunAlone).                                           *)
Invalidate ==
  /\ \A c \in Callers : pc[c] = "idle"
  /\ \E gone \in SUBSET dirs :
       /\ gone # {}
       /\ files' = files \ gone
       /\ dirs' = dirs \ gone
  /\ UNCHANGED <<temps, pins, flights, pc, target, outcome, leads, cancelled, robbed>>

-----------------------------------------------------------------------------
(* Open and ensure.                                                        *)

Begin(c, t) ==
  /\ pc[c] = "idle"
  /\ pins' = [pins EXCEPT ![t] = @ + 1]
  /\ target' = [target EXCEPT ![c] = t]
  /\ robbed' = IF pins[t] = 0 THEN robbed \ {t} ELSE robbed
  /\ Goto(c, "prune")
  /\ UNCHANGED <<disk, flights, outcome, leads, cancelled>>

Cancel(c) ==
  /\ pc[c] # "idle"
  /\ c \notin cancelled
  /\ cancelled' = cancelled \cup {c}
  /\ UNCHANGED <<disk, pins, flights, pc, target, outcome, leads, robbed>>

PruneFirst(c) ==
  /\ pc[c] = "prune"
  /\ Prune(target[c])
  /\ Goto(c, "check")
  /\ UNCHANGED <<temps, pins, flights, target, outcome, leads, cancelled, robbed>>

PruneFails(c) ==
  /\ pc[c] = "prune"
  /\ Ends(c, "failed", "unpin")
  /\ UNCHANGED <<disk, pins, flights, target, leads, cancelled, robbed>>

Check(c) ==
  /\ pc[c] = "check"
  /\ Goto(c, IF target[c] \in files THEN "open" ELSE "enlist")
  /\ UNCHANGED <<disk, pins, flights, target, outcome, leads, cancelled, robbed>>

(* cacheFileValid cannot examine the file. *)
CheckFails(c) ==
  /\ pc[c] = "check"
  /\ Ends(c, "failed", "unpin")
  /\ UNCHANGED <<disk, pins, flights, target, leads, cancelled, robbed>>

(* Under fileCache.mu: wait for the flight of this target, or own it. *)
Enlist(c) ==
  /\ pc[c] = "enlist"
  /\ IF target[c] \in flights
     THEN /\ Goto(c, "wait")
          /\ UNCHANGED <<flights, leads, robbed>>
     ELSE /\ flights' = flights \cup {target[c]}
          /\ leads' = leads \cup {c}
          /\ Goto(c, "fill")
  /\ UNCHANGED <<disk, pins, target, outcome, cancelled, robbed>>

(* With both channels ready, select takes either. *)
WaitCancelled(c) ==
  /\ pc[c] \in {"wait", "landed"}
  /\ c \in cancelled
  /\ Ends(c, "cancelled", "unpin")
  /\ UNCHANGED <<disk, pins, flights, target, leads, cancelled, robbed>>

(* Mutant: the owner's error is everyone's. *)
LandedShared(c) ==
  /\ pc[c] = "landed"
  /\ Goto(c, IF outcome[c] = "ok" THEN "open" ELSE "unpin")
  /\ UNCHANGED <<disk, pins, flights, target, outcome, leads, cancelled, robbed>>

(* flight.done is closed: a waiter does not inherit its owner's            *)
(* cancellation, it fills the target itself.                               *)
Landed(c) ==
  /\ pc[c] = "landed"
  /\ Goto(c, IF outcome[c] = "ok" THEN "open"
             ELSE IF outcome[c] \in {"cancelled", "expired"} /\ c \notin cancelled
             THEN "fill"
             ELSE "unpin")
  /\ UNCHANGED <<disk, pins, flights, target, outcome, leads, cancelled, robbed>>

-----------------------------------------------------------------------------
(* fill, by the owner of a flight or by a waiter whose owner was cancelled. *)

FillCancelled(c) ==
  /\ pc[c] = "fill"
  /\ c \in cancelled
  /\ Ends(c, "cancelled", "filled")
  /\ UNCHANGED <<disk, pins, flights, target, leads, cancelled, robbed>>

FillFound(c) ==
  /\ pc[c] = "fill"
  /\ c \notin cancelled
  /\ target[c] \in files
  /\ Ends(c, "ok", "filled")
  /\ UNCHANGED <<disk, pins, flights, target, leads, cancelled, robbed>>

(* The file cannot be examined, or its directory cannot be made. *)
FillFails(c) ==
  /\ pc[c] = "fill"
  /\ c \notin cancelled
  /\ Ends(c, "failed", "filled")
  /\ UNCHANGED <<disk, pins, flights, target, leads, cancelled, robbed>>

MkdirAll(c) ==
  /\ pc[c] = "fill"
  /\ c \notin cancelled
  /\ target[c] \notin files
  /\ dirs' = dirs \cup {target[c]}
  /\ Goto(c, "temp")
  /\ UNCHANGED <<files, temps, pins, flights, target, outcome, leads, cancelled, robbed>>

CreateTemp(c) ==
  /\ pc[c] = "temp"
  /\ target[c] \in dirs
  /\ temps' = temps \cup {c}
  /\ Goto(c, "download")
  /\ UNCHANGED <<files, dirs, pins, flights, target, outcome, leads, cancelled, robbed>>

CreateTempFails(c) ==
  /\ pc[c] = "temp"
  /\ Ends(c, "failed", "filled")
  /\ UNCHANGED <<disk, pins, flights, target, leads, cancelled, robbed>>

Download(c) ==
  /\ pc[c] = "download"
  /\ Goto(c, "publish")
  /\ UNCHANGED <<disk, pins, flights, target, outcome, leads, cancelled, robbed>>

Errors(c) == {"failed", "expired"} \cup {e \in {"cancelled"} : c \in cancelled}

(* Mutant: an interrupted download is left behind. *)
DownloadAbandoned(c) ==
  /\ pc[c] = "download"
  /\ \E e \in Errors(c) : Ends(c, e, "filled")
  /\ UNCHANGED <<disk, pins, flights, target, leads, cancelled, robbed>>

(* An error, the caller's cancellation, or a size that differs. *)
DownloadFails(c) ==
  /\ pc[c] = "download"
  /\ temps' = temps \ {c}
  /\ \E e \in Errors(c) : Ends(c, e, "filled")
  /\ UNCHANGED <<files, dirs, pins, flights, target, leads, cancelled, robbed>>

(* The rename, and the pruning that follows it. *)
Publish(c) ==
  /\ pc[c] = "publish"
  /\ target[c] \in dirs
  /\ temps' = temps \ {c}
  /\ files' = files \cup {target[c]}
  /\ Goto(c, "pruneAgain")
  /\ UNCHANGED <<dirs, pins, flights, target, outcome, leads, cancelled, robbed>>

(* The rename fails; another caller's file will do, if it can be examined. *)
PublishFails(c) ==
  /\ pc[c] = "publish"
  /\ temps' = temps \ {c}
  /\ \/ Ends(c, "failed", "filled")
     \/ target[c] \in files /\ Ends(c, "ok", "filled")
  /\ UNCHANGED <<files, dirs, pins, flights, target, leads, cancelled, robbed>>

PruneAgain(c) ==
  /\ pc[c] = "pruneAgain"
  /\ Prune(target[c])
  /\ Ends(c, "ok", "filled")
  /\ UNCHANGED <<temps, pins, flights, target, leads, cancelled, robbed>>

AfterFill(c) == IF outcome[c] = "ok" THEN "open" ELSE "unpin"

(* Mutant: the flight is removed but its channel is not closed. *)
FilledSilently(c) ==
  /\ pc[c] = "filled"
  /\ flights' = IF c \in leads THEN flights \ {target[c]} ELSE flights
  /\ leads' = leads \ {c}
  /\ Goto(c, AfterFill(c))
  /\ UNCHANGED <<disk, pins, target, outcome, cancelled, robbed>>

(* The owner publishes the outcome and wakes its waiters. *)
Filled(c) ==
  /\ pc[c] = "filled"
  /\ flights' = IF c \in leads THEN flights \ {target[c]} ELSE flights
  /\ leads' = leads \ {c}
  /\ LET woken == {w \in Callers : /\ c \in leads
                                   /\ pc[w] = "wait"
                                   /\ target[w] = target[c]}
     IN /\ pc' = [w \in Callers |-> IF w = c THEN AfterFill(c)
                                    ELSE IF w \in woken THEN "landed" ELSE pc[w]]
        /\ outcome' = [w \in Callers |->
                         IF w \in woken THEN outcome[c] ELSE outcome[w]]
  /\ UNCHANGED <<disk, pins, target, cancelled, robbed>>

-----------------------------------------------------------------------------
(* os.Open, and the deferred release of the pin. *)

Open(c) ==
  /\ pc[c] = "open"
  /\ Ends(c, IF target[c] \in files THEN "ok" ELSE "failed", "unpin")
  /\ UNCHANGED <<disk, pins, flights, target, leads, cancelled, robbed>>

Unpin(c) ==
  /\ pc[c] = "unpin"
  /\ pins' = [pins EXCEPT ![target[c]] = @ - 1]
  /\ target' = [target EXCEPT ![c] = NoTarget]
  /\ cancelled' = cancelled \ {c}
  /\ Ends(c, "none", "idle")
  /\ UNCHANGED <<disk, flights, leads, robbed>>

-----------------------------------------------------------------------------
CallerStep(c) ==
  \/ PruneFirst(c) \/ PruneFails(c) \/ Check(c) \/ CheckFails(c) \/ Enlist(c)
  \/ WaitCancelled(c) \/ Landed(c) \/ FillCancelled(c) \/ FillFound(c)
  \/ FillFails(c) \/ MkdirAll(c) \/ CreateTemp(c) \/ CreateTempFails(c) \/ Download(c)
  \/ DownloadFails(c) \/ Publish(c) \/ PublishFails(c) \/ PruneAgain(c)
  \/ Filled(c) \/ Open(c) \/ Unpin(c)

Next ==
  \/ \E c \in Callers : CallerStep(c) \/ Cancel(c)
  \/ \E c \in Callers, t \in Targets : Begin(c, t)
  \/ Invalidate
  \/ ForeignPrune

Spec == Init /\ [][Next]_vars

(* A goroutine runs on; a download ends (its transfer has a time limit). *)
FairSpec == Spec /\ \A c \in Callers : WF_vars(CallerStep(c))

-----------------------------------------------------------------------------
(* Every variable keeps its type. *)
TypeOK ==
  /\ files \subseteq Targets
  /\ dirs \subseteq Targets
  /\ temps \subseteq Callers
  /\ pins \in [Targets -> Nat]
  /\ flights \subseteq Targets
  /\ pc \in [Callers -> {"idle", "prune", "check", "enlist", "wait", "landed",
                         "fill", "temp", "download", "publish", "pruneAgain",
                         "filled", "open", "unpin"}]
  /\ target \in [Callers -> Targets \cup {NoTarget}]
  /\ outcome \in [Callers -> Outcomes]
  /\ leads \subseteq Callers
  /\ cancelled \subseteq Callers
  /\ robbed \subseteq Targets

(* "Eviction must not remove a freshly published download between Ensure    *)
(* and os.Open" (cache.go:112): whoever is about to open a target finds it, *)
(* as far as this process' own evictions go.                                *)
OpenFindsFile ==
  \A c \in Callers :
    pc[c] = "open" /\ target[c] \notin robbed => target[c] \in files

(* Pruning by other callers never removes the directory that a download is  *)
(* about to use, however long it stays empty.                               *)
FillKeepsDirectory ==
  \A c \in Callers :
    pc[c] \in {"temp", "download", "publish"} /\ target[c] \notin robbed =>
      target[c] \in dirs

(* "waiting callers can cancel independently" (safety.md:30): a caller is    *)
(* told of a cancellation only when it was cancelled itself.                *)
OwnCancellation ==
  \A c \in Callers : pc[c] = "unpin" /\ outcome[c] = "cancelled" => c \in cancelled

(* When all callers have left, nothing of them is left: no temporary file   *)
(* ("cancellation cannot return while its temporary-file cleanup is still   *)
(* racing the caller"), no flight and no pin.                               *)
LeavesNothing ==
  (\A c \in Callers : pc[c] = "idle") =>
    temps = {} /\ flights = {} /\ leads = {} /\ \A t \in Targets : pins[t] = 0

(* Every call returns, also when the owner it waits for is cancelled.       *)
Returns == \A c \in Callers : (pc[c] # "idle") ~> (pc[c] = "idle")

=============================================================================
