----------------------------- MODULE BrowseCache -----------------------------
(***************************************************************************)
(* The EVS client's cache of directory listings: Browse, with its shared   *)
(* in-flight fetches; BrowseFresh, which mutations use; and the mutations  *)
(* themselves, reduced to what they do to listings.                        *)
(*                                                                         *)
(* A directory's listing is a version number that every change of the      *)
(* directory advances.  The handler's semaphore keeps readers and          *)
(* mutations apart (Gateway: MutationsRunAlone), but an in-flight fetch    *)
(* runs in a goroutine of its own and outlives the reader that started it  *)
(* when that reader is cancelled.  Nobody else writes to the account.      *)
(***************************************************************************)
EXTENDS Integers, FiniteSets

CONSTANTS
  Dirs,         \* directories
  Readers,      \* read-only requests
  None,         \* no listing, no request
  Failed,       \* a reader's result: an error
  MaxEntries,   \* entries kept in the cache, 1024 in the code
  MaxVersion,   \* bound: changes of one directory
  MaxGeneration \* bound: no expiry and no mutation begins beyond it

ASSUME BrowseAssumption ==
  /\ IsFiniteSet(Dirs)
  /\ None \notin Nat \cup Readers
  /\ MaxEntries \in Nat \ {0}
  /\ MaxVersion \in Nat
  /\ MaxGeneration \in Nat

Versions == 0 .. MaxVersion
Generations == 0 .. MaxGeneration + 2

VARIABLES
  remote,       \* the server's version of each directory
  generation,   \* Client.cacheGeneration
  cache,        \* Client.browseCache
  flight,       \* Client.browseGroup: the fetch in flight for each directory
  reader,       \* each reader: where it stands, its directory, its result
  cancelled,    \* readers whose context is done
  mutation,     \* the one mutation
  owing,        \* changes the server accepted and has not made yet
  late          \* history: directories changed after the mutation had ended

vars == <<remote, generation, cache, flight, reader, cancelled, mutation, owing,
          late>>

NoFlight == [step |-> "none", leader |-> None, gen |-> 0, got |-> None]
NoReader == [pc |-> "idle", dir |-> None, since |-> 0, got |-> None, joined |-> FALSE]

(* dirs: the directories it invalidates; base: their versions before it.  Of *)
(* an accepted Copy or Move: the directory of the present wait, that of the *)
(* last one, and the listing fetched for it.  promised: what a success      *)
(* claims to have changed.                                                 *)
NoMutation ==
  [pc |-> "idle", dirs |-> {}, gen |-> 0, ok |-> FALSE, base |-> [d \in Dirs |-> 0],
   await |-> None, last |-> None, got |-> None, promised |-> {}]

Init ==
  /\ remote = [d \in Dirs |-> 0]
  /\ generation = 0
  /\ cache = [d \in Dirs |-> None]
  /\ flight = [d \in Dirs |-> NoFlight]
  /\ reader = [r \in Readers |-> NoReader]
  /\ cancelled = {}
  /\ mutation = NoMutation
  /\ owing = {}
  /\ late = {}

-----------------------------------------------------------------------------
(* The cache itself.                                                       *)

Cached == {d \in Dirs : cache[d] # None}

(* Mutant: a full cache is only swept for expired entries. *)
RoomUnbounded == {cache}

(* A full cache gives up some entry first; expired ones are as good as any. *)
Room ==
  IF Cardinality(Cached) < MaxEntries THEN {cache}
  ELSE {[cache EXCEPT ![d] = None] : d \in Cached}

(* Mutant: the generation is not compared. *)
StoreAlways(d, listing, gen) ==
  \E c \in Room : cache' = [c EXCEPT ![d] = listing]

storeBrowse(d, listing, gen) ==
  IF gen = generation
  THEN \E c \in Room : cache' = [c EXCEPT ![d] = listing]
  ELSE UNCHANGED cache

invalidatePaths(D) ==
  /\ generation' = generation + 1
  /\ cache' = [d \in Dirs |-> IF d \in D THEN None ELSE cache[d]]

(* cachedBrowse, lookupCachedNode: no entry, or an expired one, which is    *)
(* invalidated.                                                            *)
Missing(d) ==
  \/ cache[d] = None /\ UNCHANGED <<generation, cache>>
  \/ cache[d] # None /\ generation < MaxGeneration /\ invalidatePaths({d})

-----------------------------------------------------------------------------
(* Readers: Stat and Browse.                                               *)

(* The semaphore admits a reader while no mutation holds it. *)
BeginRead(r, d) ==
  /\ reader[r].pc = "idle"
  /\ mutation.pc = "idle"
  /\ reader' = [reader EXCEPT ![r] =
       [NoReader EXCEPT !.pc = "lookup", !.dir = d, !.since = remote[d]]]
  /\ UNCHANGED <<remote, generation, cache, flight, cancelled, mutation, owing, late>>

(* The client disconnects; a flight that r leads loses its context. *)
Cancel(r) ==
  /\ reader[r].pc \notin {"idle", "done"}
  /\ r \notin cancelled
  /\ cancelled' = cancelled \cup {r}
  /\ flight' = [d \in Dirs |-> IF flight[d].leader = r
                              THEN [flight[d] EXCEPT !.leader = None]
                              ELSE flight[d]]
  /\ UNCHANGED <<remote, generation, cache, reader, mutation, owing, late>>

Done(r, result) == [reader[r] EXCEPT !.pc = "done", !.got = result]

CacheHit(r) ==
  /\ reader[r].pc = "lookup"
  /\ cache[reader[r].dir] # None
  /\ reader' = [reader EXCEPT ![r] = Done(r, cache[reader[r].dir])]
  /\ UNCHANGED <<remote, generation, cache, flight, cancelled, mutation, owing, late>>

CacheMiss(r) ==
  /\ reader[r].pc = "lookup"
  /\ Missing(reader[r].dir)
  /\ reader' = [reader EXCEPT ![r].pc = "join"]
  /\ UNCHANGED <<remote, flight, cancelled, mutation, owing, late>>

(* browseGroup.DoChan: lead a new flight, or join the one there is. *)
Join(r) ==
  /\ reader[r].pc = "join"
  /\ LET d == reader[r].dir IN
       /\ reader' = [reader EXCEPT ![r].pc = "wait",
                                   ![r].joined = flight[d] # NoFlight]
       /\ flight' = IF flight[d] # NoFlight THEN flight
                    ELSE [flight EXCEPT ![d] =
                            [NoFlight EXCEPT !.step = "recheck",
                               !.leader = IF r \in cancelled THEN None ELSE r]]
  /\ UNCHANGED <<remote, generation, cache, cancelled, mutation, owing, late>>

(* A waiting caller whose own context is done returns at once. *)
WaitCancelled(r) ==
  /\ reader[r].pc = "wait"
  /\ r \in cancelled
  /\ reader' = [reader EXCEPT ![r] = Done(r, Failed)]
  /\ UNCHANGED <<remote, generation, cache, flight, cancelled, mutation, owing, late>>

EndRead(r) ==
  /\ reader[r].pc = "done"
  /\ reader' = [reader EXCEPT ![r] = NoReader]
  /\ cancelled' = cancelled \ {r}
  /\ UNCHANGED <<remote, generation, cache, flight, mutation, owing, late>>

-----------------------------------------------------------------------------
(* A flight: the function given to DoChan, with the leader's context.      *)

Land(d, result) ==
  /\ flight' = [flight EXCEPT ![d] = NoFlight]
  /\ reader' = [r \in Readers |->
       IF reader[r].pc = "wait" /\ reader[r].dir = d THEN Done(r, result)
       ELSE reader[r]]

FlightHit(d) ==
  /\ flight[d].step = "recheck"
  /\ cache[d] # None
  /\ Land(d, cache[d])
  /\ UNCHANGED <<remote, generation, cache, cancelled, mutation, owing, late>>

FlightMiss(d) ==
  /\ flight[d].step = "recheck"
  /\ Missing(d)
  /\ flight' = [flight EXCEPT ![d].step = "generation"]
  /\ UNCHANGED <<remote, reader, cancelled, mutation, owing, late>>

(* BrowseFresh reads the generation before it asks the server. *)
FlightGeneration(d) ==
  /\ flight[d].step = "generation"
  /\ flight' = [flight EXCEPT ![d].step = "fetch", ![d].gen = generation]
  /\ UNCHANGED <<remote, generation, cache, reader, cancelled, mutation, owing, late>>

(* The request runs under the leader's context. *)
FlightFetch(d) ==
  /\ flight[d].step = "fetch"
  /\ flight[d].leader # None
  /\ flight' = [flight EXCEPT ![d].step = "store", ![d].got = remote[d]]
  /\ UNCHANGED <<remote, generation, cache, reader, cancelled, mutation, owing, late>>

FlightFails(d) ==
  /\ flight[d].step = "fetch"
  /\ Land(d, Failed)
  /\ UNCHANGED <<remote, generation, cache, cancelled, mutation, owing, late>>

FlightStore(d) ==
  /\ flight[d].step = "store"
  /\ storeBrowse(d, flight[d].got, flight[d].gen)
  /\ Land(d, flight[d].got)
  /\ UNCHANGED <<remote, generation, cancelled, mutation, owing, late>>

-----------------------------------------------------------------------------
(* Mutations: Mkdir, Rename, Delete (one call) and Copy, Move (a call that *)
(* the server carries out later, then polling).                            *)

(* Bound: while the server owes changes, no other mutation begins. *)
BeginMutation(D) ==
  /\ mutation.pc = "idle"
  /\ D # {}
  /\ owing = {}
  /\ generation < MaxGeneration
  /\ \A r \in Readers : reader[r].pc = "idle"
  /\ \A d \in D : remote[d] < MaxVersion
  /\ \E start \in {"stat", "call"} :   \* Delete asks the server for nothing first
       mutation' = [NoMutation EXCEPT !.pc = start, !.dirs = D, !.base = remote]
  /\ UNCHANGED <<remote, generation, cache, flight, reader, cancelled, owing, late>>

(* StatFresh before the call and while polling: a BrowseFresh whose         *)
(* listing is stored.  Its generation is read one step earlier.            *)
StatGeneration ==
  /\ mutation.pc \in {"stat", "poll"}
  /\ mutation' = [mutation EXCEPT !.pc = IF @ = "stat" THEN "statFetch" ELSE "pollFetch",
                                  !.gen = generation]
  /\ UNCHANGED <<remote, generation, cache, flight, reader, cancelled, owing, late>>

StatFresh ==
  /\ mutation.pc = "statFetch"
  /\ \E d \in mutation.dirs : storeBrowse(d, remote[d], mutation.gen)
  /\ mutation' = [mutation EXCEPT !.pc = "call"]
  /\ UNCHANGED <<remote, generation, flight, reader, cancelled, owing, late>>

(* The checks before the call fail: no deferred invalidation yet. *)
StatRefused ==
  /\ mutation.pc \in {"statFetch", "call"}
  /\ mutation' = NoMutation
  /\ UNCHANGED <<remote, generation, cache, flight, reader, cancelled, owing, late>>

Changed(D) == [d \in Dirs |-> IF d \in D THEN remote[d] + 1 ELSE remote[d]]

(* The server makes the change and answers, or the answer is lost. *)
Call ==
  /\ mutation.pc = "call"
  /\ remote' = Changed(mutation.dirs)
  /\ \E ok \in BOOLEAN :
       mutation' = [mutation EXCEPT !.pc = "invalidate", !.ok = ok,
                                    !.promised = mutation.dirs]
  /\ UNCHANGED <<generation, cache, flight, reader, cancelled, owing, late>>

CallFails ==
  /\ mutation.pc = "call"
  /\ mutation' = [mutation EXCEPT !.pc = "invalidate"]
  /\ UNCHANGED <<remote, generation, cache, flight, reader, cancelled, owing, late>>

(* Copy, Move: the server has accepted the change; the first invalidation.  *)
(* Copy waits for the target to appear; Move waits for that and then for    *)
(* the source to be gone.  The rest of C is a folder's own tree.            *)
CallAccepted ==
  /\ mutation.pc = "call"
  /\ \E target, source \in mutation.dirs :
       /\ \E C \in SUBSET mutation.dirs : {target, source} \subseteq C /\ owing' = C
       /\ mutation' = [mutation EXCEPT !.pc = "poll", !.await = target, !.last = source,
                                       !.promised = {target, source}]
  /\ invalidatePaths(mutation.dirs)
  /\ UNCHANGED <<remote, flight, reader, cancelled, late>>

(* The server changes one directory at a time, in any order and at any time. *)
ServerCatchesUp ==
  \E d \in owing :
    /\ remote' = Changed({d})
    /\ owing' = owing \ {d}
    /\ late' = IF mutation.pc = "idle" THEN late \cup {d} ELSE late
    /\ UNCHANGED <<generation, cache, flight, reader, cancelled, mutation>>

(* Mutant: a poll takes the answer of a listing already in flight. *)
PollFetchJoins ==
  /\ mutation.pc = "pollFetch"
  /\ LET f == flight[mutation.await] IN
     mutation' = [mutation EXCEPT !.pc = "pollStore",
                    !.got = IF f.step = "store" THEN f.got ELSE remote[mutation.await]]
  /\ UNCHANGED <<remote, generation, cache, flight, reader, cancelled, owing, late>>

(* BrowseFresh asks the server, whatever is cached or in flight. *)
PollFetch ==
  /\ mutation.pc = "pollFetch"
  /\ mutation' = [mutation EXCEPT !.pc = "pollStore", !.got = remote[mutation.await]]
  /\ UNCHANGED <<remote, generation, cache, flight, reader, cancelled, owing, late>>

(* What a listing of d says of the change: one from before the mutation says *)
(* nothing reliable, since the name may have come or gone meanwhile.        *)
Shows(d, listing) ==
  IF listing < mutation.base[d] THEN BOOLEAN ELSE {listing > mutation.base[d]}

(* Mutant: Move is done when its target has appeared. *)
AfterWaitTargetOnly(m) == [m EXCEPT !.pc = "invalidate", !.ok = TRUE]

(* The next wait, or the end of the last one. *)
AfterWait(m) ==
  IF m.await = m.last THEN [m EXCEPT !.pc = "invalidate", !.ok = TRUE]
  ELSE [m EXCEPT !.pc = "poll", !.await = m.last]

(* waitForPathState looks at the listing it got, or asks again. *)
Poll ==
  /\ mutation.pc = "pollStore"
  /\ storeBrowse(mutation.await, mutation.got, mutation.gen)
  /\ \E seen \in Shows(mutation.await, mutation.got) :
       mutation' = IF seen THEN AfterWait(mutation) ELSE [mutation EXCEPT !.pc = "poll"]
  /\ UNCHANGED <<remote, generation, flight, reader, cancelled, owing, late>>

(* 45 seconds are over, or a poll failed. *)
PollFails ==
  /\ mutation.pc \in {"poll", "pollFetch", "pollStore"}
  /\ mutation' = [mutation EXCEPT !.pc = "invalidate"]
  /\ UNCHANGED <<remote, generation, cache, flight, reader, cancelled, owing, late>>

(* Mutant: only a successful call invalidates. *)
InvalidateSuccess ==
  /\ mutation.pc = "invalidate"
  /\ IF mutation.ok THEN invalidatePaths(mutation.dirs)
     ELSE UNCHANGED <<generation, cache>>
  /\ mutation' = [mutation EXCEPT !.pc = "return"]
  /\ UNCHANGED <<remote, flight, reader, cancelled, owing, late>>

(* The deferred invalidation, whatever the outcome. *)
Invalidate ==
  /\ mutation.pc = "invalidate"
  /\ invalidatePaths(mutation.dirs)
  /\ mutation' = [mutation EXCEPT !.pc = "return"]
  /\ UNCHANGED <<remote, flight, reader, cancelled, owing, late>>

Return ==
  /\ mutation.pc = "return"
  /\ mutation' = NoMutation
  /\ UNCHANGED <<remote, generation, cache, flight, reader, cancelled, owing, late>>

-----------------------------------------------------------------------------
Next ==
  \/ \E r \in Readers :
       \/ \E d \in Dirs : BeginRead(r, d)
       \/ Cancel(r) \/ CacheHit(r) \/ CacheMiss(r) \/ Join(r)
       \/ WaitCancelled(r) \/ EndRead(r)
  \/ \E d \in Dirs :
       \/ FlightHit(d) \/ FlightMiss(d) \/ FlightGeneration(d)
       \/ FlightFetch(d) \/ FlightFails(d) \/ FlightStore(d)
  \/ \E D \in SUBSET Dirs : BeginMutation(D)
  \/ StatGeneration \/ StatFresh \/ StatRefused \/ Call \/ CallFails
  \/ CallAccepted \/ ServerCatchesUp \/ PollFetch \/ Poll \/ PollFails
  \/ Invalidate \/ Return

Spec == Init /\ [][Next]_vars

-----------------------------------------------------------------------------
Flights ==
  [step : {"none", "recheck", "generation", "fetch", "store"},
   leader : Readers \cup {None}, gen : Generations, got : Versions \cup {None}]
Reads ==
  [pc : {"idle", "lookup", "join", "wait", "done"}, dir : Dirs \cup {None},
   since : Versions, got : Versions \cup {None, Failed}, joined : BOOLEAN]
Changes ==
  [pc : {"idle", "stat", "statFetch", "call", "poll", "pollFetch", "pollStore",
         "invalidate", "return"},
   dirs : SUBSET Dirs, gen : Generations, ok : BOOLEAN, base : [Dirs -> Versions],
   await : Dirs \cup {None}, last : Dirs \cup {None}, got : Versions \cup {None},
   promised : SUBSET Dirs]

(* Every variable keeps its type, and the cache its bound: browsing many     *)
(* directories never keeps more than MaxEntries listings.                   *)
TypeOK ==
  /\ remote \in [Dirs -> Versions]
  /\ generation \in Generations
  /\ cache \in [Dirs -> Versions \cup {None}]
  /\ flight \in [Dirs -> Flights]
  /\ reader \in [Readers -> Reads]
  /\ cancelled \subseteq Readers
  /\ mutation \in Changes
  /\ owing \subseteq Dirs
  /\ late \subseteq Dirs
  /\ Cardinality(Cached) <= MaxEntries

(* Between mutations the cache holds no outdated listing: a fetch that began *)
(* before a mutation's invalidation, by a reader long cancelled or by the    *)
(* mutation itself, is never stored after it; and a call whose answer was    *)
(* lost invalidates like one that succeeded.                                *)
CacheIsCurrent ==
  mutation.pc = "idle" => \A d \in Cached \ late : cache[d] = remote[d]

(* A reader gets a listing at least as new as the moment it was admitted,    *)
(* unless it joined a flight that was already there (see README).           *)
ReadIsFresh ==
  \A r \in Readers :
    /\ reader[r].pc = "done"
    /\ reader[r].got # Failed
    /\ ~reader[r].joined
    /\ reader[r].dir \notin late
    => reader[r].got >= reader[r].since

(* A call that is answered at once, a Copy and a Move report success only   *)
(* when the server has changed every directory the success speaks of, the   *)
(* two of a Move in whatever order it gets to them: no answer from before   *)
(* the change, cached, in flight or fetched by the previous wait, is taken  *)
(* for it.  What is inside a copied folder may still be missing.            *)
SuccessIsReal ==
  mutation.pc = "return" /\ mutation.ok =>
    \A d \in mutation.promised : remote[d] > mutation.base[d]

=============================================================================
