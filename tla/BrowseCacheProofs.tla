-------------------------- MODULE BrowseCacheProofs ---------------------------
(***************************************************************************)
(* Proofs about BrowseCache, for any finite set of directories, any set of *)
(* readers and any cache size.                                             *)
(***************************************************************************)
EXTENDS BrowseCache, FiniteSetTheorems, TLAPS

(* What is left of the bounds while a mutation goes on.                    *)
Bounds ==
  /\ mutation.pc \in {"stat", "statFetch", "call"} =>
       generation <= MaxGeneration /\ \A d \in mutation.dirs : remote[d] < MaxVersion
  /\ mutation.pc \in {"poll", "pollFetch", "pollStore", "invalidate"} =>
       generation <= MaxGeneration + 1
  /\ \A d \in owing : remote[d] < MaxVersion

(* How the server's tree and the mutation's view of it belong together: what *)
(* the server owes is the present mutation's; the listing it polled is from *)
(* its own time, and every wait that is over was for a change now made.     *)
Progress ==
  /\ mutation.pc # "idle" => owing \subseteq mutation.dirs
  /\ mutation.pc \in {"stat", "statFetch", "call"} =>
       owing = {} /\ mutation.base = remote
  /\ mutation.pc # "idle" => \A d \in Dirs : mutation.base[d] <= remote[d]
  /\ mutation.pc \notin {"invalidate", "return"} => ~mutation.ok
  /\ mutation.pc \in {"poll", "pollFetch", "pollStore"} =>
       /\ mutation.await \in mutation.dirs /\ mutation.last \in mutation.dirs
       /\ mutation.promised \subseteq Dirs
       /\ \A d \in mutation.promised :
            d = mutation.await \/ d = mutation.last \/ remote[d] > mutation.base[d]
  /\ mutation.pc = "pollStore" =>
       /\ mutation.got \in Versions
       /\ mutation.base[mutation.await] <= mutation.got
       /\ mutation.got <= remote[mutation.await]
  /\ mutation.ok => \A d \in mutation.promised : remote[d] > mutation.base[d]

TypeInv == TypeOK /\ Bounds /\ Progress

(* Readers and mutations exclude one another, and a flight whose context is *)
(* alive has a reader that waits for it: during a mutation none can fetch.  *)
FlightsAreLed ==
  /\ mutation.pc # "idle" => \A r \in Readers : reader[r].pc = "idle"
  /\ \A d \in Dirs : flight[d].leader # None =>
       LET r == flight[d].leader
       IN reader[r].pc = "wait" /\ reader[r].dir = d /\ r \notin cancelled

(* Nobody knows a later generation than the client. *)
GenerationsPass ==
  /\ \A d \in Dirs : flight[d].gen <= generation
  /\ mutation.gen <= generation

(* Directories whose change is, or may be, made and not yet invalidated.    *)
Dirty(d) ==
  /\ mutation.pc \in {"poll", "pollFetch", "pollStore", "invalidate"}
  /\ d \in mutation.dirs

(* What is cached, or fetched and still to be stored, is current, unless    *)
(* the mutation will invalidate it or the server was late.                  *)
ListingsAreCurrent ==
  /\ \A d \in Cached : d \in late \/ Dirty(d) \/ cache[d] = remote[d]
  /\ \A d \in Dirs : flight[d].step = "store" /\ flight[d].gen = generation =>
       d \in late \/ Dirty(d) \/ flight[d].got = remote[d]

(* After its last invalidation, nothing old is left that the server's late  *)
(* change could contradict.                                                *)
NothingOldIsLeft ==
  mutation.pc = "return" =>
    /\ \A d \in mutation.dirs : cache[d] = None
    /\ \A d \in Dirs : flight[d].step = "store" => flight[d].gen < generation

(* Nothing changes under a reader, unless the server was late.              *)
ReadersSeeTheirTime ==
  \A r \in Readers :
    /\ reader[r].pc # "idle" => reader[r].dir \in Dirs
    /\ reader[r].pc \in {"lookup", "join", "wait"} =>
         reader[r].dir \in late \/ reader[r].since = remote[reader[r].dir]
    /\ reader[r].pc = "wait" /\ ~reader[r].joined
         /\ flight[reader[r].dir].step = "store" =>
         reader[r].dir \in late \/ flight[reader[r].dir].got = remote[reader[r].dir]

-----------------------------------------------------------------------------
(* Caching a listing changes one entry, and may give up others. *)
LEMMA StoreEffect ==
  ASSUME TypeOK, NEW d \in Dirs, NEW v \in Versions \cup {None}, NEW gen,
         storeBrowse(d, v, gen)
  PROVE  /\ cache' \in [Dirs -> Versions \cup {None}]
         /\ \A e \in Dirs :
              \/ cache'[e] = None
              \/ cache'[e] = cache[e]
              \/ e = d /\ gen = generation /\ cache'[e] = v
         /\ Cardinality(Cached') <= MaxEntries
<1> DEFINE Kept == cache' \in [Dirs -> Versions \cup {None}]
           Entries == \A e \in Dirs :
                        \/ cache'[e] = None
                        \/ cache'[e] = cache[e]
                        \/ e = d /\ gen = generation /\ cache'[e] = v
<1>0. cache \in [Dirs -> Versions \cup {None}] /\ Cardinality(Cached) <= MaxEntries
  BY DEF TypeOK
<1>1. IsFiniteSet(Cached) /\ Cardinality(Cached) \in Nat
  <2>1. Cached \subseteq Dirs
    BY DEF Cached
  <2> QED
    BY <2>1, BrowseAssumption, FS_Subset, FS_CardinalityType
<1>2. CASE gen # generation
  <2>1. cache' = cache
    BY <1>2 DEF storeBrowse
  <2>2. Cached' = Cached
    BY <2>1 DEF Cached
  <2>3. Kept /\ Entries
    <3>1. Kept
      BY <1>0, <2>1
    <3>2. Entries
      BY <1>0, <2>1
    <3> QED
      BY <3>1, <3>2
  <2> QED
    BY <1>0, <2>2, <2>3
<1>3. CASE gen = generation
  <2>1. PICK c \in Room : cache' = [c EXCEPT ![d] = v]
    BY <1>3 DEF storeBrowse
  <2>2. CASE Cardinality(Cached) < MaxEntries
    <3>1. c = cache
      BY <2>1, <2>2 DEF Room
    <3>2. Cached' \subseteq Cached \cup {d}
      BY <1>0, <2>1, <3>1 DEF Cached
    <3>3. Kept /\ Entries
      <4>1. Kept
        BY <1>0, <1>3, <2>1, <3>1
      <4>2. Entries
        BY <1>0, <1>3, <2>1, <3>1
      <4> QED
        BY <4>1, <4>2
    <3>4. /\ IsFiniteSet(Cached \cup {d})
          /\ \/ Cardinality(Cached \cup {d}) = Cardinality(Cached)
             \/ Cardinality(Cached \cup {d}) = Cardinality(Cached) + 1
      BY <1>1, FS_AddElement
    <3>5. Cardinality(Cached') <= Cardinality(Cached \cup {d}) /\ Cardinality(Cached') \in Nat
      BY <3>2, <3>4, FS_Subset, FS_CardinalityType
    <3>6. Cardinality(Cached') <= MaxEntries
      BY ONLY <1>1, <2>2, <3>4, <3>5, BrowseAssumption
    <3> QED
      BY <3>3, <3>6
  <2>3. CASE ~(Cardinality(Cached) < MaxEntries)
    <3>1. PICK e \in Cached : c = [cache EXCEPT ![e] = None]
      BY <2>1, <2>3 DEF Room
    <3>2. e \in Dirs
      BY DEF Cached
    <3>3. Cached' \subseteq (Cached \ {e}) \cup {d}
      BY <1>0, <2>1, <3>1, <3>2 DEF Cached
    <3>4. Kept /\ Entries
      <4>1. Kept
        BY <1>0, <1>3, <2>1, <3>1, <3>2
      <4>2. Entries
        BY <1>0, <1>3, <2>1, <3>1, <3>2
      <4> QED
        BY <4>1, <4>2
    <3>5. IsFiniteSet(Cached \ {e}) /\ Cardinality(Cached \ {e}) = Cardinality(Cached) - 1
      BY <1>1, FS_RemoveElement
    <3>6. /\ IsFiniteSet((Cached \ {e}) \cup {d})
          /\ \/ Cardinality((Cached \ {e}) \cup {d}) = Cardinality(Cached \ {e})
             \/ Cardinality((Cached \ {e}) \cup {d}) = Cardinality(Cached \ {e}) + 1
      BY <3>5, FS_AddElement
    <3>7. /\ Cardinality(Cached') <= Cardinality((Cached \ {e}) \cup {d})
          /\ Cardinality(Cached') \in Nat
      BY <3>3, <3>6, FS_Subset, FS_CardinalityType
    <3>8. Cardinality(Cached') <= MaxEntries
      BY ONLY <1>0, <1>1, <3>5, <3>6, <3>7, BrowseAssumption
    <3> QED
      BY <3>4, <3>8
  <2> QED
    BY <2>2, <2>3
<1> QED
  BY <1>2, <1>3

(* An untouched cache keeps its size.                                       *)
LEMMA CachedSame ==
  ASSUME UNCHANGED cache
  PROVE  Cached' = Cached
BY DEF Cached

(* Invalidating only empties entries, and nothing fetched before it counts. *)
LEMMA InvalidateEffect ==
  ASSUME TypeOK, NEW D \in SUBSET Dirs, invalidatePaths(D)
  PROVE  /\ cache' \in [Dirs -> Versions \cup {None}]
         /\ \A e \in Dirs : cache'[e] = IF e \in D THEN None ELSE cache[e]
         /\ Cardinality(Cached') <= MaxEntries
         /\ generation' = generation + 1
<1> USE DEF TypeOK, invalidatePaths
<1>1. Cached' \subseteq Cached
  BY DEF Cached
<1>2. IsFiniteSet(Cached)
  BY BrowseAssumption, FS_Subset DEF Cached
<1>3. Cardinality(Cached') \in Nat /\ Cardinality(Cached) \in Nat
      /\ Cardinality(Cached') <= Cardinality(Cached)
  BY <1>1, <1>2, FS_Subset, FS_CardinalityType
<1> QED
  BY <1>3, BrowseAssumption

(* So does not finding an entry. *)
LEMMA MissingEffect ==
  ASSUME TypeOK, NEW d \in Dirs, Missing(d)
  PROVE  /\ cache' \in [Dirs -> Versions \cup {None}]
         /\ \A e \in Dirs : cache'[e] = None \/ cache'[e] = cache[e]
         /\ Cardinality(Cached') <= MaxEntries
         /\ \/ generation' = generation
            \/ generation' = generation + 1 /\ generation' <= MaxGeneration
<1>1. CASE UNCHANGED <<generation, cache>>
  <2>1. Cached' = Cached
    BY <1>1 DEF Cached
  <2> QED
    BY <1>1, <2>1 DEF TypeOK
<1>2. CASE generation < MaxGeneration /\ invalidatePaths({d})
  <2>1. generation' = generation + 1 /\ generation' <= MaxGeneration
    BY <1>2, BrowseAssumption DEF TypeOK, Generations, invalidatePaths
  <2> QED
    BY <1>2, <2>1, InvalidateEffect
<1> QED
  BY <1>1, <1>2 DEF Missing

(* A flight's end answers those who wait for it, and nobody else.           *)
LEMMA LandEffect ==
  ASSUME TypeOK, NEW d \in Dirs, NEW v \in Versions \cup {None, Failed}, Land(d, v)
  PROVE  /\ flight' \in [Dirs -> Flights]
         /\ flight'[d] = NoFlight
         /\ \A e \in Dirs : e # d => flight'[e] = flight[e]
         /\ reader' \in [Readers -> Reads]
         /\ \A r \in Readers :
              IF reader[r].pc = "wait" /\ reader[r].dir = d
              THEN /\ reader'[r].pc = "done"
                   /\ reader'[r].dir = d
                   /\ reader'[r].since = reader[r].since
                   /\ reader'[r].got = v
                   /\ reader'[r].joined = reader[r].joined
              ELSE reader'[r] = reader[r]
<1>1. NoFlight \in Flights
  BY BrowseAssumption DEF NoFlight, Flights, Generations
<1>2. ASSUME NEW r \in Readers
      PROVE  /\ Done(r, v) \in Reads
             /\ Done(r, v).pc = "done"
             /\ Done(r, v).dir = reader[r].dir
             /\ Done(r, v).since = reader[r].since
             /\ Done(r, v).got = v
             /\ Done(r, v).joined = reader[r].joined
  BY DEF TypeOK, Done, Reads
<1>3. flight \in [Dirs -> Flights] /\ reader \in [Readers -> Reads]
  BY DEF TypeOK
<1>4. /\ flight' \in [Dirs -> Flights]
      /\ flight'[d] = NoFlight
      /\ \A e \in Dirs : e # d => flight'[e] = flight[e]
  BY <1>1, <1>3 DEF Land
<1>5. /\ reader' \in [Readers -> Reads]
      /\ \A r \in Readers :
           reader'[r] = IF reader[r].pc = "wait" /\ reader[r].dir = d
                        THEN Done(r, v) ELSE reader[r]
  BY <1>2, <1>3 DEF Land
<1> QED
  BY <1>2, <1>4, <1>5

(* A step keeps the listings current when what it keeps was so and what it  *)
(* adds is.                                                                *)
LEMMA ListingsKept ==
  ASSUME ListingsAreCurrent, UNCHANGED <<remote, late>>,
         \A e \in Dirs :
           \/ cache'[e] = None
           \/ cache'[e] = cache[e] /\ (Dirty(e) => Dirty(e)')
           \/ e \in late \/ Dirty(e)' \/ cache'[e] = remote[e],
         \A e \in Dirs :
           \/ flight'[e].step # "store"
           \/ flight'[e].gen # generation'
           \/ /\ flight'[e] = flight[e]
              /\ generation' = generation
              /\ Dirty(e) => Dirty(e)'
  PROVE  ListingsAreCurrent'
<1>1. \A e \in Dirs : cache'[e] # None => e \in late \/ Dirty(e)' \/ cache'[e] = remote[e]
  BY DEF ListingsAreCurrent, Cached
<1>2. ASSUME NEW e \in Dirs, flight'[e].step = "store", flight'[e].gen = generation'
      PROVE  e \in late \/ Dirty(e)' \/ flight'[e].got = remote[e]
  BY <1>2 DEF ListingsAreCurrent
<1> QED
  BY <1>1, <1>2 DEF ListingsAreCurrent, Cached

(* A poll stores what it fetched, and takes it for the change only when the *)
(* server has made it.                                                     *)
LEMMA PollEffect ==
  ASSUME TypeOK, Progress, Poll
  PROVE  /\ mutation.pc = "pollStore"
         /\ mutation.await \in Dirs /\ mutation.got \in Versions
         /\ storeBrowse(mutation.await, mutation.got, mutation.gen)
         /\ mutation' \in Changes
         /\ mutation'.pc \in {"poll", "invalidate"}
         /\ mutation'.dirs = mutation.dirs /\ mutation'.gen = mutation.gen
         /\ mutation'.base = mutation.base /\ mutation'.promised = mutation.promised
         /\ mutation'.last = mutation.last
         /\ mutation'.pc = "poll" =>
              /\ ~mutation'.ok
              /\ \/ mutation'.await = mutation.await
                 \/ /\ mutation'.await = mutation.last
                    /\ remote[mutation.await] > mutation.base[mutation.await]
         /\ mutation'.ok =>
              /\ mutation.await = mutation.last
              /\ remote[mutation.await] > mutation.base[mutation.await]
<1>1. /\ mutation.pc = "pollStore"
      /\ storeBrowse(mutation.await, mutation.got, mutation.gen)
      /\ mutation.await \in Dirs /\ mutation.last \in Dirs /\ mutation.got \in Versions
      /\ mutation \in Changes /\ ~mutation.ok
  BY DEF Poll, Progress, TypeOK, Changes
<1>2. PICK seen \in Shows(mutation.await, mutation.got) :
        mutation' = IF seen THEN AfterWait(mutation) ELSE [mutation EXCEPT !.pc = "poll"]
  BY DEF Poll
<1>3. /\ mutation.got \in Int /\ remote[mutation.await] \in Int
      /\ mutation.base[mutation.await] \in Int
  BY <1>1, BrowseAssumption DEF Changes, Versions, TypeOK
<1>4. seen = (mutation.got > mutation.base[mutation.await])
  <2>1. mutation.base[mutation.await] <= mutation.got
    BY <1>1 DEF Progress
  <2> QED
    BY <1>2, <1>3, <2>1 DEF Shows
<1>5. seen => remote[mutation.await] > mutation.base[mutation.await]
  <2>1. mutation.got <= remote[mutation.await]
    BY <1>1 DEF Progress
  <2>2. mutation.got > mutation.base[mutation.await] =>
          remote[mutation.await] > mutation.base[mutation.await]
    BY <1>3, <2>1
  <2> QED
    BY <1>4, <2>2
<1>6. CASE ~seen
  BY <1>1, <1>2, <1>6 DEF Changes
<1>7. CASE seen /\ mutation.await = mutation.last
  <2>1. mutation' = [mutation EXCEPT !.pc = "invalidate", !.ok = TRUE]
    BY <1>2, <1>7 DEF AfterWait
  <2> QED
    BY <1>1, <1>5, <1>7, <2>1 DEF Changes
<1>8. CASE seen /\ mutation.await # mutation.last
  <2>1. mutation' = [mutation EXCEPT !.pc = "poll", !.await = mutation.last]
    BY <1>2, <1>8 DEF AfterWait
  <2> QED
    BY <1>1, <1>5, <1>8, <2>1 DEF Changes
<1> QED
  BY <1>6, <1>7, <1>8

(* Accepting a Copy or a Move begins its waits.                             *)
LEMMA AcceptEffect ==
  ASSUME TypeOK, CallAccepted
  PROVE  /\ mutation.pc = "call" /\ mutation' \in Changes /\ mutation'.pc = "poll"
         /\ mutation'.dirs = mutation.dirs /\ mutation'.gen = mutation.gen
         /\ mutation'.base = mutation.base /\ mutation'.ok = mutation.ok
         /\ mutation'.await \in mutation.dirs /\ mutation'.last \in mutation.dirs
         /\ mutation'.promised = {mutation'.await, mutation'.last}
         /\ mutation.dirs \in SUBSET Dirs /\ owing' \subseteq mutation.dirs
         /\ invalidatePaths(mutation.dirs)
         /\ UNCHANGED <<remote, flight, reader, cancelled, late>>
<1>1. PICK target \in mutation.dirs, source \in mutation.dirs :
        /\ owing' \subseteq mutation.dirs
        /\ mutation' = [mutation EXCEPT !.pc = "poll", !.await = target, !.last = source,
                                        !.promised = {target, source}]
  BY DEF CallAccepted
<1>2. mutation \in Changes /\ mutation.dirs \in SUBSET Dirs
  BY DEF TypeOK, Changes
<1>3. target \in Dirs /\ source \in Dirs
  BY <1>2
<1>4. {target, source} \in SUBSET Dirs
  BY <1>3
<1>5. mutation' \in Changes
  BY <1>1, <1>2, <1>3, <1>4 DEF Changes
<1>6. /\ mutation'.pc = "poll"
      /\ mutation'.dirs = mutation.dirs /\ mutation'.gen = mutation.gen
      /\ mutation'.base = mutation.base /\ mutation'.ok = mutation.ok
      /\ mutation'.await = target /\ mutation'.last = source
      /\ mutation'.promised = {target, source}
  BY <1>1, <1>2 DEF Changes
<1> QED
  BY <1>1, <1>2, <1>3, <1>5, <1>6 DEF CallAccepted

(* One directory at a time catches up. *)
LEMMA CatchUpEffect ==
  ASSUME TypeInv, ServerCatchesUp
  PROVE  \E d \in owing :
           /\ d \in Dirs
           /\ remote' \in [Dirs -> Versions]
           /\ remote'[d] = remote[d] + 1
           /\ \A e \in Dirs : e # d => remote'[e] = remote[e]
           /\ \A e \in Dirs : remote[e] \in Int /\ remote'[e] \in Int /\ remote[e] <= remote'[e]
           /\ owing' = owing \ {d}
           /\ late' = IF mutation.pc = "idle" THEN late \cup {d} ELSE late
           /\ UNCHANGED <<generation, cache, flight, reader, cancelled, mutation>>
<1>1. PICK d \in owing :
        /\ remote' = Changed({d})
        /\ owing' = owing \ {d}
        /\ late' = IF mutation.pc = "idle" THEN late \cup {d} ELSE late
        /\ UNCHANGED <<generation, cache, flight, reader, cancelled, mutation>>
  BY DEF ServerCatchesUp
<1>2. d \in Dirs /\ remote \in [Dirs -> Versions] /\ remote[d] < MaxVersion
  BY DEF TypeInv, TypeOK, Bounds
<1>3. \A e \in Dirs : remote'[e] = IF e = d THEN remote[e] + 1 ELSE remote[e]
  BY <1>1 DEF Changed
<1>4. remote' \in [Dirs -> Versions]
  BY <1>1, <1>2, <1>3, BrowseAssumption DEF Changed, Versions
<1>5. \A e \in Dirs : remote[e] \in Int /\ remote'[e] \in Int /\ remote[e] <= remote'[e]
  BY <1>2, <1>3, <1>4, BrowseAssumption DEF Versions
<1> QED
  BY <1>1, <1>2, <1>3, <1>4, <1>5

(* Every step keeps the types, and the number of entries within its bound. *)
LEMMA TypeOKStep ==
  ASSUME TypeInv, ReadersSeeTheirTime, [Next]_vars
  PROVE  TypeOK'
<1> USE DEF TypeInv
<1>1. ASSUME NEW r \in Readers, NEW d \in Dirs, BeginRead(r, d) PROVE TypeOK'
  <2>1. reader' \in [Readers -> Reads]
    BY <1>1, BrowseAssumption DEF BeginRead, TypeOK, Reads, NoReader
  <2> QED
    BY <1>1, <2>1, CachedSame DEF BeginRead, TypeOK
<1>2. ASSUME NEW r \in Readers, Cancel(r) PROVE TypeOK'
  <2>1. flight' \in [Dirs -> Flights]
    BY <1>2 DEF Cancel, TypeOK, Flights
  <2> QED
    BY <1>2, <2>1, CachedSame DEF Cancel, TypeOK
<1>3. ASSUME NEW r \in Readers, CacheHit(r) PROVE TypeOK'
  <2>1. cache[reader[r].dir] \in Versions \cup {None, Failed}
    BY <1>3 DEF CacheHit, ReadersSeeTheirTime, TypeOK
  <2>2. Done(r, cache[reader[r].dir]) \in Reads
    BY <2>1 DEF Done, Reads, TypeOK
  <2>3. reader' \in [Readers -> Reads]
    BY <1>3, <2>2 DEF CacheHit, TypeOK
  <2> QED
    BY <1>3, <2>3, CachedSame DEF CacheHit, TypeOK
<1>4. ASSUME NEW r \in Readers, CacheMiss(r) PROVE TypeOK'
  <2>1. reader' \in [Readers -> Reads]
    BY <1>4 DEF CacheMiss, TypeOK, Reads
  <2>2. reader[r].dir \in Dirs
    BY <1>4 DEF CacheMiss, ReadersSeeTheirTime
  <2>3. Missing(reader[r].dir) /\ generation \in Generations
    BY <1>4 DEF CacheMiss, TypeOK
  <2>4. /\ cache' \in [Dirs -> Versions \cup {None}]
        /\ Cardinality(Cached') <= MaxEntries
        /\ generation' \in Generations
    BY <2>2, <2>3, MissingEffect, BrowseAssumption DEF Generations
  <2> QED
    BY <1>4, <2>1, <2>4 DEF CacheMiss, TypeOK
<1>5. ASSUME NEW r \in Readers, Join(r) PROVE TypeOK'
  <2> DEFINE joins == flight[reader[r].dir] # NoFlight
             begun == [NoFlight EXCEPT !.step = "recheck",
                         !.leader = IF r \in cancelled THEN None ELSE r]
  <2>1. joins \in BOOLEAN
    OBVIOUS
  <2>2. reader' = [reader EXCEPT ![r] = [reader[r] EXCEPT !.pc = "wait", !.joined = joins]]
    BY <1>5 DEF Join, TypeOK
  <2>3. \A j \in BOOLEAN : [reader[r] EXCEPT !.pc = "wait", !.joined = j] \in Reads
    BY DEF TypeOK, Reads
  <2> HIDE DEF joins
  <2>4. reader' \in [Readers -> Reads]
    BY <2>1, <2>2, <2>3 DEF TypeOK
  <2>5. begun \in Flights
    <3>1. 0 \in Generations
      BY BrowseAssumption DEF Generations
    <3>2. \A l \in Readers \cup {None} :
            [NoFlight EXCEPT !.step = "recheck", !.leader = l] \in Flights
      BY <3>1 DEF NoFlight, Flights
    <3> QED
      BY <3>2
  <2>6. flight' = IF joins THEN flight ELSE [flight EXCEPT ![reader[r].dir] = begun]
    BY <1>5 DEF Join, joins
  <2> HIDE DEF begun
  <2>7. flight' \in [Dirs -> Flights]
    BY <2>5, <2>6 DEF TypeOK
  <2> QED
    BY <1>5, <2>4, <2>7, CachedSame DEF Join, TypeOK
<1>6. ASSUME NEW r \in Readers, WaitCancelled(r) PROVE TypeOK'
  <2>1. reader' \in [Readers -> Reads]
    BY <1>6 DEF WaitCancelled, TypeOK, Done, Reads
  <2> QED
    BY <1>6, <2>1, CachedSame DEF WaitCancelled, TypeOK
<1>7. ASSUME NEW r \in Readers, EndRead(r) PROVE TypeOK'
  <2>1. reader' \in [Readers -> Reads]
    BY <1>7, BrowseAssumption DEF EndRead, TypeOK, NoReader, Reads, Versions
  <2> QED
    BY <1>7, <2>1, CachedSame DEF EndRead, TypeOK
<1>8. ASSUME NEW d \in Dirs, FlightHit(d) PROVE TypeOK'
  <2>1. cache[d] \in Versions \cup {None, Failed} /\ Land(d, cache[d])
    BY <1>8 DEF FlightHit, TypeOK
  <2>2. flight' \in [Dirs -> Flights] /\ reader' \in [Readers -> Reads]
    BY <2>1, LandEffect
  <2> QED
    BY <1>8, <2>2, CachedSame DEF FlightHit, TypeOK
<1>9. ASSUME NEW d \in Dirs, FlightMiss(d) PROVE TypeOK'
  <2>1. flight' \in [Dirs -> Flights]
    BY <1>9 DEF FlightMiss, TypeOK, Flights
  <2>3. Missing(d) /\ generation \in Generations
    BY <1>9 DEF FlightMiss, TypeOK
  <2>4. /\ cache' \in [Dirs -> Versions \cup {None}]
        /\ Cardinality(Cached') <= MaxEntries
        /\ generation' \in Generations
    BY <2>3, MissingEffect, BrowseAssumption DEF Generations
  <2> QED
    BY <1>9, <2>1, <2>4 DEF FlightMiss, TypeOK
<1>10. ASSUME NEW d \in Dirs, FlightGeneration(d) PROVE TypeOK'
  <2>1. flight' \in [Dirs -> Flights]
    BY <1>10 DEF FlightGeneration, TypeOK, Flights
  <2> QED
    BY <1>10, <2>1, CachedSame DEF FlightGeneration, TypeOK
<1>11. ASSUME NEW d \in Dirs, FlightFetch(d) PROVE TypeOK'
  <2>1. flight' \in [Dirs -> Flights]
    BY <1>11 DEF FlightFetch, TypeOK, Flights
  <2> QED
    BY <1>11, <2>1, CachedSame DEF FlightFetch, TypeOK
<1>12. ASSUME NEW d \in Dirs, FlightFails(d) PROVE TypeOK'
  <2>1. Failed \in Versions \cup {None, Failed} /\ Land(d, Failed)
    BY <1>12 DEF FlightFails, TypeOK
  <2>2. flight' \in [Dirs -> Flights] /\ reader' \in [Readers -> Reads]
    BY <2>1, LandEffect
  <2> QED
    BY <1>12, <2>2, CachedSame DEF FlightFails, TypeOK
<1>13. ASSUME NEW d \in Dirs, FlightStore(d) PROVE TypeOK'
  <2>1. flight[d].got \in Versions \cup {None, Failed} /\ Land(d, flight[d].got)
    BY <1>13 DEF FlightStore, TypeOK, Flights
  <2>2. flight' \in [Dirs -> Flights] /\ reader' \in [Readers -> Reads]
    BY <2>1, LandEffect
  <2>3. /\ flight[d].got \in Versions \cup {None}
        /\ storeBrowse(d, flight[d].got, flight[d].gen)
    BY <1>13 DEF FlightStore, TypeOK, Flights
  <2>4. cache' \in [Dirs -> Versions \cup {None}] /\ Cardinality(Cached') <= MaxEntries
    BY <2>3, StoreEffect
  <2> QED
    BY <1>13, <2>2, <2>4 DEF FlightStore, TypeOK
<1>14. ASSUME NEW D \in SUBSET Dirs, BeginMutation(D) PROVE TypeOK'
  <2>1. [d \in Dirs |-> 0] \in [Dirs -> Versions] /\ 0 \in Generations
    BY BrowseAssumption DEF Versions, Generations
  <2>2. NoMutation \in Changes
    BY <2>1 DEF NoMutation, Changes
  <2>3. PICK start \in {"stat", "call"} :
          mutation' = [NoMutation EXCEPT !.pc = start, !.dirs = D, !.base = remote]
    BY <1>14 DEF BeginMutation
  <2>4. mutation' \in Changes
    BY <2>2, <2>3 DEF Changes, TypeOK
  <2> QED
    BY <1>14, <2>4, CachedSame DEF BeginMutation, TypeOK
<1>15. CASE StatGeneration
  <2>1. mutation' \in Changes
    BY <1>15 DEF StatGeneration, TypeOK, Changes
  <2> QED
    BY <1>15, <2>1, CachedSame DEF StatGeneration, TypeOK
<1>16. CASE StatFresh
  <2>1. mutation' \in Changes
    BY <1>16 DEF StatFresh, TypeOK, Changes
  <2>2. PICK d \in mutation.dirs : storeBrowse(d, remote[d], mutation.gen)
    BY <1>16 DEF StatFresh
  <2>3. d \in Dirs /\ remote[d] \in Versions \cup {None}
    BY DEF TypeOK, Changes
  <2>4. cache' \in [Dirs -> Versions \cup {None}] /\ Cardinality(Cached') <= MaxEntries
    BY <2>2, <2>3, StoreEffect
  <2> QED
    BY <1>16, <2>1, <2>4 DEF StatFresh, TypeOK
<1>17. CASE StatRefused
  <2>1. [d \in Dirs |-> 0] \in [Dirs -> Versions] /\ 0 \in Generations
    BY BrowseAssumption DEF Versions, Generations
  <2>2. NoMutation \in Changes
    BY <2>1 DEF NoMutation, Changes
  <2> QED
    BY <1>17, <2>2, CachedSame DEF StatRefused, TypeOK
<1>18. CASE Call
  <2>1. mutation' \in Changes
    BY <1>18 DEF Call, TypeOK, Changes
  <2>2. remote' \in [Dirs -> Versions]
    BY <1>18, BrowseAssumption
       DEF Call, Changed, TypeOK, Bounds, Versions, Changes
  <2> QED
    BY <1>18, <2>1, <2>2, CachedSame DEF Call, TypeOK
<1>19. CASE CallFails
  <2>1. mutation' \in Changes
    BY <1>19 DEF CallFails, TypeOK, Changes
  <2> QED
    BY <1>19, <2>1, CachedSame DEF CallFails, TypeOK
<1>20. CASE CallAccepted
  <2>1. mutation' \in Changes /\ owing' \subseteq Dirs
    BY <1>20, AcceptEffect
  <2>2. mutation.dirs \in SUBSET Dirs /\ invalidatePaths(mutation.dirs)
    BY <1>20, AcceptEffect
  <2>3. generation \in Nat /\ generation <= MaxGeneration
    BY <1>20, BrowseAssumption DEF CallAccepted, TypeOK, Bounds, Generations
  <2>4. /\ cache' \in [Dirs -> Versions \cup {None}]
        /\ Cardinality(Cached') <= MaxEntries
        /\ generation' = generation + 1
    BY <2>2, InvalidateEffect
  <2>5. generation' \in Generations
    BY <2>3, <2>4, BrowseAssumption DEF Generations
  <2> QED
    BY <1>20, <2>1, <2>4, <2>5 DEF CallAccepted, TypeOK
<1>21. CASE ServerCatchesUp
  <2>1. /\ remote' \in [Dirs -> Versions] /\ owing' \subseteq owing
        /\ late' \subseteq late \cup owing
        /\ UNCHANGED <<generation, cache, flight, reader, cancelled, mutation>>
    BY <1>21, CatchUpEffect
  <2> QED
    BY <2>1, CachedSame DEF TypeOK
<1>22. CASE Poll
  <2>1. mutation' \in Changes
    BY <1>22, PollEffect
  <2>2. /\ mutation.await \in Dirs /\ mutation.got \in Versions \cup {None}
        /\ storeBrowse(mutation.await, mutation.got, mutation.gen)
    BY <1>22, PollEffect
  <2>3. cache' \in [Dirs -> Versions \cup {None}] /\ Cardinality(Cached') <= MaxEntries
    BY <2>2, StoreEffect
  <2> QED
    BY <1>22, <2>1, <2>3 DEF Poll, TypeOK
<1>23. CASE PollFails
  <2>1. mutation' \in Changes
    BY <1>23 DEF PollFails, TypeOK, Changes
  <2> QED
    BY <1>23, <2>1, CachedSame DEF PollFails, TypeOK
<1>24. CASE Invalidate
  <2>1. mutation' \in Changes
    BY <1>24 DEF Invalidate, TypeOK, Changes
  <2>2. mutation.dirs \in SUBSET Dirs /\ invalidatePaths(mutation.dirs)
    BY <1>24 DEF Invalidate, TypeOK, Changes
  <2>3. generation \in Nat /\ generation <= MaxGeneration + 1
    BY <1>24, BrowseAssumption DEF Invalidate, TypeOK, Bounds, Generations
  <2>4. /\ cache' \in [Dirs -> Versions \cup {None}]
        /\ Cardinality(Cached') <= MaxEntries
        /\ generation' = generation + 1
    BY <2>2, InvalidateEffect
  <2>5. generation' \in Generations
    BY <2>3, <2>4, BrowseAssumption DEF Generations
  <2> QED
    BY <1>24, <2>1, <2>2, <2>4, <2>5 DEF Invalidate, TypeOK
<1>25. CASE Return
  <2>1. [d \in Dirs |-> 0] \in [Dirs -> Versions] /\ 0 \in Generations
    BY BrowseAssumption DEF Versions, Generations
  <2>2. NoMutation \in Changes
    BY <2>1 DEF NoMutation, Changes
  <2> QED
    BY <1>25, <2>2, CachedSame DEF Return, TypeOK
<1>26. CASE UNCHANGED vars
  BY <1>26, CachedSame DEF vars, TypeOK
<1>27. CASE PollFetch
  <2>1. mutation.await \in Dirs
    BY <1>27 DEF PollFetch, Progress, TypeOK, Changes
  <2>2. remote[mutation.await] \in Versions
    BY <2>1 DEF TypeOK
  <2>3. mutation' \in Changes
    BY <1>27, <2>2 DEF PollFetch, TypeOK, Changes
  <2> QED
    BY <1>27, <2>3, CachedSame DEF PollFetch, TypeOK
<1> QED
  BY <1>1, <1>2, <1>3, <1>4, <1>5, <1>6, <1>7, <1>8, <1>9, <1>10, <1>11, <1>12,
     <1>13, <1>14, <1>15, <1>16, <1>17, <1>18, <1>19, <1>20, <1>21, <1>22,
     <1>23, <1>24, <1>25, <1>26, <1>27 DEF Next

(* No mutation begins that could exceed the bounds before it ends. *)
LEMMA BoundsStep ==
  ASSUME TypeInv, [Next]_vars
  PROVE  Bounds'
<1> USE DEF TypeInv
<1>1. ASSUME NEW r \in Readers, NEW d \in Dirs, BeginRead(r, d) PROVE Bounds'
  BY <1>1 DEF BeginRead, Bounds
<1>2. ASSUME NEW r \in Readers, Cancel(r) PROVE Bounds'
  BY <1>2 DEF Cancel, Bounds
<1>3. ASSUME NEW r \in Readers, CacheHit(r) PROVE Bounds'
  BY <1>3 DEF CacheHit, Bounds
<1>4. ASSUME NEW r \in Readers, CacheMiss(r) PROVE Bounds'
  <2>1. generation' = generation \/ (generation' <= MaxGeneration /\ generation' \in Nat)
    BY <1>4, BrowseAssumption
       DEF Bounds, TypeOK, Flights, Reads, Changes, Versions, Generations,
           NoMutation, Progress, CacheMiss, Missing, invalidatePaths
  <2>2. UNCHANGED <<remote, mutation, owing>>
    BY <1>4, BrowseAssumption
       DEF Bounds, TypeOK, Flights, Reads, Changes, Versions, Generations,
           NoMutation, Progress, CacheMiss
  <2> QED
    BY <2>1, <2>2, BrowseAssumption DEF Bounds, TypeOK, Flights, Reads, Changes
<1>5. ASSUME NEW r \in Readers, Join(r) PROVE Bounds'
  BY <1>5 DEF Join, Bounds
<1>6. ASSUME NEW r \in Readers, WaitCancelled(r) PROVE Bounds'
  BY <1>6 DEF WaitCancelled, Bounds
<1>7. ASSUME NEW r \in Readers, EndRead(r) PROVE Bounds'
  BY <1>7 DEF EndRead, Bounds
<1>8. ASSUME NEW d \in Dirs, FlightHit(d) PROVE Bounds'
  BY <1>8 DEF FlightHit, Bounds
<1>9. ASSUME NEW d \in Dirs, FlightMiss(d) PROVE Bounds'
  BY <1>9, MissingEffect, BrowseAssumption
     DEF FlightMiss, Bounds, TypeOK, Flights, Reads, Changes, Versions,
         Generations, NoMutation, Progress
<1>10. ASSUME NEW d \in Dirs, FlightGeneration(d) PROVE Bounds'
  BY <1>10 DEF FlightGeneration, Bounds
<1>11. ASSUME NEW d \in Dirs, FlightFetch(d) PROVE Bounds'
  BY <1>11 DEF FlightFetch, Bounds
<1>12. ASSUME NEW d \in Dirs, FlightFails(d) PROVE Bounds'
  BY <1>12 DEF FlightFails, Bounds
<1>13. ASSUME NEW d \in Dirs, FlightStore(d) PROVE Bounds'
  BY <1>13, StoreEffect DEF FlightStore, Bounds
<1>14. ASSUME NEW D \in SUBSET Dirs, BeginMutation(D) PROVE Bounds'
  BY <1>14, BrowseAssumption
     DEF BeginMutation, Bounds, TypeOK, Flights, Reads, Changes, Versions,
         Generations, NoMutation, Progress
<1>15. CASE StatGeneration
  BY <1>15 DEF StatGeneration, Bounds
<1>16. CASE StatFresh
  BY <1>16, StoreEffect DEF StatFresh, Bounds
<1>17. CASE StatRefused
  BY <1>17, BrowseAssumption
     DEF StatRefused, Bounds, TypeOK, Flights, Reads, Changes, Versions,
         Generations, NoMutation, Progress
<1>18. CASE Call
  BY <1>18, BrowseAssumption
     DEF Call, Bounds, TypeOK, Flights, Reads, Changes, Versions, Generations,
         NoMutation, Progress, Changed
<1>19. CASE CallFails
  BY <1>19, BrowseAssumption
     DEF CallFails, Bounds, TypeOK, Flights, Reads, Changes, Versions,
         Generations, NoMutation, Progress
<1>20. CASE CallAccepted
  <2>1. /\ generation' = generation + 1 /\ mutation.pc = "call" /\ mutation'.pc = "poll"
        /\ owing' \subseteq mutation.dirs /\ UNCHANGED remote
    BY <1>20, AcceptEffect, InvalidateEffect
  <2>2. /\ generation <= MaxGeneration /\ generation \in Nat
        /\ \A d \in mutation.dirs : remote[d] < MaxVersion
    BY <2>1, BrowseAssumption DEF Bounds, TypeOK, Generations
  <2>3. generation' <= MaxGeneration + 1
    BY <2>1, <2>2, BrowseAssumption
  <2> QED
    BY <2>1, <2>2, <2>3 DEF Bounds
<1>21. CASE ServerCatchesUp
  <2>1. PICK d \in owing :
          /\ d \in Dirs /\ owing' = owing \ {d} /\ UNCHANGED <<generation, mutation>>
          /\ \A e \in Dirs : e # d => remote'[e] = remote[e]
    BY <1>21, CatchUpEffect
  <2>2. mutation.pc \notin {"stat", "statFetch", "call"}
    BY <2>1 DEF Progress
  <2>3. \A e \in owing' : remote'[e] < MaxVersion
    BY <2>1 DEF Bounds, TypeOK
  <2> QED
    BY <2>1, <2>2, <2>3 DEF Bounds
<1>22. CASE Poll
  BY <1>22, PollEffect DEF Poll, Bounds
<1>23. CASE PollFails
  BY <1>23 DEF PollFails, Bounds
<1>24. CASE Invalidate
  BY <1>24, InvalidateEffect DEF Invalidate, Bounds
<1>25. CASE Return
  BY <1>25, BrowseAssumption
     DEF Return, Bounds, TypeOK, Flights, Reads, Changes, Versions,
         Generations, NoMutation, Progress
<1>26. CASE UNCHANGED vars
  BY <1>26 DEF vars, Bounds
<1>27. CASE PollFetch
  BY <1>27 DEF PollFetch, Bounds, TypeOK, Changes
<1> QED
  BY <1>1, <1>2, <1>3, <1>4, <1>5, <1>6, <1>7, <1>8, <1>9, <1>10, <1>11, <1>12,
     <1>13, <1>14, <1>15, <1>16, <1>17, <1>18, <1>19, <1>20, <1>21, <1>22,
     <1>23, <1>24, <1>25, <1>26, <1>27 DEF Next

(* What the server owes was asked for by the current mutation, and a wait   *)
(* ends only when it has seen its directory changed.                        *)
LEMMA ProgressStep ==
  ASSUME TypeInv, [Next]_vars
  PROVE  Progress'
<1> USE DEF TypeInv
<1>1. ASSUME NEW r \in Readers, NEW d \in Dirs, BeginRead(r, d) PROVE Progress'
  BY <1>1 DEF BeginRead, Progress
<1>2. ASSUME NEW r \in Readers, Cancel(r) PROVE Progress'
  BY <1>2 DEF Cancel, Progress
<1>3. ASSUME NEW r \in Readers, CacheHit(r) PROVE Progress'
  BY <1>3 DEF CacheHit, Progress
<1>4. ASSUME NEW r \in Readers, CacheMiss(r) PROVE Progress'
  BY <1>4, MissingEffect DEF CacheMiss, Progress
<1>5. ASSUME NEW r \in Readers, Join(r) PROVE Progress'
  BY <1>5 DEF Join, Progress
<1>6. ASSUME NEW r \in Readers, WaitCancelled(r) PROVE Progress'
  BY <1>6 DEF WaitCancelled, Progress
<1>7. ASSUME NEW r \in Readers, EndRead(r) PROVE Progress'
  BY <1>7 DEF EndRead, Progress
<1>8. ASSUME NEW d \in Dirs, FlightHit(d) PROVE Progress'
  BY <1>8 DEF FlightHit, Progress
<1>9. ASSUME NEW d \in Dirs, FlightMiss(d) PROVE Progress'
  BY <1>9, MissingEffect DEF FlightMiss, Progress
<1>10. ASSUME NEW d \in Dirs, FlightGeneration(d) PROVE Progress'
  BY <1>10 DEF FlightGeneration, Progress
<1>11. ASSUME NEW d \in Dirs, FlightFetch(d) PROVE Progress'
  BY <1>11 DEF FlightFetch, Progress
<1>12. ASSUME NEW d \in Dirs, FlightFails(d) PROVE Progress'
  BY <1>12 DEF FlightFails, Progress
<1>13. ASSUME NEW d \in Dirs, FlightStore(d) PROVE Progress'
  BY <1>13, StoreEffect DEF FlightStore, Progress
<1>14. ASSUME NEW D \in SUBSET Dirs, BeginMutation(D) PROVE Progress'
  <2>1. PICK start \in {"stat", "call"} :
          mutation' = [NoMutation EXCEPT !.pc = start, !.dirs = D, !.base = remote]
    BY <1>14 DEF BeginMutation
  <2>2. /\ mutation'.pc = start /\ mutation'.base = remote /\ ~mutation'.ok
        /\ owing = {} /\ UNCHANGED <<remote, owing>>
    BY <1>14, <2>1 DEF BeginMutation, NoMutation
  <2>3. \A d \in Dirs : remote[d] \in Int
    BY BrowseAssumption DEF TypeOK, Versions
  <2> QED
    BY <2>2, <2>3 DEF Progress
<1>15. CASE StatGeneration
  BY <1>15 DEF StatGeneration, Progress
<1>16. CASE StatFresh
  BY <1>16, StoreEffect DEF StatFresh, Progress
<1>17. CASE StatRefused
  BY <1>17, BrowseAssumption
     DEF StatRefused, Progress, TypeOK, Flights, Reads, Changes, Versions,
         NoMutation
<1>18. CASE Call
  <2>1. /\ mutation.pc = "call" /\ mutation'.pc = "invalidate"
        /\ mutation'.dirs = mutation.dirs /\ mutation'.base = remote
        /\ mutation'.promised = mutation.dirs /\ owing' = {}
    BY <1>18 DEF Call, Progress, TypeOK, Changes
  <2>2. mutation.dirs \subseteq Dirs
    BY DEF TypeOK, Changes
  <2>3. \A d \in Dirs :
          /\ remote[d] \in Int
          /\ remote'[d] = IF d \in mutation.dirs THEN remote[d] + 1 ELSE remote[d]
    BY <1>18, BrowseAssumption DEF Call, Changed, TypeOK, Versions
  <2>4. /\ \A d \in Dirs : mutation'.base[d] <= remote'[d]
        /\ \A d \in mutation'.promised : remote'[d] > mutation'.base[d]
    BY <2>1, <2>2, <2>3
  <2> QED
    BY <2>1, <2>4 DEF Progress
<1>19. CASE CallFails
  BY <1>19 DEF CallFails, Progress
<1>20. CASE CallAccepted
  BY <1>20, AcceptEffect DEF Progress
<1>21. CASE ServerCatchesUp
  <2>1. PICK d \in owing :
          /\ d \in Dirs /\ owing' = owing \ {d} /\ UNCHANGED mutation
          /\ \A e \in Dirs : remote[e] \in Int /\ remote'[e] \in Int /\ remote[e] <= remote'[e]
    BY <1>21, CatchUpEffect
  <2>2. /\ \A e \in Dirs : mutation.base[e] \in Int
        /\ mutation.promised \subseteq Dirs
        /\ \A v \in Versions : v \in Int
    BY BrowseAssumption DEF TypeOK, Changes, Versions
  <2>3. mutation.pc \notin {"stat", "statFetch", "call"}
    BY <2>1 DEF Progress
  <2>4. \A e \in Dirs : remote[e] > mutation.base[e] => remote'[e] > mutation.base[e]
    BY <2>1, <2>2
  <2>5. mutation.pc # "idle" =>
          owing' \subseteq mutation.dirs /\ \A e \in Dirs : mutation.base[e] <= remote'[e]
    BY <2>1, <2>2 DEF Progress
  <2>6. mutation.pc \in {"poll", "pollFetch", "pollStore"} =>
          \A e \in mutation.promised :
            e = mutation.await \/ e = mutation.last \/ remote'[e] > mutation.base[e]
    BY <2>2, <2>4 DEF Progress
  <2>7. mutation.pc = "pollStore" => mutation.got <= remote'[mutation.await]
    <3>1. mutation.pc = "pollStore" =>
            /\ mutation.await \in Dirs /\ mutation.got \in Int
            /\ mutation.got <= remote[mutation.await]
      BY <2>2 DEF Progress, TypeOK, Changes
    <3> QED
      BY <2>1, <3>1
  <2>8. mutation.ok => \A e \in mutation.promised : remote'[e] > mutation.base[e]
    BY <2>2, <2>4 DEF Progress
  <2> QED
    BY <2>1, <2>3, <2>5, <2>6, <2>7, <2>8 DEF Progress
<1>22. CASE Poll
  <2>1. UNCHANGED <<remote, owing>>
    BY <1>22 DEF Poll
  <2>2. mutation.pc = "pollStore"
    BY <1>22, PollEffect
  <2>3. mutation'.pc = "poll" => Progress'
    BY <1>22, <2>1, <2>2, PollEffect DEF Progress
  <2>4. mutation'.pc = "invalidate" => Progress'
    BY <1>22, <2>1, <2>2, PollEffect DEF Progress
  <2> QED
    BY <1>22, <2>3, <2>4, PollEffect
<1>23. CASE PollFails
  BY <1>23 DEF PollFails, Progress
<1>24. CASE Invalidate
  BY <1>24, InvalidateEffect DEF Invalidate, Progress
<1>25. CASE Return
  BY <1>25, BrowseAssumption
     DEF Return, Progress, TypeOK, Flights, Reads, Changes, Versions,
         NoMutation
<1>26. CASE UNCHANGED vars
  BY <1>26 DEF vars, Progress
<1>27. CASE PollFetch
  <2>1. /\ mutation.pc = "pollFetch" /\ mutation.await \in Dirs
        /\ UNCHANGED <<remote, owing>>
        /\ mutation' = [mutation EXCEPT !.pc = "pollStore", !.got = remote[mutation.await]]
    BY <1>27 DEF PollFetch, Progress, TypeOK, Changes
  <2>2. remote[mutation.await] \in Versions /\ remote[mutation.await] \in Int
    BY <2>1, BrowseAssumption DEF TypeOK, Versions
  <2>3. /\ mutation'.pc = "pollStore" /\ mutation'.got = remote[mutation.await]
        /\ mutation'.dirs = mutation.dirs /\ mutation'.base = mutation.base
        /\ mutation'.await = mutation.await /\ mutation'.last = mutation.last
        /\ mutation'.promised = mutation.promised /\ mutation'.ok = mutation.ok
    BY <2>1 DEF TypeOK, Changes
  <2> QED
    BY <2>1, <2>2, <2>3 DEF Progress
<1> QED
  BY <1>1, <1>2, <1>3, <1>4, <1>5, <1>6, <1>7, <1>8, <1>9, <1>10, <1>11, <1>12,
     <1>13, <1>14, <1>15, <1>16, <1>17, <1>18, <1>19, <1>20, <1>21, <1>22,
     <1>23, <1>24, <1>25, <1>26, <1>27 DEF Next

(* A reader that leaves or is cancelled takes its flight's context along,   *)
(* and none is admitted beside a mutation.                                  *)
LEMMA FlightsAreLedStep ==
  ASSUME TypeInv, FlightsAreLed, [Next]_vars
  PROVE  FlightsAreLed'
<1> USE DEF TypeInv
<1>1. ASSUME NEW r \in Readers, NEW d \in Dirs, BeginRead(r, d)
      PROVE FlightsAreLed'
  BY <1>1 DEF BeginRead, FlightsAreLed
<1>2. ASSUME NEW r \in Readers, Cancel(r) PROVE FlightsAreLed'
  BY <1>2 DEF Cancel, FlightsAreLed
<1>3. ASSUME NEW r \in Readers, CacheHit(r) PROVE FlightsAreLed'
  BY <1>3 DEF CacheHit, FlightsAreLed
<1>4. ASSUME NEW r \in Readers, CacheMiss(r) PROVE FlightsAreLed'
  BY <1>4, MissingEffect DEF CacheMiss, FlightsAreLed
<1>5. ASSUME NEW r \in Readers, Join(r) PROVE FlightsAreLed'
  <2>1. /\ mutation.pc = "idle" /\ UNCHANGED <<mutation, cancelled>>
        /\ reader[r].pc = "join"
    BY <1>5 DEF Join, FlightsAreLed
  <2>2. reader'[r].pc = "wait" /\ reader'[r].dir = reader[r].dir
        /\ \A s \in Readers : s # r => reader'[s] = reader[s]
    BY <1>5 DEF Join, TypeOK, Reads
  <2>3. \A e \in Dirs : \/ flight'[e] = flight[e]
                        \/ /\ e = reader[r].dir
                           /\ flight'[e].leader = IF r \in cancelled THEN None ELSE r
    BY <1>5 DEF Join, TypeOK, NoFlight
  <2>4. ASSUME NEW e \in Dirs, flight'[e].leader # None
        PROVE  LET s == flight'[e].leader
               IN reader'[s].pc = "wait" /\ reader'[s].dir = e /\ s \notin cancelled
    <3>1. CASE flight'[e] = flight[e]
      <4>1. flight[e].leader \in Readers /\ flight[e].leader # r
        BY <2>1, <2>4, <3>1 DEF TypeOK, Flights, FlightsAreLed
      <4> QED
        BY <2>2, <2>4, <3>1, <4>1 DEF FlightsAreLed
    <3>2. CASE e = reader[r].dir /\ flight'[e].leader = IF r \in cancelled THEN None ELSE r
      BY <2>2, <2>4, <3>2
    <3> QED
      BY <2>3, <3>1, <3>2
  <2> QED
    BY <2>1, <2>4 DEF FlightsAreLed
<1>6. ASSUME NEW r \in Readers, WaitCancelled(r) PROVE FlightsAreLed'
  BY <1>6 DEF WaitCancelled, FlightsAreLed
<1>7. ASSUME NEW r \in Readers, EndRead(r) PROVE FlightsAreLed'
  BY <1>7 DEF EndRead, FlightsAreLed
<1>8. ASSUME NEW d \in Dirs, FlightHit(d) PROVE FlightsAreLed'
  <2>1. cache[d] \in Versions \cup {None, Failed} /\ Land(d, cache[d])
    BY <1>8 DEF FlightHit, TypeOK, Flights
  <2>2. /\ flight'[d] = NoFlight
        /\ \A e \in Dirs : e # d => flight'[e] = flight[e]
        /\ \A r \in Readers :
             IF reader[r].pc = "wait" /\ reader[r].dir = d
             THEN /\ reader'[r].pc = "done"
                  /\ reader'[r].dir = d
                  /\ reader'[r].since = reader[r].since
                  /\ reader'[r].got = cache[d]
                  /\ reader'[r].joined = reader[r].joined
             ELSE reader'[r] = reader[r]
    BY <2>1, LandEffect
  <2>3. NoFlight.leader = None
    BY DEF NoFlight
  <2>4. UNCHANGED <<mutation, cancelled>>
    BY <1>8 DEF FlightHit
  <2>6. ASSUME NEW e \in Dirs, flight'[e].leader # None
        PROVE  LET r == flight'[e].leader
               IN reader'[r].pc = "wait" /\ reader'[r].dir = e /\ r \notin cancelled'
    <3>1. e # d /\ flight'[e] = flight[e]
      BY <2>2, <2>3, <2>6
    <3>2. flight[e].leader \in Readers
      BY <2>6, <3>1 DEF TypeOK, Flights
    <3> QED
      BY <2>2, <2>4, <2>6, <3>1, <3>2 DEF FlightsAreLed
  <2>7. mutation.pc # "idle" => \A r \in Readers : reader'[r].pc = "idle"
    BY <2>2 DEF FlightsAreLed
  <2> QED
    BY <2>4, <2>6, <2>7 DEF FlightsAreLed
<1>9. ASSUME NEW d \in Dirs, FlightMiss(d) PROVE FlightsAreLed'
  BY <1>9, MissingEffect DEF FlightMiss, FlightsAreLed
<1>10. ASSUME NEW d \in Dirs, FlightGeneration(d) PROVE FlightsAreLed'
  BY <1>10 DEF FlightGeneration, FlightsAreLed, TypeOK
<1>11. ASSUME NEW d \in Dirs, FlightFetch(d) PROVE FlightsAreLed'
  BY <1>11 DEF FlightFetch, FlightsAreLed, TypeOK
<1>12. ASSUME NEW d \in Dirs, FlightFails(d) PROVE FlightsAreLed'
  <2>1. Failed \in Versions \cup {None, Failed} /\ Land(d, Failed)
    BY <1>12 DEF FlightFails, TypeOK, Flights
  <2>2. /\ flight'[d] = NoFlight
        /\ \A e \in Dirs : e # d => flight'[e] = flight[e]
        /\ \A r \in Readers :
             IF reader[r].pc = "wait" /\ reader[r].dir = d
             THEN /\ reader'[r].pc = "done"
                  /\ reader'[r].dir = d
                  /\ reader'[r].since = reader[r].since
                  /\ reader'[r].got = Failed
                  /\ reader'[r].joined = reader[r].joined
             ELSE reader'[r] = reader[r]
    BY <2>1, LandEffect
  <2>3. NoFlight.leader = None
    BY DEF NoFlight
  <2>4. UNCHANGED <<mutation, cancelled>>
    BY <1>12 DEF FlightFails
  <2>6. ASSUME NEW e \in Dirs, flight'[e].leader # None
        PROVE  LET r == flight'[e].leader
               IN reader'[r].pc = "wait" /\ reader'[r].dir = e /\ r \notin cancelled'
    <3>1. e # d /\ flight'[e] = flight[e]
      BY <2>2, <2>3, <2>6
    <3>2. flight[e].leader \in Readers
      BY <2>6, <3>1 DEF TypeOK, Flights
    <3> QED
      BY <2>2, <2>4, <2>6, <3>1, <3>2 DEF FlightsAreLed
  <2>7. mutation.pc # "idle" => \A r \in Readers : reader'[r].pc = "idle"
    BY <2>2 DEF FlightsAreLed
  <2> QED
    BY <2>4, <2>6, <2>7 DEF FlightsAreLed
<1>13. ASSUME NEW d \in Dirs, FlightStore(d) PROVE FlightsAreLed'
  <2>1. flight[d].got \in Versions \cup {None, Failed} /\ Land(d, flight[d].got)
    BY <1>13 DEF FlightStore, TypeOK, Flights
  <2>2. /\ flight'[d] = NoFlight
        /\ \A e \in Dirs : e # d => flight'[e] = flight[e]
        /\ \A r \in Readers :
             IF reader[r].pc = "wait" /\ reader[r].dir = d
             THEN /\ reader'[r].pc = "done"
                  /\ reader'[r].dir = d
                  /\ reader'[r].since = reader[r].since
                  /\ reader'[r].got = flight[d].got
                  /\ reader'[r].joined = reader[r].joined
             ELSE reader'[r] = reader[r]
    BY <2>1, LandEffect
  <2>3. NoFlight.leader = None
    BY DEF NoFlight
  <2>4. UNCHANGED <<mutation, cancelled>>
    BY <1>13 DEF FlightStore
  <2>6. ASSUME NEW e \in Dirs, flight'[e].leader # None
        PROVE  LET r == flight'[e].leader
               IN reader'[r].pc = "wait" /\ reader'[r].dir = e /\ r \notin cancelled'
    <3>1. e # d /\ flight'[e] = flight[e]
      BY <2>2, <2>3, <2>6
    <3>2. flight[e].leader \in Readers
      BY <2>6, <3>1 DEF TypeOK, Flights
    <3> QED
      BY <2>2, <2>4, <2>6, <3>1, <3>2 DEF FlightsAreLed
  <2>7. mutation.pc # "idle" => \A r \in Readers : reader'[r].pc = "idle"
    BY <2>2 DEF FlightsAreLed
  <2> QED
    BY <2>4, <2>6, <2>7 DEF FlightsAreLed
<1>14. ASSUME NEW D \in SUBSET Dirs, BeginMutation(D) PROVE FlightsAreLed'
  BY <1>14 DEF BeginMutation, FlightsAreLed
<1>15. CASE StatGeneration
  BY <1>15 DEF StatGeneration, FlightsAreLed
<1>16. CASE StatFresh
  BY <1>16, StoreEffect DEF StatFresh, FlightsAreLed
<1>17. CASE StatRefused
  BY <1>17 DEF StatRefused, FlightsAreLed
<1>18. CASE Call
  BY <1>18 DEF Call, FlightsAreLed
<1>19. CASE CallFails
  BY <1>19 DEF CallFails, FlightsAreLed
<1>20. CASE CallAccepted
  BY <1>20, AcceptEffect DEF FlightsAreLed
<1>21. CASE ServerCatchesUp
  BY <1>21 DEF ServerCatchesUp, FlightsAreLed
<1>22. CASE Poll
  BY <1>22, PollEffect DEF Poll, FlightsAreLed
<1>23. CASE PollFails
  BY <1>23 DEF PollFails, FlightsAreLed
<1>24. CASE Invalidate
  BY <1>24, InvalidateEffect DEF Invalidate, FlightsAreLed
<1>25. CASE Return
  BY <1>25 DEF Return, FlightsAreLed
<1>26. CASE UNCHANGED vars
  BY <1>26 DEF vars, FlightsAreLed
<1>27. CASE PollFetch
  BY <1>27 DEF PollFetch, FlightsAreLed
<1> QED
  BY <1>1, <1>2, <1>3, <1>4, <1>5, <1>6, <1>7, <1>8, <1>9, <1>10, <1>11, <1>12,
     <1>13, <1>14, <1>15, <1>16, <1>17, <1>18, <1>19, <1>20, <1>21, <1>22,
     <1>23, <1>24, <1>25, <1>26, <1>27 DEF Next

(* Flights and mutations note the generation, which only grows. *)
LEMMA GenerationsPassStep ==
  ASSUME TypeInv, GenerationsPass, [Next]_vars
  PROVE  GenerationsPass'
<1> USE DEF TypeInv
<1>1. ASSUME NEW r \in Readers, NEW d \in Dirs, BeginRead(r, d)
      PROVE GenerationsPass'
  BY <1>1 DEF BeginRead, GenerationsPass
<1>2. ASSUME NEW r \in Readers, Cancel(r) PROVE GenerationsPass'
  BY <1>2 DEF Cancel, GenerationsPass
<1>3. ASSUME NEW r \in Readers, CacheHit(r) PROVE GenerationsPass'
  BY <1>3 DEF CacheHit, GenerationsPass
<1>4. ASSUME NEW r \in Readers, CacheMiss(r) PROVE GenerationsPass'
  <2>1. generation \in Nat /\ (generation' = generation \/ generation' = generation + 1)
    BY <1>4, BrowseAssumption
       DEF CacheMiss, Missing, invalidatePaths, TypeOK, Generations
  <2>2. /\ mutation'.gen = mutation.gen /\ mutation.gen \in Nat
        /\ \A e \in Dirs : flight'[e].gen = flight[e].gen /\ flight[e].gen \in Nat
    BY <1>4, BrowseAssumption
       DEF CacheMiss, TypeOK, Generations, Flights, Changes
  <2> QED
    BY <2>1, <2>2 DEF GenerationsPass
<1>5. ASSUME NEW r \in Readers, Join(r) PROVE GenerationsPass'
  BY <1>5 DEF Join, GenerationsPass
<1>6. ASSUME NEW r \in Readers, WaitCancelled(r) PROVE GenerationsPass'
  BY <1>6 DEF WaitCancelled, GenerationsPass
<1>7. ASSUME NEW r \in Readers, EndRead(r) PROVE GenerationsPass'
  BY <1>7 DEF EndRead, GenerationsPass
<1>8. ASSUME NEW d \in Dirs, FlightHit(d) PROVE GenerationsPass'
  <2>1. cache[d] \in Versions \cup {None, Failed} /\ Land(d, cache[d])
    BY <1>8 DEF FlightHit, TypeOK, Flights
  <2>2. /\ flight'[d] = NoFlight
        /\ \A e \in Dirs : e # d => flight'[e] = flight[e]
        /\ \A r \in Readers :
             IF reader[r].pc = "wait" /\ reader[r].dir = d
             THEN /\ reader'[r].pc = "done"
                  /\ reader'[r].dir = d
                  /\ reader'[r].since = reader[r].since
                  /\ reader'[r].got = cache[d]
                  /\ reader'[r].joined = reader[r].joined
             ELSE reader'[r] = reader[r]
    BY <2>1, LandEffect
  <2>3. NoFlight.gen = 0 /\ 0 <= generation
    BY BrowseAssumption DEF NoFlight, TypeOK, Generations
  <2>4. UNCHANGED <<mutation, generation>>
    BY <1>8 DEF FlightHit
  <2> QED
    BY <2>2, <2>3, <2>4 DEF GenerationsPass
<1>9. ASSUME NEW d \in Dirs, FlightMiss(d) PROVE GenerationsPass'
  <2>1. generation \in Nat /\ (generation' = generation \/ generation' = generation + 1)
    BY <1>9, BrowseAssumption
       DEF FlightMiss, Missing, invalidatePaths, TypeOK, Generations
  <2>2. /\ mutation'.gen = mutation.gen /\ mutation.gen \in Nat
        /\ \A e \in Dirs : flight'[e].gen = flight[e].gen /\ flight[e].gen \in Nat
    BY <1>9, BrowseAssumption
       DEF FlightMiss, TypeOK, Generations, Flights, Changes
  <2> QED
    BY <2>1, <2>2 DEF GenerationsPass
<1>10. ASSUME NEW d \in Dirs, FlightGeneration(d) PROVE GenerationsPass'
  BY <1>10
     DEF FlightGeneration, GenerationsPass, TypeOK, Flights, Reads, Changes
<1>11. ASSUME NEW d \in Dirs, FlightFetch(d) PROVE GenerationsPass'
  BY <1>11 DEF FlightFetch, GenerationsPass, TypeOK
<1>12. ASSUME NEW d \in Dirs, FlightFails(d) PROVE GenerationsPass'
  <2>1. Failed \in Versions \cup {None, Failed} /\ Land(d, Failed)
    BY <1>12 DEF FlightFails, TypeOK, Flights
  <2>2. /\ flight'[d] = NoFlight
        /\ \A e \in Dirs : e # d => flight'[e] = flight[e]
        /\ \A r \in Readers :
             IF reader[r].pc = "wait" /\ reader[r].dir = d
             THEN /\ reader'[r].pc = "done"
                  /\ reader'[r].dir = d
                  /\ reader'[r].since = reader[r].since
                  /\ reader'[r].got = Failed
                  /\ reader'[r].joined = reader[r].joined
             ELSE reader'[r] = reader[r]
    BY <2>1, LandEffect
  <2>3. NoFlight.gen = 0 /\ 0 <= generation
    BY BrowseAssumption DEF NoFlight, TypeOK, Generations
  <2>4. UNCHANGED <<mutation, generation>>
    BY <1>12 DEF FlightFails
  <2> QED
    BY <2>2, <2>3, <2>4 DEF GenerationsPass
<1>13. ASSUME NEW d \in Dirs, FlightStore(d) PROVE GenerationsPass'
  <2>1. flight[d].got \in Versions \cup {None, Failed} /\ Land(d, flight[d].got)
    BY <1>13 DEF FlightStore, TypeOK, Flights
  <2>2. /\ flight'[d] = NoFlight
        /\ \A e \in Dirs : e # d => flight'[e] = flight[e]
        /\ \A r \in Readers :
             IF reader[r].pc = "wait" /\ reader[r].dir = d
             THEN /\ reader'[r].pc = "done"
                  /\ reader'[r].dir = d
                  /\ reader'[r].since = reader[r].since
                  /\ reader'[r].got = flight[d].got
                  /\ reader'[r].joined = reader[r].joined
             ELSE reader'[r] = reader[r]
    BY <2>1, LandEffect
  <2>3. NoFlight.gen = 0 /\ 0 <= generation
    BY BrowseAssumption DEF NoFlight, TypeOK, Generations
  <2>4. UNCHANGED <<mutation, generation>>
    BY <1>13 DEF FlightStore
  <2> QED
    BY <2>2, <2>3, <2>4 DEF GenerationsPass
<1>14. ASSUME NEW D \in SUBSET Dirs, BeginMutation(D) PROVE GenerationsPass'
  BY <1>14, BrowseAssumption
     DEF BeginMutation, GenerationsPass, TypeOK, Flights, Reads, Changes,
         Generations, NoFlight, NoMutation
<1>15. CASE StatGeneration
  BY <1>15, BrowseAssumption
     DEF StatGeneration, GenerationsPass, TypeOK, Flights, Reads, Changes,
         Generations, NoFlight, NoMutation
<1>16. CASE StatFresh
  BY <1>16, StoreEffect DEF StatFresh, GenerationsPass
<1>17. CASE StatRefused
  BY <1>17, BrowseAssumption
     DEF StatRefused, GenerationsPass, TypeOK, Flights, Reads, Changes,
         Generations, NoFlight, NoMutation
<1>18. CASE Call
  BY <1>18 DEF Call, GenerationsPass
<1>19. CASE CallFails
  BY <1>19 DEF CallFails, GenerationsPass
<1>20. CASE CallAccepted
  <2>1. generation \in Nat /\ generation' = generation + 1
    BY <1>20, BrowseAssumption
       DEF CallAccepted, invalidatePaths, TypeOK, Generations
  <2>2. /\ mutation'.gen = mutation.gen /\ mutation.gen \in Nat
        /\ \A e \in Dirs : flight'[e].gen = flight[e].gen /\ flight[e].gen \in Nat
    BY <1>20, AcceptEffect, BrowseAssumption DEF TypeOK, Generations, Flights, Changes
  <2> QED
    BY <2>1, <2>2 DEF GenerationsPass
<1>21. CASE ServerCatchesUp
  BY <1>21 DEF ServerCatchesUp, GenerationsPass
<1>22. CASE Poll
  BY <1>22, PollEffect DEF Poll, GenerationsPass
<1>23. CASE PollFails
  BY <1>23 DEF PollFails, GenerationsPass
<1>24. CASE Invalidate
  <2>1. generation \in Nat /\ (generation' = generation \/ generation' = generation + 1)
    BY <1>24, BrowseAssumption
       DEF Invalidate, invalidatePaths, TypeOK, Generations
  <2>2. /\ mutation'.gen = mutation.gen /\ mutation.gen \in Nat
        /\ \A e \in Dirs : flight'[e].gen = flight[e].gen /\ flight[e].gen \in Nat
    BY <1>24, BrowseAssumption
       DEF Invalidate, TypeOK, Generations, Flights, Changes
  <2> QED
    BY <2>1, <2>2 DEF GenerationsPass
<1>25. CASE Return
  BY <1>25, BrowseAssumption
     DEF Return, GenerationsPass, TypeOK, Flights, Reads, Changes, Generations,
         NoFlight, NoMutation
<1>26. CASE UNCHANGED vars
  BY <1>26 DEF vars, GenerationsPass
<1>27. CASE PollFetch
  BY <1>27 DEF PollFetch, GenerationsPass, TypeOK, Changes
<1> QED
  BY <1>1, <1>2, <1>3, <1>4, <1>5, <1>6, <1>7, <1>8, <1>9, <1>10, <1>11, <1>12,
     <1>13, <1>14, <1>15, <1>16, <1>17, <1>18, <1>19, <1>20, <1>21, <1>22,
     <1>23, <1>24, <1>25, <1>26, <1>27 DEF Next

(* What enters the cache was fetched in this generation: after the last     *)
(* invalidation of whatever changed since.                                  *)
LEMMA ListingsAreCurrentStep ==
  ASSUME TypeInv, FlightsAreLed, GenerationsPass, NothingOldIsLeft, ListingsAreCurrent,
         [Next]_vars
  PROVE  ListingsAreCurrent'
<1> USE DEF TypeInv
<1>1. ASSUME NEW r \in Readers, NEW d \in Dirs, BeginRead(r, d)
      PROVE ListingsAreCurrent'
  BY <1>1, BrowseAssumption
     DEF BeginRead, ListingsAreCurrent, TypeOK, Flights, Reads, Changes, Dirty,
         Cached, FlightsAreLed, GenerationsPass
<1>2. ASSUME NEW r \in Readers, Cancel(r) PROVE ListingsAreCurrent'
  BY <1>2, BrowseAssumption
     DEF Cancel, ListingsAreCurrent, TypeOK, Flights, Reads, Changes, Dirty,
         Cached, FlightsAreLed, GenerationsPass
<1>3. ASSUME NEW r \in Readers, CacheHit(r) PROVE ListingsAreCurrent'
  BY <1>3, BrowseAssumption
     DEF CacheHit, ListingsAreCurrent, TypeOK, Flights, Reads, Changes, Dirty,
         Cached, FlightsAreLed, GenerationsPass
<1>4. ASSUME NEW r \in Readers, CacheMiss(r) PROVE ListingsAreCurrent'
  <2>1. Missing(reader[r].dir) /\ UNCHANGED <<mutation, remote, late, flight>>
    BY <1>4 DEF CacheMiss
  <2>2. /\ \A e \in Dirs : cache'[e] = None \/ cache'[e] = cache[e]
        /\ generation' = generation \/ generation' = generation + 1
    BY <2>1 DEF Missing, invalidatePaths
  <2>3. generation' = generation \/ \A e \in Dirs : flight[e].gen # generation'
    <3>1. \A e \in Dirs : flight[e].gen \in Nat /\ flight[e].gen <= generation
      BY BrowseAssumption DEF TypeOK, Flights, Generations, GenerationsPass
    <3>2. generation \in Nat
      BY BrowseAssumption DEF TypeOK, Generations
    <3> QED
      BY <2>2, <3>1, <3>2
  <2>4. \A e \in Dirs : Dirty(e)' = Dirty(e)
    BY <2>1 DEF Dirty
  <2> QED
    BY <2>1, <2>2, <2>3, <2>4, ListingsKept
<1>5. ASSUME NEW r \in Readers, Join(r) PROVE ListingsAreCurrent'
  BY <1>5, BrowseAssumption
     DEF Join, ListingsAreCurrent, TypeOK, Flights, Reads, Changes, Dirty,
         Cached, FlightsAreLed, GenerationsPass
<1>6. ASSUME NEW r \in Readers, WaitCancelled(r) PROVE ListingsAreCurrent'
  BY <1>6, BrowseAssumption
     DEF WaitCancelled, ListingsAreCurrent, TypeOK, Flights, Reads, Changes,
         Dirty, Cached, FlightsAreLed, GenerationsPass
<1>7. ASSUME NEW r \in Readers, EndRead(r) PROVE ListingsAreCurrent'
  BY <1>7, BrowseAssumption
     DEF EndRead, ListingsAreCurrent, TypeOK, Flights, Reads, Changes, Dirty,
         Cached, FlightsAreLed, GenerationsPass
<1>8. ASSUME NEW d \in Dirs, FlightHit(d) PROVE ListingsAreCurrent'
  <2>1. cache[d] \in Versions \cup {None, Failed} /\ Land(d, cache[d])
    BY <1>8 DEF FlightHit, TypeOK, Flights
  <2>2. /\ flight'[d] = NoFlight
        /\ \A e \in Dirs : e # d => flight'[e] = flight[e]
        /\ \A r \in Readers :
             IF reader[r].pc = "wait" /\ reader[r].dir = d
             THEN /\ reader'[r].pc = "done"
                  /\ reader'[r].dir = d
                  /\ reader'[r].since = reader[r].since
                  /\ reader'[r].got = cache[d]
                  /\ reader'[r].joined = reader[r].joined
             ELSE reader'[r] = reader[r]
    BY <2>1, LandEffect
  <2>3. NoFlight.step = "none"
    BY DEF NoFlight
  <2>4. UNCHANGED <<mutation, generation, cache, remote, late>>
    BY <1>8 DEF FlightHit
  <2>5. \A e \in Dirs : Dirty(e)' = Dirty(e)
    BY <2>4 DEF Dirty
  <2> QED
    BY <2>2, <2>3, <2>4, <2>5, ListingsKept
<1>9. ASSUME NEW d \in Dirs, FlightMiss(d) PROVE ListingsAreCurrent'
  <2>1. /\ Missing(d) /\ UNCHANGED <<mutation, remote, late>>
        /\ \A e \in Dirs :
             /\ flight'[e].gen = flight[e].gen
             /\ flight'[e].step # "store" \/ flight'[e] = flight[e]
    BY <1>9 DEF FlightMiss, TypeOK, Flights
  <2>2. /\ \A e \in Dirs : cache'[e] = None \/ cache'[e] = cache[e]
        /\ generation' = generation \/ generation' = generation + 1
    BY <2>1 DEF Missing, invalidatePaths
  <2>3. generation' = generation \/ \A e \in Dirs : flight[e].gen # generation'
    <3>1. \A e \in Dirs : flight[e].gen \in Nat /\ flight[e].gen <= generation
      BY BrowseAssumption DEF TypeOK, Flights, Generations, GenerationsPass
    <3>2. generation \in Nat
      BY BrowseAssumption DEF TypeOK, Generations
    <3> QED
      BY <2>2, <3>1, <3>2
  <2>4. \A e \in Dirs : Dirty(e)' = Dirty(e)
    BY <2>1 DEF Dirty
  <2> QED
    BY <2>1, <2>2, <2>3, <2>4, ListingsKept
<1>10. ASSUME NEW d \in Dirs, FlightGeneration(d) PROVE ListingsAreCurrent'
  BY <1>10, BrowseAssumption
     DEF FlightGeneration, ListingsAreCurrent, TypeOK, Flights, Reads, Changes,
         Dirty, Cached, FlightsAreLed, GenerationsPass
<1>11. ASSUME NEW d \in Dirs, FlightFetch(d) PROVE ListingsAreCurrent'
  BY <1>11, BrowseAssumption
     DEF FlightFetch, ListingsAreCurrent, TypeOK, Flights, Reads, Changes,
         Dirty, Cached, FlightsAreLed, GenerationsPass
<1>12. ASSUME NEW d \in Dirs, FlightFails(d) PROVE ListingsAreCurrent'
  <2>1. Failed \in Versions \cup {None, Failed} /\ Land(d, Failed)
    BY <1>12 DEF FlightFails, TypeOK, Flights
  <2>2. /\ flight'[d] = NoFlight
        /\ \A e \in Dirs : e # d => flight'[e] = flight[e]
        /\ \A r \in Readers :
             IF reader[r].pc = "wait" /\ reader[r].dir = d
             THEN /\ reader'[r].pc = "done"
                  /\ reader'[r].dir = d
                  /\ reader'[r].since = reader[r].since
                  /\ reader'[r].got = Failed
                  /\ reader'[r].joined = reader[r].joined
             ELSE reader'[r] = reader[r]
    BY <2>1, LandEffect
  <2>3. NoFlight.step = "none"
    BY DEF NoFlight
  <2>4. UNCHANGED <<mutation, generation, cache, remote, late>>
    BY <1>12 DEF FlightFails
  <2>5. \A e \in Dirs : Dirty(e)' = Dirty(e)
    BY <2>4 DEF Dirty
  <2> QED
    BY <2>2, <2>3, <2>4, <2>5, ListingsKept
<1>13. ASSUME NEW d \in Dirs, FlightStore(d) PROVE ListingsAreCurrent'
  <2>1. flight[d].got \in Versions \cup {None, Failed} /\ Land(d, flight[d].got)
    BY <1>13 DEF FlightStore, TypeOK, Flights
  <2>2. /\ flight'[d] = NoFlight
        /\ \A e \in Dirs : e # d => flight'[e] = flight[e]
        /\ \A r \in Readers :
             IF reader[r].pc = "wait" /\ reader[r].dir = d
             THEN /\ reader'[r].pc = "done"
                  /\ reader'[r].dir = d
                  /\ reader'[r].since = reader[r].since
                  /\ reader'[r].got = flight[d].got
                  /\ reader'[r].joined = reader[r].joined
             ELSE reader'[r] = reader[r]
    BY <2>1, LandEffect
  <2>3. /\ flight[d].got \in Versions \cup {None}
        /\ storeBrowse(d, flight[d].got, flight[d].gen)
    BY <1>13 DEF FlightStore, TypeOK, Flights, Changes
  <2>4. \A e \in Dirs :
          \/ cache'[e] = None
          \/ cache'[e] = cache[e]
          \/ e = d /\ flight[d].gen = generation /\ cache'[e] = flight[d].got
    BY <2>3, StoreEffect
  <2>5. NoFlight.step = "none"
    BY DEF NoFlight
  <2>6. UNCHANGED <<mutation, generation, remote, late>> /\ flight[d].step = "store"
    BY <1>13 DEF FlightStore
  <2>7. \A e \in Dirs : Dirty(e)' = Dirty(e)
    BY <2>6 DEF Dirty
  <2>8. flight[d].gen = generation => d \in late \/ Dirty(d)' \/ flight[d].got = remote[d]
    BY <2>6, <2>7 DEF ListingsAreCurrent
  <2> QED
    BY <2>2, <2>4, <2>5, <2>6, <2>7, <2>8, ListingsKept
<1>14. ASSUME NEW D \in SUBSET Dirs, BeginMutation(D) PROVE ListingsAreCurrent'
  BY <1>14, BrowseAssumption
     DEF BeginMutation, ListingsAreCurrent, TypeOK, Flights, Reads, Changes,
         Dirty, Cached, FlightsAreLed, GenerationsPass
<1>15. CASE StatGeneration
  BY <1>15, BrowseAssumption
     DEF StatGeneration, ListingsAreCurrent, TypeOK, Flights, Reads, Changes,
         Dirty, Cached, FlightsAreLed, GenerationsPass
<1>16. CASE StatFresh
  <2>1. PICK d \in mutation.dirs : storeBrowse(d, remote[d], mutation.gen)
    BY <1>16 DEF StatFresh
  <2>2. d \in Dirs /\ remote[d] \in Versions \cup {None}
    BY DEF TypeOK, Changes
  <2>3. \A e \in Dirs :
          \/ cache'[e] = None
          \/ cache'[e] = cache[e]
          \/ e = d /\ mutation.gen = generation /\ cache'[e] = remote[d]
    BY <2>1, <2>2, StoreEffect
  <2>4. UNCHANGED <<generation, remote, late, flight>>
    BY <1>16 DEF StatFresh
  <2>5. \A e \in Dirs : Dirty(e) => Dirty(e)'
    BY <1>16 DEF StatFresh, Dirty, TypeOK, Changes
  <2> QED
    BY <2>3, <2>4, <2>5, ListingsKept
<1>17. CASE StatRefused
  BY <1>17, BrowseAssumption
     DEF StatRefused, ListingsAreCurrent, TypeOK, Flights, Reads, Changes,
         Dirty, Cached, FlightsAreLed, GenerationsPass
<1>18. CASE Call
  BY <1>18, BrowseAssumption
     DEF Call, ListingsAreCurrent, TypeOK, Flights, Reads, Changes, Dirty,
         Cached, FlightsAreLed, GenerationsPass, NothingOldIsLeft, Progress,
         NoFlight, NoMutation, Generations, Changed
<1>19. CASE CallFails
  BY <1>19, BrowseAssumption
     DEF CallFails, ListingsAreCurrent, TypeOK, Flights, Reads, Changes, Dirty,
         Cached, FlightsAreLed, GenerationsPass
<1>20. CASE CallAccepted
  <2>1. /\ generation' = generation + 1
        /\ \A e \in Dirs : cache'[e] = IF e \in mutation.dirs THEN None ELSE cache[e]
        /\ UNCHANGED <<remote, late, flight>>
    BY <1>20 DEF CallAccepted, invalidatePaths
  <2>2. \A e \in Dirs : flight[e].gen # generation'
    <3>1. \A e \in Dirs : flight[e].gen \in Nat /\ flight[e].gen <= generation
      BY BrowseAssumption DEF TypeOK, Flights, Generations, GenerationsPass
    <3>2. generation \in Nat
      BY BrowseAssumption DEF TypeOK, Generations
    <3> QED
      BY <2>1, <3>1, <3>2
  <2>3. \A e \in Dirs : Dirty(e) => e \in mutation.dirs
    BY DEF Dirty
  <2> QED
    BY <2>1, <2>2, <2>3, ListingsKept
<1>21. CASE ServerCatchesUp
  <2>1. PICK d \in owing :
          /\ d \in Dirs
          /\ \A e \in Dirs : e # d => remote'[e] = remote[e]
          /\ late' = IF mutation.pc = "idle" THEN late \cup {d} ELSE late
          /\ UNCHANGED <<generation, cache, flight, mutation>>
    BY <1>21, CatchUpEffect
  <2>2. \A e \in Dirs : Dirty(e)' = Dirty(e)
    BY <2>1 DEF Dirty
  <2>3. mutation.pc \in {"idle", "return"} \/ Dirty(d)
    BY <2>1 DEF Dirty, Progress, TypeOK, Changes
  <2>4. mutation.pc = "return" =>
          cache[d] = None /\ (flight[d].step = "store" => flight[d].gen # generation)
    <3>1. d \in mutation.dirs \/ mutation.pc # "return"
      BY <2>1 DEF Progress
    <3>2. flight[d].gen \in Int /\ generation \in Int
      BY <2>1, BrowseAssumption DEF TypeOK, Flights, Generations
    <3> QED
      BY <2>1, <3>1, <3>2 DEF NothingOldIsLeft
  <2>5. ASSUME NEW e \in Dirs, cache[e] # None
        PROVE  e \in late' \/ Dirty(e) \/ cache[e] = remote'[e]
    BY <2>1, <2>3, <2>4, <2>5 DEF ListingsAreCurrent, Cached
  <2>6. ASSUME NEW e \in Dirs, flight[e].step = "store", flight[e].gen = generation
        PROVE  e \in late' \/ Dirty(e) \/ flight[e].got = remote'[e]
    BY <2>1, <2>3, <2>4, <2>6 DEF ListingsAreCurrent
  <2> QED
    BY <2>1, <2>2, <2>5, <2>6 DEF ListingsAreCurrent, Cached
<1>22. CASE Poll
  <2> DEFINE d == mutation.await
  <2>1. /\ d \in Dirs /\ mutation.got \in Versions \cup {None}
        /\ storeBrowse(d, mutation.got, mutation.gen)
        /\ \A e \in Dirs : Dirty(e) => Dirty(e)'
        /\ \A e \in Dirs : e \in mutation.dirs => Dirty(e)'
    BY <1>22, PollEffect DEF Dirty
  <2>2. \A e \in Dirs :
          \/ cache'[e] = None
          \/ cache'[e] = cache[e]
          \/ e = d
    BY <2>1, StoreEffect
  <2>3. d \in mutation.dirs
    BY <1>22, PollEffect DEF Progress
  <2>4. UNCHANGED <<generation, remote, late, flight>>
    BY <1>22 DEF Poll
  <2> QED
    BY <2>1, <2>2, <2>3, <2>4, ListingsKept
<1>23. CASE PollFails
  BY <1>23, BrowseAssumption
     DEF PollFails, ListingsAreCurrent, TypeOK, Flights, Reads, Changes, Dirty,
         Cached, FlightsAreLed, GenerationsPass
<1>24. CASE Invalidate
  <2>1. /\ generation' = generation + 1
        /\ \A e \in Dirs : cache'[e] = IF e \in mutation.dirs THEN None ELSE cache[e]
        /\ UNCHANGED <<remote, late, flight>>
    BY <1>24 DEF Invalidate, invalidatePaths
  <2>2. \A e \in Dirs : flight[e].gen # generation'
    <3>1. \A e \in Dirs : flight[e].gen \in Nat /\ flight[e].gen <= generation
      BY BrowseAssumption DEF TypeOK, Flights, Generations, GenerationsPass
    <3>2. generation \in Nat
      BY BrowseAssumption DEF TypeOK, Generations
    <3> QED
      BY <2>1, <3>1, <3>2
  <2>3. \A e \in Dirs : Dirty(e) => e \in mutation.dirs
    BY DEF Dirty
  <2> QED
    BY <2>1, <2>2, <2>3, ListingsKept
<1>25. CASE Return
  BY <1>25, BrowseAssumption
     DEF Return, ListingsAreCurrent, TypeOK, Flights, Reads, Changes, Dirty,
         Cached, FlightsAreLed, GenerationsPass
<1>26. CASE UNCHANGED vars
  BY <1>26
     DEF vars, ListingsAreCurrent, TypeOK, Flights, Reads, Changes, Dirty,
         Cached, FlightsAreLed, GenerationsPass
<1>27. CASE PollFetch
  <2>1. /\ UNCHANGED <<remote, generation, cache, flight, late>>
        /\ mutation'.dirs = mutation.dirs /\ mutation.pc = "pollFetch"
        /\ mutation'.pc = "pollStore"
    BY <1>27 DEF PollFetch, TypeOK, Changes
  <2>2. \A e \in Dirs : Dirty(e) => Dirty(e)'
    BY <2>1 DEF Dirty
  <2> QED
    BY <2>1, <2>2, ListingsKept
<1> QED
  BY <1>1, <1>2, <1>3, <1>4, <1>5, <1>6, <1>7, <1>8, <1>9, <1>10, <1>11, <1>12,
     <1>13, <1>14, <1>15, <1>16, <1>17, <1>18, <1>19, <1>20, <1>21, <1>22,
     <1>23, <1>24, <1>25, <1>26, <1>27 DEF Next

(* The last invalidation empties the entries and raises the generation, so  *)
(* that a flight which read before it cannot store afterwards.              *)
LEMMA NothingOldIsLeftStep ==
  ASSUME TypeInv, FlightsAreLed, GenerationsPass, NothingOldIsLeft, [Next]_vars
  PROVE  NothingOldIsLeft'
<1> USE DEF TypeInv
<1>1. ASSUME NEW r \in Readers, NEW d \in Dirs, BeginRead(r, d)
      PROVE NothingOldIsLeft'
  BY <1>1 DEF BeginRead, NothingOldIsLeft
<1>2. ASSUME NEW r \in Readers, Cancel(r) PROVE NothingOldIsLeft'
  BY <1>2 DEF Cancel, NothingOldIsLeft
<1>3. ASSUME NEW r \in Readers, CacheHit(r) PROVE NothingOldIsLeft'
  BY <1>3 DEF CacheHit, NothingOldIsLeft
<1>4. ASSUME NEW r \in Readers, CacheMiss(r) PROVE NothingOldIsLeft'
  BY <1>4, MissingEffect, BrowseAssumption
     DEF CacheMiss, NothingOldIsLeft, TypeOK, Flights, Reads, Changes,
         GenerationsPass, FlightsAreLed, Generations, NoFlight, NoMutation
<1>5. ASSUME NEW r \in Readers, Join(r) PROVE NothingOldIsLeft'
  BY <1>5 DEF Join, NothingOldIsLeft
<1>6. ASSUME NEW r \in Readers, WaitCancelled(r) PROVE NothingOldIsLeft'
  BY <1>6 DEF WaitCancelled, NothingOldIsLeft
<1>7. ASSUME NEW r \in Readers, EndRead(r) PROVE NothingOldIsLeft'
  BY <1>7 DEF EndRead, NothingOldIsLeft
<1>8. ASSUME NEW d \in Dirs, FlightHit(d) PROVE NothingOldIsLeft'
  <2>1. cache[d] \in Versions \cup {None, Failed} /\ Land(d, cache[d])
    BY <1>8 DEF FlightHit, TypeOK, Flights
  <2>2. /\ flight'[d] = NoFlight
        /\ \A e \in Dirs : e # d => flight'[e] = flight[e]
        /\ \A r \in Readers :
             IF reader[r].pc = "wait" /\ reader[r].dir = d
             THEN /\ reader'[r].pc = "done"
                  /\ reader'[r].dir = d
                  /\ reader'[r].since = reader[r].since
                  /\ reader'[r].got = cache[d]
                  /\ reader'[r].joined = reader[r].joined
             ELSE reader'[r] = reader[r]
    BY <2>1, LandEffect
  <2>3. NoFlight.step = "none"
    BY DEF NoFlight
  <2>4. UNCHANGED <<mutation, generation, cache>>
    BY <1>8 DEF FlightHit
  <2> QED
    BY <2>2, <2>3, <2>4 DEF NothingOldIsLeft
<1>9. ASSUME NEW d \in Dirs, FlightMiss(d) PROVE NothingOldIsLeft'
  BY <1>9, MissingEffect, BrowseAssumption
     DEF FlightMiss, NothingOldIsLeft, TypeOK, Flights, Reads, Changes,
         GenerationsPass, FlightsAreLed, Generations, NoFlight, NoMutation
<1>10. ASSUME NEW d \in Dirs, FlightGeneration(d) PROVE NothingOldIsLeft'
  BY <1>10 DEF FlightGeneration, NothingOldIsLeft, TypeOK
<1>11. ASSUME NEW d \in Dirs, FlightFetch(d) PROVE NothingOldIsLeft'
  BY <1>11, BrowseAssumption
     DEF FlightFetch, NothingOldIsLeft, TypeOK, Flights, Reads, Changes,
         GenerationsPass, FlightsAreLed, Generations, NoFlight, NoMutation
<1>12. ASSUME NEW d \in Dirs, FlightFails(d) PROVE NothingOldIsLeft'
  <2>1. Failed \in Versions \cup {None, Failed} /\ Land(d, Failed)
    BY <1>12 DEF FlightFails, TypeOK, Flights
  <2>2. /\ flight'[d] = NoFlight
        /\ \A e \in Dirs : e # d => flight'[e] = flight[e]
        /\ \A r \in Readers :
             IF reader[r].pc = "wait" /\ reader[r].dir = d
             THEN /\ reader'[r].pc = "done"
                  /\ reader'[r].dir = d
                  /\ reader'[r].since = reader[r].since
                  /\ reader'[r].got = Failed
                  /\ reader'[r].joined = reader[r].joined
             ELSE reader'[r] = reader[r]
    BY <2>1, LandEffect
  <2>3. NoFlight.step = "none"
    BY DEF NoFlight
  <2>4. UNCHANGED <<mutation, generation, cache>>
    BY <1>12 DEF FlightFails
  <2> QED
    BY <2>2, <2>3, <2>4 DEF NothingOldIsLeft
<1>13. ASSUME NEW d \in Dirs, FlightStore(d) PROVE NothingOldIsLeft'
  <2>1. flight[d].got \in Versions \cup {None, Failed} /\ Land(d, flight[d].got)
    BY <1>13 DEF FlightStore, TypeOK, Flights
  <2>2. /\ flight'[d] = NoFlight
        /\ \A e \in Dirs : e # d => flight'[e] = flight[e]
        /\ \A r \in Readers :
             IF reader[r].pc = "wait" /\ reader[r].dir = d
             THEN /\ reader'[r].pc = "done"
                  /\ reader'[r].dir = d
                  /\ reader'[r].since = reader[r].since
                  /\ reader'[r].got = flight[d].got
                  /\ reader'[r].joined = reader[r].joined
             ELSE reader'[r] = reader[r]
    BY <2>1, LandEffect
  <2>3. /\ flight[d].got \in Versions \cup {None}
        /\ storeBrowse(d, flight[d].got, flight[d].gen)
    BY <1>13 DEF FlightStore, TypeOK, Flights, Changes
  <2>4. \A e \in Dirs :
          \/ cache'[e] = None
          \/ cache'[e] = cache[e]
          \/ e = d /\ flight[d].gen = generation /\ cache'[e] = flight[d].got
    BY <2>3, StoreEffect
  <2>5. NoFlight.step = "none"
    BY DEF NoFlight
  <2>6. UNCHANGED <<mutation, generation>> /\ flight[d].step = "store"
    BY <1>13 DEF FlightStore
  <2>7. ASSUME mutation.pc = "return"
        PROVE  \A e \in Dirs : cache'[e] = None \/ cache'[e] = cache[e]
    <3>1. flight[d].gen < generation /\ generation \in Nat /\ flight[d].gen \in Nat
      BY <2>6, <2>7, BrowseAssumption
         DEF NothingOldIsLeft, TypeOK, Flights, Generations
    <3>2. flight[d].gen # generation
      BY <3>1
    <3> QED
      BY <2>4, <3>2
  <2>8. mutation.dirs \subseteq Dirs
    BY DEF TypeOK, Changes
  <2>9. ASSUME mutation.pc = "return"
        PROVE  \A e \in mutation.dirs : cache'[e] = None
    BY <2>7, <2>8, <2>9 DEF NothingOldIsLeft
  <2> QED
    BY <2>2, <2>5, <2>6, <2>9 DEF NothingOldIsLeft
<1>14. ASSUME NEW D \in SUBSET Dirs, BeginMutation(D) PROVE NothingOldIsLeft'
  BY <1>14 DEF BeginMutation, NothingOldIsLeft
<1>15. CASE StatGeneration
  BY <1>15 DEF StatGeneration, NothingOldIsLeft
<1>16. CASE StatFresh
  BY <1>16, StoreEffect DEF StatFresh, NothingOldIsLeft
<1>17. CASE StatRefused
  BY <1>17, BrowseAssumption
     DEF StatRefused, NothingOldIsLeft, TypeOK, Flights, Reads, Changes,
         GenerationsPass, FlightsAreLed, Generations, NoFlight, NoMutation
<1>18. CASE Call
  BY <1>18 DEF Call, NothingOldIsLeft
<1>19. CASE CallFails
  BY <1>19 DEF CallFails, NothingOldIsLeft
<1>20. CASE CallAccepted
  BY <1>20, AcceptEffect DEF NothingOldIsLeft
<1>21. CASE ServerCatchesUp
  BY <1>21 DEF ServerCatchesUp, NothingOldIsLeft
<1>22. CASE Poll
  BY <1>22, PollEffect DEF NothingOldIsLeft
<1>23. CASE PollFails
  BY <1>23 DEF PollFails, NothingOldIsLeft
<1>24. CASE Invalidate
  BY <1>24, InvalidateEffect, BrowseAssumption
     DEF Invalidate, NothingOldIsLeft, TypeOK, Flights, Reads, Changes,
         GenerationsPass, FlightsAreLed, Generations, NoFlight, NoMutation
<1>25. CASE Return
  BY <1>25, BrowseAssumption
     DEF Return, NothingOldIsLeft, TypeOK, Flights, Reads, Changes,
         GenerationsPass, FlightsAreLed, Generations, NoFlight, NoMutation
<1>26. CASE UNCHANGED vars
  BY <1>26 DEF vars, NothingOldIsLeft
<1>27. CASE PollFetch
  BY <1>27 DEF PollFetch, NothingOldIsLeft, TypeOK, Changes
<1> QED
  BY <1>1, <1>2, <1>3, <1>4, <1>5, <1>6, <1>7, <1>8, <1>9, <1>10, <1>11, <1>12,
     <1>13, <1>14, <1>15, <1>16, <1>17, <1>18, <1>19, <1>20, <1>21, <1>22,
     <1>23, <1>24, <1>25, <1>26, <1>27 DEF Next

(* Readers and mutations exclude one another, so only a late change of the  *)
(* server happens under a reader.                                           *)
LEMMA ReadersSeeTheirTimeStep ==
  ASSUME TypeInv, FlightsAreLed, ListingsAreCurrent, ReadersSeeTheirTime, [Next]_vars
  PROVE  ReadersSeeTheirTime'
<1> USE DEF TypeInv
<1>1. ASSUME NEW r \in Readers, NEW d \in Dirs, BeginRead(r, d)
      PROVE ReadersSeeTheirTime'
  BY <1>1 DEF BeginRead, ReadersSeeTheirTime
<1>2. ASSUME NEW r \in Readers, Cancel(r) PROVE ReadersSeeTheirTime'
  BY <1>2 DEF Cancel, ReadersSeeTheirTime
<1>3. ASSUME NEW r \in Readers, CacheHit(r) PROVE ReadersSeeTheirTime'
  BY <1>3, BrowseAssumption
     DEF CacheHit, ReadersSeeTheirTime, TypeOK, Flights, Reads, Changes,
         FlightsAreLed, ListingsAreCurrent, NoReader, NoFlight, Progress, Done
<1>4. ASSUME NEW r \in Readers, CacheMiss(r) PROVE ReadersSeeTheirTime'
  BY <1>4, MissingEffect DEF CacheMiss, ReadersSeeTheirTime
<1>5. ASSUME NEW r \in Readers, Join(r) PROVE ReadersSeeTheirTime'
  BY <1>5 DEF Join, ReadersSeeTheirTime, TypeOK, Flights, Reads, Changes
<1>6. ASSUME NEW r \in Readers, WaitCancelled(r) PROVE ReadersSeeTheirTime'
  BY <1>6, BrowseAssumption
     DEF WaitCancelled, ReadersSeeTheirTime, TypeOK, Flights, Reads, Changes,
         FlightsAreLed, ListingsAreCurrent, NoReader, NoFlight, Progress, Done
<1>7. ASSUME NEW r \in Readers, EndRead(r) PROVE ReadersSeeTheirTime'
  BY <1>7, BrowseAssumption
     DEF EndRead, ReadersSeeTheirTime, TypeOK, Flights, Reads, Changes,
         FlightsAreLed, ListingsAreCurrent, NoReader, NoFlight, Progress
<1>8. ASSUME NEW d \in Dirs, FlightHit(d) PROVE ReadersSeeTheirTime'
  <2>1. cache[d] \in Versions \cup {None, Failed} /\ Land(d, cache[d])
    BY <1>8 DEF FlightHit, TypeOK, Flights
  <2>2. /\ flight'[d] = NoFlight
        /\ \A e \in Dirs : e # d => flight'[e] = flight[e]
        /\ \A r \in Readers :
             IF reader[r].pc = "wait" /\ reader[r].dir = d
             THEN /\ reader'[r].pc = "done"
                  /\ reader'[r].dir = d
                  /\ reader'[r].since = reader[r].since
                  /\ reader'[r].got = cache[d]
                  /\ reader'[r].joined = reader[r].joined
             ELSE reader'[r] = reader[r]
    BY <2>1, LandEffect
  <2>3. UNCHANGED <<remote, late>>
    BY <1>8 DEF FlightHit
  <2> QED
    BY <2>2, <2>3 DEF ReadersSeeTheirTime
<1>9. ASSUME NEW d \in Dirs, FlightMiss(d) PROVE ReadersSeeTheirTime'
  BY <1>9, MissingEffect DEF FlightMiss, ReadersSeeTheirTime
<1>10. ASSUME NEW d \in Dirs, FlightGeneration(d) PROVE ReadersSeeTheirTime'
  BY <1>10 DEF FlightGeneration, ReadersSeeTheirTime, TypeOK
<1>11. ASSUME NEW d \in Dirs, FlightFetch(d) PROVE ReadersSeeTheirTime'
  BY <1>11 DEF FlightFetch, ReadersSeeTheirTime, TypeOK
<1>12. ASSUME NEW d \in Dirs, FlightFails(d) PROVE ReadersSeeTheirTime'
  <2>1. Failed \in Versions \cup {None, Failed} /\ Land(d, Failed)
    BY <1>12 DEF FlightFails, TypeOK, Flights
  <2>2. /\ flight'[d] = NoFlight
        /\ \A e \in Dirs : e # d => flight'[e] = flight[e]
        /\ \A r \in Readers :
             IF reader[r].pc = "wait" /\ reader[r].dir = d
             THEN /\ reader'[r].pc = "done"
                  /\ reader'[r].dir = d
                  /\ reader'[r].since = reader[r].since
                  /\ reader'[r].got = Failed
                  /\ reader'[r].joined = reader[r].joined
             ELSE reader'[r] = reader[r]
    BY <2>1, LandEffect
  <2>3. UNCHANGED <<remote, late>>
    BY <1>12 DEF FlightFails
  <2> QED
    BY <2>2, <2>3 DEF ReadersSeeTheirTime
<1>13. ASSUME NEW d \in Dirs, FlightStore(d) PROVE ReadersSeeTheirTime'
  <2>1. flight[d].got \in Versions \cup {None, Failed} /\ Land(d, flight[d].got)
    BY <1>13 DEF FlightStore, TypeOK, Flights
  <2>2. /\ flight'[d] = NoFlight
        /\ \A e \in Dirs : e # d => flight'[e] = flight[e]
        /\ \A r \in Readers :
             IF reader[r].pc = "wait" /\ reader[r].dir = d
             THEN /\ reader'[r].pc = "done"
                  /\ reader'[r].dir = d
                  /\ reader'[r].since = reader[r].since
                  /\ reader'[r].got = flight[d].got
                  /\ reader'[r].joined = reader[r].joined
             ELSE reader'[r] = reader[r]
    BY <2>1, LandEffect
  <2>3. UNCHANGED <<remote, late>>
    BY <1>13 DEF FlightStore
  <2> QED
    BY <2>2, <2>3 DEF ReadersSeeTheirTime
<1>14. ASSUME NEW D \in SUBSET Dirs, BeginMutation(D)
       PROVE ReadersSeeTheirTime'
  BY <1>14 DEF BeginMutation, ReadersSeeTheirTime
<1>15. CASE StatGeneration
  BY <1>15 DEF StatGeneration, ReadersSeeTheirTime
<1>16. CASE StatFresh
  BY <1>16, StoreEffect DEF StatFresh, ReadersSeeTheirTime
<1>17. CASE StatRefused
  BY <1>17 DEF StatRefused, ReadersSeeTheirTime
<1>18. CASE Call
  BY <1>18, BrowseAssumption
     DEF Call, ReadersSeeTheirTime, TypeOK, Flights, Reads, Changes,
         FlightsAreLed, ListingsAreCurrent
<1>19. CASE CallFails
  BY <1>19 DEF CallFails, ReadersSeeTheirTime
<1>20. CASE CallAccepted
  BY <1>20, InvalidateEffect DEF CallAccepted, ReadersSeeTheirTime
<1>21. CASE ServerCatchesUp
  <2>1. PICK d \in owing :
          /\ d \in Dirs
          /\ \A e \in Dirs : e # d => remote'[e] = remote[e]
          /\ late' = IF mutation.pc = "idle" THEN late \cup {d} ELSE late
          /\ UNCHANGED <<flight, reader, mutation>>
    BY <1>21, CatchUpEffect
  <2>2. CASE mutation.pc = "idle"
    BY <2>1, <2>2 DEF ReadersSeeTheirTime
  <2>3. CASE mutation.pc # "idle"
    <3>1. \A r \in Readers : reader[r].pc = "idle"
      BY <2>3 DEF FlightsAreLed
    <3> QED
      BY <2>1, <3>1 DEF ReadersSeeTheirTime
  <2> QED
    BY <2>2, <2>3
<1>22. CASE Poll
  BY <1>22 DEF Poll, ReadersSeeTheirTime
<1>23. CASE PollFails
  BY <1>23 DEF PollFails, ReadersSeeTheirTime
<1>24. CASE Invalidate
  BY <1>24, InvalidateEffect DEF Invalidate, ReadersSeeTheirTime
<1>25. CASE Return
  BY <1>25 DEF Return, ReadersSeeTheirTime
<1>26. CASE UNCHANGED vars
  BY <1>26 DEF vars, ReadersSeeTheirTime
<1>27. CASE PollFetch
  BY <1>27 DEF PollFetch, ReadersSeeTheirTime
<1> QED
  BY <1>1, <1>2, <1>3, <1>4, <1>5, <1>6, <1>7, <1>8, <1>9, <1>10, <1>11, <1>12,
     <1>13, <1>14, <1>15, <1>16, <1>17, <1>18, <1>19, <1>20, <1>21, <1>22,
     <1>23, <1>24, <1>25, <1>26, <1>27 DEF Next

(* A reader returns what is cached or what its own flight fetched, and both *)
(* are as new as its admission.                                             *)
LEMMA ReadIsFreshStep ==
  ASSUME TypeInv, FlightsAreLed, ListingsAreCurrent, ReadersSeeTheirTime, ReadIsFresh,
         [Next]_vars
  PROVE  ReadIsFresh'
<1> USE DEF TypeInv
<1>1. ASSUME NEW r \in Readers, NEW d \in Dirs, BeginRead(r, d)
      PROVE ReadIsFresh'
  BY <1>1 DEF BeginRead, ReadIsFresh
<1>2. ASSUME NEW r \in Readers, Cancel(r) PROVE ReadIsFresh'
  BY <1>2 DEF Cancel, ReadIsFresh
<1>3. ASSUME NEW r \in Readers, CacheHit(r) PROVE ReadIsFresh'
  BY <1>3, BrowseAssumption
     DEF CacheHit, ReadIsFresh, TypeOK, Flights, Reads, Changes, FlightsAreLed,
         ListingsAreCurrent, ReadersSeeTheirTime, Cached, Dirty, NoReader,
         Versions, Done
<1>4. ASSUME NEW r \in Readers, CacheMiss(r) PROVE ReadIsFresh'
  BY <1>4, MissingEffect DEF CacheMiss, ReadIsFresh
<1>5. ASSUME NEW r \in Readers, Join(r) PROVE ReadIsFresh'
  BY <1>5 DEF Join, ReadIsFresh, TypeOK
<1>6. ASSUME NEW r \in Readers, WaitCancelled(r) PROVE ReadIsFresh'
  BY <1>6, BrowseAssumption
     DEF WaitCancelled, ReadIsFresh, TypeOK, Flights, Reads, Changes,
         FlightsAreLed, ListingsAreCurrent, ReadersSeeTheirTime, Cached, Dirty,
         NoReader, Versions, Done
<1>7. ASSUME NEW r \in Readers, EndRead(r) PROVE ReadIsFresh'
  BY <1>7, BrowseAssumption
     DEF EndRead, ReadIsFresh, TypeOK, Flights, Reads, Changes, FlightsAreLed,
         ListingsAreCurrent, ReadersSeeTheirTime, Cached, Dirty, NoReader,
         Versions
<1>8. ASSUME NEW d \in Dirs, FlightHit(d) PROVE ReadIsFresh'
  <2>1. cache[d] \in Versions \cup {None, Failed} /\ Land(d, cache[d])
    BY <1>8 DEF FlightHit, TypeOK, Flights
  <2>2. /\ flight'[d] = NoFlight
        /\ \A e \in Dirs : e # d => flight'[e] = flight[e]
        /\ \A r \in Readers :
             IF reader[r].pc = "wait" /\ reader[r].dir = d
             THEN /\ reader'[r].pc = "done"
                  /\ reader'[r].dir = d
                  /\ reader'[r].since = reader[r].since
                  /\ reader'[r].got = cache[d]
                  /\ reader'[r].joined = reader[r].joined
             ELSE reader'[r] = reader[r]
    BY <2>1, LandEffect
  <2>3. UNCHANGED <<remote, late>>
    BY <1>8 DEF FlightHit
  <2>4. ASSUME NEW r \in Readers, reader'[r].pc = "done", reader'[r].got # Failed,
               ~reader'[r].joined, reader'[r].dir \notin late
        PROVE  reader'[r].got >= reader'[r].since
    <3>1. CASE reader'[r] = reader[r]
      BY <2>4, <3>1 DEF ReadIsFresh
    <3>2. CASE reader[r].pc = "wait" /\ reader[r].dir = d
      <4>1. reader[r].since = remote[d] /\ remote[d] \in Int
        BY <2>2, <2>4, <3>2, BrowseAssumption
           DEF ReadersSeeTheirTime, TypeOK, Versions
      <4>2. cache[d] = remote[d]
        BY <1>8, <2>2, <2>4, <3>2
        DEF FlightHit, ListingsAreCurrent, Cached, Dirty, FlightsAreLed
      <4>3. reader'[r].got = remote[d] /\ reader'[r].since = remote[d]
        BY <2>2, <3>2, <4>1, <4>2
      <4> QED
        BY <4>1, <4>3
    <3> QED
      BY <2>2, <3>1, <3>2
  <2> QED
    BY <2>3, <2>4 DEF ReadIsFresh
<1>9. ASSUME NEW d \in Dirs, FlightMiss(d) PROVE ReadIsFresh'
  BY <1>9, MissingEffect DEF FlightMiss, ReadIsFresh
<1>10. ASSUME NEW d \in Dirs, FlightGeneration(d) PROVE ReadIsFresh'
  BY <1>10 DEF FlightGeneration, ReadIsFresh
<1>11. ASSUME NEW d \in Dirs, FlightFetch(d) PROVE ReadIsFresh'
  BY <1>11 DEF FlightFetch, ReadIsFresh
<1>12. ASSUME NEW d \in Dirs, FlightFails(d) PROVE ReadIsFresh'
  <2>1. Failed \in Versions \cup {None, Failed} /\ Land(d, Failed)
    BY <1>12 DEF FlightFails, TypeOK, Flights
  <2>2. /\ flight'[d] = NoFlight
        /\ \A e \in Dirs : e # d => flight'[e] = flight[e]
        /\ \A r \in Readers :
             IF reader[r].pc = "wait" /\ reader[r].dir = d
             THEN /\ reader'[r].pc = "done"
                  /\ reader'[r].dir = d
                  /\ reader'[r].since = reader[r].since
                  /\ reader'[r].got = Failed
                  /\ reader'[r].joined = reader[r].joined
             ELSE reader'[r] = reader[r]
    BY <2>1, LandEffect
  <2>3. UNCHANGED <<remote, late>>
    BY <1>12 DEF FlightFails
  <2>4. ASSUME NEW r \in Readers, reader'[r].pc = "done", reader'[r].got # Failed,
               ~reader'[r].joined, reader'[r].dir \notin late
        PROVE  reader'[r].got >= reader'[r].since
    <3>1. CASE reader'[r] = reader[r]
      BY <2>4, <3>1 DEF ReadIsFresh
    <3>2. CASE reader[r].pc = "wait" /\ reader[r].dir = d
      BY <2>2, <2>4, <3>2
    <3> QED
      BY <2>2, <3>1, <3>2
  <2> QED
    BY <2>3, <2>4 DEF ReadIsFresh
<1>13. ASSUME NEW d \in Dirs, FlightStore(d) PROVE ReadIsFresh'
  <2>1. flight[d].got \in Versions \cup {None, Failed} /\ Land(d, flight[d].got)
    BY <1>13 DEF FlightStore, TypeOK, Flights
  <2>2. /\ flight'[d] = NoFlight
        /\ \A e \in Dirs : e # d => flight'[e] = flight[e]
        /\ \A r \in Readers :
             IF reader[r].pc = "wait" /\ reader[r].dir = d
             THEN /\ reader'[r].pc = "done"
                  /\ reader'[r].dir = d
                  /\ reader'[r].since = reader[r].since
                  /\ reader'[r].got = flight[d].got
                  /\ reader'[r].joined = reader[r].joined
             ELSE reader'[r] = reader[r]
    BY <2>1, LandEffect
  <2>3. UNCHANGED <<remote, late>>
    BY <1>13 DEF FlightStore
  <2>4. ASSUME NEW r \in Readers, reader'[r].pc = "done", reader'[r].got # Failed,
               ~reader'[r].joined, reader'[r].dir \notin late
        PROVE  reader'[r].got >= reader'[r].since
    <3>1. CASE reader'[r] = reader[r]
      BY <2>4, <3>1 DEF ReadIsFresh
    <3>2. CASE reader[r].pc = "wait" /\ reader[r].dir = d
      <4>1. reader[r].since = remote[d] /\ remote[d] \in Int
        BY <2>2, <2>4, <3>2, BrowseAssumption
           DEF ReadersSeeTheirTime, TypeOK, Versions
      <4>2. flight[d].got = remote[d]
        BY <1>13, <2>2, <2>4, <3>2 DEF FlightStore, ReadersSeeTheirTime
      <4>3. reader'[r].got = remote[d] /\ reader'[r].since = remote[d]
        BY <2>2, <3>2, <4>1, <4>2
      <4> QED
        BY <4>1, <4>3
    <3> QED
      BY <2>2, <3>1, <3>2
  <2> QED
    BY <2>3, <2>4 DEF ReadIsFresh
<1>14. ASSUME NEW D \in SUBSET Dirs, BeginMutation(D) PROVE ReadIsFresh'
  BY <1>14 DEF BeginMutation, ReadIsFresh
<1>15. CASE StatGeneration
  BY <1>15 DEF StatGeneration, ReadIsFresh
<1>16. CASE StatFresh
  BY <1>16, StoreEffect DEF StatFresh, ReadIsFresh
<1>17. CASE StatRefused
  BY <1>17 DEF StatRefused, ReadIsFresh
<1>18. CASE Call
  BY <1>18 DEF Call, ReadIsFresh
<1>19. CASE CallFails
  BY <1>19 DEF CallFails, ReadIsFresh
<1>20. CASE CallAccepted
  BY <1>20, InvalidateEffect DEF CallAccepted, ReadIsFresh
<1>21. CASE ServerCatchesUp
  <2>1. late \subseteq late' /\ UNCHANGED reader
    BY <1>21, CatchUpEffect
  <2> QED
    BY <2>1 DEF ReadIsFresh
<1>22. CASE Poll
  BY <1>22 DEF Poll, ReadIsFresh
<1>23. CASE PollFails
  BY <1>23 DEF PollFails, ReadIsFresh
<1>24. CASE Invalidate
  BY <1>24, InvalidateEffect DEF Invalidate, ReadIsFresh
<1>25. CASE Return
  BY <1>25 DEF Return, ReadIsFresh
<1>26. CASE UNCHANGED vars
  BY <1>26 DEF vars, ReadIsFresh
<1>27. CASE PollFetch
  BY <1>27 DEF PollFetch, ReadIsFresh
<1> QED
  BY <1>1, <1>2, <1>3, <1>4, <1>5, <1>6, <1>7, <1>8, <1>9, <1>10, <1>11, <1>12,
     <1>13, <1>14, <1>15, <1>16, <1>17, <1>18, <1>19, <1>20, <1>21, <1>22,
     <1>23, <1>24, <1>25, <1>26, <1>27 DEF Next

-----------------------------------------------------------------------------
(* The inductive invariant: the invariants above, with the freshness of     *)
(* what readers were given.                                                *)
IInv ==
  /\ TypeInv
  /\ FlightsAreLed
  /\ GenerationsPass
  /\ ListingsAreCurrent
  /\ NothingOldIsLeft
  /\ ReadersSeeTheirTime
  /\ ReadIsFresh

(* The invariant holds of an empty cache. *)
LEMMA InitInv == Init => IInv
<1> SUFFICES ASSUME Init PROVE IInv
  OBVIOUS
<1>1. /\ 0 \in Versions /\ 0 \in Generations
      /\ [d \in Dirs |-> 0] \in [Dirs -> Versions]
  BY BrowseAssumption DEF Versions, Generations
<1>2. NoFlight \in Flights /\ NoReader \in Reads /\ NoMutation \in Changes
  BY <1>1 DEF NoFlight, NoReader, NoMutation, Flights, Reads, Changes
<1>3. Cached = {} /\ Cardinality(Cached) <= MaxEntries
  <2>1. Cached = {}
    BY DEF Init, Cached
  <2> QED
    BY <2>1, FS_EmptySet, BrowseAssumption
<1>4. TypeOK
  BY <1>1, <1>2, <1>3 DEF TypeOK, Init
<1>5. Bounds /\ Progress
  BY BrowseAssumption DEF Bounds, Progress, Init, NoMutation
<1>6. FlightsAreLed
  BY DEF FlightsAreLed, Init, NoReader, NoMutation, NoFlight
<1>7. GenerationsPass
  BY DEF GenerationsPass, Init, NoFlight, NoMutation
<1>8. ListingsAreCurrent
  BY <1>3 DEF ListingsAreCurrent, Init, NoFlight
<1>9. NothingOldIsLeft
  BY DEF NothingOldIsLeft, Init, NoMutation
<1>10. ReadersSeeTheirTime /\ ReadIsFresh
  BY DEF ReadersSeeTheirTime, ReadIsFresh, Init, NoReader
<1> QED
  BY <1>4, <1>5, <1>6, <1>7, <1>8, <1>9, <1>10 DEF IInv, TypeInv

(* Every step keeps the invariant: its parts in turn, each from those       *)
(* before.                                                                  *)
LEMMA InvStep ==
  ASSUME IInv, [Next]_vars
  PROVE  IInv'
<1> USE DEF IInv
<1>1. TypeOK'
  BY TypeOKStep
<1>2. Bounds' /\ Progress'
  BY BoundsStep, ProgressStep
<1>3. FlightsAreLed' /\ GenerationsPass'
  BY FlightsAreLedStep, GenerationsPassStep
<1>4. ListingsAreCurrent'
  BY ListingsAreCurrentStep
<1>5. NothingOldIsLeft'
  BY NothingOldIsLeftStep
<1>6. ReadersSeeTheirTime'
  BY ReadersSeeTheirTimeStep
<1>7. ReadIsFresh'
  BY ReadIsFreshStep
<1> QED
  BY <1>1, <1>2, <1>3, <1>4, <1>5, <1>6, <1>7 DEF TypeInv

(* The invariant holds in every state of every behaviour. *)
THEOREM InvariantHolds == Spec => []IInv
<1>1. IInv /\ [Next]_vars => IInv'
  BY InvStep
<1> QED
  BY InitInv, <1>1, PTL DEF Spec

(* Every variable keeps its type, and the cache never holds more listings   *)
(* than it may.                                                            *)
THEOREM TypeCorrect == Spec => []TypeOK
<1>1. IInv => TypeOK
  BY DEF IInv, TypeInv
<1> QED
  BY InvariantHolds, <1>1, PTL

(* Between mutations no cached listing is outdated, whatever flight or      *)
(* reader a mutation has outlived.                                         *)
THEOREM CacheStaysCurrent == Spec => []CacheIsCurrent
<1>1. IInv => CacheIsCurrent
  BY DEF IInv, ListingsAreCurrent, CacheIsCurrent, Dirty
<1> QED
  BY InvariantHolds, <1>1, PTL

(* A reader that leads its flight, or finds the cache, sees a listing as    *)
(* new as its admission.                                                   *)
THEOREM ReadsAreFresh == Spec => []ReadIsFresh
<1>1. IInv => ReadIsFresh
  BY DEF IInv
<1> QED
  BY InvariantHolds, <1>1, PTL

(* What a mutation's success speaks of, the target and the source of a Move *)
(* included, the server has changed, in whatever order it went about it.    *)
THEOREM SuccessesAreReal == Spec => []SuccessIsReal
<1>1. IInv => SuccessIsReal
  BY DEF IInv, TypeInv, Progress, SuccessIsReal
<1> QED
  BY InvariantHolds, <1>1, PTL

===============================================================================
