---------------------------- MODULE GatewayProofs -----------------------------
(***************************************************************************)
(* Proofs about Gateway, for any number of processes, any finite set of     *)
(* requests and any size of the semaphore.                                 *)
(***************************************************************************)
EXTENDS Gateway, FiniteSetTheorems, SequenceTheorems, WellFoundedInduction, TLAPS

(* A request has a process exactly while it is under way, and one that has  *)
(* opened its listener.                                                    *)
Placed ==
  \A r \in Requests :
    /\ at[r] = Nobody <=> pc[r] = "none"
    /\ at[r] # Nobody => life[at[r]] \notin {"down", "recovering"}

(* A process holds the journal from its start until it has drained. *)
Owns(g) == life[g] \notin {"down", "released"}

Locks ==
  \A g \in Gateways : (lock = g <=> Owns(g)) /\ (g \in journal <=> Owns(g))

Holding == {"admitted", "recovering", "recovered", "running"}

(* The semaphore counts exactly the requests that are past it. *)
Holders ==
  \A g \in Gateways, r \in Requests : r \in held[g] <=> at[r] = g /\ pc[r] \in Holding

(* Its queue holds each waiting request once. *)
Waiters ==
  /\ \A g \in Gateways : \A i \in 1 .. Len(queue[g]) :
       /\ at[queue[g][i]] = g
       /\ pc[queue[g][i]] = "queued"
       /\ \A j \in 1 .. Len(queue[g]) : queue[g][i] = queue[g][j] => i = j
  /\ \A r \in Requests : pc[r] = "queued" =>
       \E i \in 1 .. Len(queue[at[r]]) : queue[at[r]][i] = r

(* It is never overdrawn. *)
WithinWeight == \A g \in Gateways : Used(held[g]) <= Exclusive

Serves(g) == {r \in Requests : at[r] = g /\ Inside(r)}

(* Handler.active counts the requests inside, and the channel is closed     *)
(* only when there are none.                                               *)
Counting ==
  \A g \in Gateways :
    /\ active[g] = Cardinality(Serves(g))
    /\ idle[g] = "closed" => active[g] = 0

(* From Drain on nothing enters, and what drained stays empty. *)
Draining ==
  \A g \in Gateways :
    /\ life[g] \in {"draining", "drained", "undrained", "released"} => g \in closing
    /\ life[g] \in {"drained", "released"} => active[g] = 0

(* Only mutations recover, and then nothing is pending until they go on. *)
Recovering ==
  \A r \in Requests :
    /\ pc[r] \in {"recovering", "recovered"} => r \in Mutations
    /\ pc[r] = "recovered" => ~pending

IInv ==
  /\ TypeOK
  /\ Placed
  /\ Locks
  /\ Holders
  /\ Waiters
  /\ WithinWeight
  /\ Counting
  /\ Draining
  /\ Recovering

(* Taking the waiter at position i out of a queue. *)
LEMMA RemovedAt ==
  ASSUME NEW S, NEW q \in Seq(S), NEW i \in 1 .. Len(q)
  PROVE  /\ RemoveAt(q, i) \in Seq(S)
         /\ Len(RemoveAt(q, i)) = Len(q) - 1
         /\ \A j \in 1 .. Len(q) - 1 : RemoveAt(q, i)[j] = q[IF j < i THEN j ELSE j + 1]
<1> DEFINE front == SubSeq(q, 1, i - 1)
           rest == SubSeq(q, i + 1, Len(q))
<1>1. front \in Seq(S) /\ Len(front) = i - 1 /\ \A j \in 1 .. i - 1 : front[j] = q[j]
  OBVIOUS
<1>2. /\ rest \in Seq(S) /\ Len(rest) = Len(q) - i
      /\ \A j \in 1 .. Len(q) - i : rest[j] = q[j + i]
  OBVIOUS
<1>3. RemoveAt(q, i) = front \o rest
  BY DEF RemoveAt
<1> HIDE DEF front, rest
<1>4. front \o rest \in Seq(S) /\ Len(front \o rest) = Len(front) + Len(rest)
  BY <1>1, <1>2, ConcatProperties
<1>5. \A j \in 1 .. Len(q) - 1 :
         (front \o rest)[j] = IF j < i THEN front[j] ELSE rest[j - i + 1]
  BY <1>1, <1>2, ConcatProperties
<1> QED
  BY <1>1, <1>2, <1>3, <1>4, <1>5

(* A bounded set of naturals that is not empty has a greatest element. *)
LEMMA Greatest ==
  ASSUME NEW n \in Nat, NEW T \in SUBSET (0 .. n), T # {}
  PROVE  \E k \in T : \A j \in T : j <= k
<1> DEFINE above(k) == {j \in 0 .. n : j > k}
           S == {above(k) : k \in T}
<1>1. IsFiniteSet(0 .. n)
  BY FS_Interval
<1>2. FiniteSubsetsOf(0 .. n) = SUBSET (0 .. n)
  BY <1>1, FS_FiniteSubsetsOfFinite
<1>3. IsWellFoundedOn(StrictSubsetOrdering(0 .. n), SUBSET (0 .. n))
  BY <1>2, FS_StrictSubsetOrderingWellFounded
<1>4. S \subseteq SUBSET (0 .. n) /\ S # {}
  OBVIOUS
<1>5. PICK m \in S : \A x \in S : ~(<<x, m>> \in StrictSubsetOrdering(0 .. n))
  <2> HIDE DEF S
  <2> QED
    BY <1>3, <1>4, WFMin
<1>6. PICK k \in T : m = above(k)
  OBVIOUS
<1>7. ASSUME NEW j \in T, ~(j <= k)
      PROVE  FALSE
  <2>1. j > k /\ j \in 0 .. n /\ k \in 0 .. n
    BY <1>7
  <2>2. above(j) \subseteq above(k)
    BY <2>1
  <2>3. j \in above(k) /\ j \notin above(j)
    BY <2>1
  <2>4. above(j) \in S /\ above(j) \in SUBSET (0 .. n) /\ above(k) \in SUBSET (0 .. n)
    OBVIOUS
  <2>5. <<above(j), above(k)>> \in StrictSubsetOrdering(0 .. n)
    <3> HIDE DEF above
    <3> QED
      BY <2>2, <2>3, <2>4 DEF StrictSubsetOrdering
  <2> QED
    BY <1>5, <1>6, <2>4, <2>5
<1> QED
  BY <1>7
(* The weight in use is a number, and grows with the holders. *)
LEMMA UsedType ==
  ASSUME NEW H \in SUBSET Requests
  PROVE  /\ Used(H) \in Nat
         /\ IsFiniteSet(H)
         /\ IsFiniteSet(H \cap Readers) /\ Cardinality(H \cap Readers) \in Nat
         /\ IsFiniteSet(H \cap Mutations) /\ Cardinality(H \cap Mutations) \in Nat
<1>1. IsFiniteSet(H)
  BY GatewayAssumption, FS_Subset DEF Requests
<1>2. IsFiniteSet(H \cap Readers) /\ IsFiniteSet(H \cap Mutations)
  BY <1>1, FS_Subset
<1>3. Cardinality(H \cap Readers) \in Nat /\ Cardinality(H \cap Mutations) \in Nat
  BY <1>2, FS_CardinalityType
<1>4. Exclusive \in Nat
  BY GatewayAssumption
<1>5. Used(H) \in Nat
  BY <1>3, <1>4 DEF Used
<1> QED
  BY <1>1, <1>2, <1>3, <1>5

(* Fewer holders use less. *)
LEMMA UsedGrows ==
  ASSUME NEW H \in SUBSET Requests, NEW G \in SUBSET H
  PROVE  Used(G) <= Used(H)
<1> DEFINE a == Cardinality(G \cap Readers)
           b == Cardinality(H \cap Readers)
           c == Cardinality(G \cap Mutations)
           d == Cardinality(H \cap Mutations)
<1>1. a \in Nat /\ b \in Nat /\ c \in Nat /\ d \in Nat
  BY UsedType
<1>2. a <= b /\ c <= d
  <2>1. IsFiniteSet(H \cap Readers) /\ IsFiniteSet(H \cap Mutations)
    BY UsedType
  <2>2. G \cap Readers \subseteq H \cap Readers /\ G \cap Mutations \subseteq H \cap Mutations
    OBVIOUS
  <2> QED
    BY <2>1, <2>2, FS_Subset
<1>3. Used(G) = a + Exclusive * c /\ Used(H) = b + Exclusive * d
  BY DEF Used
<1>4. Exclusive \in Nat
  BY GatewayAssumption
<1> HIDE DEF a, b, c, d
<1>5. Exclusive * c <= Exclusive * d
  BY ONLY <1>1, <1>2, <1>4
<1>6. Exclusive * c \in Nat /\ Exclusive * d \in Nat
  BY ONLY <1>1, <1>4
<1> QED
  BY ONLY <1>1, <1>2, <1>3, <1>5, <1>6

(* A mutation leaves room for nobody else. *)
LEMMA MutationTakesAll ==
  ASSUME NEW H \in SUBSET Requests, Used(H) <= Exclusive,
         NEW r \in H \cap Mutations, NEW s \in H
  PROVE  s = r
<1> SUFFICES ASSUME s # r PROVE FALSE
  OBVIOUS
<1> DEFINE c == Cardinality(H \cap Readers)
           d == Cardinality(H \cap Mutations)
<1>1. c \in Nat /\ d \in Nat /\ IsFiniteSet(H \cap Readers) /\ IsFiniteSet(H \cap Mutations)
  BY UsedType
<1>2. Exclusive \in Nat /\ Exclusive > 0 /\ c + Exclusive * d <= Exclusive
  BY GatewayAssumption DEF Used
<1>3. d >= 1
  <2>1. H \cap Mutations # {}
    OBVIOUS
  <2> QED
    BY <1>1, <2>1, FS_EmptySet
<1>4. CASE s \in Readers
  <2>1. c >= 1
    <3>1. H \cap Readers # {}
      BY <1>4
    <3> QED
      BY <1>1, <3>1, FS_EmptySet
  <2> HIDE DEF c, d
  <2>2. Exclusive * d >= Exclusive /\ Exclusive * d \in Nat
    BY ONLY <1>1, <1>2, <1>3
  <2> QED
    BY ONLY <1>1, <1>2, <2>1, <2>2
<1>5. CASE s \in Mutations
  <2>1. d >= 2
    <3>1. {r, s} \subseteq H \cap Mutations
      BY <1>5
    <3>2. Cardinality({r, s}) = 2
      <4>1. IsFiniteSet({r}) /\ Cardinality({r}) = 1 /\ s \notin {r}
        BY FS_Singleton
      <4>2. Cardinality({r} \cup {s}) = Cardinality({r}) + 1
        BY <4>1, FS_AddElement
      <4>3. {r, s} = {r} \cup {s}
        OBVIOUS
      <4> QED
        BY <4>1, <4>2, <4>3
    <3> QED
      BY <1>1, <3>1, <3>2, FS_Subset
  <2> HIDE DEF c, d
  <2>2. Exclusive * d >= Exclusive * 2 /\ Exclusive * d \in Nat
    BY ONLY <1>1, <1>2, <2>1
  <2> QED
    BY ONLY <1>1, <1>2, <2>2
<1> QED
  BY <1>4, <1>5 DEF Requests

(* Waking admits as many waiters as fit, and no more. *)
LEMMA WokenFits ==
  ASSUME NEW q \in Seq(Requests), NEW H \in SUBSET Requests, Used(H) <= Exclusive
  PROVE  /\ Woken(q, H) \in 0 .. Len(q)
         /\ Used(H \cup Prefix(q, Woken(q, H))) <= Exclusive
         /\ Woken(q, H) < Len(q) => Used(H \cup Prefix(q, Woken(q, H) + 1)) > Exclusive
<1> DEFINE Fit(k) == Used(H \cup Prefix(q, k)) <= Exclusive
           T == {k \in 0 .. Len(q) : Fit(k)}
<1>1. Len(q) \in Nat
  OBVIOUS
<1>2. 0 \in T
  <2>1. H \cup Prefix(q, 0) = H
    BY DEF Prefix
  <2>2. Fit(0)
    BY <2>1
  <2>3. 0 \in 0 .. Len(q)
    BY <1>1
  <2> HIDE DEF Fit
  <2> QED
    BY <2>2, <2>3
<1>3. PICK k \in T : \A j \in T : j <= k
  <2>1. T \in SUBSET (0 .. Len(q)) /\ T # {}
    BY <1>2
  <2> HIDE DEF T
  <2> QED
    BY <1>1, <2>1, Greatest
<1>4. ASSUME k < Len(q)
      PROVE  Used(H \cup Prefix(q, k + 1)) > Exclusive
  <2>1. k + 1 \in 0 .. Len(q) /\ k + 1 \notin T
    BY <1>1, <1>3, <1>4
  <2>2. ~Fit(k + 1)
    BY <2>1
  <2>3. H \cup Prefix(q, k + 1) \in SUBSET Requests
    BY <1>1, <2>1 DEF Prefix
  <2>4. Used(H \cup Prefix(q, k + 1)) \in Nat /\ Exclusive \in Nat
    BY <2>3, UsedType, GatewayAssumption
  <2> QED
    BY <2>2, <2>4
<1>5. k \in 0 .. Len(q) /\ Fit(k)
  OBVIOUS
<1> QED
  BY <1>4, <1>5 DEF Woken

Semaphore == Holders /\ Waiters /\ WithinWeight

(* What a step does that gives r's place in the semaphore back. *)
GivesBack(r) ==
  /\ queue' \in [Gateways -> Seq(Requests)]
  /\ held' \in [Gateways -> SUBSET Requests]
  /\ pc' \in [Requests -> RequestPCs]
  /\ pc'[r] = "leaving"
  /\ \A s \in Requests : s # r =>
       pc'[s] = pc[s] \/ (pc[s] = "queued" /\ pc'[s] = "admitted")
  /\ Semaphore'

(* When request r leaves the semaphore of its process g, with waiters q and *)
(* holders H left there, those that fit are admitted and the others go on   *)
(* waiting.                                                                *)
LEMMA WakeStep ==
  ASSUME TypeOK, Placed, Semaphore,
         NEW r \in Requests, NEW g \in Gateways, at[r] = g,
         NEW q \in Seq(Requests), NEW H \in SUBSET Requests, Used(H) <= Exclusive,
         \A i \in 1 .. Len(q) :
           /\ at[q[i]] = g /\ pc[q[i]] = "queued" /\ q[i] # r
           /\ \A j \in 1 .. Len(q) : q[i] = q[j] => i = j,
         \A s \in Requests : s \in H <=> at[s] = g /\ pc[s] \in Holding /\ s # r,
         \A s \in Requests : at[s] = g /\ pc[s] = "queued" /\ s # r =>
           \E i \in 1 .. Len(q) : q[i] = s,
         Wake(g, q, H), WokenAt(r, "leaving"), UNCHANGED at
  PROVE  GivesBack(r)
<1> DEFINE k == Woken(q, H)
           rest == SubSeq(q, k + 1, Len(q))
           admitted == Prefix(q, k)
<1>1. k \in 0 .. Len(q) /\ Used(H \cup admitted) <= Exclusive
  BY WokenFits
<1>2. /\ rest \in Seq(Requests) /\ Len(rest) = Len(q) - k
      /\ \A i \in 1 .. Len(rest) : rest[i] = q[i + k] /\ i + k \in 1 .. Len(q)
  <2> HIDE DEF k
  <2> QED
    BY <1>1
<1>3. /\ admitted \subseteq Requests
      /\ \A s \in Requests : s \in admitted <=> \E i \in 1 .. k : q[i] = s
  <2> HIDE DEF k
  <2>1. \A i \in 1 .. k : q[i] \in Requests
    BY <1>1
  <2> QED
    BY <2>1 DEF Prefix
<1>4. queue' = [queue EXCEPT ![g] = rest] /\ held' = [held EXCEPT ![g] = H \cup admitted]
  BY DEF Wake
<1>5. /\ queue \in [Gateways -> Seq(Requests)]
      /\ held \in [Gateways -> SUBSET Requests]
      /\ pc \in [Requests -> RequestPCs]
  BY DEF TypeOK
<1> HIDE DEF rest, admitted
<1>6. /\ queue' \in [Gateways -> Seq(Requests)]
      /\ held' \in [Gateways -> SUBSET Requests]
  BY <1>2, <1>3, <1>4, <1>5
<1>7. /\ queue'[g] = rest /\ held'[g] = H \cup admitted
      /\ \A f \in Gateways : f # g => queue'[f] = queue[f] /\ held'[f] = held[f]
  BY <1>4, <1>5
<1>8. \A s \in Requests :
        pc'[s] = IF s = r THEN "leaving"
                 ELSE IF pc[s] = "queued" /\ s \in held'[at[r]] THEN "admitted"
                 ELSE pc[s]
  BY DEF WokenAt
<1>9. pc' \in [Requests -> RequestPCs]
  BY <1>5 DEF WokenAt, RequestPCs
<1>10. \A i \in 1 .. k : i \in 1 .. Len(q)
  <2> HIDE DEF k
  <2> QED
    BY <1>1
<1>11. \A s \in Requests :
         s \in admitted => at[s] = g /\ pc[s] = "queued" /\ s # r /\ pc'[s] = "admitted"
  <2> HIDE DEF k
  <2> QED
    BY <1>3, <1>7, <1>8, <1>10
<1>12. \A s \in Requests : s # r /\ s \notin admitted => pc'[s] = pc[s]
  BY <1>7, <1>8 DEF Holding
<1>13. ASSUME NEW f \in Gateways, NEW s \in Requests
       PROVE  s \in held'[f] <=> at'[s] = f /\ pc'[s] \in Holding
  <2>1. CASE f # g
    <3>1. s \in held'[f] <=> at[s] = f /\ pc[s] \in Holding
      BY <1>7, <2>1 DEF Semaphore, Holders
    <3>2. at[s] = f => pc'[s] = pc[s]
      BY <1>11, <1>12, <2>1
    <3> QED
      BY <3>1, <3>2
  <2>2. CASE f = g /\ s = r
    BY <1>7, <1>8, <1>11, <2>2 DEF Holding
  <2>3. CASE f = g /\ s # r /\ s \in admitted
    BY <1>7, <1>11, <2>3 DEF Holding
  <2>4. CASE f = g /\ s # r /\ s \notin admitted
    BY <1>7, <1>12, <2>4
  <2> QED
    BY <2>1, <2>2, <2>3, <2>4
<1>14. ASSUME NEW f \in Gateways, NEW i \in 1 .. Len(queue'[f])
       PROVE  /\ at'[queue'[f][i]] = f
              /\ pc'[queue'[f][i]] = "queued"
              /\ \A j \in 1 .. Len(queue'[f]) : queue'[f][i] = queue'[f][j] => i = j
  <2>1. CASE f # g
    <3>1. /\ queue'[f] = queue[f]
          /\ at[queue[f][i]] = f /\ pc[queue[f][i]] = "queued"
          /\ \A j \in 1 .. Len(queue[f]) : queue[f][i] = queue[f][j] => i = j
      BY <1>7, <2>1 DEF Semaphore, Waiters
    <3>2. queue[f][i] \in Requests
      BY <1>5, <3>1
    <3>3. pc'[queue[f][i]] = "queued"
      BY <1>11, <1>12, <2>1, <3>1, <3>2
    <3> QED
      BY <3>1, <3>3
  <2>2. CASE f = g
    <3>1. /\ i \in 1 .. Len(rest) /\ rest[i] = q[i + k] /\ i + k \in 1 .. Len(q)
          /\ rest[i] \in Requests
      BY <1>2, <1>7, <2>2
    <3>2. at[rest[i]] = g /\ pc[rest[i]] = "queued" /\ rest[i] # r
      BY <3>1
    <3>3. rest[i] \notin admitted
      <4> HIDE DEF k
      <4>1. \A j \in 1 .. k : j \in 1 .. Len(q) /\ j # i + k
        BY <1>1, <1>2, <3>1
      <4> QED
        BY <1>3, <3>1, <4>1
    <3>4. ASSUME NEW j \in 1 .. Len(rest), rest[i] = rest[j]
          PROVE  i = j
      <4> HIDE DEF k
      <4>1. q[i + k] = q[j + k] /\ j + k \in 1 .. Len(q)
        BY <1>2, <3>1, <3>4
      <4>2. i + k = j + k
        BY <3>1, <4>1
      <4> QED
        BY <1>1, <1>2, <3>1, <4>2
    <3> QED
      BY <1>7, <1>12, <2>2, <3>1, <3>3, <3>4
  <2> QED
    BY <2>1, <2>2
<1>15. ASSUME NEW s \in Requests, pc'[s] = "queued"
       PROVE  \E i \in 1 .. Len(queue'[at'[s]]) : queue'[at'[s]][i] = s
  <2>1. s # r /\ s \notin admitted /\ pc[s] = "queued"
    BY <1>8, <1>11, <1>12, <1>15
  <2>2. at[s] \in Gateways
    BY <2>1 DEF TypeOK, Placed
  <2>3. CASE at[s] = g
    <3>1. PICK j \in 1 .. Len(q) : q[j] = s
      BY <2>1, <2>3
    <3> HIDE DEF k
    <3>2. j > k
      BY <1>1, <1>3, <2>1, <3>1
    <3>3. j - k \in 1 .. Len(rest) /\ rest[j - k] = q[(j - k) + k]
      BY <1>1, <1>2, <3>1, <3>2
    <3>4. (j - k) + k = j
      BY <1>1, <3>1
    <3> QED
      BY <1>7, <2>3, <3>1, <3>3, <3>4
  <2>4. CASE at[s] # g
    BY <1>7, <2>1, <2>2, <2>4 DEF Semaphore, Waiters
  <2> QED
    BY <2>3, <2>4
<1>16. WithinWeight'
  BY <1>1, <1>7 DEF Semaphore, WithinWeight, admitted
<1>17. Holders'
  BY <1>13 DEF Holders
<1>18. Waiters'
  BY <1>14, <1>15 DEF Waiters
<1>19. pc'[r] = "leaving"
  BY <1>8
<1>20. \A s \in Requests : s # r =>
         pc'[s] = pc[s] \/ (pc[s] = "queued" /\ pc'[s] = "admitted")
  BY <1>11, <1>12
<1> QED
  BY <1>6, <1>9, <1>16, <1>17, <1>18, <1>19, <1>20 DEF Semaphore, GivesBack

(* A request that finishes gives back its weight and admits those waiters   *)
(* that fit.                                                                *)
LEMMA ReleaseStep ==
  ASSUME TypeOK, Placed, Semaphore,
         NEW r \in Requests, pc[r] \in Holding, Release(r)
  PROVE  GivesBack(r)
<1> DEFINE g == at[r]
           H == held[g] \ {r}
           q == queue[g]
<1>1. g \in Gateways
  BY DEF TypeOK, Placed, Holding
<1>2. q \in Seq(Requests) /\ held[g] \in SUBSET Requests /\ H \in SUBSET Requests
  BY <1>1 DEF TypeOK
<1>3. Used(H) <= Exclusive
  <2>1. Used(H) <= Used(held[g]) /\ Used(held[g]) <= Exclusive
    BY <1>1, <1>2, UsedGrows DEF Semaphore, WithinWeight
  <2>2. Used(H) \in Nat /\ Used(held[g]) \in Nat /\ Exclusive \in Nat
    BY <1>2, UsedType, GatewayAssumption
  <2> QED
    BY <2>1, <2>2
<1>4. \A i \in 1 .. Len(q) :
        /\ at[q[i]] = g /\ pc[q[i]] = "queued" /\ q[i] # r
        /\ \A j \in 1 .. Len(q) : q[i] = q[j] => i = j
  BY <1>1 DEF Semaphore, Waiters, Holding
<1>5. \A s \in Requests : s \in H <=> at[s] = g /\ pc[s] \in Holding /\ s # r
  BY <1>1 DEF Semaphore, Holders
<1>6. \A s \in Requests : at[s] = g /\ pc[s] = "queued" /\ s # r =>
        \E i \in 1 .. Len(q) : q[i] = s
  BY DEF Semaphore, Waiters
<1>7. Wake(g, q, H) /\ WokenAt(r, "leaving") /\ UNCHANGED at
  BY DEF Release
<1> HIDE DEF H, q, g
<1> QED
  BY <1>1, <1>2, <1>3, <1>4, <1>5, <1>6, <1>7, WakeStep DEF g

(* A waiter that gives up leaves the queue and admits those behind it that  *)
(* fit now.                                                                 *)
LEMMA AcquireCancelledStep ==
  ASSUME TypeOK, Placed, Semaphore, NEW r \in Requests, AcquireCancelled(r)
  PROVE  GivesBack(r)
<1> DEFINE g == at[r]
           H == held[g]
           p == queue[g]
<1>1. g \in Gateways
  BY DEF TypeOK, Placed, AcquireCancelled
<1>2. p \in Seq(Requests) /\ H \in SUBSET Requests /\ Used(H) <= Exclusive
  BY <1>1 DEF TypeOK, Semaphore, WithinWeight
<1>3. PICK n \in 1 .. Len(p) : p[n] = r /\ Wake(g, RemoveAt(p, n), H)
  BY DEF AcquireCancelled
<1> DEFINE q == RemoveAt(p, n)
<1>4. /\ q \in Seq(Requests) /\ Len(q) = Len(p) - 1
      /\ \A j \in 1 .. Len(p) - 1 : q[j] = p[IF j < n THEN j ELSE j + 1]
  BY <1>2, <1>3, RemovedAt
<1>5. \A i \in 1 .. Len(p) :
        /\ at[p[i]] = g /\ pc[p[i]] = "queued"
        /\ \A j \in 1 .. Len(p) : p[i] = p[j] => i = j
  BY <1>1 DEF Semaphore, Waiters
<1>6. pc[r] = "queued" /\ WokenAt(r, "leaving") /\ UNCHANGED at
  BY DEF AcquireCancelled
<1>7. \A s \in Requests : s \in H <=> at[s] = g /\ pc[s] \in Holding /\ s # r
  BY <1>1, <1>6 DEF Semaphore, Holders, Holding
<1>8. \A s \in Requests : at[s] = g /\ pc[s] = "queued" => \E i \in 1 .. Len(p) : p[i] = s
  BY DEF Semaphore, Waiters
<1> HIDE DEF q, H, p, g
<1>9. Len(p) \in Nat /\ n \in 1 .. Len(p)
  BY <1>2, <1>3
<1>10. ASSUME NEW i \in 1 .. Len(q)
       PROVE  /\ at[q[i]] = g /\ pc[q[i]] = "queued" /\ q[i] # r
              /\ \A j \in 1 .. Len(q) : q[i] = q[j] => i = j
  <2> DEFINE skip(j) == IF j < n THEN j ELSE j + 1
  <2>1. \A j \in 1 .. Len(q) : q[j] = p[skip(j)] /\ skip(j) \in 1 .. Len(p) /\ skip(j) # n
    BY <1>4, <1>9
  <2>2. \A j \in 1 .. Len(q) : skip(i) = skip(j) => i = j
    BY <1>4, <1>9
  <2> HIDE DEF skip
  <2>3. q[i] # r
    BY <1>3, <1>5, <1>9, <2>1
  <2> QED
    BY <1>5, <2>1, <2>2, <2>3
<1>11. ASSUME NEW s \in Requests, at[s] = g, pc[s] = "queued", s # r
       PROVE  \E i \in 1 .. Len(q) : q[i] = s
  <2>1. PICK i \in 1 .. Len(p) : p[i] = s
    BY <1>8, <1>11
  <2>2. CASE i < n
    <3>1. i \in 1 .. Len(q) /\ q[i] = p[i]
      BY <1>4, <1>9, <2>1, <2>2
    <3> QED
      BY <2>1, <3>1
  <2>3. CASE i > n
    <3>1. i - 1 \in 1 .. Len(q) /\ q[i - 1] = p[i]
      BY <1>4, <1>9, <2>1, <2>3
    <3> QED
      BY <2>1, <3>1
  <2>4. i # n
    BY <1>3, <1>11, <2>1
  <2> QED
    BY <1>9, <2>1, <2>2, <2>3, <2>4
<1>12. Wake(g, q, H)
  BY <1>3 DEF q
<1>13. at[r] = g
  BY DEF g
<1>14. \A i \in 1 .. Len(q) :
         /\ at[q[i]] = g /\ pc[q[i]] = "queued" /\ q[i] # r
         /\ \A j \in 1 .. Len(q) : q[i] = q[j] => i = j
  BY <1>10
<1>15. \A s \in Requests : at[s] = g /\ pc[s] = "queued" /\ s # r =>
         \E i \in 1 .. Len(q) : q[i] = s
  BY <1>11
<1>16. q \in Seq(Requests) /\ H \in SUBSET Requests /\ Used(H) <= Exclusive
  BY <1>2, <1>4
<1>17. WokenAt(r, "leaving") /\ UNCHANGED at
  BY <1>6
<1> QED
  BY <1>1, <1>7, <1>12, <1>13, <1>14, <1>15, <1>16, <1>17, WakeStep

(* A step that gives a place in the semaphore back changes nothing else,    *)
(* and saves no record.                                                    *)
Backs(r) ==
  /\ pc[r] \in Holding \cup {"queued"}
  /\ GivesBack(r)
  /\ pending' \in {pending, FALSE}
  /\ UNCHANGED <<process, handler, at, cancelled>>

(* The four ways in which a request gives back the semaphore or its place in*)
(* the queue.                                                               *)
LEMMA BackStep ==
  ASSUME IInv, NEW r \in Requests,
         AcquireCancelled(r) \/ Reject(r) \/ RecoverFails(r) \/ Finish(r)
  PROVE  Backs(r)
<1>1. TypeOK /\ Placed /\ Semaphore
  BY DEF IInv, Semaphore
<1>2. CASE AcquireCancelled(r)
  <2>1. GivesBack(r)
    BY <1>1, <1>2, AcquireCancelledStep
  <2> QED
    BY <1>2, <2>1 DEF AcquireCancelled, Backs
<1>3. ASSUME Release(r), pc[r] \in Holding, pending' \in {pending, FALSE}
      PROVE  Backs(r)
  <2>1. GivesBack(r)
    BY <1>1, <1>3, ReleaseStep
  <2> QED
    BY <1>3, <2>1 DEF Release, Backs
<1>4. CASE Reject(r)
  BY <1>3, <1>4 DEF Reject, Holding
<1>5. CASE RecoverFails(r)
  BY <1>3, <1>5 DEF RecoverFails, Holding
<1>6. CASE Finish(r)
  BY <1>3, <1>6 DEF Finish, Holding
<1> QED
  BY <1>2, <1>4, <1>5, <1>6

(* The requests inside a process are as many as before when none comes or   *)
(* goes.                                                                   *)
LEMMA SameInside ==
  ASSUME NEW g, \A r \in Requests : at'[r] = g /\ Inside(r)' <=> at[r] = g /\ Inside(r)
  PROVE  Serves(g)' = Serves(g)
BY DEF Serves

(* A process has finitely many requests to count. *)
LEMMA ServesFinite ==
  ASSUME NEW g
  PROVE  IsFiniteSet(Serves(g)) /\ Cardinality(Serves(g)) \in Nat
<1>1. IsFiniteSet(Requests)
  BY GatewayAssumption DEF Requests
<1>2. Serves(g) \subseteq Requests
  BY DEF Serves
<1> QED
  BY <1>1, <1>2, FS_Subset, FS_CardinalityType

(* A process with no active request serves none, and one with a request     *)
(* inside has not released its journal.                                    *)
LEMMA NobodyInside ==
  ASSUME TypeOK, Counting, NEW g \in Gateways, active[g] = 0, NEW r \in Requests, at[r] = g
  PROVE  ~Inside(r)
<1>1. IsFiniteSet(Serves(g)) /\ Cardinality(Serves(g)) = 0
  BY ServesFinite DEF Counting
<1>2. Serves(g) = {}
  BY <1>1, FS_EmptySet
<1> QED
  BY <1>2 DEF Serves

(* A request inside a process finds it in possession of the journal. *)
LEMMA InsideOwns ==
  ASSUME IInv, NEW r \in Requests, Inside(r)
  PROVE  at[r] \in Gateways /\ Owns(at[r]) /\ lock = at[r] /\ at[r] \in journal
<1>1. at[r] \in Gateways /\ life[at[r]] \notin {"down", "recovering"}
  BY DEF IInv, TypeOK, Placed, Inside
<1>2. life[at[r]] # "released"
  <2> SUFFICES ASSUME life[at[r]] = "released" PROVE FALSE
    OBVIOUS
  <2>1. active[at[r]] = 0
    BY <1>1 DEF IInv, Draining
  <2> QED
    BY <1>1, <2>1, NobodyInside DEF IInv
<1>3. Owns(at[r])
  BY <1>1, <1>2 DEF Owns
<1> QED
  BY <1>1, <1>3 DEF IInv, Locks

(* Among all processes, a mutation past the semaphore is the only one.      *)
LEMMA OneHolder ==
  ASSUME IInv, NEW r \in Mutations, NEW s \in Requests,
         pc[r] \in Holding, pc[s] \in Holding, s \in Mutations \/ at[s] = at[r]
  PROVE  s = r
<1>1. r \in Requests /\ Inside(r) /\ Inside(s)
  BY DEF Requests, Inside, Holding
<1>2. at[r] \in Gateways /\ at[s] = at[r]
  BY <1>1, InsideOwns
<1>3. r \in held[at[r]] /\ s \in held[at[r]]
  BY <1>1, <1>2 DEF IInv, Holders
<1>4. held[at[r]] \in SUBSET Requests /\ Used(held[at[r]]) <= Exclusive
  BY <1>2 DEF IInv, TypeOK, WithinWeight
<1> QED
  BY <1>3, <1>4, MutationTakesAll

(* Who is inside, waits or holds is all that the counter and the semaphore  *)
(* depend on.                                                              *)
LEMMA CountKept ==
  ASSUME Counting, UNCHANGED <<active, idle>>,
         \A r \in Requests : Inside(r) \/ Inside(r)' =>
           at'[r] = at[r] /\ (Inside(r) <=> Inside(r)')
  PROVE  Counting'
<1>1. ASSUME NEW g
      PROVE  Serves(g)' = Serves(g)
  BY DEF Serves
<1> QED
  BY <1>1 DEF Counting

(* A step that leaves the queues, the holders and who is which alone. *)
LEMMA SemaphoreKept ==
  ASSUME TypeOK, Semaphore, UNCHANGED <<queue, held>>,
         \A r \in Requests :
           /\ pc'[r] \in Holding <=> pc[r] \in Holding
           /\ pc'[r] = "queued" <=> pc[r] = "queued"
           /\ pc[r] \in Holding \cup {"queued"} => at'[r] = at[r]
  PROVE  Semaphore'
<1>1. Holders'
  BY DEF Semaphore, Holders
<1>2. \A g \in Gateways : \A i \in 1 .. Len(queue[g]) : queue[g][i] \in Requests
  BY DEF TypeOK
<1>3. Waiters'
  BY <1>2 DEF Semaphore, Waiters
<1>4. WithinWeight'
  BY DEF Semaphore, WithinWeight
<1> QED
  BY <1>1, <1>3, <1>4 DEF Semaphore

(* Every step keeps the types. *)
LEMMA TypeOKStep ==
  ASSUME IInv, [Next]_vars
  PROVE  TypeOK'
<1>0. TypeOK
  BY DEF IInv, Semaphore
<1>1. ASSUME NEW g \in Gateways, Start(g) PROVE TypeOK'
  BY <1>0, <1>1, GatewayAssumption
     DEF Start, TypeOK, Lives, process, handler, request, semaphore
<1>2. ASSUME NEW g \in Gateways, StartRecovered(g) PROVE TypeOK'
  BY <1>0, <1>2, GatewayAssumption
     DEF StartRecovered, TypeOK, Lives, process, handler, request, semaphore
<1>3. ASSUME NEW g \in Gateways, Stop(g) PROVE TypeOK'
  BY <1>0, <1>3, GatewayAssumption
     DEF Stop, TypeOK, Lives, process, handler, request, semaphore
<1>4. ASSUME NEW g \in Gateways, Shutdown(g) PROVE TypeOK'
  BY <1>0, <1>4, GatewayAssumption
     DEF Shutdown, TypeOK, Lives, process, handler, request, semaphore
<1>5. ASSUME NEW g \in Gateways, ShutdownTimeout(g) PROVE TypeOK'
  BY <1>0, <1>5, GatewayAssumption
     DEF ShutdownTimeout, TypeOK, Lives, process, handler, request, semaphore
<1>6. ASSUME NEW g \in Gateways, Drain(g) PROVE TypeOK'
  BY <1>0, <1>6, GatewayAssumption
     DEF Drain, TypeOK, Lives, process, handler, request, semaphore
<1>7. ASSUME NEW g \in Gateways, DrainIdle(g) PROVE TypeOK'
  BY <1>0, <1>7, GatewayAssumption
     DEF DrainIdle, TypeOK, Lives, process, handler, request, semaphore
<1>8. ASSUME NEW g \in Gateways, DrainTimeout(g) PROVE TypeOK'
  BY <1>0, <1>8, GatewayAssumption
     DEF DrainTimeout, TypeOK, Lives, process, handler, request, semaphore
<1>9. ASSUME NEW g \in Gateways, CloseRecovery(g) PROVE TypeOK'
  BY <1>0, <1>9, GatewayAssumption
     DEF CloseRecovery, TypeOK, Lives, process, handler, request, semaphore
<1>10. ASSUME NEW g \in Gateways, Gone(g) PROVE TypeOK'
  BY <1>0, <1>10, GatewayAssumption
     DEF Gone, TypeOK, Lives, RequestPCs, process, handler, request, semaphore
<1>11. ASSUME NEW r \in Requests, Enter(r) PROVE TypeOK'
  <2>1. at[r] \in Gateways
    BY <1>11 DEF IInv, TypeOK, Placed, Enter
  <2>2. active' \in [Gateways -> Nat]
    BY <1>0, <1>11, <2>1 DEF Enter, TypeOK
  <2>3. idle' \in [Gateways -> {"nil", "open", "closed"}]
    BY <1>0, <1>11, <2>1 DEF Enter, TypeOK
  <2>4. pc' \in [Requests -> RequestPCs]
    BY <1>0, <1>11 DEF Enter, At, TypeOK, RequestPCs
  <2> QED
    BY <1>0, <1>11, <2>2, <2>4 DEF Enter, TypeOK, process, semaphore
<1>12. ASSUME NEW r \in Requests, EnterRefused(r) PROVE TypeOK'
  BY <1>0, <1>12, GatewayAssumption
     DEF EnterRefused, TypeOK, Lives, RequestPCs, Answer, At, process, handler,
         request, semaphore
<1>13. ASSUME NEW r \in Requests, Acquire(r) PROVE TypeOK'
  <2>1. at[r] \in Gateways
    BY <1>13 DEF IInv, TypeOK, Placed, Acquire
  <2>2. held' \in [Gateways -> SUBSET Requests]
    <3>1. held[at[r]] \cup {r} \in SUBSET Requests
      BY <1>0, <2>1 DEF TypeOK
    <3> QED
      BY <1>0, <1>13, <3>1 DEF Acquire, TypeOK
  <2>3. queue' \in [Gateways -> Seq(Requests)]
    <3>1. queue[at[r]] \in Seq(Requests)
      BY <1>0, <2>1 DEF TypeOK
    <3>2. Append(queue[at[r]], r) \in Seq(Requests)
      BY <3>1
    <3> QED
      BY <1>0, <1>13, <3>2 DEF Acquire, TypeOK
  <2>4. pc' \in [Requests -> RequestPCs]
    BY <1>0, <1>13 DEF Acquire, At, TypeOK, RequestPCs
  <2> QED
    BY <1>0, <1>13, <2>2, <2>3, <2>4 DEF Acquire, TypeOK, process, handler
<1>14. ASSUME NEW r \in Requests, Read(r) PROVE TypeOK'
  BY <1>0, <1>14, GatewayAssumption
     DEF Read, TypeOK, Lives, RequestPCs, At, process, handler, request,
         semaphore
<1>15. ASSUME NEW r \in Requests, Recover(r) PROVE TypeOK'
  BY <1>0, <1>15, GatewayAssumption
     DEF Recover, TypeOK, Lives, RequestPCs, At, process, handler, request,
         semaphore
<1>16. ASSUME NEW r \in Requests, Recovered(r) PROVE TypeOK'
  BY <1>0, <1>16, GatewayAssumption
     DEF Recovered, TypeOK, Lives, RequestPCs, At, process, handler, request,
         semaphore
<1>17. ASSUME NEW r \in Requests, Mutate(r) PROVE TypeOK'
  BY <1>0, <1>17, GatewayAssumption
     DEF Mutate, TypeOK, Lives, RequestPCs, At, process, handler, request,
         semaphore
<1>18. ASSUME NEW r \in Requests, Leave(r) PROVE TypeOK'
  <2>1. at[r] \in Gateways
    BY <1>18 DEF IInv, TypeOK, Placed, Leave
  <2>2. active[at[r]] # 0
    BY <1>18, <2>1, NobodyInside DEF IInv, Leave, Inside
  <2>3. active' \in [Gateways -> Nat]
    <3>1. active[at[r]] \in Nat /\ active[at[r]] - 1 \in Nat
      BY <1>0, <2>1, <2>2 DEF TypeOK
    <3> QED
      BY <1>0, <1>18, <2>1, <3>1 DEF Leave, TypeOK
  <2>4. idle' \in [Gateways -> {"nil", "open", "closed"}]
    BY <1>0, <1>18, <2>1 DEF Leave, TypeOK
  <2>5. pc' \in [Requests -> RequestPCs] /\ at' \in [Requests -> Gateways \cup {Nobody}]
    BY <1>0, <1>18 DEF Leave, Answer, At, TypeOK, RequestPCs
  <2>6. cancelled' \subseteq Requests
    BY <1>0, <1>18 DEF Leave, Answer, TypeOK
  <2> QED
    BY <1>0, <1>18, <2>3, <2>5, <2>6 DEF Leave, TypeOK, process, semaphore
<1>19. ASSUME NEW r \in Requests, Cancel(r) PROVE TypeOK'
  BY <1>0, <1>19, GatewayAssumption
     DEF Cancel, TypeOK, process, handler, request, semaphore
<1>20. ASSUME NEW r \in Requests, Backs(r) PROVE TypeOK'
  BY <1>0, <1>20, GatewayAssumption
     DEF Backs, GivesBack, TypeOK, process, handler
<1>21. ASSUME NEW r \in Requests, NEW g \in Gateways, Send(r, g) PROVE TypeOK'
  BY <1>0, <1>21, GatewayAssumption
     DEF Send, TypeOK, Lives, RequestPCs, At, process, handler, request,
         semaphore
<1>22. CASE UNCHANGED vars
  BY <1>0, <1>22 DEF vars, TypeOK, process, handler, request, semaphore
<1>23. CASE Next
  <2>1. ASSUME NEW r \in Requests, RequestStep(r) PROVE TypeOK'
    BY <1>11, <1>12, <1>13, <1>14, <1>15, <1>16, <1>17, <1>18, <1>19, <1>20,
       BackStep, <2>1 DEF RequestStep
  <2>2. ASSUME NEW g \in Gateways,
               StartStep(g) \/ Stop(g) \/ ShutdownStep(g) \/ Crash(g)
        PROVE TypeOK'
    BY <1>1, <1>2, <1>3, <1>4, <1>5, <1>6, <1>7, <1>8, <1>9, <1>10, <2>2
       DEF StartStep, ShutdownStep, StartFails, Crash, Exit
  <2> QED
    BY <1>19, <1>21, <1>23, <2>1, <2>2 DEF Next
<1> QED
  BY <1>22, <1>23

(* A request enters a process that listens, and a process that ends takes   *)
(* its requests along.                                                      *)
LEMMA PlacedStep ==
  ASSUME IInv, [Next]_vars
  PROVE  Placed'
<1>0. TypeOK /\ Placed
  BY DEF IInv, Semaphore
<1>1. ASSUME NEW g \in Gateways, Start(g) PROVE Placed'
  BY <1>0, <1>1, GatewayAssumption DEF Start, Placed, request
<1>2. ASSUME NEW g \in Gateways, StartRecovered(g) PROVE Placed'
  BY <1>0, <1>2, GatewayAssumption DEF StartRecovered, Placed, request
<1>3. ASSUME NEW g \in Gateways, Stop(g) PROVE Placed'
  BY <1>0, <1>3, GatewayAssumption DEF Stop, Placed, request
<1>4. ASSUME NEW g \in Gateways, Shutdown(g) PROVE Placed'
  BY <1>0, <1>4, GatewayAssumption DEF Shutdown, Placed, request
<1>5. ASSUME NEW g \in Gateways, ShutdownTimeout(g) PROVE Placed'
  BY <1>0, <1>5 DEF ShutdownTimeout, Placed
<1>6. ASSUME NEW g \in Gateways, Drain(g) PROVE Placed'
  BY <1>0, <1>6, GatewayAssumption DEF Drain, Placed, request
<1>7. ASSUME NEW g \in Gateways, DrainIdle(g) PROVE Placed'
  BY <1>0, <1>7, GatewayAssumption DEF DrainIdle, Placed, request
<1>8. ASSUME NEW g \in Gateways, DrainTimeout(g) PROVE Placed'
  BY <1>0, <1>8, GatewayAssumption DEF DrainTimeout, Placed, request
<1>9. ASSUME NEW g \in Gateways, CloseRecovery(g) PROVE Placed'
  BY <1>0, <1>9, GatewayAssumption DEF CloseRecovery, Placed, request
<1>10. ASSUME NEW g \in Gateways, Gone(g) PROVE Placed'
  BY <1>0, <1>10 DEF Gone, Placed
<1>11. ASSUME NEW r \in Requests, Enter(r) PROVE Placed'
  BY <1>0, <1>11 DEF Enter, Placed, At, process
<1>12. ASSUME NEW r \in Requests, EnterRefused(r) PROVE Placed'
  BY <1>0, <1>12, GatewayAssumption
     DEF EnterRefused, Placed, TypeOK, Answer, At, process
<1>13. ASSUME NEW r \in Requests, Acquire(r) PROVE Placed'
  BY <1>0, <1>13 DEF Acquire, Placed, TypeOK, At, process
<1>14. ASSUME NEW r \in Requests, Read(r) PROVE Placed'
  BY <1>0, <1>14 DEF Read, Placed, At, process
<1>15. ASSUME NEW r \in Requests, Recover(r) PROVE Placed'
  BY <1>0, <1>15 DEF Recover, Placed, At, process
<1>16. ASSUME NEW r \in Requests, Recovered(r) PROVE Placed'
  BY <1>0, <1>16 DEF Recovered, Placed, At, process
<1>17. ASSUME NEW r \in Requests, Mutate(r) PROVE Placed'
  BY <1>0, <1>17 DEF Mutate, Placed, At, process
<1>18. ASSUME NEW r \in Requests, Leave(r) PROVE Placed'
  BY <1>0, <1>18, GatewayAssumption
     DEF Leave, Placed, TypeOK, Answer, At, process
<1>19. ASSUME NEW r \in Requests, Cancel(r) PROVE Placed'
  BY <1>0, <1>19 DEF Cancel, Placed, process
<1>20. ASSUME NEW r \in Requests, Backs(r) PROVE Placed'
  <2>1. \A s \in Requests : pc'[s] = "none" <=> pc[s] = "none"
    BY <1>20 DEF Backs, GivesBack, Holding
  <2>2. UNCHANGED <<at, life>>
    BY <1>20 DEF Backs, process
  <2> QED
    BY <1>0, <2>1, <2>2 DEF Placed
<1>21. ASSUME NEW r \in Requests, NEW g \in Gateways, Send(r, g) PROVE Placed'
  BY <1>0, <1>21, GatewayAssumption DEF Send, Placed, TypeOK, At, process
<1>22. CASE UNCHANGED vars
  BY <1>0, <1>22 DEF vars, Placed, process, request
<1>23. CASE Next
  <2>1. ASSUME NEW r \in Requests, RequestStep(r) PROVE Placed'
    BY <1>11, <1>12, <1>13, <1>14, <1>15, <1>16, <1>17, <1>18, <1>19, <1>20,
       BackStep, <2>1 DEF RequestStep
  <2>2. ASSUME NEW g \in Gateways,
               StartStep(g) \/ Stop(g) \/ ShutdownStep(g) \/ Crash(g)
        PROVE Placed'
    BY <1>1, <1>2, <1>3, <1>4, <1>5, <1>6, <1>7, <1>8, <1>9, <1>10, <2>2
       DEF StartStep, ShutdownStep, StartFails, Crash, Exit
  <2> QED
    BY <1>19, <1>21, <1>23, <2>1, <2>2 DEF Next
<1> QED
  BY <1>22, <1>23

(* The journal is released after the drain only, or by the end of the       *)
(* process.                                                                 *)
LEMMA LocksStep ==
  ASSUME IInv, [Next]_vars
  PROVE  Locks'
<1>0. TypeOK /\ Locks
  BY DEF IInv, Semaphore
<1>1. ASSUME NEW g \in Gateways, Start(g) PROVE Locks'
  BY <1>0, <1>1, GatewayAssumption DEF Start, Locks, TypeOK, Owns
<1>2. ASSUME NEW g \in Gateways, StartRecovered(g) PROVE Locks'
  BY <1>0, <1>2 DEF StartRecovered, Locks, Owns
<1>3. ASSUME NEW g \in Gateways, Stop(g) PROVE Locks'
  BY <1>0, <1>3 DEF Stop, Locks, Owns
<1>4. ASSUME NEW g \in Gateways, Shutdown(g) PROVE Locks'
  BY <1>0, <1>4 DEF Shutdown, Locks, Owns
<1>5. ASSUME NEW g \in Gateways, ShutdownTimeout(g) PROVE Locks'
  BY <1>0, <1>5 DEF ShutdownTimeout, Locks, Owns
<1>6. ASSUME NEW g \in Gateways, Drain(g) PROVE Locks'
  BY <1>0, <1>6 DEF Drain, Locks, Owns
<1>7. ASSUME NEW g \in Gateways, DrainIdle(g) PROVE Locks'
  BY <1>0, <1>7 DEF DrainIdle, Locks, Owns
<1>8. ASSUME NEW g \in Gateways, DrainTimeout(g) PROVE Locks'
  BY <1>0, <1>8 DEF DrainTimeout, Locks, Owns
<1>9. ASSUME NEW g \in Gateways, CloseRecovery(g) PROVE Locks'
  BY <1>0, <1>9, GatewayAssumption DEF CloseRecovery, Locks, TypeOK, Owns
<1>10. ASSUME NEW g \in Gateways, Gone(g) PROVE Locks'
  BY <1>0, <1>10, GatewayAssumption
     DEF Gone, Locks, TypeOK, Owns, process, handler, request, semaphore
<1>11. ASSUME NEW r \in Requests, Enter(r) PROVE Locks'
  BY <1>0, <1>11, GatewayAssumption DEF Enter, Locks, TypeOK, Owns, At, process
<1>12. ASSUME NEW r \in Requests, EnterRefused(r) PROVE Locks'
  BY <1>0, <1>12, GatewayAssumption
     DEF EnterRefused, Locks, TypeOK, Owns, process, handler
<1>13. ASSUME NEW r \in Requests, Acquire(r) PROVE Locks'
  BY <1>0, <1>13, GatewayAssumption
     DEF Acquire, Locks, TypeOK, Owns, At, process, handler, request,
         semaphore
<1>14. ASSUME NEW r \in Requests, Read(r) PROVE Locks'
  BY <1>0, <1>14, GatewayAssumption DEF Read, Locks, TypeOK, Owns, At, process
<1>15. ASSUME NEW r \in Requests, Recover(r) PROVE Locks'
  BY <1>0, <1>15, GatewayAssumption
     DEF Recover, Locks, TypeOK, Owns, At, process
<1>16. ASSUME NEW r \in Requests, Recovered(r) PROVE Locks'
  BY <1>0, <1>16, GatewayAssumption
     DEF Recovered, Locks, TypeOK, Owns, At, process
<1>17. ASSUME NEW r \in Requests, Mutate(r) PROVE Locks'
  BY <1>0, <1>17, GatewayAssumption
     DEF Mutate, Locks, TypeOK, Owns, At, process
<1>18. ASSUME NEW r \in Requests, Leave(r) PROVE Locks'
  BY <1>0, <1>18, GatewayAssumption
     DEF Leave, Locks, TypeOK, Owns, process, handler
<1>19. ASSUME NEW r \in Requests, Cancel(r) PROVE Locks'
  BY <1>0, <1>19 DEF Cancel, Locks, Owns, process
<1>20. ASSUME NEW r \in Requests, Backs(r) PROVE Locks'
  BY <1>0, <1>20, GatewayAssumption
     DEF Backs, GivesBack, Locks, TypeOK, Owns, process, handler, request,
         semaphore
<1>21. ASSUME NEW r \in Requests, NEW g \in Gateways, Send(r, g) PROVE Locks'
  BY <1>0, <1>21, GatewayAssumption DEF Send, Locks, TypeOK, Owns, At, process
<1>22. CASE UNCHANGED vars
  BY <1>0, <1>22 DEF vars, Locks, Owns, process
<1>23. CASE Next
  <2>1. ASSUME NEW r \in Requests, RequestStep(r) PROVE Locks'
    BY <1>11, <1>12, <1>13, <1>14, <1>15, <1>16, <1>17, <1>18, <1>19, <1>20,
       BackStep, <2>1 DEF RequestStep
  <2>2. ASSUME NEW g \in Gateways,
               StartStep(g) \/ Stop(g) \/ ShutdownStep(g) \/ Crash(g)
        PROVE Locks'
    BY <1>1, <1>2, <1>3, <1>4, <1>5, <1>6, <1>7, <1>8, <1>9, <1>10, <2>2
       DEF StartStep, ShutdownStep, StartFails, Crash, Exit
  <2> QED
    BY <1>19, <1>21, <1>23, <2>1, <2>2 DEF Next
<1> QED
  BY <1>22, <1>23

(* The semaphore's three invariants together: no step overdraws it, loses a *)
(* waiter or forgets a holder.                                              *)
LEMMA SemaphoreStep ==
  ASSUME IInv, [Next]_vars
  PROVE  Semaphore'
<1>0. TypeOK /\ Placed /\ Semaphore
  BY DEF IInv, Semaphore
<1>1. ASSUME NEW g \in Gateways, Start(g) PROVE Semaphore'
  BY <1>0, <1>1, GatewayAssumption
     DEF Start, Semaphore, Holders, Waiters, WithinWeight, Holding, request,
         semaphore
<1>2. ASSUME NEW g \in Gateways, StartRecovered(g) PROVE Semaphore'
  BY <1>0, <1>2, GatewayAssumption
     DEF StartRecovered, Semaphore, Holders, Waiters, WithinWeight, Holding,
         request, semaphore
<1>3. ASSUME NEW g \in Gateways, Stop(g) PROVE Semaphore'
  BY <1>0, <1>3, GatewayAssumption
     DEF Stop, Semaphore, Holders, Waiters, WithinWeight, Holding, request,
         semaphore
<1>4. ASSUME NEW g \in Gateways, Shutdown(g) PROVE Semaphore'
  BY <1>0, <1>4, GatewayAssumption
     DEF Shutdown, Semaphore, Holders, Waiters, WithinWeight, Holding, request,
         semaphore
<1>5. ASSUME NEW g \in Gateways, ShutdownTimeout(g) PROVE Semaphore'
  BY <1>0, <1>5, GatewayAssumption
     DEF ShutdownTimeout, Semaphore, Holders, Waiters, WithinWeight, Holding,
         request, semaphore
<1>6. ASSUME NEW g \in Gateways, Drain(g) PROVE Semaphore'
  BY <1>0, <1>6, GatewayAssumption
     DEF Drain, Semaphore, Holders, Waiters, WithinWeight, Holding, process,
         handler, request, semaphore
<1>7. ASSUME NEW g \in Gateways, DrainIdle(g) PROVE Semaphore'
  BY <1>0, <1>7, GatewayAssumption
     DEF DrainIdle, Semaphore, Holders, Waiters, WithinWeight, Holding,
         request, semaphore
<1>8. ASSUME NEW g \in Gateways, DrainTimeout(g) PROVE Semaphore'
  BY <1>0, <1>8, GatewayAssumption
     DEF DrainTimeout, Semaphore, Holders, Waiters, WithinWeight, Holding,
         request, semaphore
<1>9. ASSUME NEW g \in Gateways, CloseRecovery(g) PROVE Semaphore'
  BY <1>0, <1>9, GatewayAssumption
     DEF CloseRecovery, Semaphore, Holders, Waiters, WithinWeight, Holding,
         request, semaphore
<1>10. ASSUME NEW g \in Gateways, Gone(g) PROVE Semaphore'
  <2>1. /\ queue'[g] = <<>> /\ held'[g] = {}
        /\ \A f \in Gateways : f # g => queue'[f] = queue[f] /\ held'[f] = held[f]
        /\ \A r \in Requests : IF at[r] = g THEN at'[r] = Nobody /\ pc'[r] = "none"
                                            ELSE at'[r] = at[r] /\ pc'[r] = pc[r]
    BY <1>0, <1>10 DEF Gone, TypeOK
  <2>2. Holders'
    BY <1>0, <2>1, GatewayAssumption DEF Semaphore, Holders, Holding
  <2>3. \A f \in Gateways : \A i \in 1 .. Len(queue[f]) : queue[f][i] \in Requests
    BY <1>0 DEF TypeOK
  <2>4. ASSUME NEW f \in Gateways, NEW i \in 1 .. Len(queue'[f])
        PROVE  /\ at'[queue'[f][i]] = f
               /\ pc'[queue'[f][i]] = "queued"
               /\ \A j \in 1 .. Len(queue'[f]) : queue'[f][i] = queue'[f][j] => i = j
    <3>1. f # g
      BY <2>1
    <3> QED
      BY <1>0, <2>1, <2>3, <3>1 DEF Semaphore, Waiters
  <2>5. ASSUME NEW r \in Requests, pc'[r] = "queued"
        PROVE  \E i \in 1 .. Len(queue'[at'[r]]) : queue'[at'[r]][i] = r
    <3>1. at[r] # g /\ at'[r] = at[r] /\ pc[r] = "queued" /\ at[r] \in Gateways
      BY <1>0, <2>1, <2>5 DEF TypeOK, Placed
    <3> QED
      BY <1>0, <2>1, <3>1 DEF Semaphore, Waiters
  <2>6. Used({}) = 0
    <3>1. {} \cap Readers = {} /\ {} \cap Mutations = {}
      OBVIOUS
    <3> QED
      BY <3>1, FS_EmptySet, GatewayAssumption DEF Used
  <2>7. ASSUME NEW f \in Gateways
        PROVE  Used(held'[f]) <= Exclusive
    <3>1. CASE f = g
      <4>1. held'[f] = {}
        BY <2>1, <3>1
      <4> QED
        BY <2>6, <4>1, GatewayAssumption
    <3>2. CASE f # g
      BY <1>0, <2>1, <3>2 DEF Semaphore, WithinWeight
    <3> QED
      BY <3>1, <3>2
  <2>8. Waiters'
    BY <2>4, <2>5 DEF Waiters
  <2> QED
    BY <2>2, <2>7, <2>8 DEF Semaphore, WithinWeight
<1>11. ASSUME NEW r \in Requests, Enter(r) PROVE Semaphore'
  <2>1. \A s \in Requests :
          /\ pc'[s] \in Holding <=> pc[s] \in Holding
          /\ pc'[s] = "queued" <=> pc[s] = "queued"
          /\ pc[s] \in Holding \cup {"queued"} => at'[s] = at[s]
    BY <1>0, <1>11 DEF Enter, At, Holding, TypeOK
  <2> QED
    BY <1>0, <1>11, <2>1, SemaphoreKept DEF Enter, semaphore
<1>12. ASSUME NEW r \in Requests, EnterRefused(r) PROVE Semaphore'
  <2>1. \A s \in Requests :
          /\ pc'[s] \in Holding <=> pc[s] \in Holding
          /\ pc'[s] = "queued" <=> pc[s] = "queued"
          /\ pc[s] \in Holding \cup {"queued"} => at'[s] = at[s]
    BY <1>12 DEF EnterRefused, Answer, At, Holding
  <2> QED
    BY <1>0, <1>12, <2>1, SemaphoreKept DEF EnterRefused, semaphore
<1>13. ASSUME NEW r \in Requests, Acquire(r) PROVE Semaphore'
  <2> DEFINE g == at[r]
             q == queue[g]
  <2>1. /\ g \in Gateways /\ pc[r] = "entered" /\ UNCHANGED at
        /\ q \in Seq(Requests) /\ held[g] \in SUBSET Requests
    BY <1>0, <1>13 DEF Acquire, TypeOK, Placed
  <2>2. CASE Fits(r, q, held[g])
    <3>1. /\ UNCHANGED queue
          /\ held'[g] = held[g] \cup {r}
          /\ \A f \in Gateways : f # g => held'[f] = held[f]
          /\ pc'[r] = "admitted"
          /\ \A s \in Requests : s # r => pc'[s] = pc[s]
      BY <1>0, <1>13, <2>1, <2>2 DEF Acquire, At, TypeOK
    <3>2. WithinWeight'
      BY <1>0, <2>2, <3>1 DEF Fits, Semaphore, WithinWeight
    <3>3. Holders'
      BY <1>0, <2>1, <3>1 DEF Semaphore, Holders, Holding
    <3>4. \A f \in Gateways : \A i \in 1 .. Len(queue[f]) : queue[f][i] \in Requests
      BY <1>0 DEF TypeOK
    <3>5. Waiters'
      BY <1>0, <2>1, <3>1, <3>4 DEF Semaphore, Waiters
    <3> QED
      BY <3>2, <3>3, <3>5 DEF Semaphore
  <2>3. CASE ~Fits(r, q, held[g])
    <3>1. /\ UNCHANGED held
          /\ queue'[g] = Append(q, r)
          /\ \A f \in Gateways : f # g => queue'[f] = queue[f]
          /\ pc'[r] = "queued"
          /\ \A s \in Requests : s # r => pc'[s] = pc[s]
      BY <1>0, <1>13, <2>1, <2>3 DEF Acquire, At, TypeOK
    <3>2. WithinWeight' /\ Holders'
      BY <1>0, <2>1, <3>1 DEF Semaphore, WithinWeight, Holders, Holding
    <3>3. /\ Len(Append(q, r)) = Len(q) + 1 /\ Len(q) \in Nat
          /\ \A i \in 1 .. Len(q) : Append(q, r)[i] = q[i] /\ q[i] \in Requests
          /\ Append(q, r)[Len(q) + 1] = r
      BY <2>1
    <3>4. \A f \in Gateways : \A i \in 1 .. Len(queue[f]) : queue[f][i] \in Requests
      BY <1>0 DEF TypeOK
    <3>5. \A i \in 1 .. Len(q) :
            /\ at[q[i]] = g /\ pc[q[i]] = "queued" /\ q[i] # r
            /\ \A j \in 1 .. Len(q) : q[i] = q[j] => i = j
      BY <1>0, <2>1 DEF Semaphore, Waiters
    <3> HIDE DEF g, q
    <3>6. ASSUME NEW i \in 1 .. Len(Append(q, r))
          PROVE  /\ at[Append(q, r)[i]] = g
                 /\ pc'[Append(q, r)[i]] = "queued"
                 /\ \A j \in 1 .. Len(Append(q, r)) : Append(q, r)[i] = Append(q, r)[j] =>
                      i = j
      <4>1. CASE i = Len(q) + 1
        <5>1. \A j \in 1 .. Len(Append(q, r)) : j # i => j \in 1 .. Len(q)
          BY <3>3, <4>1
        <5>2. at[r] = g
          BY DEF g
        <5> QED
          BY <3>1, <3>3, <3>5, <4>1, <5>1, <5>2
      <4>2. CASE i \in 1 .. Len(q)
        <5>1. \A j \in 1 .. Len(Append(q, r)) : j = Len(q) + 1 \/ j \in 1 .. Len(q)
          BY <3>3
        <5> QED
          BY <3>1, <3>3, <3>5, <4>2, <5>1
      <4> QED
        BY <3>3, <4>1, <4>2
    <3>7. ASSUME NEW f \in Gateways, NEW i \in 1 .. Len(queue'[f])
          PROVE  /\ at'[queue'[f][i]] = f
                 /\ pc'[queue'[f][i]] = "queued"
                 /\ \A j \in 1 .. Len(queue'[f]) : queue'[f][i] = queue'[f][j] => i = j
      <4>1. CASE f = g
        BY <2>1, <3>1, <3>6, <4>1
      <4>2. CASE f # g
        <5>1. /\ queue'[f] = queue[f] /\ at[queue[f][i]] = f /\ pc[queue[f][i]] = "queued"
              /\ \A j \in 1 .. Len(queue[f]) : queue[f][i] = queue[f][j] => i = j
              /\ queue[f][i] \in Requests
          BY <1>0, <3>1, <3>4, <4>2 DEF Semaphore, Waiters
        <5>2. queue[f][i] # r
          BY <2>1, <5>1
        <5> QED
          BY <2>1, <3>1, <5>1, <5>2
      <4> QED
        BY <4>1, <4>2
    <3>8. ASSUME NEW s \in Requests, pc'[s] = "queued"
          PROVE  \E i \in 1 .. Len(queue'[at'[s]]) : queue'[at'[s]][i] = s
      <4>1. CASE s = r
        <5>1. Len(q) + 1 \in 1 .. Len(Append(q, r))
          BY <3>3
        <5>2. at'[s] = g
          BY <2>1, <4>1 DEF g
        <5> QED
          BY <3>1, <3>3, <4>1, <5>1, <5>2
      <4>2. CASE s # r /\ at[s] = g
        <5>1. PICK i \in 1 .. Len(q) : q[i] = s
          BY <1>0, <3>1, <3>8, <4>2 DEF Semaphore, Waiters, q
        <5>2. i \in 1 .. Len(Append(q, r)) /\ Append(q, r)[i] = s
          BY <3>3, <5>1
        <5> QED
          BY <2>1, <3>1, <4>2, <5>2
      <4>3. CASE s # r /\ at[s] # g
        <5>1. pc[s] = "queued" /\ at[s] \in Gateways
          BY <1>0, <3>1, <3>8, <4>3 DEF TypeOK, Placed
        <5>2. queue'[at'[s]] = queue[at[s]]
          BY <2>1, <3>1, <4>3, <5>1
        <5> QED
          BY <1>0, <5>1, <5>2 DEF Semaphore, Waiters
      <4> QED
        BY <4>1, <4>2, <4>3
    <3>9. Waiters'
      BY <3>7, <3>8 DEF Waiters
    <3> QED
      BY <3>2, <3>9 DEF Semaphore
  <2> QED
    BY <2>2, <2>3
<1>14. ASSUME NEW r \in Requests, Read(r) PROVE Semaphore'
  <2>1. \A s \in Requests :
          /\ pc'[s] \in Holding <=> pc[s] \in Holding
          /\ pc'[s] = "queued" <=> pc[s] = "queued"
          /\ pc[s] \in Holding \cup {"queued"} => at'[s] = at[s]
    BY <1>0, <1>14 DEF Read, At, Holding, TypeOK
  <2> QED
    BY <1>0, <1>14, <2>1, SemaphoreKept DEF Read, semaphore
<1>15. ASSUME NEW r \in Requests, Recover(r) PROVE Semaphore'
  <2>1. \A s \in Requests :
          /\ pc'[s] \in Holding <=> pc[s] \in Holding
          /\ pc'[s] = "queued" <=> pc[s] = "queued"
          /\ pc[s] \in Holding \cup {"queued"} => at'[s] = at[s]
    BY <1>0, <1>15 DEF Recover, At, Holding, TypeOK
  <2> QED
    BY <1>0, <1>15, <2>1, SemaphoreKept DEF Recover, semaphore
<1>16. ASSUME NEW r \in Requests, Recovered(r) PROVE Semaphore'
  <2>1. \A s \in Requests :
          /\ pc'[s] \in Holding <=> pc[s] \in Holding
          /\ pc'[s] = "queued" <=> pc[s] = "queued"
          /\ pc[s] \in Holding \cup {"queued"} => at'[s] = at[s]
    BY <1>0, <1>16 DEF Recovered, At, Holding, TypeOK
  <2> QED
    BY <1>0, <1>16, <2>1, SemaphoreKept DEF Recovered, semaphore
<1>17. ASSUME NEW r \in Requests, Mutate(r) PROVE Semaphore'
  <2>1. \A s \in Requests :
          /\ pc'[s] \in Holding <=> pc[s] \in Holding
          /\ pc'[s] = "queued" <=> pc[s] = "queued"
          /\ pc[s] \in Holding \cup {"queued"} => at'[s] = at[s]
    BY <1>0, <1>17 DEF Mutate, At, Holding, TypeOK
  <2> QED
    BY <1>0, <1>17, <2>1, SemaphoreKept DEF Mutate, semaphore
<1>18. ASSUME NEW r \in Requests, Leave(r) PROVE Semaphore'
  <2>1. \A s \in Requests :
          /\ pc'[s] \in Holding <=> pc[s] \in Holding
          /\ pc'[s] = "queued" <=> pc[s] = "queued"
          /\ pc[s] \in Holding \cup {"queued"} => at'[s] = at[s]
    BY <1>18 DEF Leave, Answer, At, Holding
  <2> QED
    BY <1>0, <1>18, <2>1, SemaphoreKept DEF Leave, semaphore
<1>19. ASSUME NEW r \in Requests, Cancel(r) PROVE Semaphore'
  BY <1>0, <1>19, GatewayAssumption
     DEF Cancel, Semaphore, Holders, Waiters, WithinWeight, Holding, request,
         semaphore
<1>20. ASSUME NEW r \in Requests, Backs(r) PROVE Semaphore'
  BY <1>20 DEF Backs, GivesBack
<1>21. ASSUME NEW r \in Requests, NEW g \in Gateways, Send(r, g)
       PROVE Semaphore'
  BY <1>0, <1>21, GatewayAssumption
     DEF Send, Semaphore, TypeOK, Placed, Holders, Waiters, WithinWeight,
         Holding, At, request, semaphore
<1>22. CASE UNCHANGED vars
  BY <1>0, <1>22
     DEF vars, Semaphore, Holders, Waiters, WithinWeight, Holding, request,
         semaphore
<1>23. CASE Next
  <2>1. ASSUME NEW r \in Requests, RequestStep(r) PROVE Semaphore'
    BY <1>11, <1>12, <1>13, <1>14, <1>15, <1>16, <1>17, <1>18, <1>19, <1>20,
       BackStep, <2>1 DEF RequestStep
  <2>2. ASSUME NEW g \in Gateways,
               StartStep(g) \/ Stop(g) \/ ShutdownStep(g) \/ Crash(g)
        PROVE Semaphore'
    BY <1>1, <1>2, <1>3, <1>4, <1>5, <1>6, <1>7, <1>8, <1>9, <1>10, <2>2
       DEF StartStep, ShutdownStep, StartFails, Crash, Exit
  <2> QED
    BY <1>19, <1>21, <1>23, <2>1, <2>2 DEF Next
<1> QED
  BY <1>22, <1>23

(* Enter counts a request in and Leave counts it out, whatever became of it *)
(* in between.                                                              *)
LEMMA CountingStep ==
  ASSUME IInv, [Next]_vars
  PROVE  Counting'
<1>0. TypeOK /\ Placed /\ Counting
  BY DEF IInv, Semaphore
<1>1. ASSUME NEW g \in Gateways, Start(g) PROVE Counting'
  BY <1>0, <1>1, CountKept DEF Start, Inside, handler, request
<1>2. ASSUME NEW g \in Gateways, StartRecovered(g) PROVE Counting'
  BY <1>0, <1>2, CountKept DEF StartRecovered, Inside, handler, request
<1>3. ASSUME NEW g \in Gateways, Stop(g) PROVE Counting'
  BY <1>0, <1>3, CountKept DEF Stop, Inside, handler, request
<1>4. ASSUME NEW g \in Gateways, Shutdown(g) PROVE Counting'
  BY <1>0, <1>4, CountKept DEF Shutdown, Inside, handler, request
<1>5. ASSUME NEW g \in Gateways, ShutdownTimeout(g) PROVE Counting'
  BY <1>0, <1>5, CountKept DEF ShutdownTimeout, Inside, handler, request
<1>6. ASSUME NEW g \in Gateways, Drain(g) PROVE Counting'
  BY <1>0, <1>6, CountKept DEF Drain, Inside, handler, request
<1>7. ASSUME NEW g \in Gateways, DrainIdle(g) PROVE Counting'
  BY <1>0, <1>7, CountKept DEF DrainIdle, Inside, handler, request
<1>8. ASSUME NEW g \in Gateways, DrainTimeout(g) PROVE Counting'
  BY <1>0, <1>8, CountKept DEF DrainTimeout, Inside, handler, request
<1>9. ASSUME NEW g \in Gateways, CloseRecovery(g) PROVE Counting'
  BY <1>0, <1>9, CountKept DEF CloseRecovery, Inside, handler, request
<1>10. ASSUME NEW g \in Gateways, Gone(g) PROVE Counting'
  <2>1. /\ active'[g] = 0 /\ idle'[g] = "nil"
        /\ \A f \in Gateways : f # g => active'[f] = active[f] /\ idle'[f] = idle[f]
        /\ \A r \in Requests :
           IF at[r] = g THEN at'[r] = Nobody ELSE UNCHANGED <<at[r], pc[r]>>
    BY <1>0, <1>10 DEF Gone, TypeOK
  <2>2. Serves(g)' = {}
    BY <2>1, GatewayAssumption DEF Serves
  <2>3. Cardinality(Serves(g)') = 0
    BY <2>2, FS_EmptySet
  <2>4. ASSUME NEW f \in Gateways, f # g
        PROVE  Serves(f)' = Serves(f)
    BY <2>1, <2>4, GatewayAssumption DEF Serves, Inside
  <2> QED
    BY <1>0, <2>1, <2>3, <2>4 DEF Counting
<1>11. ASSUME NEW r \in Requests, Enter(r) PROVE Counting'
  <2>0. PICK g \in Gateways : at[r] = g
    BY <1>0, <1>11 DEF Enter, Placed, TypeOK
  <2>1. g \in Gateways /\ r \notin Serves(g)
    BY <1>11 DEF Enter, Serves, Inside
  <2>2. /\ active'[g] = active[g] + 1
        /\ idle'[g] = IF active[g] = 0 THEN "open" ELSE idle[g]
        /\ \A f \in Gateways : f # g => active'[f] = active[f] /\ idle'[f] = idle[f]
        /\ UNCHANGED at /\ pc'[r] = "entered"
        /\ \A s \in Requests : s # r => pc'[s] = pc[s]
    BY <1>0, <1>11, <2>0 DEF Enter, At, TypeOK
  <2>3. Serves(g)' = Serves(g) \cup {r}
    BY <2>0, <2>1, <2>2 DEF Serves, Inside
  <2>4. Cardinality(Serves(g) \cup {r}) = Cardinality(Serves(g)) + 1
    BY <2>1, ServesFinite, FS_AddElement
  <2>5. ASSUME NEW f \in Gateways, f # g
        PROVE  Serves(f)' = Serves(f)
    BY <2>0, <2>2, <2>5 DEF Serves, Inside
  <2>6. active'[g] = Cardinality(Serves(g)')
    BY <1>0, <2>1, <2>2, <2>3, <2>4 DEF Counting
  <2>7. idle'[g] # "closed"
    BY <1>0, <2>1, <2>2 DEF Counting
  <2> QED
    BY <1>0, <2>2, <2>5, <2>6, <2>7 DEF Counting
<1>12. ASSUME NEW r \in Requests, EnterRefused(r) PROVE Counting'
  <2>1. \A s \in Requests : Inside(s) \/ Inside(s)' =>
           at'[s] = at[s] /\ (Inside(s) <=> Inside(s)')
    BY <1>12 DEF EnterRefused, Answer, At, Inside
  <2> QED
    BY <1>0, <1>12, <2>1, CountKept DEF EnterRefused, handler
<1>13. ASSUME NEW r \in Requests, Acquire(r) PROVE Counting'
  <2>1. \A s \in Requests : Inside(s) \/ Inside(s)' =>
           at'[s] = at[s] /\ (Inside(s) <=> Inside(s)')
    BY <1>0, <1>13 DEF Acquire, At, Inside, TypeOK
  <2> QED
    BY <1>0, <1>13, <2>1, CountKept DEF Acquire, handler
<1>14. ASSUME NEW r \in Requests, Read(r) PROVE Counting'
  <2>1. \A s \in Requests : Inside(s) \/ Inside(s)' =>
           at'[s] = at[s] /\ (Inside(s) <=> Inside(s)')
    BY <1>0, <1>14 DEF Read, At, Inside, TypeOK
  <2> QED
    BY <1>0, <1>14, <2>1, CountKept DEF Read, handler
<1>15. ASSUME NEW r \in Requests, Recover(r) PROVE Counting'
  <2>1. \A s \in Requests : Inside(s) \/ Inside(s)' =>
           at'[s] = at[s] /\ (Inside(s) <=> Inside(s)')
    BY <1>0, <1>15 DEF Recover, At, Inside, TypeOK
  <2> QED
    BY <1>0, <1>15, <2>1, CountKept DEF Recover, handler
<1>16. ASSUME NEW r \in Requests, Recovered(r) PROVE Counting'
  <2>1. \A s \in Requests : Inside(s) \/ Inside(s)' =>
           at'[s] = at[s] /\ (Inside(s) <=> Inside(s)')
    BY <1>0, <1>16 DEF Recovered, At, Inside, TypeOK
  <2> QED
    BY <1>0, <1>16, <2>1, CountKept DEF Recovered, handler
<1>17. ASSUME NEW r \in Requests, Mutate(r) PROVE Counting'
  <2>1. \A s \in Requests : Inside(s) \/ Inside(s)' =>
           at'[s] = at[s] /\ (Inside(s) <=> Inside(s)')
    BY <1>0, <1>17 DEF Mutate, At, Inside, TypeOK
  <2> QED
    BY <1>0, <1>17, <2>1, CountKept DEF Mutate, handler
<1>18. ASSUME NEW r \in Requests, Leave(r) PROVE Counting'
  <2>0. PICK g \in Gateways : at[r] = g
    BY <1>0, <1>18 DEF Leave, Placed, TypeOK
  <2>1. g \in Gateways /\ r \in Serves(g)
    BY <1>18, <2>0 DEF Leave, Serves, Inside
  <2>2. /\ active'[g] = active[g] - 1
        /\ idle'[g] = IF active[g] = 1 THEN "closed" ELSE idle[g]
        /\ \A f \in Gateways : f # g => active'[f] = active[f] /\ idle'[f] = idle[f]
        /\ pc'[r] = "none" /\ at'[r] = Nobody
        /\ \A s \in Requests : s # r => pc'[s] = pc[s] /\ at'[s] = at[s]
    BY <1>0, <1>18, <2>0 DEF Leave, Answer, At, TypeOK
  <2>3. Serves(g)' = Serves(g) \ {r}
    BY <2>0, <2>1, <2>2 DEF Serves, Inside
  <2>4. Cardinality(Serves(g) \ {r}) = Cardinality(Serves(g)) - 1
    BY <2>1, ServesFinite, FS_RemoveElement
  <2>5. ASSUME NEW f \in Gateways, f # g
        PROVE  Serves(f)' = Serves(f)
    BY <2>0, <2>2, <2>5 DEF Serves, Inside
  <2>6. active'[g] = Cardinality(Serves(g)')
    BY <1>0, <2>1, <2>2, <2>3, <2>4 DEF Counting
  <2>7. active[g] # 0
    BY <1>0, <2>1, NobodyInside DEF Serves
  <2>8. idle'[g] = "closed" => active'[g] = 0
    BY <1>0, <2>1, <2>2, <2>7 DEF Counting
  <2> QED
    BY <1>0, <2>2, <2>5, <2>6, <2>8 DEF Counting
<1>19. ASSUME NEW r \in Requests, Cancel(r) PROVE Counting'
  BY <1>0, <1>19, CountKept DEF Cancel, Inside, handler
<1>20. ASSUME NEW r \in Requests, Backs(r) PROVE Counting'
  <2>1. \A s \in Requests : Inside(s) <=> Inside(s)'
    BY <1>20 DEF Backs, GivesBack, Inside, Holding
  <2> QED
    BY <1>0, <1>20, <2>1, CountKept DEF Backs, handler
<1>21. ASSUME NEW r \in Requests, NEW g \in Gateways, Send(r, g)
       PROVE Counting'
  <2>1. \A s \in Requests : Inside(s) \/ Inside(s)' =>
           at'[s] = at[s] /\ (Inside(s) <=> Inside(s)')
    BY <1>0, <1>21 DEF Send, At, Inside, TypeOK
  <2> QED
    BY <1>0, <1>21, <2>1, CountKept DEF Send, handler
<1>22. CASE UNCHANGED vars
  BY <1>0, <1>22, CountKept DEF vars, Inside, handler, request
<1>23. CASE Next
  <2>1. ASSUME NEW r \in Requests, RequestStep(r) PROVE Counting'
    BY <1>11, <1>12, <1>13, <1>14, <1>15, <1>16, <1>17, <1>18, <1>19, <1>20,
       BackStep, <2>1 DEF RequestStep
  <2>2. ASSUME NEW g \in Gateways,
               StartStep(g) \/ Stop(g) \/ ShutdownStep(g) \/ Crash(g)
        PROVE Counting'
    BY <1>1, <1>2, <1>3, <1>4, <1>5, <1>6, <1>7, <1>8, <1>9, <1>10, <2>2
       DEF StartStep, ShutdownStep, StartFails, Crash, Exit
  <2> QED
    BY <1>19, <1>21, <1>23, <2>1, <2>2 DEF Next
<1> QED
  BY <1>22, <1>23

(* A closing handler admits nobody, so that what is idle stays so. *)
LEMMA DrainingStep ==
  ASSUME IInv, [Next]_vars
  PROVE  Draining'
<1>0. TypeOK /\ Placed /\ Counting /\ Draining
  BY DEF IInv, Semaphore
<1>1. ASSUME NEW g \in Gateways, Start(g) PROVE Draining'
  BY <1>0, <1>1, GatewayAssumption DEF Start, Draining, TypeOK, handler
<1>2. ASSUME NEW g \in Gateways, StartRecovered(g) PROVE Draining'
  BY <1>0, <1>2, GatewayAssumption
     DEF StartRecovered, Draining, TypeOK, handler
<1>3. ASSUME NEW g \in Gateways, Stop(g) PROVE Draining'
  BY <1>0, <1>3, GatewayAssumption DEF Stop, Draining, TypeOK, handler
<1>4. ASSUME NEW g \in Gateways, Shutdown(g) PROVE Draining'
  BY <1>0, <1>4, GatewayAssumption DEF Shutdown, Draining, TypeOK, handler
<1>5. ASSUME NEW g \in Gateways, ShutdownTimeout(g) PROVE Draining'
  BY <1>0, <1>5, GatewayAssumption
     DEF ShutdownTimeout, Draining, TypeOK, handler
<1>6. ASSUME NEW g \in Gateways, Drain(g) PROVE Draining'
  BY <1>0, <1>6 DEF Drain, Draining
<1>7. ASSUME NEW g \in Gateways, DrainIdle(g) PROVE Draining'
  BY <1>0, <1>7, GatewayAssumption
     DEF DrainIdle, Draining, TypeOK, Placed, Counting, handler
<1>8. ASSUME NEW g \in Gateways, DrainTimeout(g) PROVE Draining'
  BY <1>0, <1>8, GatewayAssumption DEF DrainTimeout, Draining, TypeOK, handler
<1>9. ASSUME NEW g \in Gateways, CloseRecovery(g) PROVE Draining'
  BY <1>0, <1>9, GatewayAssumption DEF CloseRecovery, Draining, TypeOK, handler
<1>10. ASSUME NEW g \in Gateways, Gone(g) PROVE Draining'
  BY <1>0, <1>10 DEF Gone, Draining, TypeOK
<1>11. ASSUME NEW r \in Requests, Enter(r) PROVE Draining'
  BY <1>0, <1>11, GatewayAssumption DEF Enter, Draining, process
<1>12. ASSUME NEW r \in Requests, EnterRefused(r) PROVE Draining'
  BY <1>0, <1>12, GatewayAssumption
     DEF EnterRefused, Draining, TypeOK, process, handler
<1>13. ASSUME NEW r \in Requests, Acquire(r) PROVE Draining'
  BY <1>0, <1>13, GatewayAssumption DEF Acquire, Draining, process, handler
<1>14. ASSUME NEW r \in Requests, Read(r) PROVE Draining'
  BY <1>0, <1>14, GatewayAssumption DEF Read, Draining, process, handler
<1>15. ASSUME NEW r \in Requests, Recover(r) PROVE Draining'
  BY <1>0, <1>15, GatewayAssumption DEF Recover, Draining, process, handler
<1>16. ASSUME NEW r \in Requests, Recovered(r) PROVE Draining'
  BY <1>0, <1>16, GatewayAssumption DEF Recovered, Draining, process, handler
<1>17. ASSUME NEW r \in Requests, Mutate(r) PROVE Draining'
  BY <1>0, <1>17, GatewayAssumption DEF Mutate, Draining, process, handler
<1>18. ASSUME NEW r \in Requests, Leave(r) PROVE Draining'
  <2>1. at[r] \in Gateways
    BY <1>0, <1>18 DEF Leave, Placed, TypeOK
  <2>2. active[at[r]] # 0
    BY <1>0, <1>18, <2>1, NobodyInside DEF Leave, Inside
  <2>3. /\ UNCHANGED <<life, closing>>
        /\ \A f \in Gateways : f # at[r] => active'[f] = active[f]
    BY <1>0, <1>18 DEF Leave, TypeOK, process
  <2> QED
    BY <1>0, <2>1, <2>2, <2>3 DEF Draining
<1>19. ASSUME NEW r \in Requests, Cancel(r) PROVE Draining'
  BY <1>0, <1>19, GatewayAssumption
     DEF Cancel, Draining, TypeOK, process, handler
<1>20. ASSUME NEW r \in Requests, Backs(r) PROVE Draining'
  BY <1>0, <1>20, GatewayAssumption
     DEF Backs, GivesBack, Draining, TypeOK, process, handler, request,
         semaphore
<1>21. ASSUME NEW r \in Requests, NEW g \in Gateways, Send(r, g)
       PROVE Draining'
  BY <1>0, <1>21, GatewayAssumption DEF Send, Draining, process, handler
<1>22. CASE UNCHANGED vars
  BY <1>0, <1>22 DEF vars, Draining, process, handler
<1>23. CASE Next
  <2>1. ASSUME NEW r \in Requests, RequestStep(r) PROVE Draining'
    BY <1>11, <1>12, <1>13, <1>14, <1>15, <1>16, <1>17, <1>18, <1>19, <1>20,
       BackStep, <2>1 DEF RequestStep
  <2>2. ASSUME NEW g \in Gateways,
               StartStep(g) \/ Stop(g) \/ ShutdownStep(g) \/ Crash(g)
        PROVE Draining'
    BY <1>1, <1>2, <1>3, <1>4, <1>5, <1>6, <1>7, <1>8, <1>9, <1>10, <2>2
       DEF StartStep, ShutdownStep, StartFails, Crash, Exit
  <2> QED
    BY <1>19, <1>21, <1>23, <2>1, <2>2 DEF Next
<1> QED
  BY <1>22, <1>23

(* What a recovery left clean stays clean until its mutation runs, since no *)
(* other mutation of any process is past the semaphore then.                *)
LEMMA RecoveringStep ==
  ASSUME IInv, [Next]_vars
  PROVE  Recovering'
<1>0. TypeOK /\ Placed /\ Recovering
  BY DEF IInv, Semaphore
<1>1. ASSUME NEW g \in Gateways, Start(g) PROVE Recovering'
  BY <1>0, <1>1 DEF Start, Recovering, request
<1>2. ASSUME NEW g \in Gateways, StartRecovered(g) PROVE Recovering'
  BY <1>0, <1>2 DEF StartRecovered, Recovering, request
<1>3. ASSUME NEW g \in Gateways, Stop(g) PROVE Recovering'
  BY <1>0, <1>3 DEF Stop, Recovering, request
<1>4. ASSUME NEW g \in Gateways, Shutdown(g) PROVE Recovering'
  BY <1>0, <1>4 DEF Shutdown, Recovering, request
<1>5. ASSUME NEW g \in Gateways, ShutdownTimeout(g) PROVE Recovering'
  BY <1>0, <1>5 DEF ShutdownTimeout, Recovering
<1>6. ASSUME NEW g \in Gateways, Drain(g) PROVE Recovering'
  BY <1>0, <1>6 DEF Drain, Recovering, request
<1>7. ASSUME NEW g \in Gateways, DrainIdle(g) PROVE Recovering'
  BY <1>0, <1>7 DEF DrainIdle, Recovering, request
<1>8. ASSUME NEW g \in Gateways, DrainTimeout(g) PROVE Recovering'
  BY <1>0, <1>8 DEF DrainTimeout, Recovering, request
<1>9. ASSUME NEW g \in Gateways, CloseRecovery(g) PROVE Recovering'
  BY <1>0, <1>9 DEF CloseRecovery, Recovering, request
<1>10. ASSUME NEW g \in Gateways, Gone(g) PROVE Recovering'
  BY <1>0, <1>10 DEF Gone, Recovering
<1>11. ASSUME NEW r \in Requests, Enter(r) PROVE Recovering'
  BY <1>0, <1>11, GatewayAssumption DEF Enter, Recovering, At
<1>12. ASSUME NEW r \in Requests, EnterRefused(r) PROVE Recovering'
  BY <1>0, <1>12, GatewayAssumption DEF EnterRefused, Recovering, Answer, At
<1>13. ASSUME NEW r \in Requests, Acquire(r) PROVE Recovering'
  BY <1>0, <1>13, GatewayAssumption DEF Acquire, Recovering, TypeOK, At
<1>14. ASSUME NEW r \in Requests, Read(r) PROVE Recovering'
  BY <1>0, <1>14, GatewayAssumption DEF Read, Recovering, At
<1>15. ASSUME NEW r \in Requests, Recover(r) PROVE Recovering'
  BY <1>0, <1>15, GatewayAssumption DEF Recover, Recovering, At
<1>16. ASSUME NEW r \in Requests, Recovered(r) PROVE Recovering'
  <2>1. pc[r] = "recovering" /\ UNCHANGED at /\ pending' = (pending /\ at[r] \notin journal)
        /\ pc'[r] = "recovered" /\ \A s \in Requests : s # r => pc'[s] = pc[s]
    BY <1>0, <1>16 DEF Recovered, At, TypeOK
  <2>2. ~pending'
    BY <2>1, InsideOwns DEF Inside
  <2> QED
    BY <1>0, <2>1, <2>2 DEF Recovering
<1>17. ASSUME NEW r \in Requests, Mutate(r) PROVE Recovering'
  <2>1. pc[r] = "recovered" /\ r \in Mutations
        /\ pc'[r] = "running" /\ \A s \in Requests : s # r => pc'[s] = pc[s]
    BY <1>0, <1>17 DEF Mutate, At, TypeOK, Recovering
  <2>2. \A s \in Requests : pc[s] = "recovered" => s = r
    BY <1>0, <2>1, OneHolder DEF Recovering, Holding
  <2> QED
    BY <1>0, <2>1, <2>2 DEF Recovering
<1>18. ASSUME NEW r \in Requests, Leave(r) PROVE Recovering'
  BY <1>0, <1>18, GatewayAssumption DEF Leave, Recovering, Answer, At
<1>19. ASSUME NEW r \in Requests, Cancel(r) PROVE Recovering'
  BY <1>0, <1>19 DEF Cancel, Recovering
<1>20. ASSUME NEW r \in Requests, Backs(r) PROVE Recovering'
  BY <1>0, <1>20 DEF Backs, GivesBack, Recovering
<1>21. ASSUME NEW r \in Requests, NEW g \in Gateways, Send(r, g)
       PROVE Recovering'
  BY <1>0, <1>21, GatewayAssumption DEF Send, Recovering, At
<1>22. CASE UNCHANGED vars
  BY <1>0, <1>22 DEF vars, Recovering, request
<1>23. CASE Next
  <2>1. ASSUME NEW r \in Requests, RequestStep(r) PROVE Recovering'
    BY <1>11, <1>12, <1>13, <1>14, <1>15, <1>16, <1>17, <1>18, <1>19, <1>20,
       BackStep, <2>1 DEF RequestStep
  <2>2. ASSUME NEW g \in Gateways,
               StartStep(g) \/ Stop(g) \/ ShutdownStep(g) \/ Crash(g)
        PROVE Recovering'
    BY <1>1, <1>2, <1>3, <1>4, <1>5, <1>6, <1>7, <1>8, <1>9, <1>10, <2>2
       DEF StartStep, ShutdownStep, StartFails, Crash, Exit
  <2> QED
    BY <1>19, <1>21, <1>23, <2>1, <2>2 DEF Next
<1> QED
  BY <1>22, <1>23

-----------------------------------------------------------------------------
(* The invariant holds before any process has started. *)
LEMMA InitInv == Init => IInv
<1> SUFFICES ASSUME Init PROVE IInv
  OBVIOUS
<1> USE GatewayAssumption
<1>1. TypeOK
  BY DEF TypeOK, Init, Lives, RequestPCs
<1>2. Placed /\ Locks /\ Draining /\ Recovering
  BY DEF Placed, Locks, Owns, Draining, Recovering, Init
<1>3. Holders /\ Waiters
  BY DEF Holders, Waiters, Holding, Init
<1>4. WithinWeight
  <2>1. {} \cap Readers = {} /\ {} \cap Mutations = {}
    OBVIOUS
  <2>2. Used({}) = 0
    BY <2>1, FS_EmptySet DEF Used
  <2>3. \A g \in Gateways : held[g] = {}
    BY DEF Init
  <2> QED
    BY <2>2, <2>3 DEF WithinWeight
<1>5. Counting
  <2>1. \A g \in Gateways : Serves(g) = {}
    BY DEF Serves, Inside, Init
  <2> QED
    BY <2>1, FS_EmptySet DEF Counting, Init
<1> QED
  BY <1>1, <1>2, <1>3, <1>4, <1>5 DEF IInv

(* Every step keeps the invariant: its parts in turn, each from those       *)
(* before.                                                                  *)
LEMMA InvStep ==
  ASSUME IInv, [Next]_vars
  PROVE  IInv'
<1>1. TypeOK'
  BY TypeOKStep
<1>2. Placed' /\ Locks'
  BY PlacedStep, LocksStep
<1>3. Semaphore'
  BY SemaphoreStep
<1>4. Counting' /\ Draining'
  BY CountingStep, DrainingStep
<1>5. Recovering'
  BY RecoveringStep
<1> QED
  BY <1>1, <1>2, <1>3, <1>4, <1>5 DEF IInv, Semaphore

(* The invariant holds in every state of every behaviour. *)
THEOREM InvariantHolds == Spec => []IInv
<1>1. IInv /\ [Next]_vars => IInv'
  BY InvStep
<1> QED
  BY InitInv, <1>1, PTL DEF Spec

(* Every variable keeps its type. *)
THEOREM TypeCorrect == Spec => []TypeOK
<1>1. IInv => TypeOK
  BY DEF IInv
<1> QED
  BY InvariantHolds, <1>1, PTL

(* While a mutation or its recovery runs, nothing else of its process does. *)
THEOREM MutationsAreAlone == Spec => []MutationsRunAlone
<1>1. ASSUME IInv PROVE MutationsRunAlone
  <2> SUFFICES ASSUME NEW r \in Requests, NEW s \in Requests,
                      r # s, Working(r), Working(s), at[r] = at[s]
               PROVE  r \in Readers /\ s \in Readers
    BY DEF MutationsRunAlone
  <2>1. pc[r] \in Holding /\ pc[s] \in Holding
    BY DEF Working, Holding
  <2>2. r \notin Mutations
    BY <1>1, <2>1, OneHolder
  <2>3. s \notin Mutations
    BY <1>1, <2>1, OneHolder
  <2> QED
    BY <2>2, <2>3 DEF Requests
<1> QED
  BY InvariantHolds, <1>1, PTL

(* Of all processes at most one recovers or mutates, and it owns the journal. *)
THEOREM JournalHasOneOwner == Spec => []OneOwner
<1>1. ASSUME IInv PROVE OneOwner
  <2>1. \A r \in Mutators :
           r \in Requests /\ r \in Mutations /\ Inside(r) /\ pc[r] \in Holding
    BY DEF Mutators, Working, Inside, Holding, Requests
  <2>2. \A r \in Mutators : lock = at[r] /\ at[r] \in journal /\ life[at[r]] # "recovering"
    BY <1>1, <2>1, InsideOwns DEF IInv, Placed, Inside
  <2>3. \A r, s \in Mutators : r = s
    BY <1>1, <2>1, OneHolder
  <2>4. \A g \in Recoverers : lock = g /\ life[g] = "recovering"
    BY <1>1 DEF Recoverers, IInv, Locks, Owns
  <2>5. Cardinality({}) = 0
    BY FS_EmptySet
  <2>6. \A x : Cardinality({x}) = 1
    BY FS_Singleton
  <2>7. CASE Mutators # {}
    <3>1. PICK r \in Mutators : Mutators = {r}
      BY <2>3, <2>7
    <3>2. Recoverers = {}
      BY <2>2, <2>4, <3>1
    <3>3. Cardinality(Recoverers) = 0 /\ Cardinality(Mutators) = 1
      BY <2>5, <2>6, <3>1, <3>2
    <3> QED
      BY <2>2, <3>3 DEF OneOwner
  <2>8. CASE Mutators = {}
    <3>1. Recoverers = {} \/ \E g : Recoverers = {g}
      BY <2>4
    <3>2. Cardinality(Recoverers) = 0 \/ Cardinality(Recoverers) = 1
      BY <2>5, <2>6, <3>1
    <3>3. Cardinality(Mutators) = 0
      BY <2>5, <2>8
    <3> QED
      BY <2>2, <3>2, <3>3 DEF OneOwner
  <2> QED
    BY <2>7, <2>8
<1> QED
  BY InvariantHolds, <1>1, PTL

(* No request is inside a drained process, and none can enter it.          *)
THEOREM DrainedStaysQuiet == Spec => []DrainedIsQuiet
<1>1. ASSUME IInv PROVE DrainedIsQuiet
  <2> SUFFICES ASSUME NEW g \in Gateways, life[g] \in {"drained", "released"},
                      NEW r \in Requests, at[r] = g
               PROVE  ~Inside(r)
    BY DEF DrainedIsQuiet
  <2>1. active[g] = 0
    BY <1>1 DEF IInv, Draining
  <2> QED
    BY <1>1, <2>1, NobodyInside DEF IInv
<1> QED
  BY InvariantHolds, <1>1, PTL

(* A mutation starts on an empty journal, however the earlier ones ended.   *)
THEOREM MutationsStartClean == Spec => MutationStartsClean
<1>1. ASSUME IInv, [Next]_vars
      PROVE  [\A r \in Mutations : pc[r] # "running" /\ pc'[r] = "running" => ~pending]_vars
  <2> SUFFICES ASSUME NEW r \in Mutations, pc[r] # "running", pc'[r] = "running"
               PROVE  ~pending
    OBVIOUS
  <2>1. r \in Requests /\ r \notin Readers /\ pc[r] \in RequestPCs
    BY <1>1, GatewayAssumption DEF Requests, IInv, TypeOK
  <2>2. \E s \in Requests : Mutate(s) /\ s = r
    <3>1. \A s \in Requests : Backs(s) => FALSE
      BY <2>1 DEF Backs, GivesBack
    <3>2. ASSUME NEW s \in Requests, RequestStep(s)
          PROVE  Mutate(s) /\ s = r
      <4>1. ~(AcquireCancelled(s) \/ Reject(s) \/ RecoverFails(s) \/ Finish(s))
        BY <1>1, <3>1, BackStep
      <4>2. \/ Enter(s) \/ EnterRefused(s) \/ Acquire(s) \/ Read(s)
            \/ Recover(s) \/ Recovered(s) \/ Mutate(s) \/ Leave(s)
        BY <3>2, <4>1 DEF RequestStep
      <4> QED
        BY <1>1, <2>1, <4>2
           DEF Enter, EnterRefused, Acquire, Read, Recover, Recovered,
           Mutate, Leave, Answer, At, IInv, TypeOK
    <3>3. ASSUME NEW s \in Requests,
                 Cancel(s) \/ \E g \in Gateways : Send(s, g)
          PROVE  FALSE
      BY <1>1, <2>1, <3>3 DEF Cancel, Send, At, IInv, TypeOK
    <3>4. ASSUME NEW g \in Gateways,
                 StartStep(g) \/ Stop(g) \/ ShutdownStep(g) \/ Crash(g)
          PROVE  FALSE
      BY <1>1, <2>1, <3>4
         DEF StartStep, ShutdownStep, Start, StartRecovered, StartFails, Stop,
         Shutdown, ShutdownTimeout, Drain, DrainIdle, DrainTimeout, CloseRecovery, Exit, Crash,
         Gone, request, IInv, TypeOK
    <3>5. Next
      BY <1>1 DEF vars, request
    <3> QED
      BY <3>2, <3>3, <3>4, <3>5 DEF Next
  <2>3. pc[r] = "recovered"
    BY <2>2 DEF Mutate
  <2> QED
    BY <1>1, <2>1, <2>3 DEF IInv, Recovering
<1> QED
  BY InvariantHolds, <1>1, PTL DEF MutationStartsClean, Spec

===============================================================================
