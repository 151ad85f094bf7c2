------------------------------ MODULE Gateway ------------------------------
(***************************************************************************)
(* Who may touch the remote tree, and when: the WebDAV handler's weighted  *)
(* semaphore and request counting (handler.go), the life of a `serve'      *)
(* process from the journal lock to the drain at shutdown (main.go,        *)
(* journal.go, processlock), and several such processes on one journal.    *)
(*                                                                         *)
(* A mutation is the interval between its entry into the WebDAV library    *)
(* and its return; what happens inside it is ReplaceTx.  Here it is only   *)
(* known to leave a journal record behind (`pending') while it runs, and   *)
(* perhaps after it.                                                       *)
(***************************************************************************)
EXTENDS Integers, Sequences, SequencesExt, FiniteSets

CONSTANTS
  Gateways,    \* serve processes that share one saved session
  Readers,     \* GET, HEAD, PROPFIND, OPTIONS requests
  Mutations,   \* all other requests
  Exclusive,   \* the semaphore's size, handler.go:110
  Nobody       \* no process

ASSUME GatewayAssumption ==
  /\ Readers \cap Mutations = {}
  /\ IsFiniteSet(Readers \cup Mutations)
  /\ Exclusive \in Nat \ {0}
  /\ Nobody \notin Gateways

Requests == Readers \cup Mutations

VARIABLES
  life,        \* how far each process has come
  lock,        \* the process that holds server.lock
  journal,     \* the processes whose client.journal is set
  pending,     \* the journal directory holds a record
  active,      \* Handler.active
  closing,     \* the processes whose Handler.closing is set
  idle,        \* the state of the channel Handler.idle
  at,          \* the process that serves each request
  pc,          \* how far each request has come
  cancelled,   \* the requests whose context is done
  queue,       \* the semaphore's waiters
  held         \* the requests that hold their weight of the semaphore

handler == <<active, closing, idle>>
semaphore == <<queue, held>>
process == <<life, lock, journal>>
request == <<at, pc, cancelled>>
vars == <<process, pending, handler, request, semaphore>>

Lives == {"down", "recovering", "serving", "stopping", "closed", "draining",
          "drained", "undrained", "released"}

RequestPCs == {"none", "sent", "entered", "queued", "admitted", "recovering",
               "recovered", "running", "leaving"}

Init ==
  /\ life = [g \in Gateways |-> "down"]
  /\ lock = Nobody
  /\ journal = {}
  /\ pending \in BOOLEAN
  /\ active = [g \in Gateways |-> 0]
  /\ closing = {}
  /\ idle = [g \in Gateways |-> "nil"]
  /\ at = [r \in Requests |-> Nobody]
  /\ pc = [r \in Requests |-> "none"]
  /\ cancelled = {}
  /\ queue = [g \in Gateways |-> <<>>]
  /\ held = [g \in Gateways |-> {}]

-----------------------------------------------------------------------------
(* Start-up: EnableRecovery before the server listens.                     *)

Start(g) ==
  /\ life[g] = "down"
  /\ lock = Nobody
  /\ lock' = g
  /\ journal' = journal \cup {g}
  /\ life' = [life EXCEPT ![g] = "recovering"]
  /\ UNCHANGED <<pending, handler, request, semaphore>>

StartRecovered(g) ==
  /\ life[g] = "recovering"
  /\ pending' = FALSE
  /\ life' = [life EXCEPT ![g] = "serving"]
  /\ UNCHANGED <<lock, journal, handler, request, semaphore>>

(* The end of a process, by any cause, ends its requests and its locks. *)
Gone(g) ==
  /\ life' = [life EXCEPT ![g] = "down"]
  /\ lock' = IF lock = g THEN Nobody ELSE lock
  /\ journal' = journal \ {g}
  /\ active' = [active EXCEPT ![g] = 0]
  /\ closing' = closing \ {g}
  /\ idle' = [idle EXCEPT ![g] = "nil"]
  /\ at' = [r \in Requests |-> IF at[r] = g THEN Nobody ELSE at[r]]
  /\ pc' = [r \in Requests |-> IF at[r] = g THEN "none" ELSE pc[r]]
  /\ cancelled' = {r \in cancelled : at[r] # g}
  /\ queue' = [queue EXCEPT ![g] = <<>>]
  /\ held' = [held EXCEPT ![g] = {}]
  /\ UNCHANGED pending

(* EnableRecovery's scan failed: CloseRecovery, and serve gives up. *)
StartFails(g) ==
  /\ life[g] = "recovering"
  /\ Gone(g)

Crash(g) ==
  /\ life[g] # "down"
  /\ Gone(g)

-----------------------------------------------------------------------------
(* Handler.ServeHTTP around the semaphore.                                 *)

At(r, label) == pc' = [pc EXCEPT ![r] = label]

(* The HTTP server accepts a connection and reads a request. *)
Send(r, g) ==
  /\ pc[r] = "none"
  /\ life[g] = "serving"
  /\ at' = [at EXCEPT ![r] = g]
  /\ At(r, "sent")
  /\ UNCHANGED <<process, pending, handler, cancelled, semaphore>>

(* The client disconnects. *)
Cancel(r) ==
  /\ pc[r] # "none"
  /\ r \notin cancelled
  /\ cancelled' = cancelled \cup {r}
  /\ UNCHANGED <<process, pending, handler, at, pc, semaphore>>

Answer(r) ==
  /\ At(r, "none")
  /\ at' = [at EXCEPT ![r] = Nobody]
  /\ cancelled' = cancelled \ {r}

(* Mutant: closing is not looked at. *)
EnterAlways(r) ==
  /\ pc[r] = "sent"
  /\ active' = [active EXCEPT ![at[r]] = @ + 1]
  /\ idle' = [idle EXCEPT ![at[r]] = IF active[at[r]] = 0 THEN "open" ELSE @]
  /\ At(r, "entered")
  /\ UNCHANGED <<process, pending, closing, at, cancelled, semaphore>>

Enter(r) ==
  /\ pc[r] = "sent"
  /\ at[r] \notin closing
  /\ active' = [active EXCEPT ![at[r]] = @ + 1]
  /\ idle' = [idle EXCEPT ![at[r]] = IF active[at[r]] = 0 THEN "open" ELSE @]
  /\ At(r, "entered")
  /\ UNCHANGED <<process, pending, closing, at, cancelled, semaphore>>

(* 503, "server is shutting down". *)
EnterRefused(r) ==
  /\ pc[r] = "sent"
  /\ at[r] \in closing
  /\ Answer(r)
  /\ UNCHANGED <<process, pending, handler, semaphore>>

(* The deferred half of ServeHTTP. *)
Leave(r) ==
  /\ pc[r] = "leaving"
  /\ active' = [active EXCEPT ![at[r]] = @ - 1]
  /\ idle' = [idle EXCEPT ![at[r]] = IF active[at[r]] = 1 THEN "closed" ELSE @]
  /\ Answer(r)
  /\ UNCHANGED <<process, pending, closing, semaphore>>

-----------------------------------------------------------------------------
(* The weighted semaphore of golang.org/x/sync: first come, first served.  *)

(* Mutant: every request weighs one. *)
UsedEqually(H) == Cardinality(H)

(* The weight in use when the requests of H hold theirs. *)
Used(H) ==
  Cardinality(H \cap Readers) + Exclusive * Cardinality(H \cap Mutations)

Prefix(q, k) == {q[j] : j \in 1 .. k}

(* A newcomer is admitted only when nobody waits. *)
Fits(r, q, H) == q = <<>> /\ Used(H \cup {r}) <= Exclusive

(* How many waiters of q a release to holders H lets in. *)
Woken(q, H) ==
  CHOOSE k \in 0 .. Len(q) :
    /\ Used(H \cup Prefix(q, k)) <= Exclusive
    /\ k < Len(q) => Used(H \cup Prefix(q, k + 1)) > Exclusive

(* notifyWaiters, with waiters q left and holders H left at process g. *)
Wake(g, q, H) ==
  /\ queue' = [queue EXCEPT ![g] = SubSeq(q, Woken(q, H) + 1, Len(q))]
  /\ held' = [held EXCEPT ![g] = H \cup Prefix(q, Woken(q, H))]

(* Granted requests wake up; r itself goes on at `label'. *)
WokenAt(r, label) ==
  pc' = [s \in Requests |->
           IF s = r THEN label
           ELSE IF pc[s] = "queued" /\ s \in held'[at[r]] THEN "admitted"
           ELSE pc[s]]

Acquire(r) ==
  /\ pc[r] = "entered"
  /\ IF Fits(r, queue[at[r]], held[at[r]])
     THEN /\ held' = [held EXCEPT ![at[r]] = @ \cup {r}]
          /\ At(r, "admitted")
          /\ UNCHANGED queue
     ELSE /\ queue' = [queue EXCEPT ![at[r]] = Append(@, r)]
          /\ At(r, "queued")
          /\ UNCHANGED held
  /\ UNCHANGED <<process, pending, handler, at, cancelled>>

(* 503, "request canceled while waiting for another operation". *)
AcquireCancelled(r) ==
  /\ pc[r] = "queued"
  /\ r \in cancelled
  /\ LET q == queue[at[r]] IN
       \E i \in 1 .. Len(q) : q[i] = r /\ Wake(at[r], RemoveAt(q, i), held[at[r]])
  /\ WokenAt(r, "leaving")
  /\ UNCHANGED <<process, pending, handler, at, cancelled>>

Release(r) ==
  /\ Wake(at[r], queue[at[r]], held[at[r]] \ {r})
  /\ WokenAt(r, "leaving")
  /\ UNCHANGED <<process, handler, at, cancelled>>

-----------------------------------------------------------------------------
(* The handler inside the semaphore.                                       *)

(* Mutant: an early return that keeps the semaphore. *)
RejectLeaking(r) ==
  /\ pc[r] \in {"admitted", "recovered"}
  /\ At(r, "leaving")
  /\ UNCHANGED <<process, pending, handler, at, cancelled, semaphore>>

(* A body over the limit, a failed precondition, a move into itself, an    *)
(* MKCOL with a body.                                                      *)
Reject(r) ==
  /\ pc[r] \in {"admitted", "recovered"}
  /\ Release(r)
  /\ UNCHANGED pending

Read(r) ==
  /\ r \in Readers
  /\ pc[r] = "admitted"
  /\ At(r, "running")
  /\ UNCHANGED <<process, pending, handler, at, cancelled, semaphore>>

(* Mutant: a mutation starts without recovery. *)
RecoverSkipped(r) ==
  /\ r \in Mutations
  /\ pc[r] = "admitted"
  /\ At(r, "recovered")
  /\ UNCHANGED <<process, pending, handler, at, cancelled, semaphore>>

Recover(r) ==
  /\ r \in Mutations
  /\ pc[r] = "admitted"
  /\ At(r, "recovering")
  /\ UNCHANGED <<process, pending, handler, at, cancelled, semaphore>>

(* RecoverPending without a journal finds nothing to do. *)
Recovered(r) ==
  /\ pc[r] = "recovering"
  /\ pending' = (pending /\ at[r] \notin journal)
  /\ At(r, "recovered")
  /\ UNCHANGED <<process, handler, at, cancelled, semaphore>>

(* 503, "pending replacement recovery failed". *)
RecoverFails(r) ==
  /\ pc[r] = "recovering"
  /\ Release(r)
  /\ UNCHANGED pending

(* A PUT or a safe MOVE saves its record first, if there is a journal. *)
Mutate(r) ==
  /\ pc[r] = "recovered"
  /\ pending' \in {pending, pending \/ at[r] \in journal}
  /\ At(r, "running")
  /\ UNCHANGED <<process, handler, at, cancelled, semaphore>>

(* It ends with the record forgotten, or left for the next mutation. *)
Finish(r) ==
  /\ pc[r] = "running"
  /\ \/ UNCHANGED pending
     \/ r \in Mutations /\ at[r] \in journal /\ pending' = FALSE
  /\ Release(r)

-----------------------------------------------------------------------------
(* Shutdown: main.go:249-261 and the deferred calls of runServe.           *)

(* SIGTERM, or ListenAndServe failed: the listener is closed. *)
Stop(g) ==
  /\ life[g] = "serving"
  /\ life' = [life EXCEPT ![g] = "stopping"]
  /\ UNCHANGED <<lock, journal, pending, handler, request, semaphore>>

(* server.Shutdown returns once every connection is idle. *)
Shutdown(g) ==
  /\ life[g] = "stopping"
  /\ \A r \in Requests : at[r] # g
  /\ life' = [life EXCEPT ![g] = "closed"]
  /\ UNCHANGED <<lock, journal, pending, handler, request, semaphore>>

(* Its ten seconds are over: server.Close cancels every request. *)
ShutdownTimeout(g) ==
  /\ life[g] = "stopping"
  /\ life' = [life EXCEPT ![g] = "closed"]
  /\ cancelled' = cancelled \cup {r \in Requests : at[r] = g}
  /\ UNCHANGED <<lock, journal, pending, handler, at, pc, semaphore>>

Drain(g) ==
  /\ life[g] = "closed"
  /\ closing' = closing \cup {g}
  /\ life' = [life EXCEPT ![g] = IF active[g] = 0 THEN "drained" ELSE "draining"]
  /\ UNCHANGED <<lock, journal, pending, active, idle, request, semaphore>>

DrainIdle(g) ==
  /\ life[g] = "draining"
  /\ idle[g] = "closed"
  /\ life' = [life EXCEPT ![g] = "drained"]
  /\ UNCHANGED <<lock, journal, pending, handler, request, semaphore>>

(* Its seventy seconds are over. *)
DrainTimeout(g) ==
  /\ life[g] = "draining"
  /\ life' = [life EXCEPT ![g] = "undrained"]
  /\ UNCHANGED <<lock, journal, pending, handler, request, semaphore>>

(* Mutant: the journal is closed after an unsuccessful drain too. *)
CloseAnyway(g) ==
  /\ life[g] \in {"drained", "undrained"}
  /\ lock' = Nobody
  /\ journal' = journal \ {g}
  /\ life' = [life EXCEPT ![g] = "released"]
  /\ UNCHANGED <<pending, handler, request, semaphore>>

(* Deferred CloseRecovery, only after a successful drain. *)
CloseRecovery(g) ==
  /\ life[g] = "drained"
  /\ lock' = Nobody
  /\ journal' = journal \ {g}
  /\ life' = [life EXCEPT ![g] = "released"]
  /\ UNCHANGED <<pending, handler, request, semaphore>>

(* Mutant: a process that could not drain waits for ever. *)
ExitDrained(g) ==
  /\ life[g] = "released"
  /\ Gone(g)

(* runServe returns and the process exits. *)
Exit(g) ==
  /\ life[g] \in {"undrained", "released"}
  /\ Gone(g)

-----------------------------------------------------------------------------
RequestStep(r) ==
  \/ Enter(r) \/ EnterRefused(r) \/ Acquire(r) \/ AcquireCancelled(r)
  \/ Reject(r) \/ Read(r) \/ Recover(r) \/ Recovered(r) \/ RecoverFails(r)
  \/ Mutate(r) \/ Finish(r) \/ Leave(r)

ShutdownStep(g) ==
  \/ Shutdown(g) \/ ShutdownTimeout(g) \/ Drain(g) \/ DrainIdle(g)
  \/ DrainTimeout(g) \/ CloseRecovery(g) \/ Exit(g)

StartStep(g) == Start(g) \/ StartRecovered(g) \/ StartFails(g)

Next ==
  \/ \E r \in Requests : RequestStep(r) \/ Cancel(r)
  \/ \E r \in Requests, g \in Gateways : Send(r, g)
  \/ \E g \in Gateways : StartStep(g) \/ Stop(g) \/ ShutdownStep(g) \/ Crash(g)

Spec == Init /\ [][Next]_vars

(* Every handler runs on: remote calls and reads of a body have deadlines. *)
(* The shutdown goroutine runs on, because its waits have deadlines too.   *)
FairSpec ==
  /\ Spec
  /\ \A r \in Requests : WF_vars(RequestStep(r))
  /\ \A g \in Gateways : WF_vars(ShutdownStep(g))

-----------------------------------------------------------------------------
(* Every variable keeps its type. *)
TypeOK ==
  /\ life \in [Gateways -> Lives]
  /\ lock \in Gateways \cup {Nobody}
  /\ journal \subseteq Gateways
  /\ pending \in BOOLEAN
  /\ active \in [Gateways -> Nat]
  /\ closing \subseteq Gateways
  /\ idle \in [Gateways -> {"nil", "open", "closed"}]
  /\ at \in [Requests -> Gateways \cup {Nobody}]
  /\ pc \in [Requests -> RequestPCs]
  /\ cancelled \subseteq Requests
  /\ queue \in [Gateways -> Seq(Requests)]
  /\ held \in [Gateways -> SUBSET Requests]

Working(r) == pc[r] \in {"recovering", "recovered", "running"}

Inside(r) == pc[r] \notin {"none", "sent"}

(* "Keep gateway readers and other mutations outside the replacement's     *)
(* backup/promotion window" (handler.go:113): while a mutation or its       *)
(* recovery scan runs, no other request of that process runs.               *)
MutationsRunAlone ==
  \A r, s \in Requests :
    r # s /\ Working(r) /\ Working(s) /\ at[r] = at[s] =>
      r \in Readers /\ s \in Readers

(* The journal has one owner: among all processes at most one mutation or   *)
(* recovery scan is in progress, also while one process drains and the next *)
(* one starts.                                                              *)
Recoverers == {g \in Gateways : life[g] = "recovering"}
Mutators == {r \in Mutations : Working(r)}

OneOwner ==
  /\ Cardinality(Recoverers) + Cardinality(Mutators) <= 1
  /\ \A r \in Mutators : lock = at[r] /\ at[r] \in journal

(* Drain's nil error means what main.go:216 takes it for: no request is in  *)
(* the handler of a drained process, and none can enter it any more.        *)
DrainedIsQuiet ==
  \A g \in Gateways : life[g] \in {"drained", "released"} =>
    \A r \in Requests : at[r] = g => ~Inside(r)

(* A mutation starts only when no interrupted replacement is left, however  *)
(* the earlier mutations, processes and drains ended.                       *)
MutationStartsClean ==
  [][\A r \in Mutations : pc[r] # "running" /\ pc'[r] = "running" =>
       ~pending]_vars

(* First come, first served: no waiting request is overtaken for ever by a  *)
(* stream of readers; it is admitted, or cancelled.                         *)
Served == \A r \in Requests : (pc[r] = "queued") ~> (pc[r] # "queued")

(* A signalled process ends, whatever its requests do.                      *)
StopEnds == \A g \in Gateways : (life[g] = "stopping") ~> (life[g] = "down")

=============================================================================
