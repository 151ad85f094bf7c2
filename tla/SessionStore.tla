---------------------------- MODULE SessionStore ----------------------------
(***************************************************************************)
(* The saved session: session.json, its process lock, and the processes    *)
(* that read, refresh and rewrite it.  A server (serve, probe) loads and   *)
(* validates the session (ensureClient), prepares its journal, then every  *)
(* 30 seconds and at its end saves cookies that changed                    *)
(* (startSessionPersistence).  A login command validates the saved session *)
(* or replaces it by a new one (runLogin).                                 *)
(*                                                                         *)
(* A set of cookies is a number, issued in increasing order by the remote  *)
(* service; a session's identity is the number of the cookies it logged in *)
(* with (store.go:123 hashes them).  SavedAt is a clock that every save    *)
(* advances.                                                               *)
(***************************************************************************)
EXTENDS Integers

CONSTANTS
  Servers,      \* serve and probe processes
  Logins,       \* login processes
  Nobody,       \* no process
  NoFile,       \* session.json does not exist
  Anything,     \* Save's expectation: none
  MaxIssued,    \* bound: cookies issued in a behaviour
  MaxClock      \* bound: saves in a behaviour

ASSUME SessionAssumption ==
  /\ Servers \cap Logins = {}
  /\ Nobody \notin Servers \cup Logins
  /\ NoFile \notin [id : Nat, cookies : Nat, saved : Nat, by : Servers \cup Logins]
  /\ Anything \notin [id : Nat, saved : Nat]
  /\ MaxIssued \in Nat
  /\ MaxClock \in Nat

Procs == Servers \cup Logins
Cookies == 0 .. MaxIssued
Times == 0 .. MaxClock

VARIABLES
  file,       \* session.json
  lock,       \* who holds session.json.lock
  issued,     \* the number of cookies the service has issued
  clock,      \* the time of the last save
  pc,         \* where each process stands
  then,       \* where a process goes when its save has succeeded
  client,     \* each process' session identity and cookie jar
  expected,   \* the identity and revision its save must find on disk
  data,       \* the cookies its save writes
  last,       \* startSessionPersistence: what was last saved
  revision,   \* startSessionPersistence: SavedAt of what was last saved
  known,      \* history: the cookies each process has held
  replaced,   \* history: the identities that gave way to another one
  lapses      \* history: what happened to a process that its saves overlook

memory == <<client, last, revision>>
history == <<known, replaced, lapses>>
vars == <<file, lock, issued, clock, pc, then, client, expected, data, last,
          revision, known, replaced, lapses>>

Init ==
  /\ file = NoFile
  /\ lock = Nobody
  /\ issued = 0
  /\ clock = 0
  /\ pc = [p \in Procs |-> "off"]
  /\ then = [p \in Procs |-> "off"]
  /\ client = [p \in Procs |-> [id |-> 0, jar |-> 0]]
  /\ expected = [p \in Procs |-> Anything]
  /\ data = [p \in Procs |-> 0]
  /\ last = [p \in Procs |-> 0]
  /\ revision = [p \in Procs |-> 0]
  /\ known = [p \in Procs |-> {}]
  /\ replaced = {}
  /\ lapses = [p \in Procs |-> {}]

Goto(p, label) == pc' = [pc EXCEPT ![p] = label]

-----------------------------------------------------------------------------
(* Store.save, with the process lock around check and write.               *)

(* What SessionData returned is saved if the file is still `expectation'.  *)
BeginSave(p, cookies, expectation, next) ==
  /\ data' = [data EXCEPT ![p] = cookies]
  /\ expected' = [expected EXCEPT ![p] = expectation]
  /\ then' = [then EXCEPT ![p] = next]
  /\ Goto(p, "acquire")

(* A failed save ends the command, except for the periodic one. *)
SaveFailed(p) == Goto(p, IF then[p] = "serving" THEN "serving" ELSE "failed")

(* Mutant: the check runs outside the lock. *)
AcquireShared(p) ==
  /\ pc[p] = "acquire"
  /\ Goto(p, "check")
  /\ UNCHANGED <<file, lock, issued, clock, then, expected, data, memory, history>>

Acquire(p) ==
  /\ pc[p] = "acquire"
  /\ lock = Nobody
  /\ lock' = p
  /\ Goto(p, "check")
  /\ UNCHANGED <<file, issued, clock, then, expected, data, memory, history>>

(* Five seconds are over, or the directory, the lock or the old file cannot *)
(* be used.                                                                *)
AcquireFails(p) ==
  /\ pc[p] = "acquire"
  /\ SaveFailed(p)
  /\ UNCHANGED <<file, lock, issued, clock, then, expected, data, memory, history>>

(* Mutant: only the revision is compared. *)
CurrentRevision(p) == file # NoFile /\ file.saved = expected[p].saved

Current(p) ==
  /\ file # NoFile
  /\ file.id = expected[p].id
  /\ file.saved = expected[p].saved

Check(p) ==
  /\ pc[p] = "check"
  /\ expected[p] # Anything => Current(p)
  /\ Goto(p, "write")
  /\ UNCHANGED <<file, lock, issued, clock, then, expected, data, memory, history>>

(* ErrSessionChanged. *)
CheckFails(p) ==
  /\ pc[p] = "check"
  /\ expected[p] # Anything /\ ~Current(p)
  /\ SaveFailed(p)
  /\ lock' = Nobody
  /\ UNCHANGED <<file, issued, clock, then, expected, data, memory, history>>

Replaced(p) ==
  /\ clock < MaxClock
  /\ clock' = clock + 1
  /\ file' = [id |-> client[p].id, cookies |-> data[p], saved |-> clock', by |-> p]
  /\ replaced' = IF file # NoFile /\ file.id # client[p].id
                 THEN replaced \cup {file.id} ELSE replaced

(* Mutant: the revision of a successful save is not kept. *)
WriteForgetful(p) ==
  /\ pc[p] = "write"
  /\ Replaced(p)
  /\ last' = [last EXCEPT ![p] = data[p]]
  /\ Goto(p, then[p])
  /\ lock' = Nobody
  /\ UNCHANGED <<issued, then, expected, data, client, revision, known, lapses>>

(* A start-up save sets `last' and `revision' too early: Attach sets them   *)
(* again before anyone reads them.                                         *)
Write(p) ==
  /\ pc[p] = "write"
  /\ Replaced(p)
  /\ last' = [last EXCEPT ![p] = data[p]]
  /\ revision' = [revision EXCEPT ![p] = clock']
  /\ Goto(p, then[p])
  /\ lock' = Nobody
  /\ UNCHANGED <<issued, then, expected, data, client, known, lapses>>

(* An error before the rename of atomicfile.Write, or after it. *)
WriteFails(p) ==
  /\ pc[p] = "write"
  /\ \/ UNCHANGED <<file, clock, replaced, lapses>>
     \/ /\ Replaced(p)
        /\ lapses' = [lapses EXCEPT ![p] = @ \cup {"sync"}]
  /\ SaveFailed(p)
  /\ lock' = Nobody
  /\ UNCHANGED <<issued, then, expected, data, client, last, revision, known>>

-----------------------------------------------------------------------------
(* ensureClient and runLogin.                                              *)

(* A process starts with nothing in memory. *)
Forgets(p) ==
  /\ then' = [then EXCEPT ![p] = "off"]
  /\ client' = [client EXCEPT ![p] = [id |-> 0, jar |-> 0]]
  /\ expected' = [expected EXCEPT ![p] = Anything]
  /\ data' = [data EXCEPT ![p] = 0]
  /\ last' = [last EXCEPT ![p] = 0]
  /\ revision' = [revision EXCEPT ![p] = 0]
  /\ known' = [known EXCEPT ![p] = {}]
  /\ lapses' = [lapses EXCEPT ![p] = {}]

Launch(p) ==
  /\ pc[p] \in {"off", "finished", "failed"}
  /\ Goto(p, "load")
  /\ Forgets(p)
  /\ UNCHANGED <<file, lock, issued, clock, replaced>>

Load(p) ==
  /\ pc[p] = "load"
  /\ file # NoFile
  /\ client' = [client EXCEPT ![p] = [id |-> file.id, jar |-> file.cookies]]
  /\ expected' = [expected EXCEPT ![p] = [id |-> file.id, saved |-> file.saved]]
  /\ known' = [known EXCEPT ![p] = @ \cup {file.cookies}]
  /\ Goto(p, "validate")
  /\ UNCHANGED <<file, lock, issued, clock, then, data, last, revision,
                 replaced, lapses>>

(* No file; or `login --force'. *)
LoadNothing(p) ==
  /\ pc[p] = "load"
  /\ file = NoFile \/ p \in Logins
  /\ Goto(p, "login")
  /\ UNCHANGED <<file, lock, issued, clock, then, expected, data, memory, history>>

(* Where a command goes on with a session that is saved: runServe, or done. *)
AfterStart(p) == IF p \in Servers THEN "recovering" ELSE "finished"

(* Validate browsed the root; SaveLoaded. *)
Validated(p) ==
  /\ pc[p] = "validate"
  /\ BeginSave(p, client[p].jar, expected[p], AfterStart(p))
  /\ UNCHANGED <<file, lock, issued, clock, memory, history>>

(* The service refuses the session: the user logs in again. *)
Invalid(p) ==
  /\ pc[p] = "validate"
  /\ Goto(p, "login")
  /\ UNCHANGED <<file, lock, issued, clock, then, expected, data, memory, history>>

(* --no-login, another error than ErrUnauthorized, a cancelled login. *)
GiveUp(p) ==
  /\ pc[p] \in {"load", "validate", "login"}
  /\ Goto(p, "failed")
  /\ UNCHANGED <<file, lock, issued, clock, then, expected, data, memory, history>>

Login(p) ==
  /\ pc[p] = "login"
  /\ issued < MaxIssued
  /\ issued' = issued + 1
  /\ client' = [client EXCEPT ![p] = [id |-> issued', jar |-> issued']]
  /\ known' = [known EXCEPT ![p] = @ \cup {issued'}]
  /\ BeginSave(p, issued', Anything, AfterStart(p))
  /\ UNCHANGED <<file, lock, clock, last, revision, replaced, lapses>>

-----------------------------------------------------------------------------
(* A running client.                                                       *)

(* The client talks to the service: ensureClient browses the root,         *)
(* EnableRecovery runs the journal, requests are served (also during a     *)
(* periodic save).                                                         *)
Talking(p) ==
  \/ pc[p] \in {"validate", "recovering", "serving"}
  \/ pc[p] \in {"acquire", "check", "write"} /\ then[p] = "serving"

(* A response sets new cookies. *)
Refresh(p) ==
  /\ Talking(p)
  /\ issued < MaxIssued
  /\ issued' = issued + 1
  /\ client' = [client EXCEPT ![p].jar = issued']
  /\ known' = [known EXCEPT ![p] = @ \cup {issued'}]
  /\ lapses' = [lapses EXCEPT ![p] = IF pc[p] = "recovering"
                                     THEN @ \cup {"refresh"} ELSE @]
  /\ UNCHANGED <<file, lock, clock, pc, then, expected, data, last, revision,
                 replaced>>

(* EnableRecovery is done: startSessionPersistence. *)
Attach(p) ==
  /\ pc[p] = "recovering"
  /\ last' = [last EXCEPT ![p] = client[p].jar]
  /\ revision' = [revision EXCEPT ![p] = IF file = NoFile THEN 0 ELSE file.saved]
  /\ Goto(p, "serving")
  /\ UNCHANGED <<file, lock, issued, clock, then, expected, data, client, history>>

Expectation(p) == [id |-> client[p].id, saved |-> revision[p]]

(* The ticker: SaveCurrent when the fingerprint changed. *)
Tick(p) ==
  /\ pc[p] = "serving"
  /\ client[p].jar # last[p]
  /\ BeginSave(p, client[p].jar, Expectation(p), "serving")
  /\ UNCHANGED <<file, lock, issued, clock, memory, history>>

(* Mutant: shutdown leaves the last refresh to the ticker. *)
StopUnsaved(p) ==
  /\ pc[p] = "serving"
  /\ Goto(p, "finished")
  /\ UNCHANGED <<file, lock, issued, clock, then, expected, data, memory, history>>

(* The returned function: stop the ticker, then save once more. *)
Stop(p) ==
  /\ pc[p] = "serving"
  /\ IF client[p].jar = last[p]
     THEN /\ Goto(p, "finished")
          /\ UNCHANGED <<then, expected, data>>
     ELSE BeginSave(p, client[p].jar, Expectation(p), "finished")
  /\ UNCHANGED <<file, lock, issued, clock, memory, history>>

Crash(p) ==
  /\ Goto(p, "off")
  /\ pc[p] # "off"
  /\ lock' = IF lock = p THEN Nobody ELSE lock
  /\ Forgets(p)
  /\ UNCHANGED <<file, issued, clock, replaced>>

Next == \E p \in Procs :
  \/ Launch(p) \/ Load(p) \/ LoadNothing(p) \/ Validated(p) \/ Invalid(p)
  \/ GiveUp(p) \/ Login(p)
  \/ Acquire(p) \/ AcquireFails(p) \/ Check(p) \/ CheckFails(p)
  \/ Write(p) \/ WriteFails(p)
  \/ Refresh(p) \/ Attach(p) \/ Tick(p) \/ Stop(p) \/ Crash(p)

Spec == Init /\ [][Next]_vars

-----------------------------------------------------------------------------
(* Every variable keeps its type, and a login command never serves.         *)
TypeOK ==
  /\ file \in [id : Cookies, cookies : Cookies, saved : Times, by : Procs]
              \cup {NoFile}
  /\ lock \in Procs \cup {Nobody}
  /\ issued \in Cookies
  /\ clock \in Times
  /\ pc \in [Procs -> {"off", "load", "validate", "login", "acquire", "check",
                      "write", "recovering", "serving", "finished", "failed"}]
  /\ \A p \in Logins : pc[p] \notin {"recovering", "serving"}
  /\ then \in [Procs -> {"off", "recovering", "serving", "finished"}]
  /\ client \in [Procs -> [id : Cookies, jar : Cookies]]
  /\ expected \in [Procs -> [id : Cookies, saved : Times] \cup {Anything}]
  /\ data \in [Procs -> Cookies]
  /\ last \in [Procs -> Cookies]
  /\ revision \in [Procs -> Times]
  /\ known \in [Procs -> SUBSET Cookies]
  /\ replaced \subseteq Cookies
  /\ lapses \in [Procs -> SUBSET {"refresh", "sync"}]

(* "an older server can overwrite a newer login" is ruled out                *)
(* (reliability-review-2026-10-27.md:14): a session that gave way to another *)
(* login on disk never comes back, however late its servers save.           *)
OldLoginStaysReplaced == file # NoFile => file.id \notin replaced

Saving(p) == pc[p] = "write" /\ file' # file /\ file'.by = p

(* SaveCurrent and SaveLoaded are a compare-and-swap: at the moment of the   *)
(* write the file is still the revision that was checked.                   *)
ConditionalSave ==
  [][\A p \in Procs : Saving(p) /\ expected[p] # Anything => Current(p)]_vars

(* A server that ends with its last save successful leaves its newest       *)
(* cookies in the file, unless another process has saved since              *)
(* ("Persist changed cookies every 30 seconds and on shutdown").  Excepted  *)
(* are cookies that the service sent while EnableRecovery ran: Attach takes *)
(* the jar as it is for what was saved (session.go:22), so they are saved   *)
(* only once they change again.                                             *)
SavedOnExit ==
  \A p \in Servers :
    pc[p] = "finished" /\ file # NoFile /\ "refresh" \notin lapses[p] =>
      file.by # p \/ file.cookies = client[p].jar

(* ErrSessionChanged tells the truth ("saved session changed; old server    *)
(* session was not persisted"): it is reported only when another process    *)
(* saved the session.  Excepted is a process one of whose saves failed      *)
(* behind its rename (write.go:30): it keeps the old revision               *)
(* (session.go:44), and its own file looks like another's.                  *)
ChangedByAnother ==
  [][\A p \in Procs :
       CheckFails(p) /\ "sync" \notin lapses[p] =>
         file # NoFile /\ file.by # p]_vars

(* "an external login/session update wins over a stale writer"              *)
(* (reliability-review-2026-10-27.md:60): a conditional save replaces only  *)
(* cookies that its process has held itself.                                *)
UpdateWins ==
  [][\A p \in Procs :
       Saving(p) /\ expected[p] # Anything => file.cookies \in known[p]]_vars

=============================================================================
