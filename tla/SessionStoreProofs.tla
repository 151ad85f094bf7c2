-------------------------- MODULE SessionStoreProofs --------------------------
(***************************************************************************)
(* Proofs about SessionStore, for any number of servers and logins.        *)
(***************************************************************************)
EXTENDS SessionStore, TLAPS

(* The program points of Store.save. *)
Saves == {"acquire", "check", "write"}

(* A save whose expectation is what the process believes to be on disk. *)
Conditional(p) == expected[p] # Anything

(* Where a process may go on after a save: a login command only ends. *)
Destinations(p) ==
  IF p \in Servers THEN {"recovering", "serving", "finished"} ELSE {"finished"}

TypeInv ==
  /\ TypeOK
  /\ \A p \in Procs : pc[p] \in Saves => then[p] \in Destinations(p)

(* Only the holder of the process lock is between check and write. *)
LockHeld == \A p \in Procs : pc[p] \in {"check", "write"} <=> lock = p

(* A file that was replaced is a session file, saved now by its writer. *)
LEMMA ReplacedType ==
  ASSUME TypeOK, NEW p \in Procs, Replaced(p)
  PROVE  /\ file' \in
              [id : Cookies, cookies : Cookies, saved : Times, by : Procs]
         /\ clock' \in Times
         /\ replaced' \subseteq Cookies
<1>1. client[p].id \in Cookies /\ data[p] \in Cookies
  BY DEF TypeOK
<1>2. clock' \in Times
  BY SessionAssumption DEF Replaced, TypeOK, Times
<1> QED
  BY <1>1, <1>2 DEF Replaced, TypeOK

(* Every step keeps the types. *)
LEMMA TypeStep == TypeInv /\ [Next]_vars => TypeInv'
<1> SUFFICES ASSUME TypeInv, [Next]_vars PROVE TypeInv'
  OBVIOUS
<1> USE SessionAssumption
    DEF TypeInv, TypeOK, Procs, Cookies, Times, Destinations, Saves, Goto,
        memory, history
<1>1. ASSUME NEW p \in Procs, Launch(p) \/ Crash(p) PROVE TypeInv'
  <2>1. UNCHANGED <<file, issued, clock, replaced>> /\ lock' \in Procs \cup {Nobody}
    BY <1>1 DEF Launch, Crash, Forgets
  <2>2. PICK label \in {"load", "off"} : pc' = [pc EXCEPT ![p] = label]
    BY <1>1 DEF Launch, Crash
  <2>3. Forgets(p)
    BY <1>1 DEF Launch, Crash
  <2>4. 0 \in Cookies /\ 0 \in Times
    OBVIOUS
  <2>5. client' \in [Procs -> [id : Cookies, jar : Cookies]]
    BY <2>3, <2>4 DEF Forgets
  <2>6. expected' \in [Procs -> [id : Cookies, saved : Times] \cup {Anything}]
    BY <2>3 DEF Forgets
  <2> QED
    BY <2>1, <2>2, <2>3, <2>5, <2>6 DEF Forgets
<1>2. ASSUME NEW p \in Procs, Load(p) PROVE TypeInv'
  BY <1>2 DEF Load
<1>3. ASSUME NEW p \in Procs, LoadNothing(p) \/ Invalid(p) \/ GiveUp(p)
      PROVE TypeInv'
  BY <1>3 DEF LoadNothing, Invalid, GiveUp
<1>4. ASSUME NEW p \in Procs, Validated(p) PROVE TypeInv'
  BY <1>4 DEF Validated, BeginSave, AfterStart
<1>5. ASSUME NEW p \in Procs, Login(p) PROVE TypeInv'
  BY <1>5 DEF Login, BeginSave, AfterStart
<1>6. ASSUME NEW p \in Procs,
             Acquire(p) \/ AcquireFails(p) \/ Check(p) \/ CheckFails(p)
      PROVE TypeInv'
  BY <1>6 DEF Acquire, AcquireFails, Check, CheckFails, SaveFailed
<1>7. ASSUME NEW p \in Procs, Write(p) PROVE TypeInv'
  <2>1. last' \in [Procs -> Cookies] /\ revision' \in [Procs -> Times]
    BY <1>7, ReplacedType DEF Write
  <2> QED
    BY <1>7, <2>1, ReplacedType DEF Write
<1>8. ASSUME NEW p \in Procs, WriteFails(p) PROVE TypeInv'
  <2>1. /\ file' \in [id : Cookies, cookies : Cookies, saved : Times, by :
           Procs] \cup {NoFile}
        /\ clock' \in Times
        /\ replaced' \subseteq Cookies
    BY <1>8, ReplacedType DEF WriteFails
  <2>2. lapses' \in [Procs -> SUBSET {"refresh", "sync"}]
    BY <1>8 DEF WriteFails
  <2> QED
    BY <1>8, <2>1, <2>2 DEF WriteFails, SaveFailed
<1>9. ASSUME NEW p \in Procs, Refresh(p) PROVE TypeInv'
  BY <1>9 DEF Refresh
<1>10. ASSUME NEW p \in Procs, Attach(p) PROVE TypeInv'
  BY <1>10 DEF Attach
<1>11. ASSUME NEW p \in Procs, Tick(p) \/ Stop(p) PROVE TypeInv'
  <2>1. Expectation(p) \in [id : Cookies, saved : Times] /\ client[p].jar \in Cookies
    BY DEF Expectation
  <2>2. p \in Servers
    BY <1>11 DEF Tick, Stop
  <2>3. CASE Tick(p)
    BY <2>1, <2>2, <2>3 DEF Tick, BeginSave
  <2>4. CASE Stop(p)
    <3>1. CASE client[p].jar = last[p]
      BY <2>2, <2>4, <3>1 DEF Stop
    <3>2. CASE client[p].jar # last[p]
      BY <2>1, <2>2, <2>4, <3>2 DEF Stop, BeginSave
    <3> QED
      BY <3>1, <3>2
  <2> QED
    BY <1>11, <2>3, <2>4
<1>12. CASE UNCHANGED vars
  BY <1>12 DEF vars
<1> QED
  BY <1>1, <1>2, <1>3, <1>4, <1>5, <1>6, <1>7, <1>8, <1>9, <1>10, <1>11, <1>12
     DEF Next

(* Every variable keeps its type. *)
THEOREM TypeCorrect == Spec => []TypeOK
<1>1. Init => TypeInv
  BY SessionAssumption DEF Init, TypeInv, TypeOK, Procs, Cookies, Times, Saves
<1>2. TypeInv => TypeOK
  BY DEF TypeInv
<1> QED
  BY <1>1, <1>2, TypeStep, PTL DEF Spec

-----------------------------------------------------------------------------
(* Numbers are issued in increasing order: no identity and no cookies in    *)
(* use are from the future.                                                *)
Issuance ==
  /\ file # NoFile => file.id <= issued /\ file.cookies <= issued
  /\ \A v \in replaced : v <= issued
  /\ \A p \in Procs :
       client[p].id <= issued /\ client[p].jar <= issued /\ data[p] <= issued

(* A new login on its way to disk: nobody else has its identity, which was  *)
(* never on disk.                                                          *)
NewLogin(p) == pc[p] \in Saves /\ ~Conditional(p)

LoginsAreNew ==
  \A p \in Procs : NewLogin(p) =>
    /\ client[p].id > 0
    /\ client[p].id \notin replaced
    /\ file # NoFile => file.id # client[p].id
    /\ \A q \in Procs \ {p} : client[q].id # client[p].id

(* A process that was loaded, validated or started has a file to save to,   *)
(* and a conditional save expects its own identity there; once checked, the *)
(* file is the expected one until it is written.  A periodic save expects   *)
(* the revision that was saved last.                                       *)
Expectations ==
  \A p \in Procs :
    /\ pc[p] \in {"validate", "recovering", "serving"} => file # NoFile
    /\ pc[p] = "validate" => Conditional(p)
    /\ pc[p] \in Saves /\ Conditional(p) => file # NoFile
    /\ pc[p] \in Saves \cup {"validate"} /\ Conditional(p) =>
         expected[p].id = client[p].id
    /\ pc[p] = "write" /\ Conditional(p) => Current(p)
    /\ pc[p] \in Saves /\ then[p] = "serving" =>
         Conditional(p) /\ expected[p].saved = revision[p]

(* What a process knows of a file that it wrote itself, as long as none of  *)
(* its saves failed behind its rename.                                      *)
Own(p) == file # NoFile /\ file.by = p

OwnRevision ==
  \A p \in Procs : Own(p) /\ "sync" \notin lapses[p] =>
    /\ pc[p] \in Saves \cup {"validate"} /\ Conditional(p) => Current(p)
    /\ pc[p] \in {"recovering", "serving"} => file.id = client[p].id
    /\ pc[p] = "serving" => revision[p] = file.saved

(* How the cookies in a server's jar, those of its save and those it saved  *)
(* last follow each other.                                                  *)
JarOrder ==
  \A p \in Servers :
    /\ pc[p] \in Saves /\ then[p] # "serving" => data[p] = client[p].jar
    /\ pc[p] \in Saves /\ then[p] = "serving" =>
         last[p] < data[p] /\ data[p] <= client[p].jar
    /\ pc[p] = "serving" => last[p] <= client[p].jar

(* What a server knows of cookies that it wrote itself, unless some came    *)
(* while EnableRecovery ran.                                                *)
OwnCookies ==
  \A p \in Servers : Own(p) /\ "refresh" \notin lapses[p] =>
    /\ pc[p] \in {"recovering", "finished"} => file.cookies = client[p].jar
    /\ pc[p] = "serving" => file.cookies = last[p] \/ last[p] < client[p].jar

(* The lock is taken before the check and released after the write.        *)
LEMMA LockHeldStep ==
  ASSUME TypeInv, LockHeld, [Next]_vars
  PROVE  LockHeld'
<1> USE SessionAssumption
    DEF TypeInv, TypeOK, Procs, Cookies, Times, LockHeld, Saves, Goto, memory,
        history
<1>1. ASSUME NEW p \in Procs, Launch(p) \/ Crash(p) PROVE LockHeld'
  BY <1>1 DEF Launch, Crash, Forgets
<1>2. ASSUME NEW p \in Procs, Load(p) PROVE LockHeld'
  BY <1>2 DEF Load
<1>3. ASSUME NEW p \in Procs, LoadNothing(p) \/ Invalid(p) \/ GiveUp(p)
      PROVE LockHeld'
  BY <1>3 DEF LoadNothing, Invalid, GiveUp
<1>4. ASSUME NEW p \in Procs, Validated(p) PROVE LockHeld'
  BY <1>4 DEF Validated, BeginSave, AfterStart
<1>5. ASSUME NEW p \in Procs, Login(p) PROVE LockHeld'
  BY <1>5 DEF Login, BeginSave, AfterStart
<1>6. ASSUME NEW p \in Procs, Acquire(p) \/ AcquireFails(p) PROVE LockHeld'
  BY <1>6 DEF Acquire, AcquireFails, SaveFailed
<1>7. ASSUME NEW p \in Procs, Check(p) \/ CheckFails(p) PROVE LockHeld'
  BY <1>7 DEF Check, CheckFails, SaveFailed
<1>8. ASSUME NEW p \in Procs, Write(p) PROVE LockHeld'
  BY <1>8 DEF Write, Replaced
<1>9. ASSUME NEW p \in Procs, WriteFails(p) PROVE LockHeld'
  BY <1>9 DEF WriteFails, Replaced, SaveFailed
<1>10. ASSUME NEW p \in Procs, Refresh(p) PROVE LockHeld'
  BY <1>10 DEF Refresh, Talking
<1>11. ASSUME NEW p \in Procs, Attach(p) PROVE LockHeld'
  BY <1>11 DEF Attach
<1>12. ASSUME NEW p \in Procs, Tick(p) \/ Stop(p) PROVE LockHeld'
  BY <1>12 DEF Tick, Stop, BeginSave, Expectation
<1>13. CASE UNCHANGED vars
  BY <1>13 DEF vars
<1> QED
  BY <1>1, <1>2, <1>3, <1>4, <1>5, <1>6, <1>7, <1>8, <1>9, <1>10, <1>11, <1>12,
     <1>13 DEF Next

(* Only Login and Refresh issue, and what they issue is newer than all.    *)
LEMMA IssuanceStep ==
  ASSUME TypeInv, Issuance, [Next]_vars
  PROVE  Issuance'
<1> USE SessionAssumption
    DEF TypeInv, TypeOK, Procs, Cookies, Times, Issuance, Goto, memory, history
<1>1. ASSUME NEW p \in Procs, Launch(p) PROVE Issuance'
  BY <1>1 DEF Launch, Forgets
<1>2. ASSUME NEW p \in Procs, Crash(p) PROVE Issuance'
  BY <1>2 DEF Crash, Forgets
<1>3. ASSUME NEW p \in Procs, Load(p) PROVE Issuance'
  BY <1>3 DEF Load
<1>4. ASSUME NEW p \in Procs, LoadNothing(p) PROVE Issuance'
  BY <1>4 DEF LoadNothing
<1>5. ASSUME NEW p \in Procs, Invalid(p) PROVE Issuance'
  BY <1>5 DEF Invalid
<1>6. ASSUME NEW p \in Procs, GiveUp(p) PROVE Issuance'
  BY <1>6 DEF GiveUp
<1>7. ASSUME NEW p \in Procs, Validated(p) PROVE Issuance'
  BY <1>7 DEF Validated, BeginSave, AfterStart
<1>8. ASSUME NEW p \in Procs, Login(p) PROVE Issuance'
  BY <1>8 DEF Login, BeginSave, AfterStart
<1>9. ASSUME NEW p \in Procs, Acquire(p) PROVE Issuance'
  BY <1>9 DEF Acquire, SaveFailed
<1>10. ASSUME NEW p \in Procs, AcquireFails(p) PROVE Issuance'
  BY <1>10 DEF AcquireFails, SaveFailed
<1>11. ASSUME NEW p \in Procs, Check(p) PROVE Issuance'
  BY <1>11 DEF Check, SaveFailed
<1>12. ASSUME NEW p \in Procs, CheckFails(p) PROVE Issuance'
  BY <1>12 DEF CheckFails, SaveFailed
<1>13. ASSUME NEW p \in Procs, Write(p) PROVE Issuance'
  BY <1>13 DEF Write, Replaced
<1>14. ASSUME NEW p \in Procs, WriteFails(p) PROVE Issuance'
  <2>1. CASE UNCHANGED <<file, replaced>>
    BY <1>14, <2>1 DEF WriteFails
  <2>2. CASE Replaced(p)
    BY <1>14, <2>2 DEF WriteFails, Replaced
  <2> QED
    BY <1>14, <2>1, <2>2 DEF WriteFails
<1>15. ASSUME NEW p \in Procs, Refresh(p) PROVE Issuance'
  BY <1>15 DEF Refresh, Talking
<1>16. ASSUME NEW p \in Procs, Attach(p) PROVE Issuance'
  BY <1>16 DEF Attach
<1>17. ASSUME NEW p \in Procs, Tick(p) PROVE Issuance'
  BY <1>17 DEF Tick, BeginSave, Expectation
<1>18. ASSUME NEW p \in Procs, Stop(p) PROVE Issuance'
  BY <1>18 DEF Stop, BeginSave, Expectation
<1>19. CASE UNCHANGED vars
  BY <1>19 DEF vars
<1> QED
  BY <1>1, <1>2, <1>3, <1>4, <1>5, <1>6, <1>7, <1>8, <1>9, <1>10, <1>11, <1>12,
     <1>13, <1>14, <1>15, <1>16, <1>17, <1>18, <1>19 DEF Next

(* The identity of a login stays its own until it is written.              *)
LEMMA LoginsAreNewStep ==
  ASSUME TypeInv, LockHeld, Issuance, Expectations, LoginsAreNew, [Next]_vars
  PROVE  LoginsAreNew'
<1> USE SessionAssumption
    DEF TypeInv, TypeOK, Procs, Cookies, Times, LoginsAreNew, NewLogin,
        Conditional, Saves, Current, Expectations, Issuance, LockHeld, Goto,
        memory, history
<1>1. ASSUME NEW p \in Procs, Launch(p) \/ Crash(p) PROVE LoginsAreNew'
  BY <1>1 DEF Launch, Crash, Forgets
<1>2. ASSUME NEW p \in Procs, Load(p) PROVE LoginsAreNew'
  BY <1>2 DEF Load
<1>3. ASSUME NEW p \in Procs, LoadNothing(p) \/ Invalid(p) \/ GiveUp(p)
      PROVE LoginsAreNew'
  BY <1>3 DEF LoadNothing, Invalid, GiveUp
<1>4. ASSUME NEW p \in Procs, Validated(p) PROVE LoginsAreNew'
  BY <1>4 DEF Validated, BeginSave, AfterStart
<1>5. ASSUME NEW p \in Procs, Login(p) PROVE LoginsAreNew'
  BY <1>5 DEF Login, BeginSave, AfterStart
<1>6. ASSUME NEW p \in Procs, Acquire(p) \/ AcquireFails(p) PROVE LoginsAreNew'
  BY <1>6 DEF Acquire, AcquireFails, SaveFailed
<1>7. ASSUME NEW p \in Procs, Check(p) \/ CheckFails(p) PROVE LoginsAreNew'
  BY <1>7 DEF Check, CheckFails, SaveFailed
<1>8. ASSUME NEW p \in Procs, Write(p) PROVE LoginsAreNew'
  BY <1>8 DEF Write, Replaced
<1>9. ASSUME NEW p \in Procs, WriteFails(p) PROVE LoginsAreNew'
  BY <1>9 DEF WriteFails, Replaced, SaveFailed
<1>10. ASSUME NEW p \in Procs, Refresh(p) PROVE LoginsAreNew'
  BY <1>10 DEF Refresh, Talking
<1>11. ASSUME NEW p \in Procs, Attach(p) PROVE LoginsAreNew'
  BY <1>11 DEF Attach
<1>12. ASSUME NEW p \in Procs, Tick(p) \/ Stop(p) PROVE LoginsAreNew'
  BY <1>12 DEF Tick, Stop, BeginSave, Expectation
<1>13. CASE UNCHANGED vars
  BY <1>13 DEF vars
<1> QED
  BY <1>1, <1>2, <1>3, <1>4, <1>5, <1>6, <1>7, <1>8, <1>9, <1>10, <1>11, <1>12,
     <1>13 DEF Next

(* What a conditional save expects is its own, and holds once checked.     *)
LEMMA ExpectationsStep ==
  ASSUME TypeInv, LockHeld, Expectations, [Next]_vars
  PROVE  Expectations'
<1> USE SessionAssumption
    DEF TypeInv, TypeOK, Procs, Cookies, Times, Expectations, Conditional,
        Current, Saves, LockHeld, Goto, memory, history
<1>1. ASSUME NEW p \in Procs, Launch(p) \/ Crash(p) PROVE Expectations'
  BY <1>1 DEF Launch, Crash, Forgets
<1>2. ASSUME NEW p \in Procs, Load(p) PROVE Expectations'
  BY <1>2 DEF Load
<1>3. ASSUME NEW p \in Procs, LoadNothing(p) \/ Invalid(p) \/ GiveUp(p)
      PROVE Expectations'
  BY <1>3 DEF LoadNothing, Invalid, GiveUp
<1>4. ASSUME NEW p \in Procs, Validated(p) PROVE Expectations'
  BY <1>4 DEF Validated, BeginSave, AfterStart
<1>5. ASSUME NEW p \in Procs, Login(p) PROVE Expectations'
  BY <1>5 DEF Login, BeginSave, AfterStart
<1>6. ASSUME NEW p \in Procs, Acquire(p) \/ AcquireFails(p) PROVE Expectations'
  BY <1>6 DEF Acquire, AcquireFails, SaveFailed
<1>7. ASSUME NEW p \in Procs, Check(p) \/ CheckFails(p) PROVE Expectations'
  BY <1>7 DEF Check, CheckFails, SaveFailed
<1>8. ASSUME NEW p \in Procs, Write(p) PROVE Expectations'
  BY <1>8 DEF Write, Replaced
<1>9. ASSUME NEW p \in Procs, WriteFails(p) PROVE Expectations'
  BY <1>9 DEF WriteFails, Replaced, SaveFailed
<1>10. ASSUME NEW p \in Procs, Refresh(p) PROVE Expectations'
  BY <1>10 DEF Refresh, Talking
<1>11. ASSUME NEW p \in Procs, Attach(p) PROVE Expectations'
  BY <1>11 DEF Attach
<1>12. ASSUME NEW p \in Procs, Tick(p) \/ Stop(p) PROVE Expectations'
  BY <1>12 DEF Tick, Stop, BeginSave, Expectation
<1>13. CASE UNCHANGED vars
  BY <1>13 DEF vars
<1> QED
  BY <1>1, <1>2, <1>3, <1>4, <1>5, <1>6, <1>7, <1>8, <1>9, <1>10, <1>11, <1>12,
     <1>13 DEF Next

(* Only its own saves change what a process wrote.                         *)
LEMMA OwnRevisionStep ==
  ASSUME TypeInv, LockHeld, Expectations, OwnRevision, [Next]_vars
  PROVE  OwnRevision'
<1> USE SessionAssumption
    DEF TypeInv, TypeOK, Procs, Cookies, Times, OwnRevision, Own, Conditional,
        Current, Saves, Expectations, LockHeld, Goto, memory, history
<1>1. ASSUME NEW p \in Procs, Launch(p) \/ Crash(p) PROVE OwnRevision'
  BY <1>1 DEF Launch, Crash, Forgets
<1>2. ASSUME NEW p \in Procs, Load(p) PROVE OwnRevision'
  BY <1>2 DEF Load
<1>3. ASSUME NEW p \in Procs, LoadNothing(p) \/ Invalid(p) \/ GiveUp(p)
      PROVE OwnRevision'
  BY <1>3 DEF LoadNothing, Invalid, GiveUp
<1>4. ASSUME NEW p \in Procs, Validated(p) PROVE OwnRevision'
  BY <1>4 DEF Validated, BeginSave, AfterStart
<1>5. ASSUME NEW p \in Procs, Login(p) PROVE OwnRevision'
  BY <1>5 DEF Login, BeginSave, AfterStart
<1>6. ASSUME NEW p \in Procs, Acquire(p) \/ AcquireFails(p) PROVE OwnRevision'
  BY <1>6 DEF Acquire, AcquireFails, SaveFailed
<1>7. ASSUME NEW p \in Procs, Check(p) \/ CheckFails(p) PROVE OwnRevision'
  BY <1>7 DEF Check, CheckFails, SaveFailed
<1>8. ASSUME NEW p \in Procs, Write(p) PROVE OwnRevision'
  BY <1>8 DEF Write, Replaced
<1>9. ASSUME NEW p \in Procs, WriteFails(p) PROVE OwnRevision'
  BY <1>9 DEF WriteFails, Replaced, SaveFailed
<1>10. ASSUME NEW p \in Procs, Refresh(p) PROVE OwnRevision'
  BY <1>10 DEF Refresh, Talking
<1>11. ASSUME NEW p \in Procs, Attach(p) PROVE OwnRevision'
  BY <1>11 DEF Attach
<1>12. ASSUME NEW p \in Procs, Tick(p) \/ Stop(p) PROVE OwnRevision'
  BY <1>12 DEF Tick, Stop, BeginSave, Expectation
<1>13. CASE UNCHANGED vars
  BY <1>13 DEF vars
<1> QED
  BY <1>1, <1>2, <1>3, <1>4, <1>5, <1>6, <1>7, <1>8, <1>9, <1>10, <1>11, <1>12,
     <1>13 DEF Next

(* Refreshed cookies are newer than those that are saved.                  *)
LEMMA JarOrderStep ==
  ASSUME TypeInv, Issuance, JarOrder, [Next]_vars
  PROVE  JarOrder'
<1> USE SessionAssumption
    DEF TypeInv, TypeOK, Procs, Cookies, Times, JarOrder, Saves, Issuance,
        Goto, memory, history
<1>1. ASSUME NEW p \in Procs, Launch(p) \/ Crash(p) PROVE JarOrder'
  BY <1>1 DEF Launch, Crash, Forgets
<1>2. ASSUME NEW p \in Procs, Load(p) PROVE JarOrder'
  BY <1>2 DEF Load
<1>3. ASSUME NEW p \in Procs, LoadNothing(p) \/ Invalid(p) \/ GiveUp(p)
      PROVE JarOrder'
  BY <1>3 DEF LoadNothing, Invalid, GiveUp
<1>4. ASSUME NEW p \in Procs, Validated(p) PROVE JarOrder'
  BY <1>4 DEF Validated, BeginSave, AfterStart
<1>5. ASSUME NEW p \in Procs, Login(p) PROVE JarOrder'
  BY <1>5 DEF Login, BeginSave, AfterStart
<1>6. ASSUME NEW p \in Procs, Acquire(p) \/ AcquireFails(p) PROVE JarOrder'
  BY <1>6 DEF Acquire, AcquireFails, SaveFailed
<1>7. ASSUME NEW p \in Procs, Check(p) \/ CheckFails(p) PROVE JarOrder'
  BY <1>7 DEF Check, CheckFails, SaveFailed
<1>8. ASSUME NEW p \in Procs, Write(p) PROVE JarOrder'
  BY <1>8 DEF Write, Replaced
<1>9. ASSUME NEW p \in Procs, WriteFails(p) PROVE JarOrder'
  BY <1>9 DEF WriteFails, Replaced, SaveFailed
<1>10. ASSUME NEW p \in Procs, Refresh(p) PROVE JarOrder'
  BY <1>10 DEF Refresh, Talking
<1>11. ASSUME NEW p \in Procs, Attach(p) PROVE JarOrder'
  BY <1>11 DEF Attach
<1>12. ASSUME NEW p \in Procs, Tick(p) \/ Stop(p) PROVE JarOrder'
  <2>1. p \in Servers /\ last[p] \in Nat /\ client[p].jar \in Nat /\ last[p] <= client[p].jar
    BY <1>12 DEF Tick, Stop
  <2>2. CASE Tick(p)
    <3>1. client[p].jar # last[p]
      BY <2>2 DEF Tick
    <3>2. last[p] < client[p].jar
      BY ONLY <2>1, <3>1
    <3> QED
      BY <2>1, <2>2, <3>2 DEF Tick, BeginSave
  <2>3. CASE Stop(p)
    BY <2>1, <2>3 DEF Stop, BeginSave
  <2> QED
    BY <1>12, <2>2, <2>3
<1>13. CASE UNCHANGED vars
  BY <1>13 DEF vars
<1> QED
  BY <1>1, <1>2, <1>3, <1>4, <1>5, <1>6, <1>7, <1>8, <1>9, <1>10, <1>11, <1>12,
     <1>13 DEF Next

(* Cookies that a server wrote are those in its jar, or newer ones came.   *)
LEMMA OwnCookiesStep ==
  ASSUME TypeInv, LockHeld, Issuance, JarOrder, OwnCookies, [Next]_vars
  PROVE  OwnCookies'
<1> USE SessionAssumption
    DEF TypeInv, TypeOK, Procs, Cookies, Times, OwnCookies, Own, Saves,
        JarOrder, LockHeld, Issuance, Goto, memory, history
<1>1. ASSUME NEW p \in Procs, Launch(p) \/ Crash(p) PROVE OwnCookies'
  BY <1>1 DEF Launch, Crash, Forgets
<1>2. ASSUME NEW p \in Procs, Load(p) PROVE OwnCookies'
  BY <1>2 DEF Load
<1>3. ASSUME NEW p \in Procs, LoadNothing(p) \/ Invalid(p) \/ GiveUp(p)
      PROVE OwnCookies'
  BY <1>3 DEF LoadNothing, Invalid, GiveUp
<1>4. ASSUME NEW p \in Procs, Validated(p) PROVE OwnCookies'
  BY <1>4 DEF Validated, BeginSave, AfterStart
<1>5. ASSUME NEW p \in Procs, Login(p) PROVE OwnCookies'
  BY <1>5 DEF Login, BeginSave, AfterStart
<1>6. ASSUME NEW p \in Procs, Acquire(p) \/ AcquireFails(p) PROVE OwnCookies'
  BY <1>6 DEF Acquire, AcquireFails, SaveFailed
<1>7. ASSUME NEW p \in Procs, Check(p) \/ CheckFails(p) PROVE OwnCookies'
  BY <1>7 DEF Check, CheckFails, SaveFailed
<1>8. ASSUME NEW p \in Procs, Write(p) PROVE OwnCookies'
  BY <1>8 DEF Write, Replaced
<1>9. ASSUME NEW p \in Procs, WriteFails(p) PROVE OwnCookies'
  BY <1>9 DEF WriteFails, Replaced, SaveFailed
<1>10. ASSUME NEW p \in Procs, Refresh(p) PROVE OwnCookies'
  BY <1>10 DEF Refresh, Talking
<1>11. ASSUME NEW p \in Procs, Attach(p) PROVE OwnCookies'
  BY <1>11 DEF Attach
<1>12. ASSUME NEW p \in Procs, Tick(p) \/ Stop(p) PROVE OwnCookies'
  BY <1>12 DEF Tick, Stop, BeginSave, Expectation
<1>13. CASE UNCHANGED vars
  BY <1>13 DEF vars
<1> QED
  BY <1>1, <1>2, <1>3, <1>4, <1>5, <1>6, <1>7, <1>8, <1>9, <1>10, <1>11, <1>12,
     <1>13 DEF Next

-----------------------------------------------------------------------------
IInv ==
  /\ TypeInv /\ LockHeld /\ Issuance /\ LoginsAreNew /\ Expectations
  /\ OwnRevision /\ JarOrder /\ OwnCookies
  /\ OldLoginStaysReplaced
  /\ SavedOnExit

(* A save that replaces another identity is a new login's, which was never  *)
(* replaced; a conditional one finds its own identity on disk.              *)
LEMMA ReplacedStep ==
  ASSUME TypeInv, Expectations, LoginsAreNew, OldLoginStaysReplaced, [Next]_vars
  PROVE  OldLoginStaysReplaced'
<1> USE SessionAssumption
    DEF TypeInv, TypeOK, OldLoginStaysReplaced, Procs, Cookies, Times, memory,
        history
<1>1. ASSUME NEW p \in Procs, pc[p] = "write", Replaced(p)
      PROVE OldLoginStaysReplaced'
  <2>1. CASE Conditional(p)
    BY <1>1, <2>1 DEF Replaced, Expectations, Current, Saves
  <2>2. CASE ~Conditional(p)
    BY <1>1, <2>2 DEF Replaced, LoginsAreNew, NewLogin, Saves
  <2> QED
    BY <2>1, <2>2
<1>2. CASE UNCHANGED <<file, replaced>>
  BY <1>2
<1>3. \/ UNCHANGED <<file, replaced>>
      \/ \E p \in Procs : pc[p] = "write" /\ Replaced(p)
  BY DEF Next, vars, Launch, Load, LoadNothing, Validated, Invalid, GiveUp,
         Login,
         Acquire, AcquireFails, Check, CheckFails, Write, WriteFails, Refresh,
         Attach, Tick, Stop, Crash, Forgets
<1> QED
  BY <1>1, <1>2, <1>3

(* The invariant holds before any process has started. *)
LEMMA InitInv == Init => IInv
BY SessionAssumption
   DEF Init, IInv, TypeInv, TypeOK, LockHeld, Issuance, LoginsAreNew, NewLogin,
       Expectations, OwnRevision, Own, JarOrder, OwnCookies, OldLoginStaysReplaced,
       SavedOnExit, Procs, Cookies, Times, Saves

(* Every step keeps the invariant. *)
LEMMA InvStep == IInv /\ [Next]_vars => IInv'
<1> SUFFICES ASSUME IInv, [Next]_vars PROVE IInv'
  OBVIOUS
<1>1. TypeInv' /\ LockHeld' /\ Issuance' /\ LoginsAreNew'
  BY TypeStep, LockHeldStep, IssuanceStep, LoginsAreNewStep DEF IInv
<1>2. Expectations' /\ OwnRevision' /\ JarOrder' /\ OwnCookies'
  BY ExpectationsStep, OwnRevisionStep, JarOrderStep, OwnCookiesStep DEF IInv
<1>3. OldLoginStaysReplaced'
  BY ReplacedStep DEF IInv
<1>4. SavedOnExit'
  BY <1>2 DEF OwnCookies, Own, SavedOnExit
<1> QED
  BY <1>1, <1>2, <1>3, <1>4 DEF IInv

(* At every moment of every process: what it has loaded, is about to save   *)
(* and has saved last, and how that relates to the file on disk.            *)
THEOREM InvariantHolds == Spec => []IInv
BY InitInv, InvStep, PTL DEF Spec

(* A login that another one replaced on disk never comes back: whatever     *)
(* processes save, and however late.                                        *)
THEOREM OldLoginsStayReplaced == Spec => []OldLoginStaysReplaced
<1>1. IInv => OldLoginStaysReplaced
  BY DEF IInv
<1> QED
  BY <1>1, InvariantHolds, PTL

(* A server whose last save succeeded leaves its newest cookies behind,     *)
(* unless another process saved since, or they came during EnableRecovery.  *)
THEOREM NewestCookiesSaved == Spec => []SavedOnExit
<1>1. IInv => SavedOnExit
  BY DEF IInv
<1> QED
  BY <1>1, InvariantHolds, PTL

(* The three steps of Store.save are a compare-and-swap: nobody writes      *)
(* between the check and the write.                                         *)
THEOREM SavesAreConditional == Spec => ConditionalSave
<1>1. ASSUME IInv, [Next]_vars, NEW p \in Procs, Saving(p), expected[p] # Anything
      PROVE  Current(p)
  BY <1>1 DEF IInv, Expectations, Conditional, Saving
<1>2. IInv /\ [Next]_vars =>
        [\A p \in Procs : Saving(p) /\ expected[p] # Anything => Current(p)]_vars
  BY <1>1
<1> QED
  BY <1>2, InvariantHolds, PTL DEF Spec, ConditionalSave

(* ErrSessionChanged is reported only of a file that another process wrote, *)
(* except by a process one of whose saves failed behind its rename.         *)
THEOREM ReportsAreTrue == Spec => ChangedByAnother
<1>1. ASSUME IInv, NEW p \in Procs, CheckFails(p), "sync" \notin lapses[p]
      PROVE  file # NoFile /\ file.by # p
  BY <1>1
     DEF IInv, CheckFails, OwnRevision, Own, Expectations, Conditional, Saves
<1>2. IInv /\ [Next]_vars =>
        [\A p \in Procs : CheckFails(p) /\ "sync" \notin lapses[p] =>
           file # NoFile /\ file.by # p]_vars
  BY <1>1
<1> QED
  BY <1>2, InvariantHolds, PTL DEF Spec, ChangedByAnother
===============================================================================
