---------------------------- MODULE MCFileRequests ----------------------------
(* FileRequests for TLC.  What the other process does touches nothing that  *)
(* a request touches before its retention, and is left out until then.      *)
EXTENDS FileRequests

Retention == {"retain", "create", "copy", "describe", "unstage"}

(* Bound: the two processes meet in the retention of this one; the other may *)
(* go on after it, and is over and evicted when the next request begins.    *)
OthersOnlyMeet ==
  pc \notin Retention \cup {"idle"} =>
    foreign = Absent /\ ~overlap /\ ~\E f \in recovery : f.content.body \in Others
OthersBegin == foreign = Absent /\ foreign' # Absent => pc \in Retention

(* Bound: the file that was there before is empty or as long as a body may be. *)
OldSizes == remote # Absent /\ remote.body = Old => remote.size \in {0, Limit}

(* Bound: one body left in the temporary directory at a time. *)
OneStray == Cardinality(strays) <= 1
===============================================================================
