---------------------------- MODULE AtomicStore ----------------------------
(***************************************************************************)
(* What the gateway promises about file replacement: the remote tree, as a *)
(* gateway request sees it, is a map from paths to values, one mutation is *)
(* in progress at a time, and a mutation takes effect in ONE step or not   *)
(* at all.  EVS itself has no atomic replace (docs/safety.md, "EVS does    *)
(* not provide a demonstrated atomic replacement operation"); ReplaceTx is *)
(* the protocol that is shown to implement this specification.             *)
(*                                                                         *)
(* A crash forgets the operation in progress, whether or not it had taken  *)
(* effect.  A reply that reports success or a clean failure is exact; an   *)
(* "uncertain" reply promises only that the effect is all or nothing.      *)
(***************************************************************************)
CONSTANTS Paths, Contents, Absent, Dir, Ops, NoOp

VARIABLES store, op, old, reply

vars == <<store, op, old, reply>>

Values == Contents \cup {Absent, Dir}

(* The value of the tree after operation o on tree s. *)
Effect(o, s) ==
  CASE o.kind = "upload" -> [s EXCEPT ![o.dest] = o.data]
    [] o.kind \in {"move", "rename"} ->
         [s EXCEPT ![o.dest] = s[o.source], ![o.source] = Absent]
    [] o.kind = "mkdir"  -> [s EXCEPT ![o.dest] = Dir]
    [] o.kind = "delete" -> [s EXCEPT ![o.dest] = Absent]

Init ==
  /\ store \in [Paths -> Values]
  /\ op = NoOp
  /\ old = store
  /\ reply = "none"

Begin(o) ==
  /\ op = NoOp
  /\ op' = o
  /\ old' = store
  /\ reply' = "none"
  /\ UNCHANGED store

Apply ==
  /\ op # NoOp
  /\ store = old
  /\ store' = Effect(op, old)
  /\ UNCHANGED <<op, old, reply>>

Return(result) ==
  /\ op # NoOp
  /\ result = "ok" => store = Effect(op, old)
  /\ result \in {"failed", "refused"} => store = old
  /\ op' = NoOp
  /\ old' = store
  /\ reply' = result
  /\ UNCHANGED store

Crash ==
  /\ op' = NoOp
  /\ old' = store
  /\ reply' = "none"
  /\ UNCHANGED store

Next ==
  \/ \E o \in Ops : Begin(o)
  \/ Apply
  \/ \E result \in {"ok", "failed", "refused", "uncertain"} : Return(result)
  \/ Crash

Spec == Init /\ [][Next]_vars
=============================================================================
