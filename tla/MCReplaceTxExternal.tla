------------------------- MODULE MCReplaceTxExternal -------------------------
(* ReplaceTxExternal for TLC: paths are interchangeable, and so are the     *)
(* contents that only the gateway writes.                                   *)
EXTENDS ReplaceTxExternal, TLC

Interchangeable == Permutations(Paths) \cup Permutations(Contents \ Writable)

(* raced stays true, and NoBytesLostUnlessRaced is then trivially true: the *)
(* states that follow need not be explored.                                 *)
NotRaced == ~raced
=============================================================================
