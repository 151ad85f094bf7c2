----------------------------- MODULE MCReplaceTx -----------------------------
(* ReplaceTx with model values, and the symmetries that are sound for its   *)
(* safety properties: contents, ids and paths are only compared for         *)
(* equality.                                                                *)
EXTENDS ReplaceTxInv, TLC

Interchangeable ==
  Permutations(Contents) \cup Permutations(Ids) \cup Permutations(Paths)
=============================================================================
