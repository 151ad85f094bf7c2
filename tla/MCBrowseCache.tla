---------------------------- MODULE MCBrowseCache ----------------------------
(* BrowseCache for TLC: directories and readers are interchangeable.        *)
EXTENDS BrowseCache, TLC

Interchangeable == Permutations(Dirs) \cup Permutations(Readers)
=============================================================================
