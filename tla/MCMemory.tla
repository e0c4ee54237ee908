-------------------------------- MODULE MCMemory --------------------------------
(***************************************************************************)
(* Small instances of Memory: the sessions are interchangeable.            *)
(***************************************************************************)
EXTENDS Memory, TLC

Symmetry == Permutations(Sessions)
=============================================================================
