----------------------------- MODULE MCWorkingTree -----------------------------
(* The instance of WorkingTree that TLC checks: files are interchangeable. *)
EXTENDS WorkingTree, TLC

CONSTANTS f1, f2
MCFiles == {f1, f2}
MCSymmetry == Permutations(MCFiles)
=============================================================================
