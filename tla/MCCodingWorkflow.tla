--------------------------- MODULE MCCodingWorkflow ---------------------------
(***************************************************************************)
(* Instances of CodingWorkflow for TLC, and a statement of the repository  *)
(* that its behaviours contradict.                                         *)
(***************************************************************************)
EXTENDS CodingWorkflow

MCErrors     == {"e1", "e2"}
MCStrategies == {"s1", "s2"}
MCCallCosts  == {1, 2}

-----------------------------------------------------------------------------
\* Violated: what a line of the repository says of the program.

\* The verdict a cycle's first stage skips for was set by a stage before it, as
\* the comment on alreadyFailed says; the workflow hands it the last cycle's.
FreshVerdict == pc = "TypeCheck" => state.verdict.result # "FAIL"
=============================================================================
