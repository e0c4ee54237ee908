------------------------------ MODULE MCAgentTeam ------------------------------
(***************************************************************************)
(* An instance of AgentTeam: a source, its test, another source of the     *)
(* same base and a test that is one for its directory only; and a          *)
(* statement of the repository that its behaviours contradict.             *)
(***************************************************************************)
EXTENDS AgentTeam

FileOrder == <<[base |-> "a", kind |-> "source"], [base |-> "a", kind |-> "suffixed"],
               [base |-> "b", kind |-> "folder"], [base |-> "b", kind |-> "source"]>>

MCFiles == {FileOrder[k] : k \in 1 .. Len(FileOrder)}

MCScaffolds == {FileOrder[2]}

\* delete:, impl:, noop and test: are the ids' prefixes, in their order.
MCNodeRank ==
    [n \in NodeIds |->
       IF n.kind = "noop" THEN 20
       ELSE (CASE n.kind = "delete" -> 0 [] n.kind = "impl" -> 10 [] n.kind = "test" -> 30)
            + CHOOSE k \in 1 .. Len(FileOrder) : FileOrder[k] = n.file]

-----------------------------------------------------------------------------
\* Violated: what a line of the repository says of the program.

\* The Test Writer produces the test scaffolds first, as CodingWorkflow.ts says
\* where it calls it: an implementor is put on a source only after the Test Writer
\* worked on every test planned for that base name, or the TDD gate left it.
TestsFirst ==
    \A k \in 1 .. Len(ran) : ran[k].kind = "impl" =>
      \A f \in PlannedTests(plan) : f.base = ran[k].file.base =>
        \/ RanBefore([kind |-> "test", file |-> f], k)
        \/ \E j \in 1 .. Len(diffs) : diffs[j] = [file |-> f, by |-> "tdd_gate"]
=============================================================================
