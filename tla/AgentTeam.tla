------------------------------- MODULE AgentTeam -------------------------------
(***************************************************************************)
(* The agent team's first pass over an implementation plan: the plan is    *)
(* turned into a task graph (planning/graph.ts), the graph into lanes      *)
(* (TopologicalSort), and CodingWorkflow.ts then runs the Test Writer or   *)
(* the Implementor on one node after the other, checking the files         *)
(* written so far after each lane.  CodingWorkflow sees all of this as its *)
(* action Team, once per node.                                             *)
(*                                                                         *)
(* A file is its base name, which is what a test is matched to its source  *)
(* by, and its kind: "suffixed" is a .test or .spec file, "folder" a file  *)
(* that is a test only for the directory it is in, "source" neither.       *)
(***************************************************************************)
EXTENDS Naturals, Sequences, FiniteSets

CONSTANTS Files,     \* the files a plan or an agent can name: [base, kind]
          NodeRank,  \* the order of the ids of nodes in sort()
          Scaffolds, \* the test files the TDD gate can have left in the proposal
          ContinuousVerification, \* agentTeam.continuousVerification
          MaxListed  \* bound on the files listed in a plan

ASSUME ScaffoldsAssumption == Scaffolds \subseteq Files

VARIABLES plan,     \* state.implementationPlan
          pc,       \* "Sort", "Node", "Verify", and the ends
          lane,     \* the lane being worked through
          position, \* the place in the order of the node worked on
          diffs,    \* diffProposal.diffs: [file, by]
          notes,    \* the notes continuous verification added to the scratchpad
          checked,  \* how many of the diffs the last check found sound
          ran,      \* the nodes run so far, in order
          graph, stack, visited, order, cycle, depth   \* of TopologicalSort

team == <<plan, pc, lane, position, diffs, notes, checked, ran>>
sort == <<graph, stack, visited, order, cycle, depth>>
vars == <<team, sort>>

NodeIds == [kind : {"delete", "impl", "test"}, file : Files] \cup {[kind |-> "noop"]}

ASSUME NodeRankAssumption ==
    /\ NodeRank \in [NodeIds -> Nat]
    /\ \A m, n \in NodeIds : NodeRank[m] = NodeRank[n] => m = n

Sort == INSTANCE TopologicalSort WITH Ids <- NodeIds, Rank <- NodeRank

-----------------------------------------------------------------------------
\* From the plan to the graph.

\* The lists of a plan are used as sets, but for the deletions, where a file
\* listed twice counts.
Deletions == UNION {[1 .. n -> Files] : n \in 0 .. 2}

Plan == [create : SUBSET Files, modify : SUBSET Files, tests : SUBSET Files,
         delete : Deletions]

\* The pattern of the Test Writer's filter and of the merged proposal.
IsTestFile(f) == f.kind # "source"

\* The graph's own idea of a test file.
IsPlannedTest(p, f) == f.kind = "suffixed" \/ f \in p.tests

Sources(p) == {f \in p.create \cup p.modify : ~IsPlannedTest(p, f)}

\* Mutant of PlannedTests: only the list of test files is looked at.
ListedTests(p) == p.tests

PlannedTests(p) == {f \in p.create \cup p.tests : IsPlannedTest(p, f)}

Nodes(p) ==
    LET nodes == [kind : {"delete"}, file : {p.delete[k] : k \in 1 .. Len(p.delete)}] \cup
                 [kind : {"impl"}, file : Sources(p)] \cup
                 [kind : {"test"}, file : PlannedTests(p)]
    IN  IF nodes = {} THEN {[kind |-> "noop"]} ELSE nodes

\* The source a test's base name is matched to: of several with that base the
\* last listed, modified files coming after created ones.
Matches(p, f) ==
    LET same == {s \in Sources(p) : s.base = f.base}
    IN  IF same \subseteq p.create THEN same ELSE same \ p.create

Dependencies(p, g) ==
    \A n \in DOMAIN g :
       IF n.kind = "test" /\ Matches(p, n.file) # {}
         THEN \E s \in Matches(p, n.file) : g[n] = {[kind |-> "impl", file |-> s]}
         ELSE g[n] = {}

\* fromImplementationPlan: a test depends on at most one node, an implementation.
TaskGraphs(p) ==
    {g \in [Nodes(p) -> {{}} \cup {{[kind |-> "impl", file |-> f]} : f \in Sources(p)}] :
        Dependencies(p, g)}

\* Mutant of DuplicateId: a file is compared with itself.
AnyDeletion(p) == \E j, k \in 1 .. Len(p.delete) : p.delete[j] = p.delete[k]

\* A file to delete that is listed twice gives two nodes with one id.
DuplicateId(p) == \E j, k \in 1 .. Len(p.delete) : j # k /\ p.delete[j] = p.delete[k]

\* The constructor throws in workflow code, which Temporal retries for ever:
\* the session neither goes on nor fails.
Init == /\ \E create, modify, tests \in SUBSET Files, delete \in Deletions :
              /\ Cardinality(create) + Cardinality(modify) + Cardinality(tests) + Len(delete)
                    <= MaxListed
              /\ plan = [create |-> create, modify |-> modify, tests |-> tests, delete |-> delete]
        /\ \E g \in TaskGraphs(plan) : Sort!Build(g)
        /\ pc = IF DuplicateId(plan) THEN "Stuck" ELSE "Sort"
        /\ lane = 0
        /\ position = 0
        /\ diffs \in {<< >>} \cup {<<[file |-> f, by |-> "tdd_gate"]>> : f \in Scaffolds}
        /\ notes = << >>
        /\ checked = 0
        /\ ran = << >>

-----------------------------------------------------------------------------
\* The nodes of a lane, one after the other.

\* A lane, as the places its nodes have in the order, which is how it is filled.
Lane(l) == {k \in 1 .. Len(order) : depth[order[k]] = l}

\* The first of some places is the next to be worked on.
GoTo(places) == \E k \in places : (\A j \in places : k <= j) /\ position' = k

\* The constructor searches the graph and the workflow asks for its lanes.
SortNodes == /\ pc = "Sort"
             /\ \/ /\ ~Sort!Finished
                   /\ Sort!Step
                   /\ UNCHANGED <<pc, position>>
                \/ /\ Sort!Finished /\ cycle = << >>
                   /\ pc' = "Node" /\ GoTo(Lane(0))
                   /\ UNCHANGED sort
                \/ /\ Sort!Finished /\ cycle # << >>
                   /\ pc' = "Stuck"
                   /\ UNCHANGED <<position, sort>>
             /\ UNCHANGED <<plan, lane, diffs, notes, checked, ran>>

\* Mutant of NextLane: there is always another one.
NextLaneAlways == lane' = lane + 1 /\ position' = 1 /\ pc' = "Node"

\* After the last lane the correction loop begins, with its preflight.
NextLane == IF Lane(lane + 1) # {}
            THEN lane' = lane + 1 /\ GoTo(Lane(lane + 1)) /\ pc' = "Node"
            ELSE pc' = "Done" /\ UNCHANGED <<lane, position>>

\* A node is done: the next one, or the check that ends the lane.
NextNode == LET rest == {k \in Lane(lane) : k > position}
            IN  IF rest # {}
                THEN GoTo(rest) /\ UNCHANGED <<pc, lane>>
                ELSE IF ContinuousVerification
                THEN pc' = "Verify" /\ UNCHANGED <<lane, position>>
                ELSE NextLane

\* What an agent may have written: nothing readable, or some file, whatever it
\* was asked for.
Outputs == {{}} \cup {{f} : f \in Files}

\* Mutant of Kept: the Test Writer's answer is taken as it is.
KeptAll(files) == files

\* enforceTestFileRole: what is no test file is dropped.
Kept(files) == {f \in files : IsTestFile(f)}

\* The files are appended to the proposal; those it had stay, the same file
\* included.
Merge(files, by) ==
    diffs' = IF files = {} THEN diffs
             ELSE Append(diffs, [file |-> CHOOSE f \in files : TRUE, by |-> by])

RunNode(node, Merged) == /\ pc = "Node"
                         /\ node = order[position]
                         /\ Merged
                         /\ ran' = Append(ran, node)
                         /\ NextNode
                         /\ UNCHANGED <<plan, notes, checked, sort>>

TestWriter == \E node \in DOMAIN graph, files \in Outputs :
                 /\ node.kind = "test"
                 /\ RunNode(node, Merge(Kept(files), "test_writer"))

Implementor == \E node \in DOMAIN graph, files \in Outputs :
                  /\ node.kind # "test"
                  /\ RunNode(node, Merge(files, "implementor"))

\* Mutant of Inspected: the loop ends before the last file.
InspectedButLast == IF diffs = << >> THEN 0 ELSE Len(diffs) - 1

\* The files a check looks at.
Inspected == Len(diffs)

\* All files of the proposal are checked from the first on, up to one that does
\* not pass, which is noted; either way the next lane begins.
Verify == /\ pc = "Verify"
          /\ \E n \in 0 .. Inspected :
                /\ checked' = n
                /\ notes' = IF n = Inspected THEN notes ELSE Append(notes, diffs[n + 1].file)
          /\ NextLane
          /\ UNCHANGED <<plan, diffs, ran, sort>>

\* An agent call or a check that keeps failing, or the budget spent: the
\* workflow fails.
Fail == /\ pc \in {"Node", "Verify"}
        /\ pc' = "Thrown"
        /\ UNCHANGED <<plan, lane, position, diffs, notes, checked, ran, sort>>

Ends == {"Done", "Thrown", "Stuck"}

Work == SortNodes \/ TestWriter \/ Implementor \/ Verify

Next == Work \/ Fail \/ (pc \in Ends /\ UNCHANGED vars)

Spec == Init /\ [][Next]_vars

\* Activities have time limits: the team gets on, or fails.
FairSpec == Spec /\ WF_vars(Work)

-----------------------------------------------------------------------------
\* Properties.

TypeOK == /\ plan \in Plan
          /\ pc \in {"Sort", "Node", "Verify"} \cup Ends
          /\ lane \in Nat /\ position \in Nat
          /\ pc = "Node" => position \in Lane(lane)
          /\ diffs \in Seq([file : Files, by : {"tdd_gate", "test_writer", "implementor"}])
          /\ notes \in Seq(Files)
          /\ checked \in 0 .. Len(diffs)
          /\ ran \in Seq(DOMAIN graph)

RanBefore(node, k) == \E j \in 1 .. k - 1 : ran[j] = node

\* A test is worked on after every planned source with its base name, also after
\* those the test node does not depend on: never test-driven, whatever the plan
\* (MCAgentTeam states what CodingWorkflow.ts says instead).
SourcesBeforeTests ==
    \A k \in 1 .. Len(ran) : ran[k].kind = "test" =>
      \A f \in Sources(plan) : f.base = ran[k].file.base =>
        RanBefore([kind |-> "impl", file |-> f], k)

\* A first pass that is done has worked on every file to create, on every test
\* and every deletion, and on every file to modify that is no test, once each
\* and in one role.
EveryFileWorked ==
    pc = "Done" =>
      LET Worked(f, kinds) == Cardinality({k \in 1 .. Len(ran) :
                                ran[k].kind \in kinds /\ ran[k].file = f}) = 1
      IN  /\ \A f \in plan.create \cup plan.tests : Worked(f, {"impl", "test"})
          /\ \A f \in plan.modify : IsTestFile(f) \/ Worked(f, {"impl", "test"})
          /\ \A k \in 1 .. Len(plan.delete) : Worked(plan.delete[k], {"delete"})

\* Nothing the Test Writer puts in the proposal is an implementation file,
\* whatever node it was given and whatever it answered.
TestWriterRole ==
    \A k \in 1 .. Len(diffs) : diffs[k].by = "test_writer" => IsTestFile(diffs[k].file)

\* A pass whose checks left no note has had every file of the proposal checked,
\* those of the last lane included.
CleanMeansChecked ==
    pc = "Done" /\ ContinuousVerification /\ notes = << >> => checked = Len(diffs)

\* The first pass ends for every plan that does not list a file to delete twice;
\* for those that do, nothing ever ends it.
TeamEnds ==
    (\A j, k \in 1 .. Len(plan.delete) : plan.delete[j] = plan.delete[k] => j = k)
      ~> pc \in {"Done", "Thrown"}

\* A pass that is stuck is still at work, for whoever waits for it.
Phase == CASE pc = "Done"   -> "done"
           [] pc = "Thrown" -> "failed"
           [] OTHER         -> "working"

Abstract == INSTANCE GraphPass WITH phase <- Phase

\* The lanes are a pass over the graph as GraphPass specifies it: although the next
\* node is found by its lane and its place in the order, never by what it depends
\* on, each is worked on once, after its dependencies, and none is left out.
ImplementsPass == Abstract!Spec
=============================================================================
