---------------------------- MODULE CodingWorkflow ----------------------------
(***************************************************************************)
(* One coding session: the CodingWorkflow of workflows/CodingWorkflow.ts   *)
(* with the activities it calls.  pc names the activity the workflow waits *)
(* for (or "Wait", the human-in-the-loop condition), so every action is    *)
(* one activity returning, with the code the workflow runs from there to   *)
(* its next await.  Between two actions the operator may signal: Decide    *)
(* and Abort are the two signal handlers.                                  *)
(*                                                                         *)
(* state holds the fields of WorkflowState the control depends on; i,      *)
(* count, teamPass, human and aborted are the workflow's local variables.  *)
(***************************************************************************)
EXTENDS Verification, Transitions, FiniteSets

CONSTANTS Strategies,          \* the ids a strategy candidate can have
          MaxParallelBranches, \* maxParallelBranches
          CallCosts,           \* what one agent call can cost
          MaxCallCost,         \* an upper bound of CallCosts
          TriggerAfterCycles,  \* testValidity.triggerAfterCycles
          TestValidityEnabled, \* testValidity.enabled
          GitCheckpointEnabled,\* gitCheckpoint.enabled
          AgentTeamEnabled,    \* agentTeam.enabled
          SkipTddGate,         \* skipTddGate
          Greenfield,          \* the mode of the task
          MaxNodes,            \* bound on the nodes of a plan's task graph
          MaxSignals           \* bound on the decisions the operator sends

ASSUME MaxParallelAssumption == MaxParallelBranches \in Nat \ {0}
ASSUME CallCostsAssumption ==
    MaxCallCost \in Nat /\ CallCosts \subseteq 0 .. MaxCallCost
ASSUME TriggerAssumption == TriggerAfterCycles \in Nat
ASSUME FlagsAssumption ==
    {TestValidityEnabled, GitCheckpointEnabled, AgentTeamEnabled, SkipTddGate, Greenfield}
      \subseteq BOOLEAN
ASSUME BoundsAssumption == MaxNodes \in Nat /\ MaxSignals \in Nat

VARIABLES pc,       \* the await the workflow is at
          state,    \* WorkflowState
          i,        \* the cycle, loop variable of the correction loop
          count,    \* consecutiveStagnationCount
          teamPass, \* agentTeamDidFirstPass
          nodes,    \* task graph nodes the agent team has left, 0 without a plan
          reason,   \* why a human is asked
          human,    \* the last decision signalled and not used yet
          aborted,  \* an abort was signalled
          history   \* what the properties remember of the past

vars == <<pc, state, i, count, teamPass, nodes, reason, human, aborted, history>>

SetupReasons == {"baseline_tests_failing", "high_ambiguity_before_start"}
Reasons == SetupReasons \cup {"test_fault_needs_human_approval"} \cup LoopReasons \cup {"none"}

SetupPoints == {"Bootstrap", "Scout", "Briefing", "Baseline", "Feasibility", "ValueNode",
                "Plan", "TddGate", "SandboxValidation", "Team"}
StagePoints == {"TypeCheck", "Tests", "Api", "Mutation", "Visual"}
CyclePoints == {"Actor", "Preflight", "Critics"} \cup StagePoints \cup
               {"Flakiness", "TestValidity", "GitCheckpoint", "Stagnation",
                "Debugger", "Branches", "Replan"}
HumanPoints == {"Ask", "Wait"}
\* Points the workflow never leaves.  Stuck: the workflow's own code threw a
\* plain error, and the server starts the same task again for ever.
Terminal == {"Done", "Thrown", "Stuck"}
Points == SetupPoints \cup CyclePoints \cup HumanPoints \cup {"Memory"} \cup Terminal

Phases == {"BOOTSTRAP", "SCOUT", "VALUE_NODE", "TDD_GATE", "SANDBOX_VALIDATION", "ACTOR",
           "PREFLIGHT", "CRITICS", "VERIFIER", "TEST_VALIDITY_REVIEW", "HITL_ESCALATION",
           "COMPLETE", "FAILED"}

Decisions == {"approve", "reject"}   \* override is an approval with guidance

WorkflowState ==
    [phase       : Phases,               \* currentPhase
     attempt     : Nat,                  \* correctionCycle.attemptCount
     errors      : Seq(Errors \cup {NoFailures}),   \* correctionCycle.errorHistory
     stagnation  : Patterns,             \* correctionCycle.stagnationPattern
     cost        : Nat,                  \* cumulativeCostUsd
     diff        : BOOLEAN,              \* diffProposal # null
     verdict     : Verdict,              \* verifierVerdict
     criticals   : Nat,                  \* critical entries of criticFindings
     candidates  : SUBSET Strategies,    \* strategyCandidates
     exhausted   : SUBSET Strategies,    \* exhaustedBranches
     checkpoint  : BOOLEAN,              \* gitCheckpoint.commitHash # null
     lesson      : BOOLEAN]              \* lessonLearned # null

(***************************************************************************)
(* signals counts the decisions sent, resumes those that let the session   *)
(* go on; answered is the cycle (from 1) of the last resume inside the     *)
(* loop; refused tells that an escalation was turned down; launches counts *)
(* the batches of branches each strategy was part of.                      *)
(***************************************************************************)
History == [signals  : Nat,
            resumes  : Nat,
            answered : Nat,
            refused  : BOOLEAN,
            launches : [Strategies -> Nat]]

InitialState ==
    [phase |-> "BOOTSTRAP", attempt |-> 0, errors |-> << >>, stagnation |-> "none",
     cost |-> 0, diff |-> FALSE, verdict |-> NoVerdict, criticals |-> 0,
     candidates |-> {}, exhausted |-> {}, checkpoint |-> FALSE, lesson |-> FALSE]

Init == /\ pc = "Bootstrap"
        /\ state = InitialState
        /\ i = 0
        /\ count = 0
        /\ teamPass = FALSE
        /\ nodes = 0
        /\ reason = "none"
        /\ human = "none"
        /\ aborted = FALSE
        /\ history = [signals |-> 0, resumes |-> 0, answered |-> 0, refused |-> FALSE,
                      launches |-> [s \in Strategies |-> 0]]

-----------------------------------------------------------------------------
\* Control flow shared by the actions.

Untried(st) == st.candidates \ st.exhausted

\* Mutant of BudgetLeft: the agent is called whatever was spent.
NoGuard(st) == TRUE

\* The agent makes no call once the budget is spent: it throws instead.
BudgetLeft(st) == st.cost < Critical

\* An activity returns st and the workflow calls the next one.
Returns(from, st, to) == /\ pc = from
                         /\ pc' = to
                         /\ state' = st
                         /\ UNCHANGED <<i, count, teamPass, nodes, reason, human, aborted, history>>

\* Mutant of Leave: the phase is not looked at after the loop.
LeaveAlways(st) == /\ state' = st
                   /\ pc' = IF aborted THEN "Done" ELSE "Memory"

\* After the loop: only a session that did not fail is consolidated.
Leave(st) == /\ state' = st
             /\ pc' = IF st.phase # "FAILED" /\ ~aborted THEN "Memory" ELSE "Done"

\* Mutant of NextCycle: the loop head does not look at the abort flag.
NextCycleAborted(st) == /\ i' = i + 1
                        /\ IF i + 1 < MaxCycles
                             THEN state' = st /\ pc' = "Actor"
                             ELSE Leave(st)

\* Mutant of NextCycle: the loop bound is off by one.
NextCycleOnce(st) == /\ i' = i + 1
                     /\ IF i < MaxCycles /\ ~aborted
                          THEN state' = st /\ pc' = "Actor"
                          ELSE Leave(st)

\* `continue`, or the end of the loop body: the next cycle if there is one.
NextCycle(st) == /\ i' = i + 1
                 /\ IF i + 1 < MaxCycles /\ ~aborted
                      THEN state' = st /\ pc' = "Actor"
                      ELSE Leave(st)

\* The first cycle; the agent team's work stands in for its actor.
FirstCycle(st, team) == /\ teamPass' = team
                        /\ IF aborted THEN Leave(st)
                           ELSE state' = st /\ pc' = IF team THEN "Preflight" ELSE "Actor"

\* Setup is over: the agent team when there is a plan for it, or the loop.
\* Its task graph cannot be built from a plan that lists a file twice for
\* deletion; whether this one does is not kept.
Implement(st, planned) ==
    /\ nodes' = planned
    /\ IF AgentTeamEnabled /\ planned > 0
         THEN teamPass' = TRUE /\ state' = st /\ pc' \in {"Team", "Stuck"}
         ELSE FirstCycle(st, FALSE)
    /\ UNCHANGED <<i, count, reason, human, aborted, history>>

\* A human is asked, for the reason given.
AskHuman(why) == /\ pc' = "Ask"
                 /\ reason' = why

-----------------------------------------------------------------------------
\* Setup.

Bootstrap == Returns("Bootstrap", [state EXCEPT !.phase = "SCOUT"], "Scout")

Scout == \E c \in SUBSET Strategies :
            Returns("Scout", [state EXCEPT !.phase = "VALUE_NODE", !.candidates = c], "Briefing")

\* The knowledge-graph briefing only adds to the prompts' context.
Briefing == Returns("Briefing", state, "Baseline")

\* An activity that may find that a human is needed before the session goes on.
Gate(from, to, why) ==
    \E phase \in {"VALUE_NODE", "HITL_ESCALATION"} :
       /\ pc = from
       /\ state' = [state EXCEPT !.phase = phase]
       /\ IF phase = "HITL_ESCALATION" THEN AskHuman(why) ELSE pc' = to /\ UNCHANGED reason
       /\ UNCHANGED <<i, count, teamPass, nodes, human, aborted, history>>

Baseline == Gate("Baseline", "Feasibility", "baseline_tests_failing")

Feasibility == Gate("Feasibility", "ValueNode", "high_ambiguity_before_start")

ValueNode == Returns("ValueNode", [state EXCEPT !.phase = "TDD_GATE"], "Plan")

\* A plan has at least one task graph node; without a plan there is none.
Plan == /\ pc = "Plan"
        /\ \E n \in 0 .. MaxNodes :
              LET st == [state EXCEPT !.phase = "TDD_GATE"]
              IN  IF SkipTddGate THEN Implement(st, n)
                  ELSE /\ pc' = "TddGate"
                       /\ state' = st
                       /\ nodes' = n
                       /\ UNCHANGED <<i, count, teamPass, reason, human, aborted, history>>

\* On a greenfield task the test scaffolds become the first diff.
TddGate == Returns("TddGate",
                   [state EXCEPT !.phase = "SANDBOX_VALIDATION", !.diff = @ \/ Greenfield],
                   "SandboxValidation")

SandboxValidation == /\ pc = "SandboxValidation"
                     /\ Implement([state EXCEPT !.phase = "ACTOR"], nodes)

\* One node of the task graph: an agent call, refused when the budget is spent,
\* whose diffs are merged into the proposal.
Team == /\ pc = "Team"
        /\ BudgetLeft(state)
        /\ \E c \in CallCosts :
              LET st == [state EXCEPT !.cost = @ + c, !.diff = TRUE]
              IN  /\ nodes' = nodes - 1
                  /\ IF nodes > 1 THEN state' = st /\ pc' = "Team" /\ UNCHANGED teamPass
                     ELSE FirstCycle(st, TRUE)
        /\ UNCHANGED <<i, count, reason, human, aborted, history>>

-----------------------------------------------------------------------------
\* One correction cycle.

\* An answer without a readable diff leaves the proposal as it was.
Actor == /\ BudgetLeft(state)
         /\ \E c \in CallCosts, d \in {state.diff, TRUE} :
               Returns("Actor", [state EXCEPT !.phase = "PREFLIGHT", !.attempt = @ + 1,
                                              !.cost = @ + c, !.diff = d], "Preflight")

\* Lint findings, none of them critical, replace the critics' findings.
Preflight == Returns("Preflight",
                     [state EXCEPT !.phase = "CRITICS", !.criticals = IF state.diff THEN 0 ELSE @],
                     "Critics")

\* Mutant of AfterReview: the tree is committed whatever the verdict.
AlwaysCommit(st) == "GitCheckpoint"

AfterReview(st) == IF st.verdict.result = "PASS" THEN "GitCheckpoint" ELSE "Stagnation"

AfterVerifier(st) == IF st.verdict.result = "FAIL" /\ st.attempt >= 1
                     THEN "Flakiness" ELSE AfterReview(st)

Critics ==
    \E n \in CriticalCounts(state.diff, state.criticals) :
      \E v \in CriticsOutcomes(state.verdict, IF state.diff THEN n ELSE 0) :
        LET st == [state EXCEPT !.phase = "VERIFIER", !.criticals = n, !.verdict = v]
        IN  Returns("Critics", st, IF v.blocked THEN AfterVerifier(st) ELSE "TypeCheck")

VerifierStage(from, outcomes, to) ==
    \E v \in outcomes : Returns(from, [state EXCEPT !.verdict = v], to)

TypeCheck == VerifierStage("TypeCheck", TypeCheckOutcomes(state.verdict, state.diff), "Tests")
Tests     == VerifierStage("Tests", TestsOutcomes(state.verdict, state.diff), "Api")
Api       == VerifierStage("Api", ApiOutcomes(state.verdict, state.diff), "Mutation")
Mutation  == VerifierStage("Mutation", MutationOutcomes(state.verdict, state.diff), "Visual")
Visual    == \E v \in VisualOutcomes(state.verdict, state.diff) :
                LET st == [state EXCEPT !.verdict = v]
                IN  Returns("Visual", st, AfterVerifier(st))

\* A failing test file that passes on some rerun sends the session back to the
\* actor; only files named by the failures are rerun.
Flakiness ==
    /\ pc = "Flakiness"
    /\ \E flaky \in SUBSET state.verdict.files :
         LET st == [state EXCEPT !.phase = "TEST_VALIDITY_REVIEW"]
         IN  IF flaky # {} THEN NextCycle(st)
             ELSE /\ state' = st
                  /\ pc' = IF TestValidityEnabled /\ st.attempt >= TriggerAfterCycles
                           THEN "TestValidity" ELSE AfterReview(st)
                  /\ UNCHANGED i
    /\ UNCHANGED <<count, teamPass, nodes, reason, human, aborted, history>>

\* Are the tests wrong?  Not asked when no failure is listed.
TestValidity ==
    /\ pc = "TestValidity"
    /\ \E fault \in {FALSE, state.verdict.failures # NoFailures} :
         IF fault
         THEN /\ state' = [state EXCEPT !.phase = "HITL_ESCALATION"]
              /\ AskHuman("test_fault_needs_human_approval")
         ELSE /\ state' = [state EXCEPT !.phase = "ACTOR"]
              /\ pc' = AfterReview(state)
              /\ UNCHANGED reason
    /\ UNCHANGED <<i, count, teamPass, nodes, human, aborted, history>>

\* The checkpoints a git run can leave: none if git fails or no file changed.
Checkpoints(st) == IF GitCheckpointEnabled THEN {FALSE, st.diff} ELSE {st.checkpoint}

GitCheckpoint == \E k \in Checkpoints(state) :
                    Returns("GitCheckpoint", [state EXCEPT !.checkpoint = k], "Stagnation")

\* Stagnation check, confidence and transition: the end of a cycle's judgement.
Stagnation ==
    LET pattern == StagnationPattern(state.attempt, state.errors, state.verdict.failures)
        n       == ConsecutiveStagnation(count, pattern)
        st      == [state EXCEPT !.stagnation = pattern,
                                 !.errors = Remember(@, state.verdict.failures)]
        route   == VerifierTransition(st.verdict, st.attempt, pattern, st.criticals,
                                      st.cost, Untried(st) # {})
        \* the ladder decides what a stagnant cycle leads to
        next    == IF route.reason # "stagnation" THEN route.next
                   ELSE LadderAction(n)
        Goto(point) == state' = st /\ pc' = point /\ UNCHANGED <<i, reason>>
    IN  /\ pc = "Stagnation"
        /\ count' = n
        /\ CASE next = "MEMORY_CONSOLIDATION" -> Leave(st) /\ UNCHANGED <<i, reason>>
             [] next \in {"ACTOR", "enrich_prompt"} -> NextCycle(st) /\ UNCHANGED reason
             [] next \in {"INTELLIGENT_DEBUGGER", "auto_debug"} -> Goto("Debugger")
             [] next \in {"SPECULATIVE_BRANCH", "speculative_branch"} -> Goto("Branches")
             [] next = "REPLAN" -> Goto("Replan")
             [] OTHER -> AskHuman(route.reason) /\ state' = st /\ UNCHANGED i
        /\ UNCHANGED <<teamPass, nodes, human, aborted, history>>

\* The cost of the debugger's own agent calls is not added to the session's.
Debugger == /\ pc = "Debugger"
            /\ NextCycle([state EXCEPT !.phase = IF state.verdict.result = "FAIL"
                                                 THEN "ACTOR" ELSE @])
            /\ UNCHANGED <<count, teamPass, nodes, reason, human, aborted, history>>

\* New candidates replace the old ones; their ids may have been used before.
Replan == /\ pc = "Replan"
          /\ \E c \in SUBSET Strategies :
                NextCycle([state EXCEPT !.phase = "ACTOR", !.candidates = c])
          /\ UNCHANGED <<count, teamPass, nodes, reason, human, aborted, history>>

-----------------------------------------------------------------------------
\* Speculative branches, each a child workflow that tries one strategy.

\* Mutant of Batches: a strategy that already failed on a branch is not left out.
BatchesOfAll(st) ==
    {b \in SUBSET st.candidates :
        Cardinality(b) = IF Cardinality(st.candidates) < MaxParallelBranches
                         THEN Cardinality(st.candidates) ELSE MaxParallelBranches}

\* The strategies launched together: the first untried ones, in an order the
\* model does not keep, up to the limit; none when every candidate was tried.
Batches(st) ==
    {b \in SUBSET Untried(st) :
        Cardinality(b) = IF Cardinality(Untried(st)) < MaxParallelBranches
                         THEN Cardinality(Untried(st)) ELSE MaxParallelBranches}

\* A branch forks from the pruned state when there is a commit to fork from,
\* and inherits the parent's state, verdict included, when there is none.
BranchStart(st) ==
    IF st.checkpoint
    THEN [st EXCEPT !.attempt = 0, !.errors = << >>, !.stagnation = "none", !.criticals = 0,
                    !.diff = FALSE, !.verdict = NoVerdict]
    ELSE st

\* What a branch that starts in st returns as its winning state: one cycle of
\* actor, critics and stages that ended in PASS, and its checkpoint.
Won(st, cost, diff, verdict, checkpoint) ==
    [st EXCEPT !.phase = "VERIFIER", !.attempt = @ + 1, !.cost = @ + cost, !.diff = diff,
               !.criticals = IF diff THEN 0 ELSE @, !.verdict = verdict,
               !.checkpoint = checkpoint]

\* The first branch to win replaces the session's state; the costs of the other
\* branches are lost.
Winner(st) ==
    /\ BudgetLeft(st)
    /\ \E diff \in {st.diff, TRUE}, cost \in CallCosts :
         \E verdict \in StagesOutcomes(st.verdict, diff),
            checkpoint \in Checkpoints([st EXCEPT !.diff = diff]) :
           /\ verdict.result = "PASS"
           /\ Leave(Won(st, cost, diff, verdict, checkpoint))

\* A branch that fails, throws or is cancelled wins nothing.
Branches ==
    /\ pc = "Branches"
    /\ \E batch \in Batches(state), won \in BOOLEAN :
         /\ history' = [history EXCEPT !.launches =
                           [s \in Strategies |-> @[s] + (IF s \in batch THEN 1 ELSE 0)]]
         /\ IF won
            THEN batch # {} /\ Winner(BranchStart(state)) /\ count' = 0 /\ UNCHANGED i
            ELSE /\ NextCycle([state EXCEPT !.phase = "HITL_ESCALATION",
                                            !.exhausted = @ \cup batch])
                 /\ UNCHANGED count
    /\ UNCHANGED <<teamPass, nodes, reason, human, aborted>>

-----------------------------------------------------------------------------
\* The human in the loop.

\* The escalation is written out; the workflow then waits for a decision.
Ask == Returns("Ask", [state EXCEPT !.phase = "HITL_ESCALATION"], "Wait")

InSetup == reason \in SetupReasons

\* Mutant of TurnDown: a refused escalation does not fail the session.
TurnDownSoftly == /\ Leave(state)
                  /\ history' = [history EXCEPT !.refused = TRUE]

\* No decision, an abort or a rejection ends the session.  A refused baseline
\* leaves the phase as it is, every other refusal is a failure.
TurnDown == /\ history' = [history EXCEPT !.refused = TRUE]
            /\ IF reason = "baseline_tests_failing" THEN pc' = "Done" /\ UNCHANGED state
               ELSE IF InSetup THEN pc' = "Done" /\ state' = [state EXCEPT !.phase = "FAILED"]
               ELSE Leave([state EXCEPT !.phase = "FAILED"])

Refused == /\ pc = "Wait"
           /\ aborted \/ human = "reject"
           /\ TurnDown
           /\ UNCHANGED <<i, count, teamPass, nodes, reason, human, aborted>>

\* Mutant of WaitTimeout: the wait has no end.
WaitForever == FALSE /\ UNCHANGED vars

WaitTimeout == /\ pc = "Wait"
               /\ human = "none" /\ ~aborted
               /\ TurnDown
               /\ UNCHANGED <<i, count, teamPass, nodes, reason, human, aborted>>

\* Less than 15% of the budget is left.
BudgetTooLow == 100 * (Critical - state.cost) < 15 * Critical

\* Mutant of UseDecision: the decision stays in the mailbox.
KeepDecision == UNCHANGED human

UseDecision == human' = "none"

\* The session goes on; in the loop, except for a suspected test fault, only
\* with enough of the budget left.
Approved ==
    /\ pc = "Wait"
    /\ human = "approve" /\ ~aborted
    /\ IF reason \in LoopReasons /\ BudgetTooLow
       THEN /\ Leave([state EXCEPT !.phase = "FAILED"])
            /\ history' = [history EXCEPT !.refused = TRUE]
            /\ UNCHANGED <<i, human>>
       ELSE /\ UseDecision
            /\ history' = [history EXCEPT !.resumes = @ + 1,
                                          !.answered = IF InSetup THEN @ ELSE i + 1]
            /\ CASE reason = "baseline_tests_failing" ->
                      pc' = "Feasibility" /\ UNCHANGED <<state, i>>
                 [] reason = "high_ambiguity_before_start" ->
                      /\ pc' = "ValueNode"
                      /\ state' = [state EXCEPT !.phase = "VALUE_NODE"]
                      /\ UNCHANGED i
                 [] OTHER -> NextCycle([state EXCEPT !.phase = "ACTOR"])
    /\ UNCHANGED <<count, teamPass, nodes, reason, aborted>>

-----------------------------------------------------------------------------
\* The end of the session, the operator's signals, and the specification.

Memory == Returns("Memory", [state EXCEPT !.phase = "COMPLETE", !.lesson = TRUE], "Done")

\* An activity that keeps failing after its retries fails the workflow.
ActivityFails == /\ pc \notin Terminal \cup {"Wait", "Branches"}
                 /\ pc' = "Thrown"
                 /\ UNCHANGED <<state, i, count, teamPass, nodes, reason, human, aborted, history>>

\* A workflow that is closed, or stuck, does nothing more: no later task of a
\* stuck one completes, so neither do its signals do anything.
Closed == pc \in Terminal /\ UNCHANGED vars

\* humanResume: the last decision wins.
Decide == /\ pc \notin Terminal
          /\ history.signals < MaxSignals
          /\ human' \in Decisions
          /\ history' = [history EXCEPT !.signals = @ + 1]
          /\ UNCHANGED <<pc, state, i, count, teamPass, nodes, reason, aborted>>

\* The points of the cancellable scope the correction loop runs in.
InScope == pc \in CyclePoints \/ (pc \in HumanPoints /\ ~InSetup)

\* humanAbort: in the loop the activity or the wait is cancelled and the
\* workflow returns, unless the wait sees the flag before the cancellation;
\* branches are waited for; elsewhere only the flag is set.
Abort == /\ pc \notin Terminal
         /\ ~aborted
         /\ aborted' = TRUE
         /\ IF InScope /\ pc # "Branches"
            THEN /\ pc' = "Done"
                 /\ state' \in {state} \cup
                      {[state EXCEPT !.phase = "FAILED"] : w \in {"Wait"} \cap {pc}}
            ELSE UNCHANGED <<pc, state>>
         /\ UNCHANGED <<i, count, teamPass, nodes, reason, human, history>>

Setup == \/ Bootstrap \/ Scout \/ Briefing \/ Baseline \/ Feasibility
         \/ ValueNode \/ Plan \/ TddGate \/ SandboxValidation \/ Team

Cycle == \/ Actor \/ Preflight \/ Critics
         \/ TypeCheck \/ Tests \/ Api \/ Mutation \/ Visual
         \/ Flakiness \/ TestValidity \/ GitCheckpoint \/ Stagnation
         \/ Debugger \/ Replan \/ Branches

Human == Ask \/ Refused \/ WaitTimeout \/ Approved

\* The steps of the workflow itself.
Step == Setup \/ Cycle \/ Human \/ Memory \/ ActivityFails

Next == Step \/ Decide \/ Abort \/ Closed

Spec == Init /\ [][Next]_vars

\* Activities and the wait have time limits, the workflow itself has none: it
\* gets on except where it is stuck.  No operator is obliged to signal.
FairSpec == Spec /\ WF_vars(Step)

-----------------------------------------------------------------------------
\* Properties.

\* Every variable keeps its type; in particular the cycle counter stays below
\* the loop bound until the loop is left, and the error history within its
\* length.
TypeOK ==
    /\ pc \in Points
    /\ state \in WorkflowState
    /\ Len(state.errors) <= HistoryLength
    /\ i \in 0 .. MaxCycles
    /\ pc \notin Terminal \cup {"Memory"} => i < MaxCycles
    /\ count \in Nat
    /\ teamPass \in BOOLEAN
    /\ nodes \in 0 .. MaxNodes
    /\ pc = "Team" => nodes > 0
    /\ reason \in Reasons
    /\ human \in Decisions \cup {"none"}
    /\ aborted \in BOOLEAN
    /\ history \in History

\* A session whose tests do not pass is closed as completed only when a human
\* was asked in its last cycle and let it go on; the loop never runs out of
\* cycles silently.  (Not so after an agent-team pass, which is not counted as
\* an attempt.)
UnresolvedReachesHuman ==
    pc = "Memory" /\ state.verdict.result # "PASS" /\ ~teamPass
      => history.answered = MaxCycles

\* No decision lets two escalations pass: the session never resumes more often
\* than the operator decided.
DecisionUsedOnce == history.resumes <= history.signals

\* A session whose escalation was rejected, timed out or came with too little
\* budget left has ended: it neither goes on nor stores a lesson.
RefusalIsFinal == history.refused => pc = "Done" /\ ~state.lesson

\* A PASS verdict never carries a critic's block (passVerdict copies the flag
\* of the verdict before it), and a commit exists only for a tree that passed.
CheckpointedTreePassed ==
    /\ state.verdict.result = "PASS" => ~state.verdict.blocked
    /\ state.checkpoint => state.verdict.result = "PASS"

\* The session's recorded cost exceeds the budget by less than one agent call.
SpendBounded == state.cost < Critical + MaxCallCost

\* With the budget spent the loop does not send the session back to the actor,
\* whose first call would throw; only the resume after a suspected test fault,
\* which has no budget check, does.
NoRetryOverBudget ==
    pc = "Actor" /\ state.cost >= Critical
      => reason = "test_fault_needs_human_approval"

\* No strategy is tried by two batches of branches, even when a replan brings
\* its id back.
StrategyLaunchedOnce == \A s \in Strategies : history.launches[s] <= 1

\* A human is asked about stagnation only when each of the last four cycles
\* ended in an error list seen in an earlier cycle (with a history as long as
\* the loop): one or two repetitions never reach a human.
StagnationAskedLate ==
    pc \in HumanPoints /\ reason = "stagnation" =>
      LET n == Len(state.errors)
      IN  /\ n > 4
          /\ \A k \in n - 3 .. n : \E j \in 1 .. k - 1 : state.errors[j] = state.errors[k]

\* No step turns a FAIL into another verdict: what the first failing stage said
\* stays, because no later cycle clears it before its own stages run.
FailIsFinal ==
    [][state.verdict.result = "FAIL" => state'.verdict.result = "FAIL"]_vars

\* Once the operator aborted, no activity of a correction cycle and no memory
\* consolidation is started.
AbortIsFinal ==
    [][aborted /\ pc' # pc => pc' \notin CyclePoints \cup {"Memory"}]_vars

\* Every session ends, whatever the activities answer and whether or not the
\* operator ever does, with one exception: an agent team whose plan cannot be
\* made a task graph leaves it stuck before any of its nodes was run.
Termination ==
    <>(\/ pc \in {"Done", "Thrown"}
       \/ /\ pc = "Stuck"
          /\ AgentTeamEnabled /\ nodes > 0
          /\ i = 0 /\ state.attempt = 0 /\ state.cost = 0)

\* What an operator sees of a session.  A refusal that leaves the phase alone is
\* a failure as well.
Status == CASE pc = "Thrown" -> "crashed"
            [] pc = "Stuck"  -> "stuck"
            [] pc = "Memory" -> "concluding"
            [] pc = "Wait"   -> "waiting"
            [] pc = "Done"   -> (IF state.lesson THEN "completed"
                                 ELSE IF history.refused \/ state.phase = "FAILED" THEN "failed"
                                 ELSE "cancelled")
            [] OTHER         -> "working"

Abstract == INSTANCE Session WITH status <- Status, mailbox <- human, stopped <- aborted

\* The workflow is a session as Session specifies it: whatever happens inside a
\* correction cycle, only an approval wakes a waiting session and is used up by
\* it, only a running session that was not stopped concludes, and one that has
\* ended stays as it ended.
ImplementsSession == Abstract!Spec
=============================================================================
