------------------------- MODULE CodingWorkflowProofs -------------------------
(***************************************************************************)
(* Theorems about CodingWorkflow, for every value of its constants: the    *)
(* types, the safety properties that do not count the loop's rounds, those *)
(* that do, and the session contract, each from an inductive invariant     *)
(* that says where in the workflow a fact may hold.  Each invariant is     *)
(* proved in three parts: it holds initially, every action keeps it (one   *)
(* step of the proof per action), and PTL puts the two together.  An       *)
(* invariant proved earlier may be assumed on both ends of a step.         *)
(***************************************************************************)
EXTENDS CodingWorkflow, TLAPS

-----------------------------------------------------------------------------
\* What the verifier stages do to a verdict, one by one and in a row.

\* u is what a stage may make of the verdict v: a FAIL is handed on untouched, a
\* critic's block never ends up on a verdict that is not a FAIL, no failure names
\* its file, and there is a verdict.
Kept(v, u) ==
    /\ u \in Verdict
    /\ v.result = "FAIL" => u = v
    /\ (v.blocked => v.result = "FAIL") => (u.blocked => u.result = "FAIL")
    /\ v.files = {} => u.files = {}
    /\ u.result # "NONE"

LEMMA NoVerdictType == NoVerdict \in Verdict /\ ~NoVerdict.blocked /\ NoVerdict.files = {}
  BY DEF NoVerdict, Verdict, Diagnostics

LEMMA KeptChain ==
    ASSUME NEW u \in Verdict, NEW v \in Verdict, NEW w \in Verdict, Kept(u, v), Kept(v, w)
    PROVE  Kept(u, w)
  BY DEF Kept

LEMMA StageKeeps ==
    ASSUME NEW v \in Verdict, NEW diff \in BOOLEAN, NEW D \in SUBSET Diagnostics,
           NEW F \in SUBSET (Errors \cup {NoFailures}), NEW u \in Stage(v, diff, D, F)
    PROVE  Kept(v, u)
<1>1. CASE v.result = "FAIL" /\ u = v
  BY <1>1 DEF Kept
<1>2. CASE v.result # "FAIL" /\ u = PassVerdict(v)
  <2>1. PassVerdict(v) \in Verdict
    BY DEF PassVerdict, Verdict, Diagnostics
  <2> QED
    BY <1>2, <2>1 DEF PassVerdict, Kept
<1>3. CASE v.result # "FAIL" /\ \E d \in D, f \in F : u = FailVerdict(v, d, f)
  <2>1. PICK d \in Diagnostics, f \in Errors \cup {NoFailures} : u = FailVerdict(v, d, f)
    BY <1>3
  <2>2. FailVerdict(v, d, f) \in Verdict
    BY DEF FailVerdict, Verdict
  <2> QED
    BY <1>3, <2>1, <2>2 DEF FailVerdict, Kept
<1> QED
  BY <1>1, <1>2, <1>3 DEF Stage, AlreadyFailed

\* Each of the five stages hands a FAIL on untouched (alreadyFailed in stages.ts).
LEMMA OutcomesKeep ==
    ASSUME NEW v \in Verdict, NEW diff \in BOOLEAN
    PROVE  /\ \A u \in TypeCheckOutcomes(v, diff) : Kept(v, u)
           /\ \A u \in TestsOutcomes(v, diff) : Kept(v, u)
           /\ \A u \in ApiOutcomes(v, diff) : Kept(v, u)
           /\ \A u \in MutationOutcomes(v, diff) : Kept(v, u)
           /\ \A u \in VisualOutcomes(v, diff) : Kept(v, u)
  BY StageKeeps DEF TypeCheckOutcomes, TestsOutcomes, ApiOutcomes, MutationOutcomes,
                    VisualOutcomes, Diagnostics

\* So do the five in a row: a branch that starts from a failed state fails.
LEMMA StagesKeep ==
    ASSUME NEW v \in Verdict, NEW diff \in BOOLEAN, NEW u \in StagesOutcomes(v, diff)
    PROVE  Kept(v, u)
<1>1. PICK a \in TypeCheckOutcomes(v, diff) :
        \E b \in TestsOutcomes(a, diff) : \E c \in ApiOutcomes(b, diff) :
        \E d \in MutationOutcomes(c, diff) : u \in VisualOutcomes(d, diff)
  BY DEF StagesOutcomes
<1>2. PICK b \in TestsOutcomes(a, diff) :
        \E c \in ApiOutcomes(b, diff) :
        \E d \in MutationOutcomes(c, diff) : u \in VisualOutcomes(d, diff)
  BY <1>1
<1>3. PICK c \in ApiOutcomes(b, diff) :
        \E d \in MutationOutcomes(c, diff) : u \in VisualOutcomes(d, diff)
  BY <1>2
<1>4. PICK d \in MutationOutcomes(c, diff) : u \in VisualOutcomes(d, diff)
  BY <1>3
<1>5. Kept(v, a) /\ a \in Verdict
  BY OutcomesKeep DEF Kept
<1>6. Kept(a, b) /\ b \in Verdict
  BY <1>5, OutcomesKeep DEF Kept
<1>7. Kept(b, c) /\ c \in Verdict
  BY <1>6, OutcomesKeep DEF Kept
<1>8. Kept(c, d) /\ d \in Verdict
  BY <1>7, OutcomesKeep DEF Kept
<1>9. Kept(d, u) /\ u \in Verdict
  BY <1>4, <1>8, OutcomesKeep DEF Kept
<1> QED
  BY <1>5, <1>6, <1>7, <1>8, <1>9, KeptChain

\* A critics run either leaves the verdict alone or makes it a blocked FAIL.
LEMMA CriticsKeep ==
    ASSUME NEW v \in Verdict, NEW n \in Nat, NEW u \in CriticsOutcomes(v, n)
    PROVE  /\ u \in Verdict
           /\ u = v \/ (u.result = "FAIL" /\ u.blocked /\ u.files = {})
<1>1. CASE n = 0
  BY <1>1 DEF CriticsOutcomes
<1>2. CASE n # 0
  <2>1. PICK f \in Errors :
          u = [result |-> "FAIL", diagnostic |-> "FIX_IMPL",
               failures |-> f, files |-> {}, blocked |-> TRUE]
    BY <1>2 DEF CriticsOutcomes
  <2>2. u \in Verdict
    BY <2>1 DEF Verdict, Diagnostics
  <2> QED
    BY <2>1, <2>2
<1> QED
  BY <1>1, <1>2

-----------------------------------------------------------------------------
\* What the decisions at the end of a cycle can be.

LEMMA RememberType ==
    ASSUME NEW S, NEW h \in Seq(S), NEW e \in S, Len(h) <= HistoryLength
    PROVE  Remember(h, e) \in Seq(S) /\ Len(Remember(h, e)) <= HistoryLength
  BY HistoryLengthAssumption DEF Remember

\* The first attempt is never stagnant (detectStagnation returns 'none' early).
LEMMA PatternType ==
    ASSUME NEW attempt \in Nat, NEW hashes, NEW hash
    PROVE  /\ StagnationPattern(attempt, hashes, hash) \in Patterns
           /\ StagnationPattern(attempt, hashes, hash) # "none" => attempt >= 2
  BY DEF StagnationPattern, Patterns

LEMMA ConsecutiveType ==
    ASSUME NEW n \in Nat, NEW pattern
    PROVE  /\ ConsecutiveStagnation(n, pattern) \in Nat
           /\ ConsecutiveStagnation(n, pattern) = IF pattern = "none" THEN 0 ELSE n + 1
  BY DEF ConsecutiveStagnation

\* The ladder asks a human on its fourth rung and above.
LEMMA LadderFacts ==
    ASSUME NEW n \in Nat
    PROVE  /\ LadderAction(n) \in {"none", "enrich_prompt", "auto_debug", "speculative_branch",
                                   "targeted_hitl", "full_escalation"}
           /\ n > 0 => LadderAction(n) # "none"
           /\ n < 4 => LadderAction(n) \notin {"targeted_hitl", "full_escalation"}
<1>1. CASE n = 0
  BY <1>1 DEF LadderAction
<1>2. CASE n = 1
  BY <1>2 DEF LadderAction
<1>3. CASE n = 2
  BY <1>3 DEF LadderAction
<1>4. CASE n = 3
  BY <1>4 DEF LadderAction
<1>5. CASE n = 4
  BY <1>5 DEF LadderAction
<1>6. CASE n > 4
  BY <1>6 DEF LadderAction
<1> QED
  BY <1>1, <1>2, <1>3, <1>4, <1>5, <1>6

\* Neither a spent budget nor used-up cycles are ever called stagnation, which
\* the ladder could turn into another cycle.
LEMMA EscalationFacts ==
    ASSUME NEW verdict, NEW attempt \in Nat, NEW pattern, NEW criticals, NEW cost \in Nat
    PROVE  LET why == Escalation(verdict, attempt, pattern, criticals, cost)
           IN  /\ why \in LoopReasons \cup {"none"}
               /\ cost >= Critical => why = "budget_exceeded"
               /\ attempt >= MaxCycles => why \notin {"none", "stagnation"}
               /\ why = "stagnation" => pattern # "none"
  BY MaxCyclesAssumption, CriticalAssumption DEF Escalation, LoopReasons

\* A verdict that passed is consolidated; a failed one asks a human for the
\* reason found, or goes on with one of the four retries if there is none.
LEMMA TransitionFacts ==
    ASSUME NEW verdict, NEW attempt, NEW pattern, NEW criticals, NEW cost, NEW untried
    PROVE  LET why   == Escalation(verdict, attempt, pattern, criticals, cost)
               route == VerifierTransition(verdict, attempt, pattern, criticals, cost, untried)
           IN  \/ /\ verdict.result = "PASS"
                  /\ route.next = "MEMORY_CONSOLIDATION" /\ route.reason = "none"
               \/ /\ verdict.result # "PASS" /\ why # "none"
                  /\ route.next = "HITL_ESCALATION" /\ route.reason = why
               \/ /\ verdict.result # "PASS" /\ why = "none"
                  /\ route.next \in {"INTELLIGENT_DEBUGGER", "SPECULATIVE_BRANCH", "REPLAN", "ACTOR"}
                  /\ route.reason = "none"
  BY DEF VerifierTransition, Retry

-----------------------------------------------------------------------------
\* Type correctness.

\* What TypeOK says of the variables the control operators assign, for a
\* session that has the agent team behind it.
ControlOK(p, st, j) ==
    /\ p \in Points \ {"Team"}
    /\ st \in WorkflowState
    /\ Len(st.errors) <= HistoryLength
    /\ j \in 0 .. MaxCycles
    /\ p \notin Terminal \cup {"Memory"} => j < MaxCycles

\* A state that may be handed to the next activity.
StateOK(st) == st \in WorkflowState /\ Len(st.errors) <= HistoryLength

LEMMA InitialStateType == StateOK(InitialState)
<1>1. InitialState \in WorkflowState
  BY NoVerdictType DEF InitialState, WorkflowState, Phases, Patterns
<1>2. Len(InitialState.errors) <= HistoryLength
  BY HistoryLengthAssumption DEF InitialState
<1> QED
  BY <1>1, <1>2 DEF StateOK

LEMMA InitType == Init => TypeOK
<1> SUFFICES ASSUME Init PROVE TypeOK
  OBVIOUS
<1>1. StateOK(state)
  BY InitialStateType DEF Init
<1>2. history \in History
  BY DEF Init, History
<1>3. teamPass \in BOOLEAN /\ aborted \in BOOLEAN
  BY DEF Init
<1>4. pc \in Points /\ pc \notin Terminal \cup {"Memory"} /\ pc # "Team"
  BY DEF Init, Points, SetupPoints, Terminal
<1>5. i \in 0 .. MaxCycles /\ i < MaxCycles /\ count \in Nat /\ nodes \in 0 .. MaxNodes
  BY MaxCyclesAssumption, BoundsAssumption DEF Init
<1>6. reason \in Reasons /\ human \in Decisions \cup {"none"}
  BY DEF Init, Reasons
<1> QED
  BY <1>1, <1>2, <1>3, <1>4, <1>5, <1>6 DEF TypeOK, StateOK

LEMMA LeaveType ==
    ASSUME NEW st, StateOK(st), i \in 0 .. MaxCycles, Leave(st)
    PROVE  ControlOK(pc', state', i)
  BY DEF Leave, StateOK, ControlOK, Points, Terminal

LEMMA NextCycleType ==
    ASSUME NEW st, StateOK(st), i \in 0 .. MaxCycles, i < MaxCycles, NextCycle(st)
    PROVE  ControlOK(pc', state', i')
  BY MaxCyclesAssumption
  DEF NextCycle, Leave, StateOK, ControlOK, Points, CyclePoints, Terminal

LEMMA FirstCycleType ==
    ASSUME NEW st, StateOK(st), i \in 0 .. MaxCycles, i < MaxCycles,
           NEW team \in BOOLEAN, FirstCycle(st, team)
    PROVE  ControlOK(pc', state', i) /\ teamPass' \in BOOLEAN
  BY DEF FirstCycle, Leave, StateOK, ControlOK, Points, CyclePoints, Terminal

\* Changing fields of the state keeps it well typed.
LEMMA PhaseType ==
    ASSUME StateOK(state), NEW p \in Phases
    PROVE  StateOK([state EXCEPT !.phase = p])
  BY DEF StateOK, WorkflowState

LEMMA VerdictType ==
    ASSUME StateOK(state), NEW v \in Verdict
    PROVE  StateOK([state EXCEPT !.verdict = v])
  BY DEF StateOK, WorkflowState

LEMMA CallCostNat == \A c \in CallCosts : c \in Nat /\ c <= MaxCallCost
  BY CallCostsAssumption

LEMMA CostType ==
    ASSUME StateOK(state), NEW c \in CallCosts
    PROVE  StateOK([state EXCEPT !.cost = @ + c, !.diff = TRUE])
<1>1. c \in Nat
  BY CallCostNat
<1>2. state.cost + c \in Nat
  BY <1>1 DEF StateOK, WorkflowState
<1> QED
  BY <1>2 DEF StateOK, WorkflowState

\* A step that only moves to another point and changes the state.
LEMMA ReturnsType ==
    ASSUME TypeOK, NEW from \in Points \ (Terminal \cup {"Memory", "Team"}),
           NEW st, StateOK(st), NEW to \in Points \ {"Team"}, Returns(from, st, to)
    PROVE  TypeOK'
  BY DEF Returns, StateOK, TypeOK, Terminal

LEMMA PointNames ==
    /\ {"Scout", "Briefing", "Baseline", "Feasibility", "ValueNode", "Plan", "TddGate",
        "SandboxValidation", "Bootstrap", "Actor", "Preflight", "Critics", "TypeCheck", "Tests",
        "Api", "Mutation", "Visual", "Flakiness", "TestValidity", "GitCheckpoint", "Stagnation",
        "Debugger", "Branches", "Replan", "Ask", "Wait"}
         \subseteq Points \ (Terminal \cup {"Memory", "Team"})
    /\ {"Memory", "Done", "Thrown"} \subseteq Points \ {"Team"}
  BY DEF Points, SetupPoints, CyclePoints, StagePoints, HumanPoints, Terminal

LEMMA ImplementType ==
    ASSUME TypeOK, pc \in {"Plan", "SandboxValidation"}, NEW st, StateOK(st),
           NEW n \in 0 .. MaxNodes, Implement(st, n)
    PROVE  TypeOK'
<1>1. i \in 0 .. MaxCycles /\ i < MaxCycles
  BY PointNames DEF TypeOK
<1>2. CASE AgentTeamEnabled /\ n > 0
  BY <1>1, <1>2 DEF Implement, TypeOK, StateOK, Points, SetupPoints, Terminal
<1>3. CASE ~(AgentTeamEnabled /\ n > 0)
  <2>1. FirstCycle(st, FALSE)
    BY <1>3 DEF Implement
  <2>2. ControlOK(pc', state', i) /\ teamPass' \in BOOLEAN
    BY <1>1, <2>1, FirstCycleType
  <2> QED
    BY <2>2 DEF Implement, ControlOK, TypeOK
<1> QED
  BY <1>2, <1>3

LEMMA SetupType == TypeOK /\ Setup => TypeOK'
<1> SUFFICES ASSUME TypeOK, Setup PROVE TypeOK'
  OBVIOUS
<1> USE DEF Phases
<1>0. StateOK(state)
  BY DEF TypeOK, StateOK
<1>1. CASE Bootstrap
  <2>1. StateOK([state EXCEPT !.phase = "SCOUT"])
    BY <1>0, PhaseType
  <2> QED
    BY <1>1, <2>1, ReturnsType, PointNames DEF Bootstrap
<1>2. CASE Scout
  <2>1. PICK c \in SUBSET Strategies :
          Returns("Scout", [state EXCEPT !.phase = "VALUE_NODE", !.candidates = c], "Briefing")
    BY <1>2 DEF Scout
  <2>2. StateOK([state EXCEPT !.phase = "VALUE_NODE", !.candidates = c])
    BY <1>0 DEF StateOK, WorkflowState
  <2> QED
    BY <2>1, <2>2, ReturnsType, PointNames
<1>3. CASE Briefing
  BY <1>0, <1>3, ReturnsType, PointNames DEF Briefing
<1>4. ASSUME NEW from \in {"Baseline", "Feasibility"}, NEW to \in {"Feasibility", "ValueNode"},
             NEW why \in SetupReasons, Gate(from, to, why)
      PROVE  TypeOK'
  <2>1. PICK phase \in {"VALUE_NODE", "HITL_ESCALATION"} :
          /\ pc = from
          /\ state' = [state EXCEPT !.phase = phase]
          /\ IF phase = "HITL_ESCALATION" THEN AskHuman(why) ELSE pc' = to /\ UNCHANGED reason
          /\ UNCHANGED <<i, count, teamPass, nodes, human, aborted, history>>
    BY <1>4 DEF Gate
  <2>2. StateOK([state EXCEPT !.phase = phase])
    BY <1>0, PhaseType
  <2>3. pc' \in Points \ {"Team"} /\ reason' \in Reasons
    BY <1>4, <2>1, PointNames DEF AskHuman, TypeOK, Reasons
  <2> QED
    BY <2>1, <2>2, <2>3, PointNames DEF TypeOK, StateOK
<1>5. CASE Baseline \/ Feasibility
  BY <1>4, <1>5 DEF Baseline, Feasibility, SetupReasons
<1>6. CASE ValueNode
  <2>1. StateOK([state EXCEPT !.phase = "TDD_GATE"])
    BY <1>0, PhaseType
  <2> QED
    BY <1>6, <2>1, ReturnsType, PointNames DEF ValueNode
<1>7. CASE Plan
  <2> DEFINE st == [state EXCEPT !.phase = "TDD_GATE"]
  <2>1. StateOK(st)
    BY <1>0, PhaseType
  <2>2. PICK n \in 0 .. MaxNodes :
          IF SkipTddGate THEN Implement(st, n)
          ELSE /\ pc' = "TddGate" /\ state' = st /\ nodes' = n
               /\ UNCHANGED <<i, count, teamPass, reason, human, aborted, history>>
    BY <1>7 DEF Plan
  <2>3. pc = "Plan"
    BY <1>7 DEF Plan
  <2> HIDE DEF st
  <2>4. CASE SkipTddGate
    BY <2>1, <2>2, <2>3, <2>4, ImplementType
  <2>5. CASE ~SkipTddGate
    BY <2>1, <2>2, <2>3, <2>5, PointNames DEF TypeOK, StateOK
  <2> QED
    BY <2>4, <2>5
<1>8. CASE TddGate
  <2>1. StateOK([state EXCEPT !.phase = "SANDBOX_VALIDATION", !.diff = @ \/ Greenfield])
    BY <1>0 DEF StateOK, WorkflowState
  <2> QED
    BY <1>8, <2>1, ReturnsType, PointNames DEF TddGate
<1>9. CASE SandboxValidation
  <2>1. StateOK([state EXCEPT !.phase = "ACTOR"])
    BY <1>0, PhaseType
  <2>2. nodes \in 0 .. MaxNodes /\ pc = "SandboxValidation"
    BY <1>9 DEF TypeOK, SandboxValidation
  <2> QED
    BY <1>9, <2>1, <2>2, ImplementType DEF SandboxValidation
<1>10. CASE Team
  <2>1. PICK c \in CallCosts :
          LET st == [state EXCEPT !.cost = @ + c, !.diff = TRUE]
          IN  /\ nodes' = nodes - 1
              /\ IF nodes > 1 THEN state' = st /\ pc' = "Team" /\ UNCHANGED teamPass
                 ELSE FirstCycle(st, TRUE)
    BY <1>10 DEF Team
  <2> DEFINE st == [state EXCEPT !.cost = @ + c, !.diff = TRUE]
  <2>2. StateOK(st)
    BY <1>0, CostType
  <2>3. i \in 0 .. MaxCycles /\ i < MaxCycles /\ nodes \in 1 .. MaxNodes
    BY <1>10 DEF Team, TypeOK, Terminal
  <2>4. nodes' \in 0 .. MaxNodes /\ (nodes > 1 => nodes' > 0)
    BY <2>1, <2>3, BoundsAssumption
  <2>5. UNCHANGED <<i, count, reason, human, aborted, history>>
    BY <1>10 DEF Team
  <2> HIDE DEF st
  <2>6. CASE nodes > 1
    BY <2>1, <2>2, <2>3, <2>4, <2>5, <2>6 DEF st, TypeOK, StateOK, Points, SetupPoints
  <2>7. CASE ~(nodes > 1)
    <3>1. ControlOK(pc', state', i) /\ teamPass' \in BOOLEAN
      BY <2>1, <2>2, <2>3, <2>7, FirstCycleType DEF st
    <3> QED
      BY <2>4, <2>5, <3>1 DEF ControlOK, TypeOK
  <2> QED
    BY <2>6, <2>7
<1> QED
  BY <1>1, <1>2, <1>3, <1>5, <1>6, <1>7, <1>8, <1>9, <1>10 DEF Setup

\* A step that ends a cycle, at a point of the loop.
LEMMA CycleEnds ==
    ASSUME TypeOK, pc \in CyclePoints \cup HumanPoints, NEW st, StateOK(st), NextCycle(st),
           UNCHANGED <<teamPass, nodes, reason, aborted>>, count' \in Nat,
           human' \in Decisions \cup {"none"}, history' \in History
    PROVE  TypeOK'
<1>1. i \in 0 .. MaxCycles /\ i < MaxCycles
  BY DEF TypeOK, CyclePoints, StagePoints, HumanPoints, Terminal
<1>2. ControlOK(pc', state', i')
  BY <1>1, NextCycleType
<1> QED
  BY <1>2 DEF ControlOK, TypeOK

LEMMA StageType ==
    ASSUME TypeOK, NEW from \in StagePoints, NEW V, \A v \in V : v \in Verdict,
           NEW to \in Points \ {"Team"}, VerifierStage(from, V, to)
    PROVE  TypeOK'
<1>1. PICK v \in V : Returns(from, [state EXCEPT !.verdict = v], to)
  BY DEF VerifierStage
<1>2. StateOK([state EXCEPT !.verdict = v])
  BY <1>1, VerdictType DEF TypeOK, StateOK
<1>3. from \in Points \ (Terminal \cup {"Memory", "Team"})
  BY DEF StagePoints, Points, CyclePoints, Terminal
<1> QED
  BY <1>1, <1>2, <1>3, ReturnsType

LEMMA AfterVerifierType ==
    ASSUME NEW st
    PROVE  /\ AfterReview(st) \in {"GitCheckpoint", "Stagnation"}
           /\ AfterVerifier(st) \in {"Flakiness", "GitCheckpoint", "Stagnation"}
  BY DEF AfterReview, AfterVerifier

LEMMA StagnationType == TypeOK /\ Stagnation => TypeOK'
<1> SUFFICES ASSUME TypeOK, Stagnation PROVE TypeOK'
  OBVIOUS
<1> DEFINE pattern == StagnationPattern(state.attempt, state.errors, state.verdict.failures)
           n       == ConsecutiveStagnation(count, pattern)
           st      == [state EXCEPT !.stagnation = pattern,
                                    !.errors = Remember(@, state.verdict.failures)]
           route   == VerifierTransition(st.verdict, st.attempt, pattern, st.criticals,
                                         st.cost, Untried(st) # {})
           why     == Escalation(st.verdict, st.attempt, pattern, st.criticals, st.cost)
<1>1. state.attempt \in Nat /\ state.cost \in Nat /\ state.verdict.failures \in Errors \cup {NoFailures}
  BY DEF TypeOK, WorkflowState, Verdict
<1>2. pattern \in Patterns
  BY <1>1, PatternType
<1>3. n \in Nat
  BY ConsecutiveType DEF TypeOK
<1>4. StateOK(st)
  <2>1. Remember(state.errors, state.verdict.failures) \in Seq(Errors \cup {NoFailures})
        /\ Len(Remember(state.errors, state.verdict.failures)) <= HistoryLength
    BY <1>1, RememberType DEF TypeOK, WorkflowState
  <2> HIDE DEF pattern
  <2> QED
    BY <1>2, <2>1 DEF TypeOK, StateOK, WorkflowState
<1>5. st.attempt \in Nat /\ st.cost \in Nat
  BY <1>4 DEF StateOK, WorkflowState
<1>6. route.reason \in LoopReasons \cup {"none"}
  BY <1>5, EscalationFacts, TransitionFacts
<1>7. pc = "Stagnation" /\ count' = n /\ UNCHANGED <<teamPass, nodes, human, aborted, history>>
  BY DEF Stagnation
<1>8. i \in 0 .. MaxCycles /\ i < MaxCycles
  BY <1>7, PointNames DEF TypeOK
<1>9. \/ Leave(st) /\ UNCHANGED <<i, reason>>
      \/ NextCycle(st) /\ UNCHANGED reason
      \/ /\ state' = st /\ pc' \in {"Debugger", "Branches", "Replan"}
         /\ UNCHANGED <<i, reason>>
      \/ AskHuman(route.reason) /\ state' = st /\ UNCHANGED i
  BY DEF Stagnation
<1> HIDE DEF pattern, n, st, route
<1>10. CASE Leave(st) /\ UNCHANGED <<i, reason>>
  <2>1. ControlOK(pc', state', i)
    BY <1>4, <1>8, <1>10, LeaveType
  <2> QED
    BY <1>3, <1>7, <1>10, <2>1 DEF ControlOK, TypeOK
<1>11. CASE NextCycle(st) /\ UNCHANGED reason
  <2>1. pc \in CyclePoints /\ human' \in Decisions \cup {"none"} /\ history' \in History
    BY <1>7 DEF TypeOK, CyclePoints
  <2> QED
    BY <1>3, <1>4, <1>7, <1>11, <2>1, CycleEnds
<1>12. CASE /\ state' = st /\ pc' \in {"Debugger", "Branches", "Replan"}
            /\ UNCHANGED <<i, reason>>
  BY <1>3, <1>4, <1>7, <1>8, <1>12, PointNames DEF TypeOK, StateOK
<1>13. CASE AskHuman(route.reason) /\ state' = st /\ UNCHANGED i
  <2>1. pc' = "Ask" /\ reason' \in Reasons
    BY <1>6, <1>13 DEF AskHuman, Reasons
  <2> QED
    BY <1>3, <1>4, <1>7, <1>8, <1>13, <2>1, PointNames DEF TypeOK, StateOK
<1> QED
  BY <1>9, <1>10, <1>11, <1>12, <1>13

LEMMA PrunedType ==
    ASSUME StateOK(state), NEW attempt \in Nat, NEW errors \in Seq(Errors \cup {NoFailures}),
           Len(errors) <= HistoryLength, NEW pattern \in Patterns, NEW criticals \in Nat,
           NEW diff \in BOOLEAN, NEW verdict \in Verdict
    PROVE  StateOK([state EXCEPT !.attempt = attempt, !.errors = errors, !.stagnation = pattern,
                                 !.criticals = criticals, !.diff = diff, !.verdict = verdict])
  BY DEF StateOK, WorkflowState

LEMMA BranchStartType ==
    ASSUME StateOK(state)
    PROVE  StateOK(BranchStart(state))
<1>1. CASE ~state.checkpoint
  BY <1>1 DEF BranchStart
<1>2. CASE state.checkpoint
  <2>1. << >> \in Seq(Errors \cup {NoFailures}) /\ Len(<< >>) <= HistoryLength
    BY HistoryLengthAssumption
  <2>2. "none" \in Patterns /\ NoVerdict \in Verdict
    BY NoVerdictType DEF Patterns
  <2>3. StateOK([state EXCEPT !.attempt = 0, !.errors = << >>, !.stagnation = "none",
                              !.criticals = 0, !.diff = FALSE, !.verdict = NoVerdict])
    BY <2>1, <2>2, PrunedType
  <2> QED
    BY <1>2, <2>3 DEF BranchStart
<1> QED
  BY <1>1, <1>2

LEMMA WonType ==
    ASSUME NEW st, StateOK(st), NEW diff \in {st.diff, TRUE}, NEW cost \in CallCosts,
           NEW verdict \in StagesOutcomes(st.verdict, diff),
           NEW checkpoint \in Checkpoints([st EXCEPT !.diff = diff])
    PROVE  StateOK(Won(st, cost, diff, verdict, checkpoint))
<1>1. diff \in BOOLEAN /\ st.verdict \in Verdict
  BY DEF StateOK, WorkflowState
<1>2. verdict \in Verdict
  BY <1>1, StagesKeep DEF Kept
<1>3. cost \in Nat /\ st.cost + cost \in Nat /\ st.attempt + 1 \in Nat
  BY CallCostNat DEF StateOK, WorkflowState
<1>4. checkpoint \in BOOLEAN
  BY <1>1 DEF Checkpoints, StateOK, WorkflowState
<1>5. CASE diff
  BY <1>1, <1>2, <1>3, <1>4, <1>5 DEF Won, StateOK, WorkflowState, Phases
<1>6. CASE ~diff
  BY <1>1, <1>2, <1>3, <1>4, <1>6 DEF Won, StateOK, WorkflowState, Phases
<1> QED
  BY <1>5, <1>6

LEMMA CycleType == TypeOK /\ Cycle => TypeOK'
<1> SUFFICES ASSUME TypeOK, Cycle PROVE TypeOK'
  OBVIOUS
<1>0. /\ StateOK(state)
      /\ state.verdict \in Verdict /\ state.diff \in BOOLEAN
      /\ history \in History /\ human \in Decisions \cup {"none"} /\ count \in Nat
  BY DEF TypeOK, StateOK, WorkflowState
<1>1. CASE Actor
  <2>1. PICK c \in CallCosts, d \in {state.diff, TRUE} :
          Returns("Actor", [state EXCEPT !.phase = "PREFLIGHT", !.attempt = @ + 1,
                                         !.cost = @ + c, !.diff = d], "Preflight")
    BY <1>1 DEF Actor
  <2>2. state.cost + c \in Nat /\ state.attempt + 1 \in Nat
    BY <1>0, CallCostNat DEF StateOK, WorkflowState
  <2>3. d \in BOOLEAN
    BY <1>0, <2>1
  <2>4. StateOK([state EXCEPT !.phase = "PREFLIGHT", !.attempt = @ + 1,
                              !.cost = @ + c, !.diff = d])
    BY <1>0, <2>2, <2>3 DEF StateOK, WorkflowState, Phases
  <2> QED
    BY <2>1, <2>4, ReturnsType, PointNames
<1>2. CASE Preflight
  <2>1. (IF state.diff THEN 0 ELSE state.criticals) \in Nat
    BY <1>0 DEF StateOK, WorkflowState
  <2>2. StateOK([state EXCEPT !.phase = "CRITICS",
                              !.criticals = IF state.diff THEN 0 ELSE @])
    BY <1>0, <2>1 DEF StateOK, WorkflowState, Phases
  <2> QED
    BY <1>2, <2>2, ReturnsType, PointNames DEF Preflight
<1>3. CASE Critics
  <2>1. PICK n \in CriticalCounts(state.diff, state.criticals) :
          \E v \in CriticsOutcomes(state.verdict, IF state.diff THEN n ELSE 0) :
            Returns("Critics", [state EXCEPT !.phase = "VERIFIER", !.criticals = n, !.verdict = v],
                    IF v.blocked
                    THEN AfterVerifier([state EXCEPT !.phase = "VERIFIER", !.criticals = n,
                                                     !.verdict = v])
                    ELSE "TypeCheck")
    BY <1>3 DEF Critics
  <2>2. n \in Nat /\ (IF state.diff THEN n ELSE 0) \in Nat
    BY <1>0, MaxCriticalsAssumption DEF CriticalCounts, StateOK, WorkflowState
  <2>3. PICK v \in CriticsOutcomes(state.verdict, IF state.diff THEN n ELSE 0) :
          Returns("Critics", [state EXCEPT !.phase = "VERIFIER", !.criticals = n, !.verdict = v],
                  IF v.blocked
                  THEN AfterVerifier([state EXCEPT !.phase = "VERIFIER", !.criticals = n,
                                                   !.verdict = v])
                  ELSE "TypeCheck")
    BY <2>1
  <2>4. v \in Verdict
    BY <1>0, <2>2, <2>3, CriticsKeep
  <2>5. StateOK([state EXCEPT !.phase = "VERIFIER", !.criticals = n, !.verdict = v])
    BY <1>0, <2>2, <2>4 DEF StateOK, WorkflowState, Phases
  <2>6. (IF v.blocked
         THEN AfterVerifier([state EXCEPT !.phase = "VERIFIER", !.criticals = n, !.verdict = v])
         ELSE "TypeCheck") \in Points \ {"Team"}
    BY AfterVerifierType, PointNames
  <2> QED
    BY <2>3, <2>5, <2>6, ReturnsType, PointNames
<1>4. CASE TypeCheck \/ Tests \/ Api \/ Mutation
  <2>1. /\ \A v \in TypeCheckOutcomes(state.verdict, state.diff) : v \in Verdict
        /\ \A v \in TestsOutcomes(state.verdict, state.diff) : v \in Verdict
        /\ \A v \in ApiOutcomes(state.verdict, state.diff) : v \in Verdict
        /\ \A v \in MutationOutcomes(state.verdict, state.diff) : v \in Verdict
    BY <1>0, OutcomesKeep DEF Kept
  <2>2. {"TypeCheck", "Tests", "Api", "Mutation"} \subseteq StagePoints
    BY DEF StagePoints
  <2> QED
    BY <1>4, <2>1, <2>2, StageType, PointNames DEF TypeCheck, Tests, Api, Mutation
<1>5. CASE Visual
  <2>1. PICK v \in VisualOutcomes(state.verdict, state.diff) :
          Returns("Visual", [state EXCEPT !.verdict = v],
                  AfterVerifier([state EXCEPT !.verdict = v]))
    BY <1>5 DEF Visual
  <2>2. v \in Verdict
    BY <1>0, <2>1, OutcomesKeep DEF Kept
  <2>3. StateOK([state EXCEPT !.verdict = v])
    BY <1>0, <2>2, VerdictType
  <2>4. AfterVerifier([state EXCEPT !.verdict = v]) \in Points \ {"Team"}
    BY AfterVerifierType, PointNames
  <2> QED
    BY <2>1, <2>3, <2>4, ReturnsType, PointNames
<1>6. CASE Flakiness
  <2> DEFINE st == [state EXCEPT !.phase = "TEST_VALIDITY_REVIEW"]
  <2>1. StateOK(st)
    BY <1>0, PhaseType DEF Phases
  <2>2. pc = "Flakiness" /\ UNCHANGED <<count, teamPass, nodes, reason, human, aborted, history>>
    BY <1>6 DEF Flakiness
  <2>3. \/ NextCycle(st)
        \/ state' = st /\ pc' \in {"TestValidity", "GitCheckpoint", "Stagnation"} /\ i' = i
    BY <1>6, AfterVerifierType DEF Flakiness
  <2> HIDE DEF st
  <2>4. CASE NextCycle(st)
    BY <1>0, <2>1, <2>2, <2>4, CycleEnds DEF CyclePoints
  <2>5. CASE state' = st /\ pc' \in {"TestValidity", "GitCheckpoint", "Stagnation"} /\ i' = i
    BY <2>1, <2>2, <2>5, PointNames DEF TypeOK, StateOK
  <2> QED
    BY <2>3, <2>4, <2>5
<1>7. CASE TestValidity
  <2>1. StateOK([state EXCEPT !.phase = "HITL_ESCALATION"]) /\ StateOK([state EXCEPT !.phase = "ACTOR"])
    BY <1>0, PhaseType DEF Phases
  <2>2. pc = "TestValidity" /\ UNCHANGED <<i, count, teamPass, nodes, human, aborted, history>>
    BY <1>7 DEF TestValidity
  <2>3. state' \in {[state EXCEPT !.phase = "HITL_ESCALATION"], [state EXCEPT !.phase = "ACTOR"]}
    BY <1>7 DEF TestValidity
  <2>4. pc' \in Points \ {"Team"} /\ reason' \in Reasons
    BY <1>7, AfterVerifierType, PointNames DEF TestValidity, AskHuman, Reasons, TypeOK
  <2> QED
    BY <2>1, <2>2, <2>3, <2>4, PointNames DEF TypeOK, StateOK
<1>8. CASE GitCheckpoint
  <2>1. PICK k \in Checkpoints(state) :
          Returns("GitCheckpoint", [state EXCEPT !.checkpoint = k], "Stagnation")
    BY <1>8 DEF GitCheckpoint
  <2>2. k \in BOOLEAN
    BY <1>0, <2>1 DEF Checkpoints, StateOK, WorkflowState
  <2>3. StateOK([state EXCEPT !.checkpoint = k])
    BY <1>0, <2>2 DEF StateOK, WorkflowState
  <2> QED
    BY <2>1, <2>3, ReturnsType, PointNames
<1>9. CASE Stagnation
  BY <1>9, StagnationType
<1>10. CASE Debugger
  <2> DEFINE st == [state EXCEPT !.phase = IF state.verdict.result = "FAIL" THEN "ACTOR" ELSE @]
  <2>1. StateOK(st)
    BY <1>0 DEF StateOK, WorkflowState, Phases
  <2>2. /\ pc = "Debugger" /\ NextCycle(st)
        /\ UNCHANGED <<count, teamPass, nodes, reason, human, aborted, history>>
    BY <1>10 DEF Debugger
  <2> HIDE DEF st
  <2> QED
    BY <1>0, <2>1, <2>2, CycleEnds DEF CyclePoints
<1>11. CASE Replan
  <2>1. PICK c \in SUBSET Strategies : NextCycle([state EXCEPT !.phase = "ACTOR", !.candidates = c])
    BY <1>11 DEF Replan
  <2>2. StateOK([state EXCEPT !.phase = "ACTOR", !.candidates = c])
    BY <1>0 DEF StateOK, WorkflowState, Phases
  <2>3. pc = "Replan" /\ UNCHANGED <<count, teamPass, nodes, reason, human, aborted, history>>
    BY <1>11 DEF Replan
  <2> QED
    BY <1>0, <2>1, <2>2, <2>3, CycleEnds DEF CyclePoints
<1>12. CASE Branches
  <2>1. pc = "Branches" /\ UNCHANGED <<teamPass, nodes, reason, human, aborted>>
    BY <1>12 DEF Branches
  <2>2. PICK batch \in Batches(state), won \in BOOLEAN :
          /\ history' = [history EXCEPT !.launches =
                           [s \in Strategies |-> @[s] + (IF s \in batch THEN 1 ELSE 0)]]
          /\ IF won
             THEN batch # {} /\ Winner(BranchStart(state)) /\ count' = 0 /\ UNCHANGED i
             ELSE /\ NextCycle([state EXCEPT !.phase = "HITL_ESCALATION",
                                             !.exhausted = @ \cup batch])
                  /\ UNCHANGED count
    BY <1>12 DEF Branches
  <2>3. history' \in History
    <3>1. \A s \in Strategies : history.launches[s] + (IF s \in batch THEN 1 ELSE 0) \in Nat
      BY <1>0 DEF History
    <3> QED
      BY <1>0, <2>2, <3>1 DEF History
  <2>4. CASE won
    <3>1. PICK diff \in {BranchStart(state).diff, TRUE}, cost \in CallCosts :
            \E verdict \in StagesOutcomes(BranchStart(state).verdict, diff),
               checkpoint \in Checkpoints([BranchStart(state) EXCEPT !.diff = diff]) :
              Leave(Won(BranchStart(state), cost, diff, verdict, checkpoint))
      BY <2>2, <2>4 DEF Winner
    <3>2. PICK verdict \in StagesOutcomes(BranchStart(state).verdict, diff),
               checkpoint \in Checkpoints([BranchStart(state) EXCEPT !.diff = diff]) :
              Leave(Won(BranchStart(state), cost, diff, verdict, checkpoint))
      BY <3>1
    <3>3. StateOK(Won(BranchStart(state), cost, diff, verdict, checkpoint))
      BY <1>0, <3>1, <3>2, BranchStartType, WonType
    <3>4. i \in 0 .. MaxCycles
      BY DEF TypeOK
    <3>5. ControlOK(pc', state', i)
      BY <3>2, <3>3, <3>4, LeaveType
    <3>6. i' = i /\ count' \in Nat
      BY <2>2, <2>4
    <3> QED
      BY <2>1, <2>3, <3>5, <3>6 DEF ControlOK, TypeOK
  <2>5. CASE ~won
    <3>1. batch \subseteq Strategies
      BY <1>0, <2>2 DEF Batches, Untried, StateOK, WorkflowState
    <3>2. StateOK([state EXCEPT !.phase = "HITL_ESCALATION", !.exhausted = @ \cup batch])
      BY <1>0, <3>1 DEF StateOK, WorkflowState, Phases
    <3> QED
      BY <1>0, <2>1, <2>2, <2>3, <2>5, <3>2, CycleEnds DEF CyclePoints
  <2> QED
    BY <2>4, <2>5
<1> QED
  BY <1>1, <1>2, <1>3, <1>4, <1>5, <1>6, <1>7, <1>8, <1>9, <1>10, <1>11, <1>12 DEF Cycle

LEMMA TurnDownType ==
    ASSUME TypeOK, pc = "Wait", TurnDown,
           UNCHANGED <<i, count, teamPass, nodes, reason, human, aborted>>
    PROVE  TypeOK'
<1>0. StateOK(state) /\ i \in 0 .. MaxCycles
  BY DEF TypeOK, StateOK
<1>1. history' \in History
  BY DEF TurnDown, History, TypeOK
<1>2. StateOK([state EXCEPT !.phase = "FAILED"])
  BY <1>0, PhaseType DEF Phases
<1>3. CASE Leave([state EXCEPT !.phase = "FAILED"])
  <2>1. ControlOK(pc', state', i)
    BY <1>0, <1>2, <1>3, LeaveType
  <2> QED
    BY <1>1, <2>1 DEF ControlOK, TypeOK
<1>4. CASE pc' = "Done" /\ state' \in {state, [state EXCEPT !.phase = "FAILED"]}
  BY <1>0, <1>1, <1>2, <1>4, PointNames DEF TypeOK, StateOK, Terminal
<1> QED
  BY <1>3, <1>4 DEF TurnDown

LEMMA HumanType == TypeOK /\ Human => TypeOK'
<1> SUFFICES ASSUME TypeOK, Human PROVE TypeOK'
  OBVIOUS
<1>0. StateOK(state) /\ i \in 0 .. MaxCycles /\ history \in History
  BY DEF TypeOK, StateOK
<1>1. CASE Ask
  <2>1. StateOK([state EXCEPT !.phase = "HITL_ESCALATION"])
    BY <1>0, PhaseType DEF Phases
  <2> QED
    BY <1>1, <2>1, ReturnsType, PointNames DEF Ask
<1>2. CASE Refused \/ WaitTimeout
  BY <1>2, TurnDownType DEF Refused, WaitTimeout
<1>3. CASE Approved
  <2>1. pc = "Wait" /\ UNCHANGED <<count, teamPass, nodes, reason, aborted>>
    BY <1>3 DEF Approved
  <2>2. CASE reason \in LoopReasons /\ BudgetTooLow
    <3>1. StateOK([state EXCEPT !.phase = "FAILED"])
      BY <1>0, PhaseType DEF Phases
    <3>2. Leave([state EXCEPT !.phase = "FAILED"]) /\ UNCHANGED <<i, human>>
      BY <1>3, <2>2 DEF Approved
    <3>3. history' \in History
      BY <1>0, <1>3, <2>2 DEF Approved, History
    <3>4. ControlOK(pc', state', i)
      BY <1>0, <3>1, <3>2, LeaveType
    <3> QED
      BY <2>1, <3>2, <3>3, <3>4 DEF ControlOK, TypeOK
  <2>3. CASE ~(reason \in LoopReasons /\ BudgetTooLow)
    <3>1. human' = "none"
      BY <1>3, <2>3 DEF Approved, UseDecision
    <3>2. history' = [history EXCEPT !.resumes = @ + 1, !.answered = IF InSetup THEN @ ELSE i + 1]
      BY <1>3, <2>3 DEF Approved
    <3>3. history' \in History
      <4>1. (IF InSetup THEN history.answered ELSE i + 1) \in Nat /\ history.resumes + 1 \in Nat
        BY <1>0, MaxCyclesAssumption DEF History
      <4> QED
        BY <1>0, <3>2, <4>1 DEF History
    <3>4. StateOK([state EXCEPT !.phase = "VALUE_NODE"]) /\ StateOK([state EXCEPT !.phase = "ACTOR"])
      BY <1>0, PhaseType DEF Phases
    <3>5. CASE reason = "baseline_tests_failing"
      <4>1. pc' = "Feasibility" /\ UNCHANGED <<state, i>>
        BY <1>3, <2>3, <3>5 DEF Approved
      <4> QED
        BY <2>1, <3>1, <3>3, <4>1, PointNames DEF TypeOK
    <3>6. CASE reason = "high_ambiguity_before_start"
      <4>1. pc' = "ValueNode" /\ state' = [state EXCEPT !.phase = "VALUE_NODE"] /\ UNCHANGED i
        BY <1>3, <2>3, <3>6 DEF Approved
      <4> QED
        BY <2>1, <3>1, <3>3, <3>4, <4>1, PointNames DEF TypeOK, StateOK
    <3>7. CASE reason \notin {"baseline_tests_failing", "high_ambiguity_before_start"}
      <4>1. NextCycle([state EXCEPT !.phase = "ACTOR"])
        BY <1>3, <2>3, <3>7 DEF Approved
      <4>2. count' \in Nat /\ human' \in Decisions \cup {"none"}
        BY <2>1, <3>1 DEF TypeOK
      <4> QED
        BY <2>1, <3>3, <3>4, <4>1, <4>2, CycleEnds DEF HumanPoints
    <3> QED
      BY <3>5, <3>6, <3>7
  <2> QED
    BY <2>2, <2>3
<1> QED
  BY <1>1, <1>2, <1>3 DEF Human

LEMMA SignalType == TypeOK /\ (Memory \/ ActivityFails \/ Decide \/ Abort \/ Closed) => TypeOK'
<1> SUFFICES ASSUME TypeOK, Memory \/ ActivityFails \/ Decide \/ Abort \/ Closed PROVE TypeOK'
  OBVIOUS
<1>0. StateOK(state) /\ history \in History
  BY DEF TypeOK, StateOK
<1>1. CASE Memory
  <2>1. StateOK([state EXCEPT !.phase = "COMPLETE", !.lesson = TRUE])
    BY <1>0 DEF StateOK, WorkflowState, Phases
  <2> QED
    BY <1>1, <2>1, PointNames DEF Memory, Returns, StateOK, TypeOK, Terminal
<1>2. CASE ActivityFails
  BY <1>2, PointNames DEF ActivityFails, TypeOK, Terminal
<1>3. CASE Decide
  <2>1. history' \in History
    BY <1>0, <1>3 DEF Decide, History
  <2> QED
    BY <1>3, <2>1 DEF Decide, TypeOK
<1>4. CASE Abort
  <2>1. StateOK([state EXCEPT !.phase = "FAILED"])
    BY <1>0, PhaseType DEF Phases
  <2>2. aborted' = TRUE /\ UNCHANGED <<i, count, teamPass, nodes, reason, human, history>>
    BY <1>4 DEF Abort
  <2>3. \/ pc' = "Done" /\ state' \in {state, [state EXCEPT !.phase = "FAILED"]}
        \/ UNCHANGED <<pc, state>>
    BY <1>4 DEF Abort
  <2>4. aborted' \in BOOLEAN
    BY <2>2
  <2>5. CASE pc' = "Done" /\ state' \in {state, [state EXCEPT !.phase = "FAILED"]}
    BY <1>0, <2>1, <2>2, <2>4, <2>5, PointNames DEF TypeOK, StateOK, Terminal
  <2>6. CASE UNCHANGED <<pc, state>>
    BY <2>2, <2>4, <2>6 DEF TypeOK
  <2> QED
    BY <2>3, <2>5, <2>6
<1>5. CASE Closed
  BY <1>5 DEF Closed, vars, TypeOK
<1> QED
  BY <1>1, <1>2, <1>3, <1>4, <1>5

LEMMA NextType == TypeOK /\ [Next]_vars => TypeOK'
<1>1. TypeOK /\ UNCHANGED vars => TypeOK'
  BY DEF vars, TypeOK
<1> QED
  BY <1>1, SetupType, CycleType, HumanType, SignalType DEF Next, Step

\* Every variable of the workflow keeps its type, the cycle counter its bound
\* and the error history its length, whatever the activities and the operator
\* do.
THEOREM TypeCorrect == Spec => []TypeOK
<1>1. Init => TypeOK
  BY InitType
<1>2. TypeOK /\ [Next]_vars => TypeOK'
  BY NextType
<1> QED
  BY <1>1, <1>2, PTL DEF Spec

-----------------------------------------------------------------------------
\* Which actions can touch what was spent, judged, committed or learned.

Same(st) == /\ st.cost = state.cost
            /\ st.attempt = state.attempt
            /\ st.verdict = state.verdict
            /\ st.checkpoint = state.checkpoint
            /\ st.exhausted = state.exhausted
            /\ st.lesson = state.lesson

Stages == TypeCheck \/ Tests \/ Api \/ Mutation \/ Visual

LEMMA ControlKeeps ==
    ASSUME NEW st, Same(st)
    PROVE  /\ Leave(st) => Same(state')
           /\ NextCycle(st) => Same(state')
           /\ \A team : FirstCycle(st, team) => Same(state')
           /\ \A n : Implement(st, n) => Same(state')
  BY DEF Leave, NextCycle, FirstCycle, Implement, Same

LEMMA EditsKeep ==
    ASSUME TypeOK
    PROVE  /\ Same(state)
           /\ \A p : Same([state EXCEPT !.phase = p])
           /\ \A p, c : Same([state EXCEPT !.phase = p, !.candidates = c])
           /\ \A p, d : Same([state EXCEPT !.phase = p, !.diff = d])
           /\ \A p, n : Same([state EXCEPT !.phase = p, !.criticals = n])
           /\ \A p, h : Same([state EXCEPT !.stagnation = p, !.errors = h])
  BY DEF TypeOK, WorkflowState, Same

LEMMA Quiet ==
    ASSUME TypeOK, [Next]_vars
    PROVE  Team \/ Actor \/ Critics \/ Stages \/ GitCheckpoint \/ Branches \/ Memory \/ Same(state')
<1>1. CASE Setup
  <2>1. CASE Bootstrap \/ Briefing \/ ValueNode
    BY <2>1, EditsKeep DEF Bootstrap, Briefing, ValueNode, Returns
  <2>6. CASE Scout
    <3>1. PICK c : state' = [state EXCEPT !.phase = "VALUE_NODE", !.candidates = c]
      BY <2>6 DEF Scout, Returns
    <3> QED
      BY <3>1 DEF TypeOK, WorkflowState, Same
  <2>2. CASE Baseline \/ Feasibility
    BY <2>2, EditsKeep DEF Baseline, Feasibility, Gate
  <2>3. CASE Plan
    BY <2>3, EditsKeep, ControlKeeps DEF Plan
  <2>4. CASE TddGate
    BY <2>4, EditsKeep DEF TddGate, Returns
  <2>5. CASE SandboxValidation
    BY <2>5, EditsKeep, ControlKeeps DEF SandboxValidation
  <2> QED
    BY <1>1, <2>1, <2>2, <2>3, <2>4, <2>5, <2>6 DEF Setup
<1>2. CASE Cycle
  <2>1. CASE Preflight
    BY <2>1, EditsKeep DEF Preflight, Returns
  <2>2. CASE Flakiness \/ TestValidity
    BY <2>2, EditsKeep, ControlKeeps DEF Flakiness, TestValidity
  <2>3. CASE Stagnation
    <3>1. PICK p, h : LET st == [state EXCEPT !.stagnation = p, !.errors = h]
                      IN  Leave(st) \/ NextCycle(st) \/ state' = st
      BY <2>3 DEF Stagnation
    <3> DEFINE st == [state EXCEPT !.stagnation = p, !.errors = h]
    <3>2. Same(st)
      BY EditsKeep
    <3>3. Leave(st) \/ NextCycle(st) \/ state' = st
      BY <3>1
    <3> HIDE DEF st
    <3> QED
      BY <3>2, <3>3, ControlKeeps DEF Same
  <2>4. CASE Debugger \/ Replan
    BY <2>4, EditsKeep, ControlKeeps DEF Debugger, Replan
  <2> QED
    BY <1>2, <2>1, <2>2, <2>3, <2>4 DEF Cycle, Stages
<1>3. CASE Human
  <2>1. CASE Ask
    BY <2>1, EditsKeep DEF Ask, Returns
  <2>2. CASE Refused \/ WaitTimeout
    BY <2>2, EditsKeep, ControlKeeps DEF Refused, WaitTimeout, TurnDown
  <2>3. CASE Approved
    <3>1. \/ \E p : Leave([state EXCEPT !.phase = p]) \/ NextCycle([state EXCEPT !.phase = p])
                  \/ state' = [state EXCEPT !.phase = p]
          \/ state' = state
      BY <2>3 DEF Approved
    <3> QED
      BY <3>1, EditsKeep, ControlKeeps
  <2> QED
    BY <1>3, <2>1, <2>2, <2>3 DEF Human
<1>4. CASE ActivityFails \/ Decide \/ Closed \/ UNCHANGED vars
  BY <1>4, EditsKeep DEF ActivityFails, Decide, Closed, vars
<1>5. CASE Abort
  <2>1. \E p : state' = [state EXCEPT !.phase = p] \/ state' = state
    BY <1>5 DEF Abort
  <2> QED
    BY <2>1, EditsKeep
<1> QED
  BY <1>1, <1>2, <1>3, <1>4, <1>5 DEF Next, Step

\* A winning branch, put together.
LEMMA WinnerParts ==
    ASSUME TypeOK, NEW st, StateOK(st), Winner(st)
    PROVE  \E diff \in BOOLEAN, cost \in CallCosts, verdict \in Verdict, checkpoint \in BOOLEAN :
             /\ BudgetLeft(st)
             /\ Kept(st.verdict, verdict)
             /\ verdict.result = "PASS"
             /\ checkpoint => st.checkpoint \/ GitCheckpointEnabled
             /\ Leave(Won(st, cost, diff, verdict, checkpoint))
<1>1. PICK diff \in {st.diff, TRUE}, cost \in CallCosts :
        \E verdict \in StagesOutcomes(st.verdict, diff),
           checkpoint \in Checkpoints([st EXCEPT !.diff = diff]) :
          /\ verdict.result = "PASS"
          /\ Leave(Won(st, cost, diff, verdict, checkpoint))
  BY DEF Winner
<1>2. PICK verdict \in StagesOutcomes(st.verdict, diff),
           checkpoint \in Checkpoints([st EXCEPT !.diff = diff]) :
        /\ verdict.result = "PASS"
        /\ Leave(Won(st, cost, diff, verdict, checkpoint))
  BY <1>1
<1>3. diff \in BOOLEAN /\ st.verdict \in Verdict
  BY <1>1 DEF StateOK, WorkflowState
<1>4. Kept(st.verdict, verdict) /\ verdict \in Verdict
  BY <1>2, <1>3, StagesKeep DEF Kept
<1>5. checkpoint \in BOOLEAN /\ (checkpoint => st.checkpoint \/ GitCheckpointEnabled)
  BY <1>2, <1>3 DEF Checkpoints, StateOK, WorkflowState
<1> QED
  BY <1>1, <1>2, <1>3, <1>4, <1>5 DEF Winner

-----------------------------------------------------------------------------
\* Spending.

LEMMA SpendStep == TypeOK /\ SpendBounded /\ [Next]_vars => SpendBounded'
<1> SUFFICES ASSUME TypeOK, SpendBounded, [Next]_vars PROVE SpendBounded'
  OBVIOUS
<1> USE DEF SpendBounded
<1>0. /\ StateOK(state) /\ state.cost \in Nat
      /\ Critical \in Nat /\ MaxCallCost \in Nat
  BY CriticalAssumption, CallCostsAssumption DEF TypeOK, StateOK, WorkflowState
<1>1. CASE Team
  <2>1. PICK c \in CallCosts :
          state' = [state EXCEPT !.cost = @ + c, !.diff = TRUE]
    BY <1>1 DEF Team, FirstCycle, Leave
  <2>2. state'.cost = state.cost + c
    BY <1>0, <2>1 DEF StateOK, WorkflowState
  <2>3. state.cost < Critical
    BY <1>1 DEF Team, BudgetLeft
  <2> QED
    BY <1>0, <2>2, <2>3, CallCostNat
<1>2. CASE Actor
  <2>1. PICK c \in CallCosts, d \in {state.diff, TRUE} :
          state' = [state EXCEPT !.phase = "PREFLIGHT", !.attempt = @ + 1, !.cost = @ + c, !.diff = d]
    BY <1>2 DEF Actor, Returns
  <2>2. state'.cost = state.cost + c
    BY <1>0, <2>1 DEF StateOK, WorkflowState
  <2>3. state.cost < Critical
    BY <1>2 DEF Actor, BudgetLeft
  <2> QED
    BY <1>0, <2>2, <2>3, CallCostNat
<1>3. CASE Critics \/ Stages \/ GitCheckpoint \/ Memory
  <2>1. state'.cost = state.cost
    BY <1>0, <1>3 DEF Critics, Stages, TypeCheck, Tests, Api, Mutation, Visual, VerifierStage,
                      GitCheckpoint, Memory, Returns, StateOK, WorkflowState
  <2> QED
    BY <2>1
<1>4. CASE Branches
  <2>1. CASE Winner(BranchStart(state))
    <3>1. StateOK(BranchStart(state)) /\ BranchStart(state).cost = state.cost
      BY <1>0, BranchStartType DEF BranchStart, StateOK, WorkflowState
    <3>2. PICK diff \in BOOLEAN, cost \in CallCosts, verdict \in Verdict, checkpoint \in BOOLEAN :
            /\ BudgetLeft(BranchStart(state))
            /\ Leave(Won(BranchStart(state), cost, diff, verdict, checkpoint))
      BY <2>1, <3>1, WinnerParts
    <3>3. state'.cost = state.cost + cost
      BY <3>1, <3>2 DEF Leave, Won, StateOK, WorkflowState
    <3> QED
      BY <1>0, <3>1, <3>2, <3>3, CallCostNat DEF BudgetLeft
  <2>2. CASE ~Winner(BranchStart(state))
    <3>1. PICK b : NextCycle([state EXCEPT !.phase = "HITL_ESCALATION", !.exhausted = b])
      BY <1>4, <2>2 DEF Branches
    <3>2. state'.cost = state.cost
      BY <1>0, <3>1 DEF NextCycle, Leave, StateOK, WorkflowState
    <3> QED
      BY <3>2
  <2> QED
    BY <2>1, <2>2
<1>5. CASE Same(state')
  BY <1>5 DEF Same
<1> QED
  BY <1>1, <1>2, <1>3, <1>4, <1>5, Quiet

\* The recorded cost of a session never exceeds the budget by a whole call
\* (BudgetAwareAgent refuses a call once the budget is spent).
THEOREM SpendIsBounded == Spec => []SpendBounded
<1>1. Init => SpendBounded
  BY CriticalAssumption, CallCostsAssumption DEF Init, InitialState, SpendBounded
<1>2. TypeOK /\ SpendBounded /\ [Next]_vars => SpendBounded'
  BY SpendStep
<1> QED
  BY <1>1, <1>2, TypeCorrect, PTL DEF Spec

-----------------------------------------------------------------------------
\* The operator's decisions.

\* Each decision is in the mailbox or was used by at most one resume.
DecisionsCounted ==
    history.resumes + (IF human = "none" THEN 0 ELSE 1) <= history.signals

LEMMA DecisionStep == TypeOK /\ DecisionsCounted /\ [Next]_vars => DecisionsCounted'
<1> SUFFICES ASSUME TypeOK, DecisionsCounted, [Next]_vars PROVE DecisionsCounted'
  OBVIOUS
<1> USE DEF DecisionsCounted
<1>0. history \in History /\ history.resumes \in Nat /\ history.signals \in Nat
  BY DEF TypeOK, History
<1>1. CASE Decide
  <2>1. human' # "none" /\ history' = [history EXCEPT !.signals = @ + 1]
    BY <1>1 DEF Decide, Decisions
  <2>2. history'.signals = history.signals + 1 /\ history'.resumes = history.resumes
    BY <1>0, <2>1 DEF History
  <2> QED
    BY <1>0, <2>1, <2>2
<1>2. CASE Approved
  <2>1. human = "approve"
    BY <1>2 DEF Approved
  <2>2. CASE reason \in LoopReasons /\ BudgetTooLow
    <3>1. UNCHANGED human /\ history' = [history EXCEPT !.refused = TRUE]
      BY <1>2, <2>2 DEF Approved
    <3> QED
      BY <1>0, <3>1 DEF History
  <2>3. CASE ~(reason \in LoopReasons /\ BudgetTooLow)
    <3>1. /\ human' = "none"
          /\ history' = [history EXCEPT !.resumes = @ + 1, !.answered = IF InSetup THEN @ ELSE i + 1]
      BY <1>2, <2>3 DEF Approved, UseDecision
    <3>2. history'.resumes = history.resumes + 1 /\ history'.signals = history.signals
      BY <1>0, <3>1 DEF History
    <3> QED
      BY <1>0, <2>1, <3>1, <3>2
  <2> QED
    BY <2>2, <2>3
<1>3. CASE Refused \/ WaitTimeout
  <2>1. UNCHANGED human /\ history' = [history EXCEPT !.refused = TRUE]
    BY <1>3 DEF Refused, WaitTimeout, TurnDown
  <2> QED
    BY <1>0, <2>1 DEF History
<1>4. CASE Branches
  <2>1. PICK l : UNCHANGED human /\ history' = [history EXCEPT !.launches = l]
    BY <1>4 DEF Branches
  <2> QED
    BY <1>0, <2>1 DEF History
<1>5. CASE UNCHANGED <<human, history>>
  BY <1>5
<1>6. Decide \/ Approved \/ Refused \/ WaitTimeout \/ Branches \/ UNCHANGED <<human, history>>
  BY DEF Next, Step, Setup, Cycle, Human, Bootstrap, Scout, Briefing, Baseline, Feasibility, Gate,
         ValueNode, Plan, TddGate, SandboxValidation, Implement, Team, Actor, Preflight, Critics,
         TypeCheck, Tests, Api, Mutation, Visual, VerifierStage, Flakiness, TestValidity,
         GitCheckpoint, Stagnation, Debugger, Replan, Ask, Memory, ActivityFails, Abort, Closed,
         Returns, vars
<1> QED
  BY <1>1, <1>2, <1>3, <1>4, <1>5, <1>6

\* No decision of the operator lets two escalations pass.
THEOREM DecisionIsUsedOnce == Spec => []DecisionUsedOnce
<1>1. Init => DecisionsCounted
  BY DEF Init, DecisionsCounted
<1>2. TypeOK /\ DecisionsCounted /\ [Next]_vars => DecisionsCounted'
  BY DecisionStep
<1>3. TypeOK /\ DecisionsCounted => DecisionUsedOnce
  BY DEF TypeOK, History, DecisionsCounted, DecisionUsedOnce
<1> QED
  BY <1>1, <1>2, <1>3, TypeCorrect, PTL DEF Spec

-----------------------------------------------------------------------------
\* Refusals.

\* A lesson is stored by the last activity only, and a refusal ends the session
\* without one.
RefusalInv == /\ state.lesson => pc = "Done"
              /\ RefusalIsFinal

\* The failed session goes nowhere.
LEMMA FailedLeaves ==
    ASSUME TypeOK, Leave([state EXCEPT !.phase = "FAILED"])
    PROVE  pc' = "Done" /\ state'.lesson = state.lesson
  BY DEF Leave, TypeOK, WorkflowState

LEMMA RefusalStep == TypeOK /\ RefusalInv /\ [Next]_vars => RefusalInv'
<1> SUFFICES ASSUME TypeOK, RefusalInv, [Next]_vars PROVE RefusalInv'
  OBVIOUS
<1> USE DEF RefusalInv, RefusalIsFinal
<1>0. history \in History /\ StateOK(state)
  BY DEF TypeOK, StateOK
<1>1. CASE pc = "Done"
  <2>1. UNCHANGED vars
    BY <1>1 DEF Next, Step, Setup, Cycle, Human, Bootstrap, Scout, Briefing, Baseline, Feasibility,
         Gate, ValueNode, Plan, TddGate, SandboxValidation, Team, Actor, Preflight, Critics,
         TypeCheck, Tests, Api, Mutation, Visual, VerifierStage, Flakiness, TestValidity,
         GitCheckpoint, Stagnation, Debugger, Replan, Branches, Ask, Refused, WaitTimeout, Approved,
         Memory, ActivityFails, Decide, Abort, Closed, Returns, Terminal
  <2> QED
    BY <2>1 DEF vars
<1>2. CASE pc # "Done"
  <2>0. ~state.lesson /\ ~history.refused
    BY <1>2
  <2>1. ~history'.refused \/ (pc' = "Done" /\ state'.lesson = state.lesson)
    <3>1. CASE Refused \/ WaitTimeout
      <4>1. \/ Leave([state EXCEPT !.phase = "FAILED"])
            \/ pc' = "Done" /\ state' \in {state, [state EXCEPT !.phase = "FAILED"]}
        BY <3>1 DEF Refused, WaitTimeout, TurnDown
      <4> QED
        BY <4>1, FailedLeaves DEF TypeOK, WorkflowState
    <3>2. CASE Approved
      <4>1. CASE reason \in LoopReasons /\ BudgetTooLow
        BY <3>2, <4>1, FailedLeaves DEF Approved
      <4>2. CASE ~(reason \in LoopReasons /\ BudgetTooLow)
        <5>1. PICK a : history' = [history EXCEPT !.resumes = @ + 1, !.answered = a]
          BY <3>2, <4>2 DEF Approved
        <5> QED
          BY <1>0, <2>0, <5>1 DEF History
      <4> QED
        BY <4>1, <4>2
    <3>3. CASE Branches
      <4>1. PICK l : history' = [history EXCEPT !.launches = l]
        BY <3>3 DEF Branches
      <4> QED
        BY <1>0, <2>0, <4>1 DEF History
    <3>4. CASE Decide
      BY <1>0, <2>0, <3>4 DEF Decide, History
    <3>5. CASE UNCHANGED history
      BY <2>0, <3>5
    <3> QED
      BY <3>1, <3>2, <3>3, <3>4, <3>5
      DEF Next, Step, Setup, Cycle, Human, Bootstrap, Scout, Briefing, Baseline, Feasibility,
         Gate, ValueNode, Plan, TddGate, SandboxValidation, Implement, Team, Actor, Preflight,
         Critics, TypeCheck, Tests, Api, Mutation, Visual, VerifierStage, Flakiness, TestValidity,
         GitCheckpoint, Stagnation, Debugger, Replan, Ask, Memory, ActivityFails, Abort, Closed,
         Returns, vars
  <2>2. state'.lesson => pc' = "Done"
    <3>1. CASE Memory
      BY <3>1 DEF Memory, Returns
    <3>2. CASE Team
      <4>1. PICK c : state' = [state EXCEPT !.cost = c, !.diff = TRUE]
        BY <3>2 DEF Team, FirstCycle, Leave
      <4> QED
        BY <1>0, <2>0, <4>1 DEF StateOK, WorkflowState
    <3>3. CASE Actor
      <4>1. PICK c, d, n : state' = [state EXCEPT !.phase = "PREFLIGHT", !.attempt = n,
                                                  !.cost = c, !.diff = d]
        BY <3>3 DEF Actor, Returns
      <4> QED
        BY <1>0, <2>0, <4>1 DEF StateOK, WorkflowState
    <3>4. CASE Critics \/ Stages \/ GitCheckpoint
      BY <1>0, <2>0, <3>4 DEF Critics, Stages, TypeCheck, Tests, Api, Mutation, Visual, VerifierStage,
                        GitCheckpoint, Returns, StateOK, WorkflowState
    <3>5. CASE Branches
      <4>1. CASE Winner(BranchStart(state))
        <5>1. StateOK(BranchStart(state)) /\ BranchStart(state).lesson = state.lesson
          BY <1>0, BranchStartType DEF BranchStart, StateOK, WorkflowState
        <5>2. PICK diff, cost, verdict, checkpoint :
                Leave(Won(BranchStart(state), cost, diff, verdict, checkpoint))
          BY <4>1, <5>1, WinnerParts
        <5>3. state'.lesson = state.lesson
          BY <5>1, <5>2 DEF Leave, Won, StateOK, WorkflowState
        <5> QED
          BY <2>0, <5>3
      <4>2. CASE ~Winner(BranchStart(state))
        <5>1. PICK b : NextCycle([state EXCEPT !.phase = "HITL_ESCALATION", !.exhausted = b])
          BY <3>5, <4>2 DEF Branches
        <5> QED
          BY <1>0, <2>0, <5>1 DEF NextCycle, Leave, StateOK, WorkflowState
      <4> QED
        BY <4>1, <4>2
    <3>6. CASE Same(state')
      BY <2>0, <3>6 DEF Same
    <3> QED
      BY <3>1, <3>2, <3>3, <3>4, <3>5, <3>6, Quiet
  <2> QED
    BY <2>0, <2>1, <2>2
<1> QED
  BY <1>1, <1>2

\* A session that was turned down by its operator, or not answered, has ended
\* without storing a lesson.
THEOREM RefusalEnds == Spec => []RefusalIsFinal
<1>1. Init => RefusalInv
  BY DEF Init, InitialState, RefusalInv, RefusalIsFinal
<1>2. TypeOK /\ RefusalInv /\ [Next]_vars => RefusalInv'
  BY RefusalStep
<1>3. RefusalInv => RefusalIsFinal
  BY DEF RefusalInv
<1> QED
  BY <1>1, <1>2, <1>3, TypeCorrect, PTL DEF Spec

-----------------------------------------------------------------------------
\* Verdicts and checkpoints.

\* Only a FAIL is blocked by a critic; a commit is made, and exists, only for a
\* session whose verdict is PASS, and such a session does not start another
\* cycle.
VerdictInv == /\ state.verdict.blocked => state.verdict.result = "FAIL"
              /\ pc = "GitCheckpoint" => state.verdict.result = "PASS"
              /\ state.checkpoint => /\ state.verdict.result = "PASS"
                                     /\ pc \in {"Stagnation", "Memory"} \cup Terminal

LEMMA ReviewFacts ==
    ASSUME NEW st
    PROVE  /\ AfterReview(st) = "GitCheckpoint" => st.verdict.result = "PASS"
           /\ AfterVerifier(st) = "GitCheckpoint" => st.verdict.result = "PASS"
  BY DEF AfterReview, AfterVerifier

\* After a PASS the loop is left.
LEMMA PassLeaves ==
    ASSUME TypeOK, Stagnation, state.verdict.result = "PASS"
    PROVE  pc' \in {"Memory", "Done"} /\ i' = i
<1> DEFINE pattern == StagnationPattern(state.attempt, state.errors, state.verdict.failures)
           st      == [state EXCEPT !.stagnation = pattern,
                                    !.errors = Remember(@, state.verdict.failures)]
           route   == VerifierTransition(st.verdict, st.attempt, pattern, st.criticals,
                                         st.cost, Untried(st) # {})
<1>1. st.verdict.result = "PASS"
  BY DEF TypeOK, WorkflowState
<1>2. route.next = "MEMORY_CONSOLIDATION" /\ route.reason = "none"
  BY <1>1, TransitionFacts
<1>3. (IF route.reason # "stagnation" THEN route.next
       ELSE LadderAction(ConsecutiveStagnation(count, pattern))) = "MEMORY_CONSOLIDATION"
  BY <1>2
<1> HIDE DEF pattern, st, route
<1>4. Leave(st) /\ i' = i
  BY <1>3 DEF Stagnation, pattern, st, route
<1> QED
  BY <1>4 DEF Leave

\* A stage keeps a FAIL, and the block on nothing else.
LEMMA StagesVerdict ==
    ASSUME TypeOK, Stages
    PROVE  /\ Kept(state.verdict, state'.verdict)
           /\ state'.checkpoint = state.checkpoint
           /\ pc' = "GitCheckpoint" => state'.verdict.result = "PASS"
           /\ pc \in StagePoints
<1>0. state.verdict \in Verdict /\ state.diff \in BOOLEAN /\ state \in WorkflowState
  BY DEF TypeOK, WorkflowState
<1>1. CASE TypeCheck \/ Tests \/ Api \/ Mutation
  <2>1. PICK v : /\ Kept(state.verdict, v)
                 /\ state' = [state EXCEPT !.verdict = v]
                 /\ pc' # "GitCheckpoint"
                 /\ pc \in StagePoints
    BY <1>0, <1>1, OutcomesKeep DEF TypeCheck, Tests, Api, Mutation, VerifierStage, Returns, StagePoints
  <2> QED
    BY <1>0, <2>1 DEF WorkflowState
<1>2. CASE Visual
  <2>1. PICK v \in VisualOutcomes(state.verdict, state.diff) :
          Returns("Visual", [state EXCEPT !.verdict = v], AfterVerifier([state EXCEPT !.verdict = v]))
    BY <1>2 DEF Visual
  <2>2. Kept(state.verdict, v) /\ pc \in StagePoints
    BY <1>0, <2>1, OutcomesKeep DEF Returns, StagePoints
  <2>3. state' = [state EXCEPT !.verdict = v] /\ pc' = AfterVerifier(state')
    BY <2>1 DEF Returns
  <2> QED
    BY <1>0, <2>2, <2>3, ReviewFacts DEF WorkflowState
<1> QED
  BY <1>1, <1>2 DEF Stages

LEMMA CriticsVerdict ==
    ASSUME TypeOK, Critics
    PROVE  /\ \/ state'.verdict = state.verdict
              \/ state'.verdict.result = "FAIL"
           /\ state'.checkpoint = state.checkpoint
           /\ pc' = "GitCheckpoint" => state'.verdict.result = "PASS"
           /\ pc = "Critics"
<1>1. PICK n \in CriticalCounts(state.diff, state.criticals) :
        \E v \in CriticsOutcomes(state.verdict, IF state.diff THEN n ELSE 0) :
          LET st == [state EXCEPT !.phase = "VERIFIER", !.criticals = n, !.verdict = v]
          IN  Returns("Critics", st, IF v.blocked THEN AfterVerifier(st) ELSE "TypeCheck")
  BY DEF Critics
<1>2. (IF state.diff THEN n ELSE 0) \in Nat
  BY MaxCriticalsAssumption DEF CriticalCounts, TypeOK, WorkflowState
<1>3. PICK v \in CriticsOutcomes(state.verdict, IF state.diff THEN n ELSE 0) :
        LET st == [state EXCEPT !.phase = "VERIFIER", !.criticals = n, !.verdict = v]
        IN  Returns("Critics", st, IF v.blocked THEN AfterVerifier(st) ELSE "TypeCheck")
  BY <1>1
<1>4. v = state.verdict \/ v.result = "FAIL"
  BY <1>2, <1>3, CriticsKeep DEF TypeOK, WorkflowState
<1>5. /\ pc = "Critics"
      /\ state' = [state EXCEPT !.phase = "VERIFIER", !.criticals = n, !.verdict = v]
      /\ pc' \in {AfterVerifier(state'), "TypeCheck"}
  BY <1>3 DEF Returns
<1>6. state'.verdict = v /\ state'.checkpoint = state.checkpoint
  BY <1>5 DEF TypeOK, WorkflowState
<1> QED
  BY <1>4, <1>5, <1>6, ReviewFacts

\* No branch wins: its parent's verdict is a FAIL, there is no commit to fork
\* from without it, and its stages hand the FAIL on.
LEMMA NoBranchWins ==
    ASSUME TypeOK, VerdictInv, pc = "Branches", state.verdict.result = "FAIL"
    PROVE  ~Winner(BranchStart(state))
<1>1. ~state.checkpoint
  BY DEF VerdictInv, Terminal
<1>2. BranchStart(state) = state /\ StateOK(state)
  BY <1>1 DEF BranchStart, TypeOK, StateOK
<1> QED
  BY <1>2, WinnerParts DEF Kept

\* How the workflow gets to a commit, and where a session with one goes.
LEMMA CommitMoves ==
    ASSUME TypeOK, [Next]_vars
    PROVE  /\ pc' = "GitCheckpoint" =>
                Critics \/ Stages \/ Flakiness \/ TestValidity \/ UNCHANGED <<pc, state>>
           /\ pc \in {"Memory"} \cup Terminal => pc' \in {"Memory"} \cup Terminal
           /\ pc = "Stagnation" => \/ Stagnation
                                   \/ pc' \in {"Done", "Thrown"}
                                   \/ UNCHANGED <<pc, state>>
<1> USE DEF Returns, Terminal
<1>1. CASE Setup
  BY <1>1
  DEF Setup, Bootstrap, Scout, Briefing, Baseline, Feasibility, Gate, AskHuman, ValueNode, Plan,
      TddGate, SandboxValidation, Implement, FirstCycle, Team, Leave
<1>2. CASE Actor \/ Preflight \/ GitCheckpoint \/ Debugger \/ Replan \/ Branches
  BY <1>2 DEF Actor, Preflight, GitCheckpoint, Debugger, Replan, Branches, NextCycle, Leave, Winner
<1>3. CASE Critics \/ Stages \/ Flakiness \/ TestValidity
  BY <1>3 DEF Critics, Stages, TypeCheck, Tests, Api, Mutation, Visual, VerifierStage, Flakiness,
              TestValidity
<1>4. CASE Stagnation
  <2>1. pc = "Stagnation" /\ pc' # "GitCheckpoint"
    BY <1>4 DEF Stagnation, Leave, NextCycle, AskHuman
  <2> QED
    BY <1>4, <2>1
<1>5. CASE Human
  BY <1>5 DEF Human, Ask, Refused, WaitTimeout, TurnDown, Approved, NextCycle, Leave
<1>6. CASE Memory \/ ActivityFails \/ Decide \/ Closed \/ UNCHANGED vars
  BY <1>6 DEF Memory, ActivityFails, Decide, Closed, vars
<1>7. CASE Abort
  BY <1>7 DEF Abort, InScope, CyclePoints, HumanPoints
<1> QED
  BY <1>1, <1>2, <1>3, <1>4, <1>5, <1>6, <1>7 DEF Next, Step, Cycle, Stages

LEMMA VerdictStep == TypeOK /\ VerdictInv /\ [Next]_vars => VerdictInv'
<1> SUFFICES ASSUME TypeOK, VerdictInv, [Next]_vars PROVE VerdictInv'
  OBVIOUS
<1>0. StateOK(state) /\ state.verdict \in Verdict /\ state.checkpoint \in BOOLEAN
  BY DEF TypeOK, StateOK, WorkflowState
<1>1. CASE Stages
  <2>1. ~state.checkpoint
    BY <1>1, StagesVerdict DEF VerdictInv, StagePoints, Terminal
  <2> QED
    BY <1>1, <2>1, StagesVerdict DEF VerdictInv, Kept
<1>2. CASE Critics
  <2>1. ~state.checkpoint
    BY <1>2, CriticsVerdict DEF VerdictInv, Terminal
  <2> QED
    BY <1>2, <2>1, CriticsVerdict DEF VerdictInv
<1>3. CASE GitCheckpoint
  <2>1. PICK k : /\ pc = "GitCheckpoint" /\ pc' = "Stagnation"
                 /\ state' = [state EXCEPT !.checkpoint = k]
    BY <1>3 DEF GitCheckpoint, Returns
  <2>2. state'.verdict = state.verdict
    BY <1>0, <2>1 DEF StateOK, WorkflowState
  <2> QED
    BY <2>1, <2>2 DEF VerdictInv
<1>4. CASE Branches
  <2>1. pc = "Branches" /\ ~state.checkpoint
    BY <1>4 DEF Branches, VerdictInv, Terminal
  <2>2. CASE Winner(BranchStart(state))
    <3>1. BranchStart(state) = state
      BY <2>1 DEF BranchStart
    <3>2. PICK diff \in BOOLEAN, cost \in CallCosts, verdict \in Verdict, checkpoint \in BOOLEAN :
            /\ Kept(state.verdict, verdict)
            /\ verdict.result = "PASS"
            /\ Leave(Won(state, cost, diff, verdict, checkpoint))
      BY <1>0, <2>2, <3>1, WinnerParts
    <3>3. state'.verdict = verdict /\ pc' \in {"Memory", "Done"}
      BY <1>0, <3>2 DEF Leave, Won, StateOK, WorkflowState
    <3> QED
      BY <3>2, <3>3 DEF VerdictInv, Kept, Terminal
  <2>3. CASE ~Winner(BranchStart(state))
    <3>1. PICK b : NextCycle([state EXCEPT !.phase = "HITL_ESCALATION", !.exhausted = b])
      BY <1>4, <2>3 DEF Branches
    <3>2. state'.verdict = state.verdict /\ state'.checkpoint = state.checkpoint
      BY <1>0, <3>1 DEF NextCycle, Leave, StateOK, WorkflowState
    <3>3. pc' # "GitCheckpoint"
      BY <3>1 DEF NextCycle, Leave
    <3> QED
      BY <2>1, <3>2, <3>3 DEF VerdictInv
  <2> QED
    BY <2>2, <2>3
<1>5. CASE Memory
  <2>1. pc' = "Done" /\ state' = [state EXCEPT !.phase = "COMPLETE", !.lesson = TRUE]
    BY <1>5 DEF Memory, Returns
  <2>2. state'.verdict = state.verdict /\ state'.checkpoint = state.checkpoint
    BY <1>0, <2>1 DEF StateOK, WorkflowState
  <2> QED
    BY <2>1, <2>2 DEF VerdictInv, Terminal
<1>6. CASE Team \/ Actor
  <2>1. pc \in {"Team", "Actor"} /\ pc' # "GitCheckpoint"
    BY <1>6 DEF Team, Actor, Returns, FirstCycle, Leave
  <2>2. state'.verdict = state.verdict /\ state'.checkpoint = state.checkpoint
    <3>1. CASE Team
      <4>1. PICK c : state' = [state EXCEPT !.cost = c, !.diff = TRUE]
        BY <3>1 DEF Team, FirstCycle, Leave
      <4> QED
        BY <1>0, <4>1 DEF StateOK, WorkflowState
    <3>2. CASE Actor
      <4>1. PICK c, d, n : state' = [state EXCEPT !.phase = "PREFLIGHT", !.attempt = n,
                                                  !.cost = c, !.diff = d]
        BY <3>2 DEF Actor, Returns
      <4> QED
        BY <1>0, <4>1 DEF StateOK, WorkflowState
    <3> QED
      BY <1>6, <3>1, <3>2
  <2> QED
    BY <2>1, <2>2 DEF VerdictInv, Terminal
<1>7. CASE Same(state') /\ ~Stages /\ ~Critics
  <2>1. state'.verdict = state.verdict /\ state'.checkpoint = state.checkpoint
    BY <1>7 DEF Same
  <2>2. pc' = "GitCheckpoint" => state.verdict.result = "PASS"
    <3>1. CASE Flakiness \/ TestValidity
      <4>1. CASE Flakiness
        <5> DEFINE st == [state EXCEPT !.phase = "TEST_VALIDITY_REVIEW"]
        <5>1. st.verdict = state.verdict
          BY <1>0 DEF StateOK, WorkflowState
        <5> HIDE DEF st
        <5>2. pc' = "GitCheckpoint" => AfterReview(st) = "GitCheckpoint"
          BY <4>1 DEF Flakiness, NextCycle, Leave, st
        <5> QED
          BY <5>1, <5>2, ReviewFacts
      <4>2. CASE TestValidity
        <5>1. pc' = "GitCheckpoint" => AfterReview(state) = "GitCheckpoint"
          BY <4>2 DEF TestValidity, AskHuman
        <5> QED
          BY <5>1, ReviewFacts
      <4> QED
        BY <3>1, <4>1, <4>2
    <3>2. CASE UNCHANGED <<pc, state>>
      BY <3>2 DEF VerdictInv
    <3> QED
      BY <1>7, <3>1, <3>2, CommitMoves
  <2>3. state.checkpoint => pc' \in {"Stagnation", "Memory"} \cup Terminal
    <3>1. CASE pc = "Stagnation"
      BY <3>1, CommitMoves, PassLeaves DEF VerdictInv, Terminal
    <3>2. CASE pc # "Stagnation"
      BY <3>2, CommitMoves DEF VerdictInv
    <3> QED
      BY <3>1, <3>2
  <2> QED
    BY <2>1, <2>2, <2>3 DEF VerdictInv
<1> QED
  BY <1>1, <1>2, <1>3, <1>4, <1>5, <1>6, <1>7, Quiet

\* The inductive invariant behind the two theorems below.
LEMMA VerdictsPlaced == Spec => []VerdictInv
<1>1. Init => VerdictInv
  BY NoVerdictType DEF Init, InitialState, NoVerdict, VerdictInv
<1>2. TypeOK /\ VerdictInv /\ [Next]_vars => VerdictInv'
  BY VerdictStep
<1> QED
  BY <1>1, <1>2, TypeCorrect, PTL DEF Spec

\* A commit exists only for a session whose verdict is PASS, and a PASS is never
\* blocked by a critic (git-checkpoint/impl.ts commits after the verifier passed).
THEOREM CheckpointsPassed == Spec => []CheckpointedTreePassed
<1>1. TypeOK /\ VerdictInv => CheckpointedTreePassed
  BY DEF VerdictInv, CheckpointedTreePassed
<1> QED
  BY <1>1, TypeCorrect, VerdictsPlaced, PTL

LEMMA FailIsKept ==
    ASSUME TypeOK, VerdictInv, [Next]_vars, state.verdict.result = "FAIL"
    PROVE  state'.verdict.result = "FAIL"
<1>0. StateOK(state)
  BY DEF TypeOK, StateOK
<1>1. CASE Stages
  BY <1>1, StagesVerdict DEF Kept
<1>2. CASE Critics
  BY <1>2, CriticsVerdict
<1>3. CASE Branches
  <2>1. ~Winner(BranchStart(state))
    BY <1>3, NoBranchWins DEF Branches
  <2>2. PICK b : NextCycle([state EXCEPT !.phase = "HITL_ESCALATION", !.exhausted = b])
    BY <1>3, <2>1 DEF Branches
  <2> QED
    BY <1>0, <2>2 DEF NextCycle, Leave, StateOK, WorkflowState
<1>4. CASE Team
  <2>1. PICK c : state' = [state EXCEPT !.cost = c, !.diff = TRUE]
    BY <1>4 DEF Team, FirstCycle, Leave
  <2> QED
    BY <1>0, <2>1 DEF StateOK, WorkflowState
<1>5. CASE Actor
  <2>1. PICK c, d, n : state' = [state EXCEPT !.phase = "PREFLIGHT", !.attempt = n,
                                              !.cost = c, !.diff = d]
    BY <1>5 DEF Actor, Returns
  <2> QED
    BY <1>0, <2>1 DEF StateOK, WorkflowState
<1>6. CASE GitCheckpoint \/ Memory
  BY <1>0, <1>6 DEF GitCheckpoint, Memory, Returns, StateOK, WorkflowState
<1>7. CASE Same(state')
  BY <1>7 DEF Same
<1> QED
  BY <1>1, <1>2, <1>3, <1>4, <1>5, <1>6, <1>7, Quiet

\* A FAIL is final: no stage, critic or branch of a later cycle replaces it by
\* another verdict, in any configuration.
THEOREM FailStays == Spec => FailIsFinal
<1>1. TypeOK /\ VerdictInv /\ [Next]_vars
        => [state.verdict.result = "FAIL" => state'.verdict.result = "FAIL"]_vars
  BY FailIsKept
<1> QED
  BY <1>1, TypeCorrect, VerdictsPlaced, PTL DEF Spec, FailIsFinal

\* Every cycle that is followed by another ended in a FAIL: once the stages ran
\* there is a verdict, and what does not leave the loop with a PASS goes on, or asks
\* a human, with a FAIL.
FailPoints == {"Flakiness", "TestValidity", "Debugger", "Branches", "Replan"}
JudgedPoints == {"Tests", "Api", "Mutation", "Visual", "Stagnation"}

LaterCyclesFail == i > 0 => state.verdict.result = "FAIL"

JudgedInv ==
    /\ LaterCyclesFail
    /\ pc \in FailPoints \/ (pc \in HumanPoints /\ ~InSetup) => state.verdict.result = "FAIL"
    /\ pc \in JudgedPoints => state.verdict.result # "NONE"

LEMMA AfterVerdict ==
    ASSUME NEW st, st.verdict.result \in {"PASS", "FAIL"}
    PROVE  /\ AfterVerifier(st) \in {"Flakiness", "GitCheckpoint", "Stagnation"}
           /\ AfterVerifier(st) = "Flakiness" => st.verdict.result = "FAIL"
  BY DEF AfterVerifier, AfterReview

\* Before the first FAIL the loop is in its first cycle, and stays in it.
LEMMA FirstJudged ==
    ASSUME TypeOK, VerdictInv, JudgedInv, [Next]_vars, state.verdict.result # "FAIL"
    PROVE  JudgedInv'
<1>0. /\ StateOK(state) /\ state.verdict \in Verdict
      /\ state.verdict.result \in {"NONE", "PASS", "FAIL"}
  BY DEF TypeOK, StateOK, WorkflowState, Verdict
<1>1. /\ i = 0 /\ pc \notin FailPoints
      /\ pc \in HumanPoints => InSetup
      /\ pc \in JudgedPoints => state.verdict.result = "PASS"
  BY <1>0 DEF JudgedInv, LaterCyclesFail, TypeOK
<1> DEFINE Quietly == /\ i' = i
                      /\ pc' \notin FailPoints \cup JudgedPoints
                      /\ pc' \in HumanPoints => reason' \in SetupReasons
<1>2. ASSUME Quietly PROVE JudgedInv'
  BY <1>1, <1>2 DEF JudgedInv, LaterCyclesFail, InSetup
<1>3. CASE Setup
  <2>1. Quietly
    BY <1>3
    DEF Setup, Bootstrap, Scout, Briefing, Baseline, Feasibility, Gate, AskHuman, ValueNode, Plan,
        TddGate, SandboxValidation, Implement, FirstCycle, Team, Leave, Returns, FailPoints,
        JudgedPoints, HumanPoints, SetupReasons
  <2> QED
    BY <1>2, <2>1
<1>4. CASE Stages
  <2>1. state'.verdict \in Verdict /\ state'.verdict.result \in {"PASS", "FAIL"}
    BY <1>4, StagesVerdict DEF Kept, Verdict
  <2>2. CASE TypeCheck \/ Tests \/ Api \/ Mutation
    <3>1. i' = i /\ pc' \in {"Tests", "Api", "Mutation", "Visual"}
      BY <2>2 DEF TypeCheck, Tests, Api, Mutation, VerifierStage, Returns
    <3> QED
      BY <1>1, <2>1, <3>1 DEF JudgedInv, LaterCyclesFail, FailPoints, HumanPoints
  <2>3. CASE Visual
    <3>1. i' = i /\ pc' = AfterVerifier(state')
      BY <2>3 DEF Visual, Returns
    <3>2. /\ pc' \in {"Flakiness", "GitCheckpoint", "Stagnation"}
          /\ pc' = "Flakiness" => state'.verdict.result = "FAIL"
      BY <2>1, <3>1, AfterVerdict
    <3> QED
      BY <1>1, <2>1, <3>1, <3>2 DEF JudgedInv, LaterCyclesFail, FailPoints, HumanPoints
  <2> QED
    BY <1>4, <2>2, <2>3 DEF Stages
<1>5. CASE Critics
  <2>1. PICK n, v : /\ i' = i /\ pc = "Critics"
                    /\ state' = [state EXCEPT !.phase = "VERIFIER", !.criticals = n, !.verdict = v]
                    /\ pc' = IF v.blocked THEN AfterVerifier(state') ELSE "TypeCheck"
    BY <1>5 DEF Critics, Returns
  <2>2. state'.verdict = v
    BY <1>0, <2>1 DEF StateOK, WorkflowState
  <2>3. CASE v.blocked
    <3>1. v.result = "FAIL"
      BY <1>5, <2>2, <2>3, CriticsVerdict DEF VerdictInv
    <3> QED
      BY <2>2, <3>1 DEF JudgedInv, LaterCyclesFail
  <2>4. CASE ~v.blocked
    <3>1. Quietly
      BY <2>1, <2>4 DEF FailPoints, JudgedPoints, HumanPoints
    <3> QED
      BY <1>2, <3>1
  <2> QED
    BY <2>3, <2>4
<1>6. CASE Actor \/ Preflight
  <2>1. Quietly
    BY <1>6 DEF Actor, Preflight, Returns, FailPoints, JudgedPoints, HumanPoints
  <2> QED
    BY <1>2, <2>1
<1>7. CASE GitCheckpoint
  <2>1. PICK k : /\ pc = "GitCheckpoint" /\ pc' = "Stagnation" /\ i' = i
                 /\ state' = [state EXCEPT !.checkpoint = k]
    BY <1>7 DEF GitCheckpoint, Returns
  <2>2. state'.verdict = state.verdict /\ state.verdict.result = "PASS"
    BY <1>0, <2>1 DEF StateOK, WorkflowState, VerdictInv
  <2> QED
    BY <1>1, <2>1, <2>2 DEF JudgedInv, LaterCyclesFail, FailPoints, HumanPoints
<1>8. CASE Flakiness \/ TestValidity \/ Debugger \/ Replan \/ Branches
  BY <1>1, <1>8 DEF Flakiness, TestValidity, Debugger, Replan, Branches, FailPoints
<1>9. CASE Stagnation
  <2>1. pc = "Stagnation"
    BY <1>9 DEF Stagnation
  <2>2. state.verdict.result = "PASS"
    BY <1>1, <2>1 DEF JudgedPoints
  <2>3. Quietly
    BY <1>9, <2>2, PassLeaves DEF FailPoints, JudgedPoints, HumanPoints
  <2> QED
    BY <1>2, <2>3
<1>10. CASE Human
  <2>1. pc \in HumanPoints /\ InSetup
    BY <1>1, <1>10 DEF Human, Ask, Returns, Refused, WaitTimeout, Approved, HumanPoints
  <2>2. Quietly
    BY <1>10, <2>1
    DEF Human, Ask, Returns, Refused, WaitTimeout, TurnDown, Approved, Leave, InSetup, LoopReasons,
        SetupReasons, FailPoints, JudgedPoints, HumanPoints
  <2> QED
    BY <1>2, <2>2
<1>11. CASE Memory \/ ActivityFails \/ Abort
  <2>1. i' = i /\ reason' = reason
    BY <1>11 DEF Memory, ActivityFails, Abort, Returns
  <2>2. pc' \in Terminal \/ UNCHANGED <<pc, state>>
    BY <1>11 DEF Memory, ActivityFails, Abort, Returns, Terminal
  <2>3. CASE pc' \in Terminal
    <3>1. Quietly
      BY <2>1, <2>3 DEF Terminal, FailPoints, JudgedPoints, HumanPoints
    <3> QED
      BY <1>2, <3>1
  <2>4. CASE UNCHANGED <<pc, state>>
    BY <2>1, <2>4 DEF JudgedInv, LaterCyclesFail, InSetup
  <2> QED
    BY <2>2, <2>3, <2>4
<1>12. CASE Decide \/ Closed \/ UNCHANGED vars
  BY <1>12 DEF Decide, Closed, vars, JudgedInv, LaterCyclesFail, InSetup
<1> QED
  BY <1>3, <1>4, <1>5, <1>6, <1>7, <1>8, <1>9, <1>10, <1>11, <1>12 DEF Next, Step, Cycle, Stages

\* A session that needs a second cycle never passes: the verdict a cycle leaves is
\* the one the next starts from, no stage replaces a FAIL, and only a FAIL leads to a
\* next cycle. Whatever the actor repairs, such a session ends with a human, its
\* last cycle or an abort, in any configuration.
THEOREM NoLaterCyclePasses == Spec => []LaterCyclesFail
<1>1. Init => JudgedInv
  BY DEF Init, JudgedInv, LaterCyclesFail, FailPoints, JudgedPoints, HumanPoints
<1>2. TypeOK /\ VerdictInv /\ JudgedInv /\ [Next]_vars => JudgedInv'
  <2> SUFFICES ASSUME TypeOK, VerdictInv, JudgedInv, [Next]_vars PROVE JudgedInv'
    OBVIOUS
  <2>1. CASE state.verdict.result = "FAIL"
    BY <2>1, FailIsKept DEF JudgedInv, LaterCyclesFail
  <2>2. CASE state.verdict.result # "FAIL"
    BY <2>2, FirstJudged
  <2> QED
    BY <2>1, <2>2
<1>3. JudgedInv => LaterCyclesFail
  BY DEF JudgedInv
<1> QED
  BY <1>1, <1>2, <1>3, TypeCorrect, VerdictsPlaced, PTL DEF Spec

-----------------------------------------------------------------------------
\* The correction loop: what it has spent, tried and remembered when it reaches a
\* point.  Three invariants tie the loop's own counters (i, count, teamPass) to the
\* fields of the state the activities keep (attempt, cost, errors, exhausted),
\* which the code keeps apart.  Then the contract: every step of the workflow is a
\* step of Session or leaves the session as it is, and once the operator aborted
\* nothing new is started.

\* The session has not entered the loop.
Preparing == pc \in SetupPoints \/ (pc \in HumanPoints /\ InSetup)

\* What a cycle that failed may lead to other than the next cycle or a human.
Retries == {"Debugger", "Branches", "Replan"}

\* Attempts and cycles are counted apart and stay together, but for the cycle
\* that the agent team's work stands in for; a failed cycle is followed by a
\* retry only below both limits; no failure names a file, so that no test is
\* ever found flaky.
LoopInv ==
    /\ state.verdict.files = {}
    /\ pc \in HumanPoints => reason # "none"
    /\ Preparing => i = 0 /\ state.attempt = 0
    /\ Preparing /\ pc # "Team" => state.cost = 0
    /\ pc = "Actor" /\ ~teamPass => state.attempt = i
    /\ InScope /\ pc # "Actor" /\ ~teamPass => state.attempt = i + 1
    /\ pc \in Retries => state.attempt < MaxCycles /\ state.cost < Critical
    /\ NoRetryOverBudget
    /\ UnresolvedReachesHuman

-----------------------------------------------------------------------------
\* The moves the actions share.

LEMMA LeaveMoves ==
    ASSUME NEW st, Leave(st)
    PROVE  /\ state' = st
           /\ pc' \in {"Memory", "Done"}
           /\ st.phase = "FAILED" \/ aborted => pc' = "Done"
  BY DEF Leave

LEMMA NextCycleMoves ==
    ASSUME NEW st, NextCycle(st)
    PROVE  /\ state' = st /\ i' = i + 1
           /\ \/ pc' = "Actor" /\ i + 1 < MaxCycles
              \/ pc' = "Memory" /\ ~(i + 1 < MaxCycles)
              \/ pc' = "Done"
  BY DEF NextCycle, Leave

\* The two ways from setup into the loop, and the two the agent team adds: its
\* nodes, or nowhere.
LEMMA ImplementMoves ==
    ASSUME NEW st, NEW n, Implement(st, n)
    PROVE  /\ state' = st /\ UNCHANGED <<i, count, reason, human, aborted, history>>
           /\ pc' \in {"Team", "Stuck", "Actor", "Done"}
  BY DEF Implement, FirstCycle, Leave

\* The fields that say what the session did, after an edit of the others.
LEMMA EditsSame ==
    ASSUME TypeOK, NEW p, NEW c
    PROVE  /\ Same([state EXCEPT !.phase = p])
           /\ Same([state EXCEPT !.phase = p, !.candidates = c])
           /\ [state EXCEPT !.phase = p].errors = state.errors
           /\ [state EXCEPT !.phase = p, !.candidates = c].errors = state.errors
  BY DEF TypeOK, WorkflowState, Same

LEMMA PointsApart ==
    /\ "Team" \in SetupPoints /\ "Stagnation" \in CyclePoints
    /\ Retries \subseteq CyclePoints
    /\ CyclePoints \cap (SetupPoints \cup HumanPoints \cup {"Memory"} \cup Terminal) = {}
    /\ HumanPoints \cap (SetupPoints \cup {"Memory"} \cup Terminal) = {}
    /\ SetupPoints \cap ({"Memory"} \cup Terminal) = {}
    /\ SetupReasons \cap (LoopReasons \cup {"none", "test_fault_needs_human_approval"}) = {}
  BY DEF Retries, SetupPoints, CyclePoints, StagePoints, HumanPoints, Terminal, SetupReasons, LoopReasons

\* Where a cycle's judgement leads: a pass out of the loop; a failure below both
\* limits to a retry or the next cycle; anything else to a human, about
\* stagnation only on the fourth stagnant cycle in a row.
LEMMA StagnationMoves ==
    ASSUME TypeOK, Stagnation
    PROVE  LET pattern == StagnationPattern(state.attempt, state.errors, state.verdict.failures)
           IN  /\ pc = "Stagnation"
               /\ Same(state')
               /\ state'.errors = Remember(state.errors, state.verdict.failures)
               /\ count' = ConsecutiveStagnation(count, pattern)
               /\ UNCHANGED <<teamPass, history>>
               /\ \/ /\ state.verdict.result = "PASS"
                     /\ pc' \in {"Memory", "Done"} /\ UNCHANGED <<i, reason>>
                  \/ /\ state.attempt < MaxCycles /\ state.cost < Critical
                     /\ \/ NextCycle(state') /\ UNCHANGED reason
                        \/ pc' \in Retries /\ UNCHANGED <<i, reason>>
                  \/ /\ pc' = "Ask" /\ reason' \in LoopReasons /\ UNCHANGED i
                     /\ reason' = "stagnation" => pattern # "none" /\ count' >= 4
<1> DEFINE pattern == StagnationPattern(state.attempt, state.errors, state.verdict.failures)
           n       == ConsecutiveStagnation(count, pattern)
           st      == [state EXCEPT !.stagnation = pattern,
                                    !.errors = Remember(@, state.verdict.failures)]
           route   == VerifierTransition(st.verdict, st.attempt, pattern, st.criticals,
                                         st.cost, Untried(st) # {})
           why     == Escalation(st.verdict, st.attempt, pattern, st.criticals, st.cost)
           next    == IF route.reason # "stagnation" THEN route.next ELSE LadderAction(n)
<1>1. /\ Same(st) /\ st.errors = Remember(state.errors, state.verdict.failures)
      /\ state.attempt \in Nat /\ state.cost \in Nat /\ count \in Nat
      /\ st.attempt = state.attempt /\ st.cost = state.cost /\ st.verdict = state.verdict
  BY DEF TypeOK, WorkflowState, Same
<1>2. /\ pc = "Stagnation" /\ count' = n /\ UNCHANGED <<teamPass, history>>
      /\ \/ next = "MEMORY_CONSOLIDATION" /\ Leave(st) /\ UNCHANGED <<i, reason>>
         \/ next \in {"ACTOR", "enrich_prompt"} /\ NextCycle(st) /\ UNCHANGED reason
         \/ /\ next \in {"INTELLIGENT_DEBUGGER", "auto_debug", "SPECULATIVE_BRANCH",
                         "speculative_branch", "REPLAN"}
            /\ state' = st /\ pc' \in Retries /\ UNCHANGED <<i, reason>>
         \/ /\ next \notin {"MEMORY_CONSOLIDATION", "ACTOR", "enrich_prompt",
                            "INTELLIGENT_DEBUGGER", "auto_debug", "SPECULATIVE_BRANCH",
                            "speculative_branch", "REPLAN"}
            /\ AskHuman(route.reason) /\ state' = st /\ UNCHANGED i
  BY DEF Stagnation, Retries
<1>3. n \in Nat /\ n = IF pattern = "none" THEN 0 ELSE count + 1
  BY <1>1, ConsecutiveType
<1>4. /\ why \in LoopReasons \cup {"none"}
      /\ why \in {"none", "stagnation"} => st.attempt < MaxCycles /\ st.cost < Critical
      /\ why = "stagnation" => pattern # "none"
  BY <1>1, EscalationFacts, MaxCyclesAssumption, CriticalAssumption
<1>5. \/ /\ st.verdict.result = "PASS"
         /\ route.next = "MEMORY_CONSOLIDATION" /\ route.reason = "none"
      \/ why # "none" /\ route.next = "HITL_ESCALATION" /\ route.reason = why
      \/ /\ why = "none" /\ route.reason = "none"
         /\ route.next \in {"INTELLIGENT_DEBUGGER", "SPECULATIVE_BRANCH", "REPLAN", "ACTOR"}
  BY TransitionFacts
<1> HIDE DEF pattern, n, st, route, why
<1>6. LadderAction(n) \in {"none", "enrich_prompt", "auto_debug", "speculative_branch",
                           "targeted_hitl", "full_escalation"}
      /\ (n > 0 => LadderAction(n) # "none")
      /\ (n < 4 => LadderAction(n) \notin {"targeted_hitl", "full_escalation"})
  BY <1>3, LadderFacts
<1>7. \/ /\ next = "MEMORY_CONSOLIDATION" /\ st.verdict.result = "PASS"
      \/ /\ next \in {"ACTOR", "enrich_prompt", "INTELLIGENT_DEBUGGER", "auto_debug",
                      "SPECULATIVE_BRANCH", "speculative_branch", "REPLAN"}
         /\ why \in {"none", "stagnation"}
      \/ /\ next \in {"HITL_ESCALATION", "targeted_hitl", "full_escalation"}
         /\ route.reason \in LoopReasons
         /\ route.reason = "stagnation" => pattern # "none" /\ n >= 4
  BY <1>1, <1>3, <1>4, <1>5, <1>6 DEF LoopReasons
<1> HIDE DEF next
<1>8. CASE Leave(st) /\ next = "MEMORY_CONSOLIDATION" /\ UNCHANGED <<i, reason>>
  BY <1>1, <1>2, <1>7, <1>8, LeaveMoves DEF n, pattern, Same
<1>9. CASE next \in {"ACTOR", "enrich_prompt"} /\ NextCycle(st) /\ UNCHANGED reason
  <2>1. state' = st /\ NextCycle(state')
    BY <1>9, NextCycleMoves
  <2> QED
    BY <1>1, <1>2, <1>4, <1>7, <1>9, <2>1 DEF n, pattern
<1>10. CASE /\ next \in {"INTELLIGENT_DEBUGGER", "auto_debug", "SPECULATIVE_BRANCH",
                         "speculative_branch", "REPLAN"}
            /\ state' = st /\ pc' \in Retries /\ UNCHANGED <<i, reason>>
  BY <1>1, <1>2, <1>4, <1>7, <1>10 DEF n, pattern
<1>11. CASE next \notin {"MEMORY_CONSOLIDATION", "ACTOR", "enrich_prompt",
                         "INTELLIGENT_DEBUGGER", "auto_debug", "SPECULATIVE_BRANCH",
                         "speculative_branch", "REPLAN"}
            /\ AskHuman(route.reason) /\ state' = st /\ UNCHANGED i
  <2>1. pc' = "Ask" /\ reason' = route.reason
    BY <1>11 DEF AskHuman
  <2> QED
    BY <1>1, <1>2, <1>7, <1>11, <2>1 DEF n, pattern
<1> QED
  BY <1>2, <1>8, <1>9, <1>10, <1>11

-----------------------------------------------------------------------------
\* LoopInv is kept.

LEMMA SetupLoop ==
    ASSUME TypeOK, LoopInv, Setup
    PROVE  LoopInv'
<1>5. Bootstrap \/ Scout \/ Briefing \/ ValueNode \/ TddGate => Same(state')
  <2>1. CASE Scout
    <3>1. PICK c : state' = [state EXCEPT !.phase = "VALUE_NODE", !.candidates = c]
      BY <2>1 DEF Scout, Returns
    <3> QED
      BY <3>1 DEF TypeOK, WorkflowState, Same
  <2>2. CASE Bootstrap \/ Briefing \/ ValueNode
    BY <2>2, EditsKeep DEF Bootstrap, Briefing, ValueNode, Returns
  <2>3. CASE TddGate
    BY <2>3, EditsKeep DEF TddGate, Returns
  <2> QED
    BY <2>1, <2>2, <2>3
<1> USE CriticalAssumption, PointsApart
    DEF LoopInv, Preparing, InSetup, InScope, NoRetryOverBudget, UnresolvedReachesHuman
<1>0. /\ pc \in SetupPoints
      /\ UNCHANGED <<i, history>>
  BY DEF Setup, Bootstrap, Scout, Briefing, Baseline, Feasibility, Gate, ValueNode, Plan,
         TddGate, SandboxValidation, Implement, Team, Returns, SetupPoints
<1>1. CASE Bootstrap \/ Scout \/ Briefing \/ ValueNode \/ TddGate
  <2>1. /\ pc # "Team" /\ pc' \in SetupPoints \ {"Team"}
        /\ UNCHANGED <<reason, teamPass>>
    BY <1>1 DEF Bootstrap, Scout, Briefing, ValueNode, TddGate, Returns, SetupPoints
  <2>2. Same(state')
    BY <1>1, <1>5
  <2> QED
    BY <1>0, <2>1, <2>2 DEF Same
<1>2. CASE Baseline \/ Feasibility
  <2>1. /\ pc # "Team" /\ UNCHANGED teamPass
        /\ \/ pc' \in SetupPoints \ {"Team"} /\ UNCHANGED reason
           \/ pc' \in HumanPoints /\ reason' \in SetupReasons
    BY <1>2 DEF Baseline, Feasibility, Gate, AskHuman, SetupPoints, HumanPoints, SetupReasons
  <2>2. Same(state')
    BY <1>2, EditsSame DEF Baseline, Feasibility, Gate
  <2> QED
    BY <1>0, <2>1, <2>2 DEF Same
<1>3. CASE Plan \/ SandboxValidation
  <2>1. /\ pc # "Team" /\ UNCHANGED reason
        /\ pc' \in {"TddGate", "Team", "Stuck", "Actor", "Done"}
        /\ \E p : state' = [state EXCEPT !.phase = p]
    BY <1>3, ImplementMoves DEF Plan, SandboxValidation
  <2>2. Same(state')
    BY <2>1, EditsSame
  <2>3. /\ "TddGate" \in SetupPoints
        /\ "Actor" \in CyclePoints /\ "Actor" \notin Retries
        /\ {"Done", "Stuck"} \subseteq Terminal
    BY DEF SetupPoints, CyclePoints, Retries, Terminal
  <2> QED
    BY <1>0, <2>1, <2>2, <2>3 DEF Same
<1>4. CASE Team
  <2>1. PICK c : /\ state' = [state EXCEPT !.cost = c, !.diff = TRUE]
                 /\ UNCHANGED reason
                 /\ \/ pc' = "Team"
                    \/ pc' \in {"Preflight", "Done"} /\ teamPass'
    BY <1>4 DEF Team, FirstCycle, Leave
  <2>2. state'.attempt = state.attempt /\ state'.verdict = state.verdict
    BY <2>1 DEF TypeOK, WorkflowState
  <2>3. /\ "Preflight" \in CyclePoints /\ "Preflight" \notin Retries \cup {"Actor"}
        /\ "Done" \in Terminal
    BY DEF CyclePoints, Retries, Terminal
  <2> QED
    BY <1>0, <2>1, <2>2, <2>3
<1> QED
  BY <1>1, <1>2, <1>3, <1>4 DEF Setup

\* The next cycle, from a point of the loop whose cycle may be followed by one.
LEMMA NextCycleLoop ==
    ASSUME TypeOK, LoopInv, InScope, pc # "Actor",
           NextCycle(state'), UNCHANGED <<reason, teamPass>>,
           state'.attempt = state.attempt, state'.cost = state.cost,
           state'.verdict = state.verdict,
           state.cost < Critical \/ reason = "test_fault_needs_human_approval",
           state.attempt < MaxCycles \/ history'.answered = i + 1
    PROVE  LoopInv'
<1> USE CriticalAssumption, MaxCyclesAssumption, PointsApart
    DEF LoopInv, Preparing, InSetup, InScope, NoRetryOverBudget, UnresolvedReachesHuman
<1>1. /\ i' = i + 1
      /\ \/ pc' = "Actor" /\ i + 1 < MaxCycles
         \/ pc' = "Memory" /\ ~(i + 1 < MaxCycles)
         \/ pc' = "Done"
  BY NextCycleMoves
<1>2. /\ "Actor" \in CyclePoints \ Retries
      /\ "Done" \in Terminal
  BY DEF CyclePoints, Retries, Terminal
<1>3. state.cost \in Nat /\ state.attempt \in Nat /\ i \in 0 .. MaxCycles /\ i < MaxCycles
  BY DEF TypeOK, WorkflowState
<1> QED
  BY <1>1, <1>2, <1>3

\* The activities between the actor and the end of the judgement change neither
\* what was spent nor the attempts.
Judging == Preflight \/ Critics \/ Stages \/ Flakiness \/ GitCheckpoint

LEMMA JudgingMoves ==
    ASSUME TypeOK, state.verdict.files = {}, Judging
    PROVE  /\ pc \in CyclePoints \ (Retries \cup {"Actor"})
           /\ pc' \in CyclePoints \ (Retries \cup {"Actor"})
           /\ state'.attempt = state.attempt /\ state'.cost = state.cost
           /\ state'.errors = state.errors
           /\ state'.verdict.files = {}
           /\ UNCHANGED <<i, count, reason, teamPass, history>>
<1>0. /\ state \in WorkflowState /\ state.verdict \in Verdict /\ state.diff \in BOOLEAN
      /\ {"Preflight", "Critics", "TypeCheck", "Tests", "Api", "Mutation", "Visual", "Flakiness",
          "TestValidity", "GitCheckpoint", "Stagnation"} \subseteq CyclePoints \ (Retries \cup {"Actor"})
      /\ \A st : AfterReview(st) \in {"GitCheckpoint", "Stagnation"}
      /\ \A st : AfterVerifier(st) \in {"Flakiness", "GitCheckpoint", "Stagnation"}
  BY DEF TypeOK, WorkflowState, CyclePoints, StagePoints, Retries, AfterReview, AfterVerifier
<1>1. CASE Preflight
  <2>1. PICK n : state' = [state EXCEPT !.phase = "CRITICS", !.criticals = n]
    BY <1>1 DEF Preflight, Returns
  <2> QED
    BY <1>0, <1>1, <2>1 DEF Preflight, Returns, WorkflowState
<1>2. CASE Critics
  <2>1. PICK n \in CriticalCounts(state.diff, state.criticals) :
          \E v \in CriticsOutcomes(state.verdict, IF state.diff THEN n ELSE 0) :
            LET st == [state EXCEPT !.phase = "VERIFIER", !.criticals = n, !.verdict = v]
            IN  Returns("Critics", st, IF v.blocked THEN AfterVerifier(st) ELSE "TypeCheck")
    BY <1>2 DEF Critics
  <2>2. (IF state.diff THEN n ELSE 0) \in Nat
    BY MaxCriticalsAssumption DEF CriticalCounts, TypeOK, WorkflowState
  <2>3. PICK v \in CriticsOutcomes(state.verdict, IF state.diff THEN n ELSE 0) :
          LET st == [state EXCEPT !.phase = "VERIFIER", !.criticals = n, !.verdict = v]
          IN  Returns("Critics", st, IF v.blocked THEN AfterVerifier(st) ELSE "TypeCheck")
    BY <2>1
  <2>4. v.files = {}
    BY <1>0, <2>2, <2>3, CriticsKeep
  <2>5. /\ state' = [state EXCEPT !.phase = "VERIFIER", !.criticals = n, !.verdict = v]
        /\ pc = "Critics" /\ (pc' = "TypeCheck" \/ pc' = AfterVerifier(state'))
        /\ UNCHANGED <<i, count, reason, teamPass, history>>
    BY <2>3 DEF Returns
  <2>6. /\ state'.attempt = state.attempt /\ state'.cost = state.cost
        /\ state'.errors = state.errors /\ state'.verdict = v
    BY <1>0, <2>5 DEF WorkflowState
  <2> QED
    BY <1>0, <2>4, <2>5, <2>6
<1>3. CASE Stages
  <2>1. PICK v : /\ state' = [state EXCEPT !.verdict = v]
                 /\ Kept(state.verdict, v)
                 /\ pc \in {"TypeCheck", "Tests", "Api", "Mutation", "Visual"}
                 /\ \/ pc' \in {"Tests", "Api", "Mutation", "Visual"}
                    \/ pc' = AfterVerifier(state')
                 /\ UNCHANGED <<i, count, reason, teamPass, history>>
    <3>1. CASE TypeCheck \/ Tests \/ Api \/ Mutation
      BY <1>0, <3>1, OutcomesKeep DEF TypeCheck, Tests, Api, Mutation, VerifierStage, Returns
    <3>2. CASE Visual
      BY <1>0, <3>2, OutcomesKeep DEF Visual, Returns
    <3> QED
      BY <1>3, <3>1, <3>2 DEF Stages
  <2>2. /\ state'.attempt = state.attempt /\ state'.cost = state.cost
        /\ state'.errors = state.errors /\ state'.verdict = v
    BY <1>0, <2>1 DEF WorkflowState
  <2> QED
    BY <1>0, <2>1, <2>2 DEF Kept
<1>4. CASE Flakiness
  <2>1. /\ state' = [state EXCEPT !.phase = "TEST_VALIDITY_REVIEW"]
        /\ pc = "Flakiness"
        /\ pc' \in {"TestValidity", "GitCheckpoint", "Stagnation"}
        /\ UNCHANGED <<i, count, reason, teamPass, history>>
    BY <1>0, <1>4 DEF Flakiness
  <2> QED
    BY <1>0, <2>1 DEF WorkflowState
<1>5. CASE GitCheckpoint
  <2>1. PICK k : state' = [state EXCEPT !.checkpoint = k]
    BY <1>5 DEF GitCheckpoint, Returns
  <2> QED
    BY <1>0, <1>5, <2>1 DEF GitCheckpoint, Returns, WorkflowState
<1> QED
  BY <1>1, <1>2, <1>3, <1>4, <1>5 DEF Judging

\* A winning branch ends the loop with a PASS, whatever it started from.
LEMMA WinnerMoves ==
    ASSUME TypeOK, state.verdict.files = {}, Winner(BranchStart(state))
    PROVE  /\ pc' \in {"Memory", "Done"}
           /\ state'.verdict.result = "PASS" /\ state'.verdict.files = {}
           /\ state'.exhausted = state.exhausted
<1>1. StateOK(BranchStart(state)) /\ BranchStart(state).verdict.files = {}
      /\ BranchStart(state).exhausted = state.exhausted
  BY BranchStartType, NoVerdictType DEF TypeOK, StateOK, WorkflowState, BranchStart
<1>2. PICK diff, cost, verdict, checkpoint :
        /\ Kept(BranchStart(state).verdict, verdict)
        /\ verdict.result = "PASS"
        /\ Leave(Won(BranchStart(state), cost, diff, verdict, checkpoint))
  BY <1>1, WinnerParts
<1>3. /\ pc' \in {"Memory", "Done"}
      /\ state' = Won(BranchStart(state), cost, diff, verdict, checkpoint)
  BY <1>2, LeaveMoves
<1> QED
  BY <1>1, <1>2, <1>3 DEF Won, StateOK, WorkflowState, Kept

\* A batch of branches without a winner is marked as tried.
LEMMA LosersMove ==
    ASSUME Branches, ~Winner(BranchStart(state))
    PROVE  \E batch \in Batches(state) :
             /\ history' = [history EXCEPT !.launches =
                               [s \in Strategies |-> @[s] + (IF s \in batch THEN 1 ELSE 0)]]
             /\ NextCycle([state EXCEPT !.phase = "HITL_ESCALATION", !.exhausted = @ \cup batch])
             /\ UNCHANGED <<count, reason, teamPass>>
  BY DEF Branches

LEMMA CycleLoop ==
    ASSUME TypeOK, LoopInv, Cycle
    PROVE  LoopInv'
<1>0. state \in WorkflowState
  BY DEF TypeOK
<1>1. CASE Judging
  BY <1>1, JudgingMoves, PointsApart
  DEF LoopInv, Preparing, InScope, NoRetryOverBudget, UnresolvedReachesHuman
<1>2. CASE Actor
  <2>1. PICK c, d : /\ state' = [state EXCEPT !.phase = "PREFLIGHT", !.attempt = @ + 1,
                                              !.cost = c, !.diff = d]
                    /\ pc = "Actor" /\ pc' = "Preflight"
                    /\ UNCHANGED <<i, reason, teamPass>>
    BY <1>2 DEF Actor, Returns
  <2>2. state'.attempt = state.attempt + 1 /\ state'.verdict = state.verdict
    BY <1>0, <2>1 DEF WorkflowState
  <2>3. "Preflight" \in CyclePoints \ (Retries \cup {"Actor"})
    BY DEF CyclePoints, Retries
  <2> QED
    BY <2>1, <2>2, <2>3, PointsApart
    DEF LoopInv, Preparing, InScope, NoRetryOverBudget, UnresolvedReachesHuman
<1>3. CASE TestValidity
  <2>1. /\ pc = "TestValidity" /\ UNCHANGED <<i, teamPass>>
        /\ \/ pc' = "Ask" /\ reason' = "test_fault_needs_human_approval"
           \/ pc' \in {"GitCheckpoint", "Stagnation"} /\ UNCHANGED reason
    BY <1>3 DEF TestValidity, AskHuman, AfterReview
  <2>2. Same(state')
    BY <1>3, EditsSame DEF TestValidity
  <2>3. /\ {"TestValidity", "GitCheckpoint", "Stagnation"} \subseteq CyclePoints \ (Retries \cup {"Actor"})
        /\ "Ask" \in HumanPoints
    BY DEF CyclePoints, Retries, HumanPoints
  <2> QED
    BY <2>1, <2>2, <2>3, PointsApart
    DEF LoopInv, Preparing, InScope, InSetup, NoRetryOverBudget, UnresolvedReachesHuman, Same
<1>4. CASE Stagnation
  <2>1. pc = "Stagnation" /\ InScope /\ pc # "Actor" /\ Same(state') /\ UNCHANGED <<teamPass, history>>
    BY <1>4, StagnationMoves, PointsApart DEF InScope
  <2>2. CASE pc' \in {"Memory", "Done"} /\ UNCHANGED i /\ state.verdict.result = "PASS"
    BY <2>1, <2>2, PointsApart
    DEF LoopInv, Preparing, InScope, NoRetryOverBudget, UnresolvedReachesHuman, Same, Terminal
  <2>3. CASE /\ state.attempt < MaxCycles /\ state.cost < Critical
             /\ NextCycle(state') /\ UNCHANGED reason
    BY <2>1, <2>3, NextCycleLoop DEF Same
  <2>4. CASE /\ state.attempt < MaxCycles /\ state.cost < Critical
             /\ pc' \in Retries /\ UNCHANGED <<i, reason>>
    <3>1. "Actor" \notin Retries
      BY DEF Retries
    <3> QED
      BY <2>1, <2>4, <3>1, PointsApart
      DEF LoopInv, Preparing, InScope, NoRetryOverBudget, UnresolvedReachesHuman, Same
  <2>5. CASE pc' = "Ask" /\ reason' \in LoopReasons /\ UNCHANGED i
    <3>1. "Ask" \in HumanPoints /\ "none" \notin LoopReasons
      BY DEF HumanPoints, LoopReasons
    <3> QED
      BY <2>1, <2>5, <3>1, PointsApart
      DEF LoopInv, Preparing, InScope, InSetup, NoRetryOverBudget, UnresolvedReachesHuman, Same
  <2> QED
    BY <1>4, <2>2, <2>3, <2>4, <2>5, StagnationMoves
<1>5. CASE Debugger \/ Replan \/ (Branches /\ ~Winner(BranchStart(state)))
  <2>1. /\ pc \in Retries /\ pc # "Actor" /\ UNCHANGED <<reason, teamPass>>
        /\ \E p, c, b : \/ NextCycle([state EXCEPT !.phase = p])
                        \/ NextCycle([state EXCEPT !.phase = p, !.candidates = c])
                        \/ NextCycle([state EXCEPT !.phase = p, !.exhausted = b])
    BY <1>5, LosersMove DEF Debugger, Replan, Branches, Retries
  <2>2. /\ NextCycle(state')
        /\ state'.attempt = state.attempt /\ state'.cost = state.cost
        /\ state'.verdict = state.verdict
    <3>1. PICK p, c, b : \/ NextCycle([state EXCEPT !.phase = p])
                         \/ NextCycle([state EXCEPT !.phase = p, !.candidates = c])
                         \/ NextCycle([state EXCEPT !.phase = p, !.exhausted = b])
      BY <2>1
    <3>2. /\ NextCycle(state')
          /\ state' \in {[state EXCEPT !.phase = p],
                         [state EXCEPT !.phase = p, !.candidates = c],
                         [state EXCEPT !.phase = p, !.exhausted = b]}
      BY <3>1, NextCycleMoves
    <3> QED
      BY <1>0, <3>2 DEF WorkflowState
  <2>3. InScope /\ state.attempt < MaxCycles /\ state.cost < Critical
    BY <2>1, PointsApart DEF InScope, LoopInv
  <2> QED
    BY <2>1, <2>2, <2>3, NextCycleLoop
<1>6. CASE Branches /\ Winner(BranchStart(state))
  BY <1>6, WinnerMoves, PointsApart
  DEF LoopInv, Preparing, InScope, NoRetryOverBudget, UnresolvedReachesHuman, Terminal
<1> QED
  BY <1>1, <1>2, <1>3, <1>4, <1>5, <1>6 DEF Cycle, Judging, Stages

\* A refusal or a timeout ends the session.
LEMMA TurnDownMoves ==
    ASSUME TypeOK, TurnDown
    PROVE  pc' = "Done" /\ Same(state')
<1>1. \E p : state' = [state EXCEPT !.phase = p] \/ state' = state
  BY DEF TurnDown, Leave
<1>2. pc' = "Done"
  BY FailedLeaves DEF TurnDown
<1> QED
  BY <1>1, <1>2, EditsKeep

LEMMA HumanLoop ==
    ASSUME TypeOK, LoopInv, Human
    PROVE  LoopInv'
<1>0. /\ state.cost \in Nat /\ state.attempt \in Nat /\ history \in History
      /\ Critical \in Nat
      /\ pc \in {"Ask", "Wait"} /\ pc \in HumanPoints /\ UNCHANGED <<reason, teamPass>>
      /\ {"Ask", "Wait"} \subseteq HumanPoints
  BY CriticalAssumption
  DEF TypeOK, WorkflowState, Human, Ask, Refused, WaitTimeout, Approved, Returns, HumanPoints
<1>1. CASE Ask
  <2>1. pc' = "Wait" /\ Same(state') /\ UNCHANGED i
    BY <1>1, EditsSame DEF Ask, Returns
  <2> QED
    BY <1>0, <2>1, PointsApart
    DEF LoopInv, Preparing, InScope, InSetup, NoRetryOverBudget, UnresolvedReachesHuman, Same
<1>2. CASE Refused \/ WaitTimeout
  <2>1. pc' = "Done" /\ Same(state')
    BY <1>2, TurnDownMoves DEF Refused, WaitTimeout
  <2> QED
    BY <2>1, PointsApart
    DEF LoopInv, Preparing, InScope, NoRetryOverBudget, UnresolvedReachesHuman, Same, Terminal
<1>3. CASE Approved
  <2>1. CASE reason \in LoopReasons /\ BudgetTooLow
    <3>1. Leave([state EXCEPT !.phase = "FAILED"])
      BY <1>3, <2>1 DEF Approved
    <3>2. pc' = "Done" /\ Same(state')
      BY <3>1, FailedLeaves, EditsSame, LeaveMoves
    <3> QED
      BY <3>2, PointsApart
      DEF LoopInv, Preparing, InScope, NoRetryOverBudget, UnresolvedReachesHuman, Same, Terminal
  <2>2. CASE reason \in SetupReasons
    <3>1. /\ pc' \in SetupPoints \ {"Team"} /\ UNCHANGED i
          /\ \E p : state' = [state EXCEPT !.phase = p] \/ state' = state
      <4>1. ~(reason \in LoopReasons /\ BudgetTooLow)
        BY <2>2, PointsApart
      <4>2. \/ pc' = "Feasibility" /\ UNCHANGED <<state, i>>
            \/ /\ pc' = "ValueNode"
               /\ state' = [state EXCEPT !.phase = "VALUE_NODE"] /\ UNCHANGED i
        BY <1>3, <2>2, <4>1 DEF Approved, SetupReasons
      <4> QED
        BY <4>2 DEF SetupPoints
    <3>2. Same(state')
      BY <3>1, EditsKeep
    <3> QED
      BY <1>0, <2>2, <3>1, <3>2, PointsApart, CriticalAssumption
      DEF LoopInv, Preparing, InScope, InSetup, NoRetryOverBudget, UnresolvedReachesHuman, Same
  <2>3. CASE reason \notin SetupReasons /\ ~(reason \in LoopReasons /\ BudgetTooLow)
    <3>1. /\ NextCycle([state EXCEPT !.phase = "ACTOR"])
          /\ history' = [history EXCEPT !.resumes = @ + 1, !.answered = i + 1]
      BY <1>3, <2>3 DEF Approved, InSetup, SetupReasons
    <3>2. history'.answered = i + 1
      BY <1>0, <3>1 DEF History
    <3>3. state.cost < Critical \/ reason = "test_fault_needs_human_approval"
      <4>1. reason \in LoopReasons \/ reason = "test_fault_needs_human_approval"
        BY <1>0, <2>3 DEF LoopInv, TypeOK, Reasons
      <4>2. reason \in LoopReasons => 100 * (Critical - state.cost) >= 15 * Critical
        BY <1>0, <2>3 DEF BudgetTooLow
      <4> QED
        BY <1>0, <4>1, <4>2, CriticalAssumption
    <3>4. InScope /\ pc # "Actor"
      BY <1>0, <2>3 DEF InScope, InSetup
    <3>5. NextCycle(state') /\ Same(state')
      BY <3>1, EditsSame, NextCycleMoves
    <3> QED
      BY <1>0, <3>1, <3>2, <3>3, <3>4, <3>5, NextCycleLoop DEF Same
  <2> QED
    BY <2>1, <2>2, <2>3, PointsApart
<1> QED
  BY <1>1, <1>2, <1>3 DEF Human

LEMMA SignalsLoop ==
    ASSUME TypeOK, LoopInv,
           Memory \/ ActivityFails \/ Decide \/ Abort \/ Closed \/ UNCHANGED vars
    PROVE  LoopInv'
<1>1. CASE Memory \/ ActivityFails
  <2>1. /\ pc' \in Terminal
        /\ state'.verdict = state.verdict
    BY <1>1 DEF Memory, ActivityFails, Returns, Terminal, TypeOK, WorkflowState
  <2>2. "Memory" \notin Terminal
    BY DEF Terminal
  <2> QED
    BY <2>1, <2>2, PointsApart
    DEF LoopInv, Preparing, InScope, NoRetryOverBudget, UnresolvedReachesHuman, CyclePoints
<1>2. CASE Decide \/ Closed \/ UNCHANGED vars
  <2>1. UNCHANGED <<pc, state, i, reason, teamPass>> /\ history'.answered = history.answered
    BY <1>2 DEF Decide, Closed, vars, TypeOK, History
  <2> QED
    BY <2>1
    DEF LoopInv, Preparing, InScope, InSetup, NoRetryOverBudget, UnresolvedReachesHuman
<1>3. CASE Abort
  <2>1. /\ pc' = "Done" \/ UNCHANGED pc
        /\ UNCHANGED <<i, reason, teamPass, history>>
        /\ \E p : state' = [state EXCEPT !.phase = p] \/ state' = state
    BY <1>3 DEF Abort
  <2>2. Same(state')
    BY <2>1, EditsKeep
  <2> QED
    BY <2>1, <2>2, PointsApart
    DEF LoopInv, Preparing, InScope, InSetup, NoRetryOverBudget, UnresolvedReachesHuman, Same, Terminal
<1> QED
  BY <1>1, <1>2, <1>3

\* The inductive invariant of the loop's counters.
LEMMA LoopKept == Spec => []LoopInv
<1>1. Init => LoopInv
  BY NoVerdictType, PointsApart
  DEF Init, InitialState, LoopInv, Preparing, InScope, NoRetryOverBudget, UnresolvedReachesHuman,
      SetupPoints, NoVerdict
<1>2. TypeOK /\ LoopInv /\ [Next]_vars => LoopInv'
  BY SetupLoop, CycleLoop, HumanLoop, SignalsLoop DEF Next, Step
<1> QED
  BY <1>1, <1>2, TypeCorrect, PTL DEF Spec

\* With the budget spent, the loop sends no session back to the actor but after
\* a suspected test fault (only the resume of CodingWorkflow.ts that follows the
\* test-validity review has no budget check).
THEOREM NoRetryWithoutBudget == Spec => []NoRetryOverBudget
<1>1. LoopInv => NoRetryOverBudget
  BY DEF LoopInv
<1> QED
  BY <1>1, LoopKept, PTL

\* No session whose tests still fail leaves the loop as completed unless a human
\* let it go on in its very last cycle: the limit on attempts is met before the
\* loop is out of cycles.
THEOREM UnresolvedIsAsked == Spec => []UnresolvedReachesHuman
<1>1. LoopInv => UnresolvedReachesHuman
  BY DEF LoopInv
<1> QED
  BY <1>1, LoopKept, PTL

-----------------------------------------------------------------------------
\* Strategies.

\* While the session goes on, a launched strategy is an exhausted one, and a
\* batch takes no exhausted one.
LaunchInv ==
    /\ StrategyLaunchedOnce
    /\ pc \notin {"Memory"} \cup Terminal =>
         \A s \in Strategies : history.launches[s] # 0 => s \in state.exhausted

\* Only a batch of branches launches or exhausts a strategy.
LEMMA TriedKept ==
    ASSUME TypeOK, [Next]_vars, ~Branches
    PROVE  state'.exhausted = state.exhausted /\ history'.launches = history.launches
<1>0. state \in WorkflowState /\ history \in History
  BY DEF TypeOK
<1>1. state'.exhausted = state.exhausted
  <2>1. CASE Team
    <3>1. PICK c : state' = [state EXCEPT !.cost = c, !.diff = TRUE]
      BY <2>1 DEF Team, FirstCycle, Leave
    <3> QED
      BY <1>0, <3>1 DEF WorkflowState
  <2>2. CASE Actor
    <3>1. PICK c, d, n : state' = [state EXCEPT !.phase = "PREFLIGHT", !.attempt = n,
                                                !.cost = c, !.diff = d]
      BY <2>2 DEF Actor, Returns
    <3> QED
      BY <1>0, <3>1 DEF WorkflowState
  <2>3. CASE Critics \/ Stages \/ GitCheckpoint \/ Memory
    BY <1>0, <2>3 DEF Critics, Stages, TypeCheck, Tests, Api, Mutation, Visual, VerifierStage,
                      GitCheckpoint, Memory, Returns, WorkflowState
  <2>4. CASE Same(state')
    BY <2>4 DEF Same
  <2> QED
    BY <2>1, <2>2, <2>3, <2>4, Quiet
<1>2. history'.launches = history.launches
  <2>1. CASE Decide \/ Refused \/ WaitTimeout
    BY <1>0, <2>1 DEF Decide, Refused, WaitTimeout, TurnDown, History
  <2>2. CASE Approved
    <3>1. \E n, a : \/ history' = [history EXCEPT !.resumes = n, !.answered = a]
                    \/ history' = [history EXCEPT !.refused = TRUE]
      BY <2>2 DEF Approved
    <3> QED
      BY <1>0, <3>1 DEF History
  <2>3. CASE UNCHANGED history
    BY <2>3
  <2> QED
    BY <2>1, <2>2, <2>3
    DEF Next, Step, Setup, Cycle, Human, Bootstrap, Scout, Briefing, Baseline, Feasibility, Gate,
        ValueNode, Plan, TddGate, SandboxValidation, Implement, Team, Actor, Preflight, Critics,
        TypeCheck, Tests, Api, Mutation, Visual, VerifierStage, Flakiness, TestValidity,
        GitCheckpoint, Stagnation, Debugger, Replan, Ask, Memory, ActivityFails, Abort, Closed,
        Returns, vars
<1> QED
  BY <1>1, <1>2

LEMMA LaunchStep == TypeOK /\ LoopInv /\ LaunchInv /\ [Next]_vars => LaunchInv'
<1> SUFFICES ASSUME TypeOK, LoopInv, LaunchInv, [Next]_vars PROVE LaunchInv'
  OBVIOUS
<1>0. state \in WorkflowState /\ history \in History
  BY DEF TypeOK
<1>1. CASE Branches
  <2>1. PICK batch \in Batches(state) :
          /\ history' = [history EXCEPT !.launches =
                            [s \in Strategies |-> @[s] + (IF s \in batch THEN 1 ELSE 0)]]
          /\ \/ Winner(BranchStart(state))
             \/ NextCycle([state EXCEPT !.phase = "HITL_ESCALATION", !.exhausted = @ \cup batch])
    BY <1>1 DEF Branches
  <2>2. /\ \A s \in Strategies :
             history'.launches[s] = history.launches[s] + (IF s \in batch THEN 1 ELSE 0)
        /\ \A s \in Strategies : history.launches[s] \in Nat
    <3>1. history'.launches =
            [s \in Strategies |-> history.launches[s] + (IF s \in batch THEN 1 ELSE 0)]
      BY <1>0, <2>1 DEF History
    <3>2. history.launches \in [Strategies -> Nat]
      BY <1>0 DEF History
    <3> QED
      BY <3>1, <3>2
  <2>3. \A s \in batch : s \notin state.exhausted
    BY <2>1 DEF Batches, Untried
  <2>4. \A s \in Strategies : history.launches[s] # 0 => s \in state.exhausted
    BY <1>1 DEF LaunchInv, Branches, Terminal
  <2>5. StrategyLaunchedOnce'
    BY <2>2, <2>3, <2>4 DEF LaunchInv, StrategyLaunchedOnce
  <2>6. CASE Winner(BranchStart(state))
    BY <2>5, <2>6, WinnerMoves DEF LaunchInv, LoopInv, Terminal
  <2>7. CASE NextCycle([state EXCEPT !.phase = "HITL_ESCALATION", !.exhausted = @ \cup batch])
    <3>1. state'.exhausted = state.exhausted \cup batch
      <4>1. state' = [state EXCEPT !.phase = "HITL_ESCALATION", !.exhausted = @ \cup batch]
        BY <2>7, NextCycleMoves
      <4> QED
        BY <1>0, <4>1 DEF WorkflowState
    <3> QED
      BY <2>2, <2>4, <2>5, <3>1 DEF LaunchInv
  <2> QED
    BY <2>1, <2>6, <2>7
<1>2. CASE ~Branches
  <2>1. pc \in {"Memory"} \cup Terminal => pc' \in {"Memory"} \cup Terminal
    BY CommitMoves
  <2> QED
    BY <1>2, <2>1, TriedKept DEF LaunchInv, StrategyLaunchedOnce
<1> QED
  BY <1>1, <1>2

\* No strategy is part of two batches of branches, whatever a replan brings back
\* (the workflow leaves out the ids in exhaustedBranches when it picks a batch).
THEOREM StrategiesLaunchedOnce == Spec => []StrategyLaunchedOnce
<1>1. Init => LaunchInv
  BY DEF Init, LaunchInv, StrategyLaunchedOnce
<1>2. TypeOK /\ LoopInv /\ LaunchInv /\ [Next]_vars => LaunchInv'
  BY LaunchStep
<1>3. LaunchInv => StrategyLaunchedOnce
  BY DEF LaunchInv
<1> QED
  BY <1>1, <1>2, <1>3, TypeCorrect, LoopKept, PTL DEF Spec

-----------------------------------------------------------------------------
\* The history of errors.

\* Each of the last n error lists had been seen before.
Repeats(errors, n) ==
    /\ n > 0 => n < Len(errors)
    /\ \A k \in Len(errors) - n + 1 .. Len(errors) : \E j \in 1 .. k - 1 : errors[j] = errors[k]

LEMMA RepeatsNone == \A errors : Len(errors) \in Nat => Repeats(errors, 0)
  BY DEF Repeats

LEMMA RepeatsGrow ==
    ASSUME NEW S, NEW errors \in Seq(S), NEW e \in S, NEW n \in Nat, Repeats(errors, n),
           \E k \in 1 .. Len(errors) : errors[k] = e
    PROVE  Repeats(Append(errors, e), n + 1)
<1> DEFINE longer == Append(errors, e)
<1>1. /\ Len(errors) \in Nat /\ Len(longer) = Len(errors) + 1
      /\ \A k \in 1 .. Len(errors) : longer[k] = errors[k]
      /\ longer[Len(errors) + 1] = e
  OBVIOUS
<1>2. PICK m \in 1 .. Len(errors) : errors[m] = e
  OBVIOUS
<1> HIDE DEF longer
<1>3. n + 1 < Len(longer)
  BY <1>1, <1>2 DEF Repeats
<1>4. ASSUME NEW k \in Len(longer) - (n + 1) + 1 .. Len(longer)
      PROVE  \E j \in 1 .. k - 1 : longer[j] = longer[k]
  <2>1. CASE k = Len(errors) + 1
    BY <1>1, <1>2, <2>1
  <2>2. CASE k # Len(errors) + 1
    <3>1. k \in Len(errors) - n + 1 .. Len(errors) /\ k \in 1 .. Len(errors)
      BY <1>1, <1>3, <2>2
    <3>2. PICK j \in 1 .. k - 1 : errors[j] = errors[k]
      BY <3>1 DEF Repeats
    <3> QED
      BY <1>1, <3>1, <3>2
  <2> QED
    BY <2>1, <2>2
<1>5. Repeats(longer, n + 1)
  BY <1>3, <1>4 DEF Repeats
<1> QED
  BY <1>5 DEF longer

\* Until it is full the history only grows.
LEMMA RememberGrows ==
    ASSUME NEW S, NEW errors \in Seq(S), NEW e \in S, Len(errors) < HistoryLength
    PROVE  Remember(errors, e) = Append(errors, e)
  BY HistoryLengthAssumption DEF Remember

\* A stagnant cycle ended in an error list of an earlier one.
LEMMA StagnantSeen ==
    ASSUME NEW S, NEW errors \in Seq(S), NEW attempt, NEW e,
           StagnationPattern(attempt, errors, e) # "none"
    PROVE  \E k \in 1 .. Len(errors) : errors[k] = e
  BY DEF StagnationPattern

\* The count of stagnant cycles is backed by the history, which holds one error
\* list for each cycle that was judged.
ErrorsInv ==
    /\ Repeats(state.errors, count)
    /\ Preparing => state.errors = << >>
    /\ InScope => Len(state.errors) <= i + 1
    /\ pc \in CyclePoints \ Retries => Len(state.errors) <= i
    /\ pc \in HumanPoints /\ reason = "stagnation" => count >= 4

\* What the other actions do to the loop: they leave the history alone, start no
\* preparation again, and reach a point before the judgement from another one,
\* from the preparation or by starting the next cycle.
Advances ==
    /\ state'.errors = state.errors /\ UNCHANGED count
    /\ i' \in {i, i + 1}
    /\ Preparing' => Preparing
    /\ InScope' => InScope \/ Preparing
    /\ pc' \in CyclePoints \ Retries =>
         \/ pc \in CyclePoints \ Retries
         \/ Preparing
         \/ InScope /\ i' = i + 1
    /\ pc' \in HumanPoints /\ reason' = "stagnation" => pc \in HumanPoints /\ UNCHANGED reason

\* An action that changes at most the phase and goes by these points.
LEMMA PhaseErrors ==
    ASSUME TypeOK, NEW p, state' = [state EXCEPT !.phase = p] \/ state' = state
    PROVE  state'.errors = state.errors
  BY DEF TypeOK, WorkflowState

LEMMA SetupAdvances ==
    ASSUME TypeOK, Setup
    PROVE  Advances
<1>1. /\ pc \in SetupPoints
      /\ UNCHANGED <<i, count>>
      /\ \/ pc' \in SetupPoints \cup {"Actor", "Preflight", "Done", "Stuck"} /\ UNCHANGED reason
         \/ pc' = "Ask" /\ reason' \in SetupReasons
  BY DEF Setup, Bootstrap, Scout, Briefing, Baseline, Feasibility, Gate, AskHuman, ValueNode, Plan,
         TddGate, SandboxValidation, Implement, FirstCycle, Leave, Team, Returns, SetupPoints,
         SetupReasons
<1>2. state'.errors = state.errors
  <2>1. CASE Scout
    <3>1. PICK c : state' = [state EXCEPT !.phase = "VALUE_NODE", !.candidates = c]
      BY <2>1 DEF Scout, Returns
    <3> QED
      BY <3>1 DEF TypeOK, WorkflowState
  <2>2. CASE TddGate
    <3>1. PICK d : state' = [state EXCEPT !.phase = "SANDBOX_VALIDATION", !.diff = d]
      BY <2>2 DEF TddGate, Returns
    <3> QED
      BY <3>1 DEF TypeOK, WorkflowState
  <2>3. CASE Team
    <3>1. PICK c : state' = [state EXCEPT !.cost = c, !.diff = TRUE]
      BY <2>3 DEF Team, FirstCycle, Leave
    <3> QED
      BY <3>1 DEF TypeOK, WorkflowState
  <2>4. CASE Bootstrap \/ Briefing \/ Baseline \/ Feasibility \/ ValueNode
    BY <2>4, PhaseErrors DEF Bootstrap, Briefing, Baseline, Feasibility, Gate, ValueNode, Returns
  <2>5. CASE Plan \/ SandboxValidation
    <3>1. \E p : state' = [state EXCEPT !.phase = p]
      BY <2>5, ImplementMoves DEF Plan, SandboxValidation
    <3> QED
      BY <3>1, PhaseErrors
  <2> QED
    BY <2>1, <2>2, <2>3, <2>4, <2>5 DEF Setup
<1>3. "Ask" \in HumanPoints /\ {"Actor", "Preflight"} \subseteq CyclePoints
      /\ {"Done", "Stuck"} \subseteq Terminal
  BY DEF HumanPoints, CyclePoints, Terminal
<1>4. "stagnation" \notin SetupReasons
  BY DEF SetupReasons
<1> QED
  BY <1>1, <1>2, <1>3, <1>4, PointsApart DEF Advances, Preparing, InScope, InSetup

LEMMA LoopAdvances ==
    ASSUME TypeOK, LoopInv, Cycle, ~Stagnation, ~(Branches /\ Winner(BranchStart(state)))
    PROVE  Advances
<1>0. state \in WorkflowState
  BY DEF TypeOK
<1>1. CASE Judging
  BY <1>1, JudgingMoves, PointsApart DEF Advances, Preparing, InScope, LoopInv
<1>2. CASE Actor
  <2>1. PICK c, d, n : /\ state' = [state EXCEPT !.phase = "PREFLIGHT", !.attempt = n,
                                                 !.cost = c, !.diff = d]
                       /\ pc = "Actor" /\ pc' = "Preflight" /\ UNCHANGED <<i, count>>
    BY <1>2 DEF Actor, Returns
  <2>2. state'.errors = state.errors
    BY <1>0, <2>1 DEF WorkflowState
  <2>3. {"Actor", "Preflight"} \subseteq CyclePoints \ Retries
    BY DEF CyclePoints, Retries
  <2> QED
    BY <2>1, <2>2, <2>3, PointsApart DEF Advances, Preparing, InScope
<1>3. CASE TestValidity
  <2>1. /\ pc = "TestValidity" /\ UNCHANGED <<i, count>>
        /\ \/ pc' = "Ask" /\ reason' = "test_fault_needs_human_approval"
           \/ pc' \in {"GitCheckpoint", "Stagnation"}
        /\ \E p : state' = [state EXCEPT !.phase = p]
    BY <1>3 DEF TestValidity, AskHuman, AfterReview
  <2>2. /\ {"TestValidity", "GitCheckpoint", "Stagnation"} \subseteq CyclePoints \ Retries
        /\ "Ask" \in HumanPoints
    BY DEF CyclePoints, Retries, HumanPoints
  <2> QED
    BY <2>1, <2>2, PhaseErrors, PointsApart DEF Advances, Preparing, InScope, InSetup
<1>4. CASE Debugger \/ Replan \/ Branches
  <2>1. PICK p, c, b : /\ pc \in Retries /\ UNCHANGED count
                       /\ \/ NextCycle([state EXCEPT !.phase = p])
                          \/ NextCycle([state EXCEPT !.phase = p, !.candidates = c])
                          \/ NextCycle([state EXCEPT !.phase = p, !.exhausted = b])
    BY <1>4, LosersMove DEF Debugger, Replan, Branches, Retries
  <2>2. /\ i' = i + 1 /\ pc' \in {"Actor", "Memory", "Done"}
        /\ state' \in {[state EXCEPT !.phase = p],
                       [state EXCEPT !.phase = p, !.candidates = c],
                       [state EXCEPT !.phase = p, !.exhausted = b]}
    BY <2>1, NextCycleMoves
  <2>3. state'.errors = state.errors
    BY <1>0, <2>2 DEF WorkflowState
  <2>4. "Actor" \in CyclePoints /\ "Done" \in Terminal
    BY DEF CyclePoints, Terminal
  <2> QED
    BY <2>1, <2>2, <2>3, <2>4, PointsApart DEF Advances, Preparing, InScope
<1> QED
  BY <1>1, <1>2, <1>3, <1>4 DEF Cycle, Judging, Stages

LEMMA HumanAdvances ==
    ASSUME TypeOK, Human
    PROVE  Advances
<1>0. /\ pc \in {"Ask", "Wait"} /\ UNCHANGED <<reason, count>>
      /\ {"Ask", "Wait"} \subseteq HumanPoints /\ "Done" \in Terminal /\ "Actor" \in CyclePoints
  BY DEF Human, Ask, Refused, WaitTimeout, Approved, Returns, HumanPoints, Terminal, CyclePoints
<1>1. CASE Ask
  BY <1>0, <1>1, PhaseErrors, PointsApart DEF Ask, Returns, Advances, Preparing, InScope, InSetup
<1>2. CASE Refused \/ WaitTimeout
  <2>1. pc' = "Done" /\ UNCHANGED i /\ \E p : state' = [state EXCEPT !.phase = p] \/ state' = state
    BY <1>2, TurnDownMoves DEF Refused, WaitTimeout, TurnDown, Leave
  <2> QED
    BY <1>0, <2>1, PhaseErrors, PointsApart DEF Advances, Preparing, InScope, InSetup
<1>3. CASE Approved
  <2>1. CASE reason \in LoopReasons /\ BudgetTooLow
    <3>1. Leave([state EXCEPT !.phase = "FAILED"]) /\ UNCHANGED i
      BY <1>3, <2>1 DEF Approved
    <3> QED
      BY <1>0, <3>1, FailedLeaves, LeaveMoves, PhaseErrors, PointsApart
      DEF Advances, Preparing, InScope, InSetup
  <2>2. CASE ~(reason \in LoopReasons /\ BudgetTooLow)
    <3>1. \/ /\ reason \in SetupReasons /\ pc' \in {"Feasibility", "ValueNode"} /\ UNCHANGED i
             /\ \E p : state' = [state EXCEPT !.phase = p] \/ state' = state
          \/ reason \notin SetupReasons /\ NextCycle([state EXCEPT !.phase = "ACTOR"])
      BY <1>3, <2>2 DEF Approved, SetupReasons
    <3>2. {"Feasibility", "ValueNode"} \subseteq SetupPoints
      BY DEF SetupPoints
    <3>3. CASE /\ reason \in SetupReasons /\ pc' \in {"Feasibility", "ValueNode"} /\ UNCHANGED i
               /\ \E p : state' = [state EXCEPT !.phase = p] \/ state' = state
      BY <1>0, <3>2, <3>3, PhaseErrors, PointsApart DEF Advances, Preparing, InScope, InSetup
    <3>4. CASE reason \notin SetupReasons /\ NextCycle([state EXCEPT !.phase = "ACTOR"])
      BY <1>0, <3>4, NextCycleMoves, PhaseErrors, PointsApart
      DEF Advances, Preparing, InScope, InSetup
    <3> QED
      BY <3>1, <3>3, <3>4
  <2> QED
    BY <2>1, <2>2
<1> QED
  BY <1>1, <1>2, <1>3 DEF Human

LEMMA SignalsAdvance ==
    ASSUME TypeOK, Memory \/ ActivityFails \/ Decide \/ Abort \/ Closed \/ UNCHANGED vars
    PROVE  Advances
<1>1. CASE Memory \/ ActivityFails
  <2>1. pc' \in Terminal /\ UNCHANGED <<i, count>> /\ state'.errors = state.errors
    BY <1>1 DEF Memory, ActivityFails, Returns, Terminal, TypeOK, WorkflowState
  <2> QED
    BY <2>1, PointsApart DEF Advances, Preparing, InScope, InSetup
<1>2. CASE Decide \/ Closed \/ UNCHANGED vars
  <2>1. UNCHANGED <<pc, state, i, count, reason>>
    BY <1>2 DEF Decide, Closed, vars
  <2> QED
    BY <2>1 DEF Advances, Preparing, InScope, InSetup
<1>3. CASE Abort
  <2>1. /\ pc' = "Done" \/ UNCHANGED pc
        /\ UNCHANGED <<i, count, reason>>
        /\ \E p : state' = [state EXCEPT !.phase = p] \/ state' = state
    BY <1>3 DEF Abort
  <2>2. "Done" \in Terminal
    BY DEF Terminal
  <2> QED
    BY <2>1, <2>2, PhaseErrors, PointsApart DEF Advances, Preparing, InScope, InSetup
<1> QED
  BY <1>1, <1>2, <1>3

LEMMA ErrorsAdvance ==
    ASSUME TypeOK, ErrorsInv, Advances
    PROVE  ErrorsInv'
<1>1. i \in Nat /\ Len(state.errors) \in Nat /\ Len(<< >>) = 0
  BY MaxCyclesAssumption DEF TypeOK, WorkflowState
<1>2. Repeats(state'.errors, count')
  BY DEF Advances, ErrorsInv
<1>3. Preparing' => state'.errors = << >>
  BY DEF Advances, ErrorsInv
<1>4. InScope' => Len(state'.errors) <= i' + 1
  BY <1>1 DEF Advances, ErrorsInv
<1>5. pc' \in CyclePoints \ Retries => Len(state'.errors) <= i'
  BY <1>1 DEF Advances, ErrorsInv
<1>6. pc' \in HumanPoints /\ reason' = "stagnation" => count' >= 4
  BY DEF Advances, ErrorsInv
<1> QED
  BY <1>2, <1>3, <1>4, <1>5, <1>6 DEF ErrorsInv

\* The judgement of a cycle, with room left in the history.
LEMMA ErrorsJudged ==
    ASSUME MaxCycles <= HistoryLength, TypeOK, ErrorsInv, Stagnation
    PROVE  ErrorsInv'
<1> DEFINE S       == Errors \cup {NoFailures}
           e       == state.verdict.failures
           pattern == StagnationPattern(state.attempt, state.errors, e)
<1>0. /\ pc = "Stagnation" /\ pc \in CyclePoints \ Retries /\ pc \notin Terminal \cup {"Memory"}
      /\ state.errors \in Seq(S) /\ e \in S /\ i \in Nat /\ count \in Nat
      /\ i < MaxCycles /\ Len(state.errors) <= i /\ MaxCycles \in Nat
  BY StagnationMoves, MaxCyclesAssumption
  DEF Retries, CyclePoints, Terminal, TypeOK, WorkflowState, Verdict, ErrorsInv
<1>1. state'.errors = Append(state.errors, e)
  BY <1>0, StagnationMoves, RememberGrows, HistoryLengthAssumption
<1>2. Len(state'.errors) = Len(state.errors) + 1 /\ Len(state.errors) \in Nat
  BY <1>0, <1>1
<1>3. count' = (IF pattern = "none" THEN 0 ELSE count + 1)
  BY StagnationMoves DEF ConsecutiveStagnation
<1>4. Repeats(state'.errors, count')
  <2>1. CASE pattern = "none"
    BY <1>2, <1>3, <2>1, RepeatsNone
  <2>2. CASE pattern # "none"
    <3>1. \E k \in 1 .. Len(state.errors) : state.errors[k] = e
      BY <1>0, <2>2, StagnantSeen
    <3>2. Repeats(state.errors, count)
      BY DEF ErrorsInv
    <3>3. Repeats(Append(state.errors, e), count + 1)
      BY <1>0, <3>1, <3>2, RepeatsGrow
    <3> QED
      BY <1>1, <1>3, <2>2, <3>3
  <2> QED
    BY <2>1, <2>2
<1>5. /\ pc' \in {"Actor", "Memory", "Done", "Ask"} \cup Retries
      /\ i' \in {i, i + 1}
      /\ pc' = "Actor" => i' = i + 1
      /\ pc' = "Ask" => reason' \in LoopReasons
      /\ pc' = "Ask" /\ reason' = "stagnation" => count' >= 4
  BY StagnationMoves, NextCycleMoves DEF Retries
<1>6. /\ {"Actor"} \cup Retries \subseteq CyclePoints /\ "Actor" \notin Retries
      /\ "Done" \in Terminal /\ "Ask" \in HumanPoints
  BY DEF Retries, CyclePoints, Terminal, HumanPoints
<1> HIDE DEF pattern, e, S
<1>7. ~Preparing'
  BY <1>5, <1>6, PointsApart DEF Preparing, InSetup
<1>8. Len(state'.errors) <= i + 1 /\ (pc' = "Actor" => Len(state'.errors) <= i')
  BY <1>0, <1>2, <1>5
<1>9. pc' \in CyclePoints \ Retries => pc' = "Actor"
  BY <1>5, <1>6, PointsApart
<1>10. pc' \in HumanPoints => pc' = "Ask"
  BY <1>5, <1>6, PointsApart
<1> QED
  BY <1>0, <1>2, <1>4, <1>5, <1>7, <1>8, <1>9, <1>10 DEF ErrorsInv

LEMMA ErrorsStep ==
    ASSUME MaxCycles <= HistoryLength
    PROVE  TypeOK /\ LoopInv /\ ErrorsInv /\ [Next]_vars => ErrorsInv'
<1> SUFFICES ASSUME TypeOK, LoopInv, ErrorsInv, [Next]_vars PROVE ErrorsInv'
  OBVIOUS
<1>1. CASE Stagnation
  BY <1>1, ErrorsJudged
<1>2. CASE Branches /\ Winner(BranchStart(state))
  <2>1. PICK batch \in Batches(state), won \in BOOLEAN :
          IF won
          THEN batch # {} /\ Winner(BranchStart(state)) /\ count' = 0 /\ UNCHANGED i
          ELSE /\ NextCycle([state EXCEPT !.phase = "HITL_ESCALATION",
                                          !.exhausted = @ \cup batch])
               /\ UNCHANGED count
    BY <1>2 DEF Branches
  <2>2. CASE won
    <3>1. pc' \in {"Memory", "Done"} /\ count' = 0
      BY <1>2, <2>1, <2>2, WinnerMoves DEF LoopInv
    <3>2. Len(state'.errors) \in Nat
      BY NextType DEF TypeOK, WorkflowState
    <3>3. Repeats(state'.errors, count')
      BY <3>1, <3>2, RepeatsNone
    <3> QED
      BY <3>1, <3>3, PointsApart DEF ErrorsInv, Preparing, InScope, Terminal
  <2>3. CASE ~won
    <3>1. /\ NextCycle([state EXCEPT !.phase = "HITL_ESCALATION", !.exhausted = @ \cup batch])
          /\ UNCHANGED count /\ pc \in Retries
      BY <1>2, <2>1, <2>3 DEF Branches, Retries
    <3>2. /\ state' = [state EXCEPT !.phase = "HITL_ESCALATION", !.exhausted = @ \cup batch]
          /\ i' = i + 1 /\ pc' \in {"Actor", "Memory", "Done"}
      BY <3>1, NextCycleMoves
    <3>3. state'.errors = state.errors
      BY <3>2 DEF TypeOK, WorkflowState
    <3>4. "Actor" \in CyclePoints /\ "Done" \in Terminal
      BY DEF CyclePoints, Terminal
    <3>5. Advances
      BY <3>1, <3>2, <3>3, <3>4, PointsApart DEF Advances, Preparing, InScope
    <3> QED
      BY <3>5, ErrorsAdvance
  <2> QED
    BY <2>2, <2>3
<1>3. CASE ~Stagnation /\ ~(Branches /\ Winner(BranchStart(state)))
  <2>1. Advances
    BY <1>3, SetupAdvances, LoopAdvances, HumanAdvances, SignalsAdvance DEF Next, Step
  <2> QED
    BY <2>1, ErrorsAdvance
<1> QED
  BY <1>1, <1>2, <1>3

\* A human is asked about stagnation only after four cycles in a row that each
\* ended in an error list of an earlier cycle (the fourth rung of the ladder in
\* stagnation/ladder.ts), as long as the history, ten lists in the code, is at
\* least as long as the loop, six cycles by default.
THEOREM StagnationIsAskedLate ==
    ASSUME MaxCycles <= HistoryLength
    PROVE  Spec => []StagnationAskedLate
<1>1. Init => ErrorsInv
  BY PointsApart, RepeatsNone
  DEF Init, InitialState, ErrorsInv, InScope, SetupPoints
<1>2. TypeOK /\ LoopInv /\ ErrorsInv /\ [Next]_vars => ErrorsInv'
  BY ErrorsStep
<1>3. TypeOK /\ ErrorsInv => StagnationAskedLate
  <2> SUFFICES ASSUME TypeOK, ErrorsInv, pc \in HumanPoints, reason = "stagnation"
               PROVE  LET n == Len(state.errors)
                      IN  /\ n > 4
                          /\ \A k \in n - 3 .. n :
                               \E j \in 1 .. k - 1 : state.errors[j] = state.errors[k]
    BY DEF StagnationAskedLate
  <2>1. count >= 4 /\ count \in Nat /\ Len(state.errors) \in Nat
    BY DEF TypeOK, WorkflowState, ErrorsInv
  <2>2. /\ count < Len(state.errors)
        /\ \A k \in Len(state.errors) - count + 1 .. Len(state.errors) :
             \E j \in 1 .. k - 1 : state.errors[j] = state.errors[k]
    BY <2>1 DEF ErrorsInv, Repeats
  <2> QED
    BY <2>1, <2>2
<1> QED
  BY <1>1, <1>2, <1>3, TypeCorrect, LoopKept, PTL DEF Spec

-----------------------------------------------------------------------------
\* The steps of a session that neither waits nor has concluded.

WorkingPoints == SetupPoints \cup CyclePoints \cup {"Ask"}

\* A state handed on by an activity: not failed, and no lesson written.
Alive(st) == st.phase # "FAILED" /\ st.lesson = state.lesson

\* Where the workflow goes by itself: on, to a human, to the end of its work, out
\* when it finds the abort flag, or nowhere when its plan is no task graph.
GoesOn(p) == \/ p \in WorkingPoints \cup {"Wait"}
             \/ p = "Memory" /\ ~aborted
             \/ p = "Done" /\ aborted
             \/ p = "Stuck"

Works == /\ pc \in WorkingPoints
         /\ Alive(state')
         /\ GoesOn(pc')
         /\ UNCHANGED <<human, aborted>>
         /\ history'.refused = history.refused

\* A session that has not ended did not fail.
PhaseInv == pc \notin Terminal => state.phase # "FAILED"

LEMMA WorkingNames ==
    /\ WorkingPoints \cap ({"Wait", "Memory"} \cup Terminal) = {}
    /\ Points = WorkingPoints \cup {"Wait", "Memory"} \cup Terminal
    /\ {"Actor", "Preflight", "Team", "TddGate", "Ask"} \subseteq WorkingPoints
  BY DEF WorkingPoints, Points, SetupPoints, CyclePoints, StagePoints, HumanPoints, Terminal

LEMMA ControlWorks ==
    ASSUME NEW st, Alive(st)
    PROVE  /\ Leave(st) => Alive(state') /\ GoesOn(pc')
           /\ NextCycle(st) => Alive(state') /\ GoesOn(pc')
           /\ \A team \in BOOLEAN : FirstCycle(st, team) => Alive(state') /\ GoesOn(pc')
           /\ \A n : Implement(st, n) => Alive(state') /\ GoesOn(pc')
  BY WorkingNames DEF Leave, NextCycle, FirstCycle, Implement, Alive, GoesOn

\* The states the activities hand on.
LEMMA EditsAlive ==
    ASSUME TypeOK, state.phase # "FAILED"
    PROVE  /\ Alive(state)
           /\ \A p : p # "FAILED" => Alive([state EXCEPT !.phase = p])
           /\ \A p, c : p # "FAILED" => Alive([state EXCEPT !.phase = p, !.candidates = c])
           /\ \A p, d : p # "FAILED" => Alive([state EXCEPT !.phase = p, !.diff = d])
           /\ \A p, n : p # "FAILED" => Alive([state EXCEPT !.phase = p, !.criticals = n])
           /\ \A p, n, v : p # "FAILED" =>
                 Alive([state EXCEPT !.phase = p, !.criticals = n, !.verdict = v])
           /\ \A p, b : p # "FAILED" => Alive([state EXCEPT !.phase = p, !.exhausted = b])
           /\ \A c, d : Alive([state EXCEPT !.cost = c, !.diff = d])
           /\ \A v : Alive([state EXCEPT !.verdict = v])
           /\ \A k : Alive([state EXCEPT !.checkpoint = k])
           /\ \A p, h : Alive([state EXCEPT !.stagnation = p, !.errors = h])
  BY DEF TypeOK, WorkflowState, Alive

LEMMA SetupWorks ==
    ASSUME TypeOK, PhaseInv, Setup
    PROVE  Works
<1>0. pc \in SetupPoints /\ state.phase # "FAILED" /\ pc \in WorkingPoints
  BY DEF PhaseInv, Setup, Bootstrap, Scout, Briefing, Baseline, Feasibility, Gate, ValueNode, Plan,
         TddGate, SandboxValidation, Team, Returns, SetupPoints, Terminal, WorkingPoints
<1>1. UNCHANGED <<human, aborted, history>>
  BY DEF Setup, Bootstrap, Scout, Briefing, Baseline, Feasibility, Gate, ValueNode, Plan,
         TddGate, SandboxValidation, Implement, Team, Returns
<1>2. Alive(state') /\ GoesOn(pc')
  <2> USE <1>0, EditsAlive
  <2>1. CASE Bootstrap \/ Briefing \/ ValueNode
    BY <2>1 DEF Bootstrap, Briefing, ValueNode, Returns, GoesOn, WorkingPoints, SetupPoints
  <2>2. CASE Scout
    <3>1. PICK c : /\ state' = [state EXCEPT !.phase = "VALUE_NODE", !.candidates = c]
                   /\ pc' = "Briefing"
      BY <2>2 DEF Scout, Returns
    <3> QED
      BY <3>1 DEF GoesOn, WorkingPoints, SetupPoints
  <2>3. CASE Baseline \/ Feasibility
    BY <2>3 DEF Baseline, Feasibility, Gate, AskHuman, GoesOn, WorkingPoints, SetupPoints
  <2>4. CASE Plan
    <3>1. Alive([state EXCEPT !.phase = "TDD_GATE"])
      OBVIOUS
    <3> QED
      BY <2>4, <3>1, ControlWorks, WorkingNames DEF Plan, GoesOn
  <2>5. CASE TddGate
    BY <2>5 DEF TddGate, Returns, GoesOn, WorkingPoints, SetupPoints
  <2>6. CASE SandboxValidation
    <3>1. Alive([state EXCEPT !.phase = "ACTOR"])
      OBVIOUS
    <3> QED
      BY <2>6, <3>1, ControlWorks DEF SandboxValidation
  <2>7. CASE Team
    <3>1. PICK c : \/ state' = [state EXCEPT !.cost = c, !.diff = TRUE] /\ pc' = "Team"
                   \/ FirstCycle([state EXCEPT !.cost = c, !.diff = TRUE], TRUE)
      BY <2>7 DEF Team
    <3>2. Alive([state EXCEPT !.cost = c, !.diff = TRUE])
      OBVIOUS
    <3> QED
      BY <3>1, <3>2, ControlWorks, WorkingNames DEF GoesOn
  <2> QED
    BY <2>1, <2>2, <2>3, <2>4, <2>5, <2>6, <2>7 DEF Setup
<1> QED
  BY <1>0, <1>1, <1>2 DEF Works

LEMMA CycleWorks ==
    ASSUME TypeOK, PhaseInv, Cycle
    PROVE  Works
<1> USE DEF Phases
<1>0. state.phase # "FAILED" /\ pc \in WorkingPoints
  BY DEF PhaseInv, Cycle, Actor, Preflight, Critics, TypeCheck, Tests, Api, Mutation, Visual,
         VerifierStage, Flakiness, TestValidity, GitCheckpoint, Stagnation, Debugger, Replan,
         Branches, Returns, CyclePoints, StagePoints, Terminal, WorkingPoints
<1>1. UNCHANGED <<human, aborted>> /\ history'.refused = history.refused
  <2>1. CASE Branches
    <3>1. PICK l : UNCHANGED <<human, aborted>> /\ history' = [history EXCEPT !.launches = l]
      BY <2>1 DEF Branches
    <3> QED
      BY <3>1 DEF TypeOK, History
  <2>2. CASE ~Branches
    BY <2>2 DEF Cycle, Actor, Preflight, Critics, TypeCheck, Tests, Api, Mutation, Visual,
         VerifierStage, Flakiness, TestValidity, GitCheckpoint, Stagnation, Debugger, Replan, Returns
  <2> QED
    BY <2>1, <2>2
<1>2. Alive(state') /\ GoesOn(pc')
  <2> USE <1>0, EditsAlive
  <2> USE DEF Returns
  <2>0. \A st : AfterReview(st) \in WorkingPoints /\ AfterVerifier(st) \in WorkingPoints
    BY DEF AfterReview, AfterVerifier, WorkingPoints, CyclePoints
  <2>1. CASE Actor
    <3>1. PICK c \in CallCosts, d \in {state.diff, TRUE} :
            /\ state' = [state EXCEPT !.phase = "PREFLIGHT", !.attempt = @ + 1, !.cost = @ + c,
                                      !.diff = d]
            /\ pc' = "Preflight"
      BY <2>1 DEF Actor
    <3>2. Alive(state')
      BY <3>1 DEF TypeOK, WorkflowState, Alive
    <3> QED
      BY <3>1, <3>2, WorkingNames DEF GoesOn
  <2>2. CASE Preflight
    <3>1. PICK n : state' = [state EXCEPT !.phase = "CRITICS", !.criticals = n] /\ pc' = "Critics"
      BY <2>2 DEF Preflight
    <3> QED
      BY <3>1 DEF GoesOn, WorkingPoints, CyclePoints
  <2>3. CASE Critics
    <3>1. PICK n, v : /\ state' = [state EXCEPT !.phase = "VERIFIER", !.criticals = n, !.verdict = v]
                      /\ pc' \in {AfterVerifier(state'), "TypeCheck"}
      BY <2>3 DEF Critics
    <3> QED
      BY <2>0, <3>1 DEF GoesOn, WorkingPoints, CyclePoints, StagePoints
  <2>4. CASE Stages
    <3>1. PICK v : /\ state' = [state EXCEPT !.verdict = v]
                   /\ pc' \in StagePoints \cup {AfterVerifier(state')}
      BY <2>4 DEF Stages, TypeCheck, Tests, Api, Mutation, Visual, VerifierStage, StagePoints
    <3> QED
      BY <2>0, <3>1 DEF GoesOn, WorkingPoints, CyclePoints
  <2>5. CASE Flakiness
    <3> DEFINE st == [state EXCEPT !.phase = "TEST_VALIDITY_REVIEW"]
    <3>1. \/ NextCycle(st)
          \/ state' = st /\ pc' \in {"TestValidity", AfterReview(st)}
      BY <2>5 DEF Flakiness
    <3>2. Alive(st)
      OBVIOUS
    <3> HIDE DEF st
    <3> QED
      BY <2>0, <3>1, <3>2, ControlWorks DEF GoesOn, WorkingPoints, CyclePoints
  <2>6. CASE TestValidity
    <3>1. \/ state' = [state EXCEPT !.phase = "HITL_ESCALATION"] /\ pc' = "Ask"
          \/ state' = [state EXCEPT !.phase = "ACTOR"] /\ pc' = AfterReview(state)
      BY <2>6 DEF TestValidity, AskHuman
    <3> QED
      BY <2>0, <3>1, WorkingNames DEF GoesOn
  <2>7. CASE GitCheckpoint
    <3>1. PICK k : state' = [state EXCEPT !.checkpoint = k] /\ pc' = "Stagnation"
      BY <2>7 DEF GitCheckpoint
    <3> QED
      BY <3>1 DEF GoesOn, WorkingPoints, CyclePoints
  <2>8. CASE Stagnation
    <3>1. PICK p, h : LET st == [state EXCEPT !.stagnation = p, !.errors = h]
                      IN  \/ Leave(st) \/ NextCycle(st)
                          \/ state' = st /\ pc' \in {"Debugger", "Branches", "Replan", "Ask"}
      BY <2>8 DEF Stagnation, AskHuman
    <3> DEFINE st == [state EXCEPT !.stagnation = p, !.errors = h]
    <3>2. Alive(st)
      OBVIOUS
    <3>3. \/ Leave(st) \/ NextCycle(st)
          \/ state' = st /\ pc' \in {"Debugger", "Branches", "Replan", "Ask"}
      BY <3>1
    <3> HIDE DEF st
    <3> QED
      BY <3>2, <3>3, ControlWorks DEF GoesOn, WorkingPoints, CyclePoints
  <2>9. CASE Debugger
    <3>1. PICK p : p # "FAILED" /\ NextCycle([state EXCEPT !.phase = p])
      BY <2>9 DEF Debugger, TypeOK, WorkflowState
    <3> QED
      BY <3>1, ControlWorks
  <2>10. CASE Replan
    <3>1. PICK c : NextCycle([state EXCEPT !.phase = "ACTOR", !.candidates = c])
      BY <2>10 DEF Replan
    <3>2. Alive([state EXCEPT !.phase = "ACTOR", !.candidates = c])
      OBVIOUS
    <3> QED
      BY <3>1, <3>2, ControlWorks
  <2>11. CASE Branches
    <3>1. CASE Winner(BranchStart(state))
      <4>1. StateOK(state)
        BY DEF TypeOK, StateOK
      <4>2. StateOK(BranchStart(state)) /\ Alive(BranchStart(state))
        BY <4>1, BranchStartType DEF BranchStart, Alive, StateOK, WorkflowState
      <4>3. PICK diff, cost, verdict, checkpoint :
              Leave(Won(BranchStart(state), cost, diff, verdict, checkpoint))
        BY <3>1 DEF Winner
      <4>4. Alive(Won(BranchStart(state), cost, diff, verdict, checkpoint))
        BY <4>2 DEF Won, Alive, StateOK, WorkflowState
      <4> QED
        BY <4>3, <4>4, ControlWorks
    <3>2. CASE ~Winner(BranchStart(state))
      <4>1. PICK b : NextCycle([state EXCEPT !.phase = "HITL_ESCALATION", !.exhausted = b])
        BY <2>11, <3>2 DEF Branches
      <4>2. Alive([state EXCEPT !.phase = "HITL_ESCALATION", !.exhausted = b])
        OBVIOUS
      <4> QED
        BY <4>1, <4>2, ControlWorks
    <3> QED
      BY <3>1, <3>2
  <2> QED
    BY <2>1, <2>2, <2>3, <2>4, <2>5, <2>6, <2>7, <2>8, <2>9, <2>10, <2>11 DEF Cycle, Stages
<1> QED
  BY <1>0, <1>1, <1>2 DEF Works

-----------------------------------------------------------------------------
\* The refinement.

\* What a step of the workflow does to the session it implements.
Mapped == [Abstract!Next]_<<Status, human, aborted>>

\* The status, one case at a time.
LEMMA StatusFacts ==
    ASSUME PhaseInv, RefusalInv
    PROVE  /\ pc \in WorkingPoints => Status = "working"
           /\ pc = "Wait" => Status = "waiting"
           /\ pc = "Memory" => Status = "concluding"
           /\ pc = "Thrown" => Status = "crashed"
           /\ pc = "Stuck" => Status = "stuck"
           /\ pc = "Done" => Status = IF state.lesson THEN "completed"
                                     ELSE IF history.refused \/ state.phase = "FAILED"
                                     THEN "failed" ELSE "cancelled"
  BY WorkingNames DEF Status, Terminal

LEMMA WorkMapped ==
    ASSUME TypeOK, PhaseInv, RefusalInv, PhaseInv', RefusalInv', Works
    PROVE  Mapped
<1>1. Status = "working" /\ ~state.lesson /\ ~history.refused
  BY StatusFacts, WorkingNames DEF Works, RefusalInv, RefusalIsFinal, Terminal
<1>2. UNCHANGED <<human, aborted>> /\ ~state'.lesson /\ ~history'.refused /\ state'.phase # "FAILED"
  BY <1>1 DEF Works, Alive
<1>3. CASE pc' \in WorkingPoints
  BY <1>1, <1>2, <1>3, WorkingNames DEF Mapped, Status, Terminal
<1>4. CASE pc' = "Wait"
  BY <1>1, <1>2, <1>4 DEF Mapped, Status, Abstract!Next, Abstract!Proceed, Abstract!Ask, Abstract!Goes
<1>5. CASE pc' = "Memory" /\ ~aborted
  BY <1>1, <1>2, <1>5
  DEF Mapped, Status, Abstract!Next, Abstract!Proceed, Abstract!Conclude, Abstract!Goes
<1>6. CASE pc' = "Done" /\ aborted
  BY <1>1, <1>2, <1>6
  DEF Mapped, Status, Abstract!Next, Abstract!Proceed, Abstract!GiveUp, Abstract!Goes
<1>7. CASE pc' = "Stuck"
  BY <1>1, <1>2, <1>7
  DEF Mapped, Status, Abstract!Next, Abstract!Proceed, Abstract!GetStuck, Abstract!Goes
<1> QED
  BY <1>3, <1>4, <1>5, <1>6, <1>7 DEF Works, GoesOn

\* A refused escalation fails the session, or leaves its phase and is remembered.
LEMMA TurnDownFacts ==
    ASSUME TypeOK, TurnDown
    PROVE  pc' = "Done" /\ state'.lesson = state.lesson /\ history'.refused
<1>1. \/ Leave([state EXCEPT !.phase = "FAILED"])
      \/ pc' = "Done" /\ state' \in {state, [state EXCEPT !.phase = "FAILED"]}
  BY DEF TurnDown
<1>2. history' = [history EXCEPT !.refused = TRUE]
  BY DEF TurnDown
<1> QED
  BY <1>1, <1>2, FailedLeaves DEF TypeOK, WorkflowState, History

\* What an approval does: too little budget turns it down, otherwise it wakes
\* the session.
LEMMA ApprovedFacts ==
    ASSUME TypeOK, PhaseInv, Approved
    PROVE  /\ pc = "Wait" /\ human = "approve" /\ ~aborted /\ UNCHANGED aborted
           /\ state'.lesson = state.lesson
           /\ \/ pc' = "Done" /\ history'.refused /\ UNCHANGED human
              \/ /\ pc' \in WorkingPoints \cup {"Memory"} /\ state'.phase # "FAILED"
                 /\ history'.refused = history.refused /\ human' = "none"
<1>0. pc = "Wait" /\ human = "approve" /\ ~aborted /\ UNCHANGED aborted /\ state.phase # "FAILED"
  BY DEF Approved, PhaseInv, Terminal
<1>1. CASE reason \in LoopReasons /\ BudgetTooLow
  <2>1. /\ Leave([state EXCEPT !.phase = "FAILED"]) /\ UNCHANGED human
        /\ history' = [history EXCEPT !.refused = TRUE]
    BY <1>1 DEF Approved
  <2> QED
    BY <1>0, <2>1, FailedLeaves DEF TypeOK, History
<1>2. CASE ~(reason \in LoopReasons /\ BudgetTooLow)
  <2>1. human' = "none" /\ history'.refused = history.refused
    <3>1. PICK a : history' = [history EXCEPT !.resumes = @ + 1, !.answered = a]
      BY <1>2 DEF Approved
    <3>2. human' = "none"
      BY <1>2 DEF Approved, UseDecision
    <3> QED
      BY <3>1, <3>2 DEF TypeOK, History
  <2>2. \/ pc' = "Feasibility" /\ state' = state
        \/ pc' = "ValueNode" /\ state' = [state EXCEPT !.phase = "VALUE_NODE"]
        \/ NextCycle([state EXCEPT !.phase = "ACTOR"])
    BY <1>2 DEF Approved
  <2>3. \/ pc' \in {"Feasibility", "ValueNode"} /\ Alive(state')
        \/ NextCycle([state EXCEPT !.phase = "ACTOR"])
    BY <1>0, <2>2, EditsAlive
  <2>4. CASE NextCycle([state EXCEPT !.phase = "ACTOR"])
    <3>1. Alive([state EXCEPT !.phase = "ACTOR"])
      BY <1>0, EditsAlive
    <3>2. Alive(state')
      BY <2>4, <3>1, ControlWorks
    <3>3. pc' \in {"Actor", "Memory"}
      BY <1>0, <2>4, <3>1 DEF NextCycle, Leave, Alive
    <3> QED
      BY <1>0, <2>1, <3>2, <3>3, WorkingNames DEF Alive
  <2>5. CASE pc' \in {"Feasibility", "ValueNode"} /\ Alive(state')
    BY <1>0, <2>1, <2>5 DEF Alive, WorkingPoints, SetupPoints
  <2> QED
    BY <2>3, <2>4, <2>5
<1> QED
  BY <1>1, <1>2

\* An abort in the loop closes the workflow; elsewhere it sets the flag.
LEMMA AbortFacts ==
    ASSUME TypeOK, PhaseInv, Abort
    PROVE  /\ pc \notin Terminal /\ ~aborted /\ aborted' /\ UNCHANGED <<human, history>>
           /\ \/ UNCHANGED <<pc, state>>
              \/ /\ pc' = "Done" /\ pc \in WorkingPoints \cup {"Wait"}
                 /\ state'.lesson = state.lesson
                 /\ state'.phase # "FAILED" \/ pc = "Wait"
<1>1. pc \notin Terminal /\ ~aborted /\ aborted' /\ UNCHANGED <<human, history>>
  BY DEF Abort
<1>2. CASE InScope /\ pc # "Branches"
  <2>1. pc \in WorkingPoints \cup {"Wait"}
    BY <1>2 DEF InScope, WorkingPoints, HumanPoints
  <2> DEFINE failed == [state EXCEPT !.phase = "FAILED"]
  <2>3. pc' = "Done" /\ state' \in {state} \cup {failed : w \in {"Wait"} \cap {pc}}
    BY <1>2 DEF Abort
  <2> HIDE DEF failed
  <2>2. pc' = "Done" /\ (state' = state \/ (state' = failed /\ pc = "Wait"))
    BY <2>3
  <2> USE DEF failed
  <2> QED
    BY <1>1, <2>1, <2>2 DEF PhaseInv, TypeOK, WorkflowState
<1>3. CASE ~(InScope /\ pc # "Branches")
  BY <1>1, <1>3 DEF Abort
<1> QED
  BY <1>2, <1>3

LEMMA PhaseStep == TypeOK /\ PhaseInv /\ [Next]_vars => PhaseInv'
<1> SUFFICES ASSUME TypeOK, PhaseInv, [Next]_vars PROVE PhaseInv'
  OBVIOUS
<1>1. CASE Setup \/ Cycle
  BY <1>1, SetupWorks, CycleWorks DEF Works, Alive, PhaseInv
<1>2. CASE Ask
  <2>1. state' = [state EXCEPT !.phase = "HITL_ESCALATION"]
    BY <1>2 DEF Ask, Returns
  <2> QED
    BY <2>1 DEF PhaseInv, TypeOK, WorkflowState
<1>3. CASE Refused \/ WaitTimeout
  BY <1>3, TurnDownFacts DEF Refused, WaitTimeout, PhaseInv, Terminal
<1>4. CASE Approved
  BY <1>4, ApprovedFacts DEF PhaseInv, Terminal
<1>5. CASE Memory \/ ActivityFails
  BY <1>5 DEF Memory, ActivityFails, Returns, PhaseInv, Terminal
<1>6. CASE Decide \/ Closed \/ UNCHANGED vars
  BY <1>6 DEF Decide, Closed, vars, PhaseInv
<1>7. CASE Abort
  BY <1>7, AbortFacts DEF PhaseInv, Terminal
<1> QED
  BY <1>1, <1>2, <1>3, <1>4, <1>5, <1>6, <1>7 DEF Next, Step, Human

LEMMA MappedStep ==
    TypeOK /\ PhaseInv /\ RefusalInv /\ PhaseInv' /\ RefusalInv' /\ [Next]_vars => Mapped
<1> SUFFICES ASSUME TypeOK, PhaseInv, RefusalInv, PhaseInv', RefusalInv', [Next]_vars PROVE Mapped
  OBVIOUS
<1> USE DEF Mapped, Abstract!Next, Abstract!Proceed
<1>0. pc # "Done" => ~state.lesson /\ ~history.refused
  BY DEF RefusalInv, RefusalIsFinal
<1>1. CASE Setup \/ Cycle
  BY <1>1, SetupWorks, CycleWorks, WorkMapped
<1>2. CASE Ask
  <2>1. pc = "Ask" /\ pc' = "Wait" /\ UNCHANGED <<human, aborted>>
    BY <1>2 DEF Ask, Returns
  <2> QED
    BY <2>1 DEF Status, Abstract!Ask, Abstract!Goes
<1>3. CASE Refused \/ WaitTimeout
  <2>1. pc = "Wait" /\ UNCHANGED <<human, aborted>>
    BY <1>3 DEF Refused, WaitTimeout
  <2>2. pc' = "Done" /\ ~state'.lesson /\ history'.refused
    BY <1>0, <1>3, <2>1, TurnDownFacts DEF Refused, WaitTimeout
  <2> QED
    BY <2>1, <2>2 DEF Status, Abstract!TurnDown, Abstract!Goes
<1>4. CASE Approved
  <2>1. CASE pc' = "Done"
    <3>1. pc = "Wait" /\ ~state'.lesson /\ history'.refused /\ UNCHANGED <<human, aborted>>
      BY <1>0, <1>4, <2>1, ApprovedFacts, WorkingNames DEF Terminal
    <3> QED
      BY <2>1, <3>1 DEF Status, Abstract!TurnDown, Abstract!Goes
  <2>2. CASE pc' # "Done"
    <3>1. /\ pc = "Wait" /\ human = "approve" /\ ~aborted /\ UNCHANGED aborted /\ human' = "none"
          /\ pc' \in WorkingPoints \cup {"Memory"}
      BY <1>4, <2>2, ApprovedFacts
    <3>2. Status = "waiting" /\ Status' \in {"working", "concluding"}
      BY <3>1, WorkingNames DEF Status, Terminal
    <3> QED
      BY <3>1, <3>2 DEF Abstract!Resume
  <2> QED
    BY <2>1, <2>2
<1>5. CASE Memory
  <2>1. /\ pc = "Memory" /\ pc' = "Done" /\ UNCHANGED <<human, aborted>>
        /\ state' = [state EXCEPT !.phase = "COMPLETE", !.lesson = TRUE]
    BY <1>5 DEF Memory, Returns
  <2>2. state'.lesson
    BY <2>1 DEF TypeOK, WorkflowState
  <2> QED
    BY <2>1, <2>2 DEF Status, Abstract!Finish, Abstract!Goes
<1>6. CASE ActivityFails
  <2>1. /\ pc \in WorkingPoints \cup {"Memory"} /\ pc' = "Thrown" /\ UNCHANGED <<human, aborted>>
    BY <1>6, WorkingNames DEF ActivityFails, TypeOK
  <2>2. Status \in {"working", "concluding"} /\ Status' = "crashed"
    BY <2>1, WorkingNames DEF Status, Terminal
  <2> QED
    BY <2>1, <2>2 DEF Abstract!Crash, Abstract!Goes
<1>7. CASE Decide
  <2>1. /\ pc \notin Terminal /\ UNCHANGED <<pc, state, aborted>> /\ human' \in Decisions
        /\ history'.refused = history.refused
    BY <1>7 DEF Decide, TypeOK, History
  <2>2. Status' = Status /\ Status \notin Abstract!Final
    BY <2>1 DEF Status, Abstract!Final, Terminal
  <2> QED
    BY <2>1, <2>2 DEF Abstract!Decide, Decisions
<1>8. CASE Abort
  <2>1. ~aborted /\ aborted' /\ UNCHANGED human /\ pc \notin Terminal /\ UNCHANGED history
    BY <1>8, AbortFacts
  <2>2. Status \notin Abstract!Final
    BY <2>1 DEF Status, Abstract!Final, Terminal
  <2>3. CASE UNCHANGED <<pc, state>>
    <3>1. Status' = Status
      BY <2>1, <2>3 DEF Status
    <3> QED
      BY <2>1, <2>2, <3>1 DEF Abstract!Stop
  <2>4. CASE ~UNCHANGED <<pc, state>>
    <3>1. /\ pc' = "Done" /\ pc \in WorkingPoints \cup {"Wait"} /\ ~state'.lesson
          /\ ~history'.refused /\ (state'.phase # "FAILED" \/ pc = "Wait")
      BY <1>0, <1>8, <2>1, <2>4, AbortFacts DEF Terminal
    <3>2. \/ Status \in {"working", "waiting"} /\ Status' = "cancelled"
          \/ Status = "waiting" /\ Status' = "failed"
      BY <3>1, WorkingNames DEF Status, Terminal
    <3> QED
      BY <2>1, <2>2, <3>2 DEF Abstract!Stop
  <2> QED
    BY <2>3, <2>4
<1>9. CASE Closed \/ UNCHANGED vars
  BY <1>9 DEF Closed, vars, Status
<1> QED
  BY <1>1, <1>2, <1>3, <1>4, <1>5, <1>6, <1>7, <1>8, <1>9 DEF Next, Step, Human

\* The phase FAILED and the lesson of a session that has not ended.
LEMMA SessionPlaced == Spec => [](PhaseInv /\ RefusalInv)
<1>1. Init => PhaseInv /\ RefusalInv
  BY DEF Init, InitialState, PhaseInv, RefusalInv, RefusalIsFinal
<1>2. TypeOK /\ PhaseInv /\ RefusalInv /\ [Next]_vars => PhaseInv' /\ RefusalInv'
  BY PhaseStep, RefusalStep
<1> QED
  BY <1>1, <1>2, TypeCorrect, PTL DEF Spec

\* The workflow implements the session: what CodingWorkflow.ts and its signal
\* handlers do is what Session allows, for every plan, budget, ladder and order of
\* signals.
THEOREM WorkflowIsASession == Spec => ImplementsSession
<1>1. Init => Abstract!Init
  BY DEF Init, Abstract!Init, Status
<1>2. TypeOK /\ PhaseInv /\ RefusalInv /\ PhaseInv' /\ RefusalInv' /\ [Next]_vars
        => [Abstract!Next]_(Abstract!avars)
  BY MappedStep DEF Mapped, Abstract!avars
<1> QED
  BY <1>1, <1>2, TypeCorrect, SessionPlaced, PTL DEF Spec, Abstract!Spec, ImplementsSession

-----------------------------------------------------------------------------
\* Aborted sessions.

\* Where a session can be after an abort: what the signal does not cancel is
\* setup, a batch of branches, and the consolidation it came too late for.
AbortPlaces(p, why) == \/ p \in SetupPoints \cup {"Branches", "Memory"} \cup Terminal
                       \/ p \in HumanPoints /\ why \in SetupReasons

AbortInv == aborted => AbortPlaces(pc, reason)

\* What an aborted session can still do.
LEMMA AbortedMoves ==
    ASSUME TypeOK, AbortInv, aborted, [Next]_vars
    PROVE  \/ UNCHANGED <<pc, reason>>
           \/ pc' \in SetupPoints \cup Terminal
           \/ pc' \in HumanPoints /\ reason' \in SetupReasons
<1>0. AbortPlaces(pc, reason)
  BY DEF AbortInv
<1>1. CASE Setup
  <2>1. CASE Bootstrap \/ Scout \/ Briefing \/ ValueNode \/ TddGate
    BY <2>1 DEF Bootstrap, Scout, Briefing, ValueNode, TddGate, Returns, SetupPoints
  <2>2. CASE Baseline \/ Feasibility
    BY <2>2 DEF Baseline, Feasibility, Gate, AskHuman, SetupPoints, HumanPoints, SetupReasons
  <2>3. CASE Plan \/ SandboxValidation \/ Team
    BY <2>3 DEF Plan, SandboxValidation, Team, Implement, FirstCycle, Leave, SetupPoints, Terminal
  <2> QED
    BY <1>1, <2>1, <2>2, <2>3 DEF Setup
<1>2. CASE Cycle
  <2>1. Branches
    BY <1>0, <1>2, WorkingNames
    DEF Cycle, Actor, Preflight, Critics, TypeCheck, Tests, Api, Mutation, Visual,
        VerifierStage, Flakiness, TestValidity, GitCheckpoint, Stagnation, Debugger, Replan, Returns,
        AbortPlaces, SetupPoints, HumanPoints, Terminal
  <2> QED
    BY <2>1 DEF Branches, NextCycle, Leave, Winner, Terminal
<1>3. CASE Human
  <2>1. CASE Ask
    BY <1>0, <2>1 DEF Ask, Returns, AbortPlaces, SetupPoints, HumanPoints, Terminal
  <2>2. CASE Refused \/ WaitTimeout
    BY <2>2, TurnDownFacts DEF Refused, WaitTimeout, Terminal
  <2> QED
    BY <1>3, <2>1, <2>2 DEF Human, Approved
<1>4. CASE Memory \/ ActivityFails
  BY <1>4 DEF Memory, ActivityFails, Returns, Terminal
<1>5. CASE Decide \/ Abort \/ Closed \/ UNCHANGED vars
  BY <1>5 DEF Decide, Abort, Closed, vars
<1> QED
  BY <1>1, <1>2, <1>3, <1>4, <1>5 DEF Next, Step

LEMMA AbortStep == TypeOK /\ AbortInv /\ [Next]_vars => AbortInv'
<1> SUFFICES ASSUME TypeOK, AbortInv, [Next]_vars, aborted' PROVE AbortPlaces(pc', reason')
  BY DEF AbortInv
<1>1. CASE aborted
  BY <1>1, AbortedMoves DEF AbortPlaces, AbortInv
<1>2. CASE ~aborted
  <2>1. Abort
    BY <1>2
    DEF Next, Step, Setup, Cycle, Human, Bootstrap, Scout, Briefing, Baseline, Feasibility, Gate,
        ValueNode, Plan, TddGate, SandboxValidation, Implement, Team, Actor, Preflight, Critics,
        TypeCheck, Tests, Api, Mutation, Visual, VerifierStage, Flakiness, TestValidity,
        GitCheckpoint, Stagnation, Debugger, Replan, Branches, Ask, Refused, WaitTimeout, Approved,
        Memory, ActivityFails, Decide, Closed, Returns, vars
  <2>2. pc' = "Done" \/ (UNCHANGED <<pc, reason>> /\ ~(InScope /\ pc # "Branches"))
    BY <2>1 DEF Abort
  <2>3. pc \in Points
    BY DEF TypeOK
  <2> QED
    BY <2>2, <2>3 DEF AbortPlaces, InScope, InSetup, Points, Terminal
<1> QED
  BY <1>1, <1>2

\* After humanAbort no activity of a correction cycle and no consolidation is
\* started, wherever the signal found the session.
THEOREM AbortEndsWork == Spec => AbortIsFinal
<1>1. Init => AbortInv
  BY DEF Init, AbortInv
<1>2. TypeOK /\ AbortInv /\ [Next]_vars => AbortInv'
  BY AbortStep
<1>3. TypeOK /\ AbortInv /\ [Next]_vars
        => [aborted /\ pc' # pc => pc' \notin CyclePoints \cup {"Memory"}]_vars
  <2>1. (SetupPoints \cup HumanPoints \cup Terminal) \cap (CyclePoints \cup {"Memory"}) = {}
    BY DEF SetupPoints, HumanPoints, Terminal, CyclePoints, StagePoints
  <2> QED
    BY <2>1, AbortedMoves
<1> QED
  BY <1>1, <1>2, <1>3, TypeCorrect, PTL DEF Spec, AbortIsFinal
=============================================================================
