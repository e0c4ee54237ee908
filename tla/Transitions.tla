----------------------------- MODULE Transitions ------------------------------
(***************************************************************************)
(* The decisions taken at the end of a correction cycle: is the session    *)
(* stuck (stagnation detection and its ladder), how confident is it, and   *)
(* where does it go next.  Money is counted in units of which Critical     *)
(* make the budget; confidence in hundredths, times Critical, so that the  *)
(* budget fraction of the score stays an integer.                          *)
(***************************************************************************)
EXTENDS Integers, Sequences

CONSTANTS MaxCycles,      \* maxSelfCorrectionCycles
          Critical,       \* tokenBudget.criticalDollar
          Threshold,      \* confidenceEscalationThreshold, in hundredths
          HistoryLength   \* error hashes remembered (10 in the code)

ASSUME MaxCyclesAssumption == MaxCycles \in Nat \ {0}
ASSUME CriticalAssumption == Critical \in Nat \ {0}
ASSUME ThresholdAssumption == Threshold \in 0 .. 100
ASSUME HistoryLengthAssumption == HistoryLength \in Nat \ {0}

Patterns == {"none", "iteration", "semantic", "outcome"}

LoopReasons == {"budget_exceeded", "low_confidence", "max_cycles_reached", "stagnation"}

-----------------------------------------------------------------------------
\* Stagnation.

\* The last hash of the history is the code's lastErrorHash.  The semantic
\* pattern compares with the failure texts of earlier audit entries; no entry
\* carries any (keyValues.testFailures is never written), so it never arises.
StagnationPattern(attempt, history, hash) ==
    IF attempt < 2 \/ history = << >> THEN "none"
    ELSE IF history[Len(history)] = hash THEN "iteration"
    ELSE IF \E k \in 1 .. Len(history) : history[k] = hash THEN "outcome"
    ELSE "none"

Remember(history, hash) ==
    LET longer == Append(history, hash)
    IN  IF Len(longer) > HistoryLength THEN Tail(longer) ELSE longer

ConsecutiveStagnation(n, pattern) == IF pattern = "none" THEN 0 ELSE n + 1

\* Mutant of LadderAction: the rung of two stagnant cycles is skipped.
SteeperLadder(n) ==
    LET ladder == <<"enrich_prompt", "speculative_branch", "targeted_hitl", "full_escalation">>
    IN  IF n = 0 THEN "none" ELSE IF n < 4 THEN ladder[n] ELSE "full_escalation"

LadderAction(n) ==
    LET ladder == <<"enrich_prompt", "auto_debug", "speculative_branch", "targeted_hitl">>
    IN  IF n = 0 THEN "none" ELSE IF n <= 4 THEN ladder[n] ELSE "full_escalation"

-----------------------------------------------------------------------------
\* Confidence.

StagnationPenalty(pattern) ==
    CASE pattern = "none"      -> 0
      [] pattern = "iteration" -> 15
      [] pattern = "semantic"  -> 20
      [] pattern = "outcome"   -> 25

\* 1 - 0.08 a - penalty - 0.05 n - 0.15 [ambiguous] - 0.4 (cost/Critical - 0.5)
\* when over half the budget is spent, clamped at 0; times 100 * Critical.
Confidence(attempt, pattern, criticals, diagnostic, cost) ==
    LET points == 100 - 8 * attempt - StagnationPenalty(pattern) - 5 * criticals
                  - (IF diagnostic = "AMBIGUOUS" THEN 15 ELSE 0)
        spent  == IF 2 * cost > Critical THEN 40 * cost - 20 * Critical ELSE 0
        score  == points * Critical - spent
    IN  IF score < 0 THEN 0 ELSE score

-----------------------------------------------------------------------------
\* Routing.

\* Mutant of Escalation: stagnation is looked at before the cycle limit.
StagnationFirst(verdict, attempt, pattern, criticals, cost) ==
    IF cost >= Critical THEN "budget_exceeded"
    ELSE IF Confidence(attempt, pattern, criticals, verdict.diagnostic, cost)
              < Threshold * Critical THEN "low_confidence"
    ELSE IF pattern # "none" THEN "stagnation"
    ELSE IF attempt >= MaxCycles THEN "max_cycles_reached"
    ELSE "none"

\* Mutant of Escalation: the budget is not looked at.
BudgetIgnored(verdict, attempt, pattern, criticals, cost) ==
    IF Confidence(attempt, pattern, criticals, verdict.diagnostic, cost)
         < Threshold * Critical THEN "low_confidence"
    ELSE IF attempt >= MaxCycles THEN "max_cycles_reached"
    ELSE IF pattern # "none" THEN "stagnation"
    ELSE "none"

\* The first reason to stop retrying, "none" if there is none.
Escalation(verdict, attempt, pattern, criticals, cost) ==
    IF cost >= Critical THEN "budget_exceeded"
    ELSE IF Confidence(attempt, pattern, criticals, verdict.diagnostic, cost)
              < Threshold * Critical THEN "low_confidence"
    ELSE IF attempt >= MaxCycles THEN "max_cycles_reached"
    ELSE IF pattern # "none" THEN "stagnation"
    ELSE "none"

\* Where a failed cycle with no reason to escalate goes next; untried tells
\* whether a strategy candidate has not been launched on a branch yet.
Retry(verdict, attempt, untried) ==
    IF verdict.diagnostic = "AMBIGUOUS" /\ attempt <= 1 THEN "INTELLIGENT_DEBUGGER"
    ELSE IF attempt >= 2 /\ untried THEN "SPECULATIVE_BRANCH"
    ELSE IF attempt >= 2 THEN "REPLAN"
    ELSE "ACTOR"

VerifierTransition(verdict, attempt, pattern, criticals, cost, untried) ==
    LET why == Escalation(verdict, attempt, pattern, criticals, cost)
    IN  IF verdict.result = "PASS" THEN [next |-> "MEMORY_CONSOLIDATION", reason |-> "none"]
        ELSE IF why # "none" THEN [next |-> "HITL_ESCALATION", reason |-> why]
        ELSE [next |-> Retry(verdict, attempt, untried), reason |-> "none"]
=============================================================================
