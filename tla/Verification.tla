----------------------------- MODULE Verification -----------------------------
(***************************************************************************)
(* The judgement of one correction cycle: the critics and the five         *)
(* verifier stages, each an activity that reads the verdict left by the    *)
(* one before and returns a new one.  A stage is given here as the set of  *)
(* verdicts it may return, so that the workflow and the speculative        *)
(* branches, which run the same stages, share one definition.              *)
(*                                                                         *)
(* A list of failure messages is what stagnation detection hashes: two     *)
(* lists with the same hash are one element of Errors, and the empty list  *)
(* is NoFailures.                                                          *)
(***************************************************************************)
EXTENDS Integers

CONSTANTS Errors,        \* the distinct non-empty lists of failure messages
          TestFiles,     \* the test files a failure could name
          MaxCriticals   \* bound on the critical findings of one critics run

NoFailures == "no failures"

ASSUME ErrorsAssumption == NoFailures \notin Errors
ASSUME MaxCriticalsAssumption == MaxCriticals \in Nat

Diagnostics == {"UNKNOWN", "PASS", "FIX_IMPL", "FIX_TEST", "AMBIGUOUS"}

Verdict == [result     : {"NONE", "PASS", "FAIL"},
            diagnostic : Diagnostics,
            failures   : Errors \cup {NoFailures},
            files      : SUBSET TestFiles,
            blocked    : BOOLEAN]

\* verifierVerdict = null, as its readers see it (?. and ??).
NoVerdict == [result |-> "NONE", diagnostic |-> "UNKNOWN",
              failures |-> NoFailures, files |-> {}, blocked |-> FALSE]

AlreadyFailed(v) == v.result = "FAIL"

PassVerdict(v) ==
    [result |-> "PASS", diagnostic |-> "PASS",
     failures |-> NoFailures, files |-> {}, blocked |-> v.blocked]

\* No stage copies the file of a failure: files is empty in every verdict.
FailVerdict(v, diagnostic, failures) ==
    [result |-> "FAIL", diagnostic |-> diagnostic,
     failures |-> failures, files |-> {}, blocked |-> v.blocked]

(***************************************************************************)
(* A stage that finds an earlier FAIL returns it untouched; without a diff *)
(* it passes; otherwise it passes or fails with one of its diagnostics.  A *)
(* stage that is switched off, does not apply to the module, or whose tool *)
(* does not start answers PASS, one of the outcomes below.                 *)
(***************************************************************************)
Stage(v, diff, diagnostics, failures) ==
    IF AlreadyFailed(v) THEN {v}
    ELSE {PassVerdict(v)} \cup
         (IF diff THEN {FailVerdict(v, d, f) : d \in diagnostics, f \in failures} ELSE {})

TypeCheckOutcomes(v, diff) == Stage(v, diff, {"AMBIGUOUS"}, Errors)

\* A runner may report that it did not pass and list no failure.
TestsOutcomes(v, diff) == Stage(v, diff, {"FIX_IMPL", "FIX_TEST"}, Errors \cup {NoFailures})

ApiOutcomes(v, diff) == Stage(v, diff, {"FIX_IMPL"}, Errors \cup {NoFailures})

MutationOutcomes(v, diff) == Stage(v, diff, {"FIX_TEST"}, Errors)

VisualOutcomes(v, diff) == Stage(v, diff, {"FIX_IMPL"}, Errors)

\* The verdict after a critics run with n critical findings: it is replaced
\* only when there is one, and kept, an old FAIL included, otherwise.
CriticsOutcomes(v, n) ==
    IF n = 0 THEN {v}
    ELSE {[result |-> "FAIL", diagnostic |-> "FIX_IMPL",
           failures |-> f, files |-> {}, blocked |-> TRUE] : f \in Errors}

\* The number of critical findings the critics can report on a diff.
CriticalCounts(diff, old) == IF diff THEN 0 .. MaxCriticals ELSE {old}

\* The five stages one after the other, as a speculative branch runs them.
StagesOutcomes(v, diff) ==
    LET Then(Outcomes(_, _), V) == UNION {Outcomes(u, diff) : u \in V}
    IN  Then(VisualOutcomes, Then(MutationOutcomes, Then(ApiOutcomes,
          Then(TestsOutcomes, TypeCheckOutcomes(v, diff)))))
=============================================================================
