------------------------------ MODULE WorkingTree ------------------------------
(***************************************************************************)
(* One correction cycle at the grain of its awaits, over the one working   *)
(* tree, index and HEAD that every activity shares: the actor's agent call *)
(* (BudgetAwareAgent around ClaudeAgentSdkProvider), preflight's           *)
(* reconciliation with git, the tests, and the git checkpoint.  Temporal   *)
(* retries an activity that throws or takes too long, but neither actor    *)
(* nor checkpoint looks at its cancellation: an attempt that was given up  *)
(* goes on, and its agent goes on editing files and spending.  The cycle   *)
(* is a session's first, with no diff yet: no later one can pass.          *)
(***************************************************************************)
EXTENDS Integers, FiniteSets

CONSTANTS
    Files,         \* paths the agent may write
    MaxAttempts,   \* retry.maximumAttempts
    MaxTurns,      \* maxTurns of the agent call; a turn costs one unit
    Critical       \* tokenBudget.criticalDollar, in the same unit

ASSUME FilesAssumption    == IsFiniteSet(Files)
ASSUME AttemptsAssumption == MaxAttempts \in Nat \ {0}
ASSUME TurnsAssumption    == MaxTurns \in Nat
ASSUME CriticalAssumption == Critical \in Nat

VARIABLES
    step,      \* the activity the workflow waits for
    begun,     \* its attempts so far; the last is the one Temporal listens to
    agent,     \* the agent call of each attempt of the actor
    git,       \* the git command each attempt of the checkpoint is at
    tree, index, head,   \* the content of every file in each of the three
    spent,     \* what each agent call has cost
    recorded,  \* cumulativeCostUsd
    before,    \* not in the code: its value when the cycle began
    proposed,  \* diffProposal # null
    diff,      \* the files of diffProposal
    commit,    \* gitCheckpoint.commitHash: the commit it names, none or one
    tested,    \* not in the code: the tree as the tests read it
    origin,    \* not in the code: HEAD when the cycle began
    late,      \* not in the code: files given-up calls wrote after preflight asked git
    missed     \* not in the code: changed files preflight did not get from git

vars == <<step, begun, agent, git, tree, index, head, spent, recorded, before,
          proposed, diff, commit, tested, origin, late, missed>>

Attempts  == 1 .. MaxAttempts
Steps     == {"actor", "preflight", "tests", "checkpoint"}
Endings   == {"done", "failed"}
GitPoints == {"checkout", "add", "commit", "rev-parse"}

\* A content is the attempt and turn that wrote it; attempt 0 is what was there.
Absent == <<0, 0>>
Base   == <<0, 1>>
Staged == <<0, 2>>
Dirty  == <<0, 3>>
Contents == (0 .. MaxAttempts) \X (0 .. MaxTurns + 3)

Alive(a) == agent[a] = "turns"
Repo   == <<tree, index, head>>
Result == <<proposed, diff>>
Ghosts == <<before, tested, origin, late, missed>>

TypeOK ==
    /\ step \in Steps \cup Endings
    /\ begun \in 0 .. MaxAttempts
    /\ agent \in [Attempts -> {"none", "turns", "over"}]
    /\ git \in [Attempts -> {"none", "over"} \cup GitPoints]
    /\ {tree, index, head, tested, origin} \subseteq [Files -> Contents]
    /\ spent \in [Attempts -> 0 .. MaxTurns]
    /\ {recorded, before} \subseteq Nat
    /\ proposed \in BOOLEAN
    /\ diff \in SUBSET Files
    /\ commit \in SUBSET [Files -> Contents] /\ Cardinality(commit) <= 1
    /\ {late, missed} \subseteq SUBSET Files

\* The user may have staged changes, new files and removals, and have changed, left
\* or undone in the tree what is staged; files git does not track are in neither.
Init ==
    /\ step = "actor"
    /\ begun = 0
    /\ agent = [a \in Attempts |-> "none"]
    /\ git = [a \in Attempts |-> "none"]
    /\ head \in [Files -> {Absent, Base}]
    /\ index \in [Files -> {Absent, Base, Staged}]
    /\ \A f \in Files : index[f] = Base => head[f] = Base
    /\ tree \in [Files -> {Absent, Base, Staged, Dirty}]
    /\ \A f \in Files : tree[f] \in {head[f], index[f], Absent, Dirty}
    /\ spent = [a \in Attempts |-> 0]
    /\ recorded \in 0 .. Critical /\ before = recorded
    /\ proposed = FALSE
    /\ diff = {}
    /\ commit = {}
    /\ tested = tree
    /\ origin = head
    /\ late = {} /\ missed = {}

-----------------------------------------------------------------------------
\* The attempts of an activity, as Temporal sees them.

GoTo(s) == step' = s /\ begun' = 0

\* The attempt it listens to failed or took too long: one more, or none.
GiveUp ==
    IF begun < MaxAttempts THEN begun' = begun + 1 /\ UNCHANGED step ELSE GoTo("failed")

\* Mutant of BeginActor: the budget is not looked at before the call.
BeginUnguarded ==
    /\ step = "actor" /\ begun = 0
    /\ begun' = 1
    /\ UNCHANGED <<step, agent, git, spent, recorded, commit, Repo, Result, Ghosts>>

\* BudgetExceededError is not retried.  The total it looks at is the one the
\* session had before the first attempt.
BeginActor ==
    /\ step = "actor" /\ begun = 0
    /\ IF recorded >= Critical
       THEN GoTo("failed")
       ELSE begun' = 1 /\ UNCHANGED step
    /\ UNCHANGED <<agent, git, spent, recorded, commit, Repo, Result, Ghosts>>

StartCall(a) ==
    /\ step = "actor" /\ a = begun /\ agent[a] = "none"
    /\ agent' = [agent EXCEPT ![a] = "turns"]
    /\ UNCHANGED <<step, begun, git, spent, recorded, commit, Repo, Result, Ghosts>>

\* The agent's turns go on whether or not anybody waits for them; each may write a
\* file or delete it.
Turn(a) ==
    /\ Alive(a) /\ spent[a] < MaxTurns
    /\ spent' = [spent EXCEPT ![a] = @ + 1]
    /\ \/ UNCHANGED <<tree, late>>
       \/ \E f \in Files :
            /\ \E content \in {<<a, spent[a] + 1>>, Absent} : tree' = [tree EXCEPT ![f] = content]
            /\ late' = IF step \in {"actor", "preflight"} THEN late ELSE late \cup {f}
    /\ UNCHANGED <<step, begun, agent, git, index, head, recorded, commit, before,
                   tested, origin, missed, Result>>

\* The stream ends: with a result message and so a cost, or without; with files
\* listed in a form the actor can parse, or not.  Only the attempt Temporal
\* listens to is heard; any other result, and its cost, is dropped.
Finish(a) ==
    /\ Alive(a)
    /\ agent' = [agent EXCEPT ![a] = "over"]
    /\ IF step = "actor" /\ a = begun
       THEN /\ GoTo("preflight")
            /\ recorded' \in {recorded, recorded + spent[a]}
            /\ \/ UNCHANGED <<proposed, diff>>
               \/ proposed' = TRUE /\ diff' \in SUBSET Files
       ELSE UNCHANGED <<step, begun, recorded, Result>>
    /\ UNCHANGED <<git, spent, commit, Repo, Ghosts>>

\* The stream throws.
Throw(a) ==
    /\ Alive(a)
    /\ agent' = [agent EXCEPT ![a] = "over"]
    /\ IF step = "actor" /\ a = begun THEN GiveUp ELSE UNCHANGED <<step, begun>>
    /\ UNCHANGED <<git, spent, recorded, commit, Repo, Result, Ghosts>>

\* An activity passes its start-to-close timeout; nobody tells its attempt.
Expire ==
    /\ step \in {"actor", "checkpoint"} /\ begun > 0
    /\ GiveUp
    /\ UNCHANGED <<agent, git, spent, recorded, commit, Repo, Result, Ghosts>>

\* The worker dies, its calls with it; Temporal finds out at the timeout.
Crash ==
    /\ \E a \in Attempts : Alive(a) \/ git[a] \in GitPoints
    /\ agent' = [a \in Attempts |-> IF Alive(a) THEN "over" ELSE agent[a]]
    /\ git' = [a \in Attempts |-> IF git[a] \in GitPoints THEN "over" ELSE git[a]]
    /\ UNCHANGED <<step, begun, spent, recorded, commit, Repo, Result, Ghosts>>

-----------------------------------------------------------------------------
\* git diff --name-only HEAD: the files in the index whose content in the tree is
\* not HEAD's, whatever is staged, and those of HEAD that are not in the index.
Changed == {f \in Files : IF index[f] = Absent THEN head[f] # Absent ELSE tree[f] # head[f]}

\* Mutant of Preflight: the diff is what the actor reported, as it reported it.
PreflightTrusting ==
    /\ step = "preflight"
    /\ GoTo("tests")
    /\ UNCHANGED <<agent, git, spent, recorded, commit, Repo, Result, Ghosts>>

\* Changed files the actor did not report join the diff, those whose own diff git
\* gives: one that fails is left out, and all are when the listing fails.  Nothing
\* joins when there is no diff.
Preflight ==
    /\ step = "preflight"
    /\ GoTo("tests")
    /\ \/ /\ proposed
          /\ \E seen \in SUBSET (Changed \ diff) : diff' = diff \cup seen
          /\ missed' = Changed \ diff'
       \/ ~proposed /\ UNCHANGED <<diff, missed>>
    /\ UNCHANGED <<agent, git, spent, recorded, before, proposed, commit, tested, origin, late, Repo>>

\* Critics and stages read the tree.  A PASS goes to the checkpoint; any other
\* verdict ends the cycle.
Verify ==
    /\ step = "tests"
    /\ tested' = tree
    /\ GoTo("checkpoint") \/ GoTo("done")
    /\ UNCHANGED <<agent, git, spent, recorded, before, commit, origin, late, missed, Repo, Result>>

-----------------------------------------------------------------------------
\* gitCheckpointImpl: four git commands, and any failure only leaves the
\* commit out.

BeginCheckpoint ==
    /\ step = "checkpoint" /\ begun = 0
    /\ begun' = 1
    /\ UNCHANGED <<step, agent, git, spent, recorded, commit, Repo, Result, Ghosts>>

StartCheckpoint(a) ==
    /\ step = "checkpoint" /\ a = begun /\ git[a] = "none"
    /\ git' = [git EXCEPT ![a] = "checkout"]
    /\ UNCHANGED <<step, begun, agent, spent, recorded, commit, Repo, Result, Ghosts>>

GitGoesOn(a, from, to) ==
    /\ git[a] = from
    /\ git' = [git EXCEPT ![a] = to]
    /\ UNCHANGED <<step, begun, agent, spent, recorded, commit, Result, Ghosts>>

\* The attempt ends with a commit to name, or none; the workflow goes on if it
\* still listens.
Return(a, named) ==
    /\ git' = [git EXCEPT ![a] = "over"]
    /\ IF step = "checkpoint" /\ a = begun
       THEN GoTo("done") /\ commit' = named
       ELSE UNCHANGED <<step, begun, commit>>
    /\ UNCHANGED <<agent, spent, recorded, Repo, Result, Ghosts>>

\* checkout -B of the session's branch at HEAD changes no file.
Checkout(a) == diff # {} /\ GitGoesOn(a, "checkout", "add") /\ UNCHANGED Repo

Stageable == \A f \in diff : tree[f] # Absent \/ index[f] # Absent

Add(a) ==
    /\ Stageable
    /\ GitGoesOn(a, "add", "commit")
    /\ index' = [f \in Files |-> IF f \in diff THEN tree[f] ELSE index[f]]
    /\ UNCHANGED <<tree, head>>

\* The whole index is committed.
Commit(a) == GitGoesOn(a, "commit", "rev-parse") /\ head' = index /\ UNCHANGED <<tree, index>>

RevParse(a) == git[a] = "rev-parse" /\ Return(a, {head})

\* Nothing to commit after the checkout, or a command fails: an add does when a
\* path it is given is nowhere.
NoCommit(a) == git[a] \in GitPoints /\ Return(a, {})

Checkpoint(a) == StartCheckpoint(a) \/ Checkout(a) \/ Add(a) \/ Commit(a) \/ RevParse(a) \/ NoCommit(a)

Over == step \in Endings /\ (\A a \in Attempts : ~Alive(a) /\ git[a] \notin GitPoints) /\ UNCHANGED vars

Next ==
    \/ BeginActor
    \/ \E a \in Attempts : StartCall(a) \/ Turn(a) \/ Finish(a) \/ Throw(a)
    \/ Expire
    \/ Crash
    \/ Preflight
    \/ Verify
    \/ BeginCheckpoint
    \/ \E a \in Attempts : Checkpoint(a)
    \/ Over

Spec == Init /\ [][Next]_vars

-----------------------------------------------------------------------------
\* The commit the session names holds, file by file, what the tests ran on, but for
\* a file that a given-up agent call wrote after preflight asked git; one that git
\* lists as changed and whose diff preflight did not get; one that git did not track
\* and the actor did not report; and one the actor did not report that the tests
\* found as in HEAD, where git shows no change while another is staged.
CommittedWasTested ==
    \A c \in commit : \A f \in Files :
        \/ c[f] = tested[f]
        \/ f \in late
        \/ f \in missed
        \/ f \notin diff /\ c[f] = Absent /\ origin[f] = Absent
        \/ f \notin diff /\ tested[f] = origin[f]

\* The turns the agent calls of all attempts have taken, each of one unit.
Turns == {turn \in Attempts \X (1 .. MaxTurns) : turn[2] <= spent[turn[1]]}

\* However the actor is retried, what is added to the record is nothing or the
\* whole cost of one call that has ended, and what its calls spend beyond the
\* critical amount is less than all attempts together may.
SpendAccounted ==
    /\ recorded # before => \E a \in Attempts : agent[a] = "over" /\ recorded = before + spent[a]
    /\ Turns # {} => before + Cardinality(Turns) < Critical + MaxAttempts * MaxTurns
=============================================================================
