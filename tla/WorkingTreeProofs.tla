--------------------------- MODULE WorkingTreeProofs ---------------------------
(***************************************************************************)
(* Theorems about WorkingTree, for any set of files and any number of      *)
(* attempts and turns: what the calls of all attempts spend is accounted   *)
(* for, and a commit holds what the tests ran on, up to the exceptions     *)
(* CommittedWasTested names.                                               *)
(***************************************************************************)
EXTENDS WorkingTree, FiniteSetTheorems, TLAPS

-----------------------------------------------------------------------------
\* Type correctness.

LEMMA ContentTypes ==
    /\ {Absent, Base, Staged, Dirty} \subseteq Contents
    /\ \A a \in Attempts, n \in 0 .. MaxTurns : <<a, n>> \in Contents
  BY AttemptsAssumption, TurnsAssumption DEF Absent, Base, Staged, Dirty, Contents, Attempts

LEMMA InitType == Init => TypeOK
<1> SUFFICES ASSUME Init PROVE TypeOK
  OBVIOUS
<1>1. /\ step \in Steps \cup Endings /\ begun \in 0 .. MaxAttempts
      /\ agent \in [Attempts -> {"none", "turns", "over"}]
      /\ git \in [Attempts -> {"none", "over"} \cup GitPoints]
  BY AttemptsAssumption DEF Init, Steps
<1>2. {tree, index, head, tested, origin} \subseteq [Files -> Contents]
  <2>1. {Absent, Base, Staged, Dirty} \subseteq Contents
    BY ContentTypes
  <2>2. /\ head \in [Files -> {Absent, Base}] /\ tree \in [Files -> {Absent, Base, Staged, Dirty}]
        /\ index \in [Files -> {Absent, Base, Staged}] /\ tested = tree /\ origin = head
    BY DEF Init
  <2> HIDE DEF Absent, Base, Staged, Dirty
  <2> QED
    BY <2>1, <2>2
<1>3. spent \in [Attempts -> 0 .. MaxTurns] /\ {recorded, before} \subseteq Nat
  BY TurnsAssumption, CriticalAssumption DEF Init
<1>4. commit \in SUBSET [Files -> Contents] /\ Cardinality(commit) <= 1
  BY FS_EmptySet DEF Init
<1> QED
  BY <1>1, <1>2, <1>3, <1>4 DEF Init, TypeOK

\* What the workflow waits for after a given-up attempt.
LEMMA GiveUpType ==
    ASSUME TypeOK, GiveUp
    PROVE  /\ step' \in Steps \cup Endings /\ begun' \in 0 .. MaxAttempts
           /\ \/ step' = step /\ begun' = begun + 1
              \/ step' = "failed"
  BY AttemptsAssumption DEF TypeOK, GiveUp, GoTo, Endings

LEMMA TurnType == ASSUME TypeOK, NEW a \in Attempts, Turn(a) PROVE TypeOK'
<1>1. spent' \in [Attempts -> 0 .. MaxTurns]
  BY TurnsAssumption DEF Turn, TypeOK
<1>2. tree' \in [Files -> Contents] /\ late' \in SUBSET Files
  <2>1. spent[a] + 1 \in 0 .. MaxTurns
    BY TurnsAssumption DEF Turn, TypeOK
  <2>2. <<a, spent[a] + 1>> \in Contents /\ Absent \in Contents
    BY <2>1, ContentTypes
  <2> QED
    BY <2>2 DEF Turn, TypeOK
<1> QED
  BY <1>1, <1>2 DEF Turn, TypeOK, Result

LEMMA ReturnType ==
    ASSUME TypeOK, NEW a \in Attempts, NEW named \in {{head}, {}}, Return(a, named)
    PROVE  TypeOK'
<1>1. named \in SUBSET [Files -> Contents] /\ Cardinality(named) <= 1
  <2>1. CASE named = {head}
    <3>1. head \in [Files -> Contents]
      BY DEF TypeOK
    <3>2. Cardinality({head}) = 1
      BY FS_Singleton
    <3> QED
      BY <2>1, <3>1, <3>2
  <2>2. CASE named = {}
    BY <2>2, FS_EmptySet
  <2> QED
    BY <2>1, <2>2
<1>2. commit' \in SUBSET [Files -> Contents] /\ Cardinality(commit') <= 1
  BY <1>1 DEF Return, TypeOK
<1>3. git' \in [Attempts -> {"none", "over"} \cup GitPoints]
  BY DEF Return, TypeOK
<1>4. step' \in Steps \cup Endings /\ begun' \in 0 .. MaxAttempts
  BY AttemptsAssumption DEF Return, GoTo, TypeOK, Endings
<1> QED
  BY <1>2, <1>3, <1>4 DEF Return, TypeOK, Repo, Result, Ghosts

LEMMA CallType ==
    ASSUME TypeOK, NEW a \in Attempts, StartCall(a) \/ Finish(a) \/ Throw(a)
    PROVE  TypeOK'
<1>1. agent' \in [Attempts -> {"none", "turns", "over"}]
  BY DEF StartCall, Finish, Throw, TypeOK
<1>2. CASE StartCall(a)
  BY <1>1, <1>2 DEF StartCall, TypeOK, Repo, Result, Ghosts
<1>3. CASE Throw(a)
  <2>1. step' \in Steps \cup Endings /\ begun' \in 0 .. MaxAttempts
    BY <1>3, GiveUpType DEF Throw, TypeOK
  <2> QED
    BY <1>1, <1>3, <2>1 DEF Throw, TypeOK, Repo, Result, Ghosts
<1>4. CASE Finish(a)
  <2>1. step' \in Steps \cup Endings /\ begun' \in 0 .. MaxAttempts
    BY <1>4, AttemptsAssumption DEF Finish, GoTo, TypeOK, Steps
  <2>2. recorded' \in Nat
    BY <1>4, TurnsAssumption DEF Finish, TypeOK
  <2>3. proposed' \in BOOLEAN /\ diff' \in SUBSET Files
    BY <1>4 DEF Finish, TypeOK, Result
  <2> QED
    BY <1>1, <1>4, <2>1, <2>2, <2>3 DEF Finish, TypeOK, Repo, Ghosts
<1> QED
  BY <1>2, <1>3, <1>4

LEMMA CheckpointType ==
    ASSUME TypeOK, NEW a \in Attempts, Checkpoint(a)
    PROVE  TypeOK'
<1>1. CASE StartCheckpoint(a)
  BY <1>1 DEF StartCheckpoint, GitPoints, TypeOK, Repo, Result, Ghosts
<1>2. CASE Checkout(a) \/ Add(a) \/ Commit(a)
  <2>1. /\ git' \in [Attempts -> {"none", "over"} \cup GitPoints]
        /\ UNCHANGED <<step, begun, agent, spent, recorded, commit, Result, Ghosts>>
    BY <1>2 DEF Checkout, Add, Commit, GitGoesOn, GitPoints, TypeOK
  <2>2. {tree', index', head'} \subseteq [Files -> Contents]
    BY <1>2 DEF Checkout, Add, Commit, TypeOK, Repo
  <2> QED
    BY <2>1, <2>2 DEF TypeOK, Result, Ghosts
<1>3. CASE RevParse(a) \/ NoCommit(a)
  BY <1>3, ReturnType DEF RevParse, NoCommit
<1> QED
  BY <1>1, <1>2, <1>3 DEF Checkpoint

LEMMA NextType == TypeOK /\ [Next]_vars => TypeOK'
<1> SUFFICES ASSUME TypeOK, [Next]_vars PROVE TypeOK'
  OBVIOUS
<1>1. CASE BeginActor \/ BeginCheckpoint
  BY <1>1, AttemptsAssumption
  DEF BeginActor, BeginCheckpoint, GoTo, TypeOK, Endings, Repo, Result, Ghosts
<1>2. CASE Expire
  BY <1>2, GiveUpType DEF Expire, TypeOK, Repo, Result, Ghosts
<1>3. CASE Crash
  BY <1>3 DEF Crash, TypeOK, Repo, Result, Ghosts
<1>4. CASE Preflight
  <2>1. Changed \in SUBSET Files
    BY DEF Changed
  <2>2. diff' \in SUBSET Files /\ missed' \in SUBSET Files
    BY <1>4, <2>1 DEF Preflight, TypeOK
  <2>3. step' \in Steps \cup Endings /\ begun' \in 0 .. MaxAttempts
    BY <1>4, AttemptsAssumption DEF Preflight, GoTo, Steps
  <2> QED
    BY <1>4, <2>2, <2>3 DEF Preflight, TypeOK, Repo
<1>5. CASE Verify
  BY <1>5, AttemptsAssumption DEF Verify, GoTo, TypeOK, Steps, Endings, Repo, Result
<1>6. CASE \E a \in Attempts : StartCall(a) \/ Turn(a) \/ Finish(a) \/ Throw(a) \/ Checkpoint(a)
  BY <1>6, CallType, TurnType, CheckpointType
<1>7. CASE Over \/ UNCHANGED vars
  BY <1>7 DEF Over, vars, TypeOK, Repo, Result, Ghosts
<1> QED
  BY <1>1, <1>2, <1>3, <1>4, <1>5, <1>6, <1>7 DEF Next

\* Every variable keeps its type: no attempt is begun beyond the retry limit, no
\* call takes more turns than it may, and at most one commit is named.
THEOREM TreeTypeCorrect == Spec => []TypeOK
<1> QED
  BY InitType, NextType, PTL DEF Spec

-----------------------------------------------------------------------------
\* Spending.

\* A call is only made while the record, as the cycle found it, is below the
\* critical amount; the record changes once, by a call that has ended.
SpendInv ==
    /\ step = "actor" => recorded = before
    /\ step = "actor" /\ begun > 0 => before < Critical
    /\ \A a \in Attempts : agent[a] # "none" => before < Critical
    /\ \A a \in Attempts : agent[a] = "none" => spent[a] = 0
    /\ recorded # before => \E a \in Attempts : agent[a] = "over" /\ recorded = before + spent[a]

LEMMA SpendStep == TypeOK /\ SpendInv /\ [Next]_vars => SpendInv'
<1> SUFFICES ASSUME TypeOK, SpendInv, [Next]_vars PROVE SpendInv'
  OBVIOUS
<1>0. /\ begun \in Nat /\ recorded \in Nat /\ before \in Nat
      /\ agent \in [Attempts -> {"none", "turns", "over"}]
      /\ spent \in [Attempts -> 0 .. MaxTurns]
  BY DEF TypeOK
<1>1. CASE BeginActor
  BY <1>0, <1>1, CriticalAssumption DEF BeginActor, GoTo, SpendInv, Ghosts
<1>2. ASSUME NEW a \in Attempts, StartCall(a) PROVE SpendInv'
  <2>1. before < Critical
    BY <1>0, <1>2 DEF StartCall, SpendInv, Attempts
  <2>2. UNCHANGED <<step, begun, spent, recorded, before>> /\ agent[a] = "none"
        /\ agent' = [agent EXCEPT ![a] = "turns"]
    BY <1>2 DEF StartCall, Ghosts
  <2> QED
    BY <1>0, <2>1, <2>2 DEF SpendInv
<1>3. ASSUME NEW a \in Attempts, Turn(a) PROVE SpendInv'
  <2>1. UNCHANGED <<step, begun, agent, recorded, before>> /\ agent[a] = "turns"
        /\ spent' = [spent EXCEPT ![a] = @ + 1]
    BY <1>3 DEF Turn, Alive
  <2> QED
    BY <1>0, <2>1 DEF SpendInv
<1>4. ASSUME NEW a \in Attempts, Finish(a) PROVE SpendInv'
  <2>1. UNCHANGED <<spent, before>> /\ agent[a] = "turns" /\ agent' = [agent EXCEPT ![a] = "over"]
        /\ \/ UNCHANGED <<step, begun, recorded>>
           \/ step' = "preflight" /\ step = "actor" /\ recorded' \in {recorded, recorded + spent[a]}
    BY <1>4 DEF Finish, GoTo, Alive, Ghosts
  <2> QED
    BY <1>0, <2>1 DEF SpendInv
<1>5. CASE Expire \/ Crash \/ \E a \in Attempts : Throw(a)
  <2>1. /\ UNCHANGED <<spent, recorded, before>>
        /\ \A b \in Attempts : /\ agent'[b] = "none" <=> agent[b] = "none"
                               /\ agent[b] = "over" => agent'[b] = "over"
    BY <1>0, <1>5 DEF Expire, Crash, Throw, Alive, Ghosts
  <2>2. \/ UNCHANGED <<step, begun>>
        \/ step' # "actor"
        \/ step' = step /\ begun' = begun + 1
             /\ (begun > 0 \/ \E a \in Attempts : agent[a] # "none")
    BY <1>5 DEF Expire, Crash, Throw, Alive, GiveUp, GoTo
  <2> QED
    BY <1>0, <2>1, <2>2 DEF SpendInv
<1>6. CASE Preflight \/ Verify
  <2>1. step' # "actor" /\ UNCHANGED <<agent, spent, recorded, before>>
    BY <1>6 DEF Preflight, Verify, GoTo
  <2> QED
    BY <2>1 DEF SpendInv
<1>7. CASE BeginCheckpoint \/ \E a \in Attempts : Checkpoint(a)
  <2>1. UNCHANGED <<agent, spent, recorded, before>>
        /\ (UNCHANGED <<step, begun>> \/ step' # "actor")
    BY <1>7 DEF BeginCheckpoint, Checkpoint, StartCheckpoint, Checkout, Add, Commit, GitGoesOn,
                RevParse, NoCommit, Return, GoTo, Ghosts
  <2> QED
    BY <2>1 DEF SpendInv
<1>8. CASE Over \/ UNCHANGED vars
  BY <1>8 DEF Over, vars, SpendInv, Ghosts
<1> QED
  BY <1>1, <1>2, <1>3, <1>4, <1>5, <1>6, <1>7, <1>8 DEF Next

\* There are at most as many turns as the attempts may take together.
LEMMA TurnsBounded ==
    /\ IsFiniteSet(Turns)
    /\ Cardinality(Turns) \in Nat
    /\ Cardinality(Turns) <= MaxAttempts * MaxTurns
<1>1. /\ IsFiniteSet(Attempts) /\ Cardinality(Attempts) = MaxAttempts
      /\ IsFiniteSet(1 .. MaxTurns) /\ Cardinality(1 .. MaxTurns) = MaxTurns
  <2>1. \A n \in Nat : IsFiniteSet(1 .. n) /\ Cardinality(1 .. n) = n
    BY FS_Interval
  <2> QED
    BY <2>1, AttemptsAssumption, TurnsAssumption DEF Attempts
<1>2. /\ IsFiniteSet(Attempts \X (1 .. MaxTurns))
      /\ Cardinality(Attempts \X (1 .. MaxTurns)) = MaxAttempts * MaxTurns
  BY <1>1, FS_Product
<1>3. Turns \subseteq Attempts \X (1 .. MaxTurns)
  BY DEF Turns
<1> HIDE DEF Turns, Attempts
<1>4. IsFiniteSet(Turns) /\ Cardinality(Turns) <= Cardinality(Attempts \X (1 .. MaxTurns))
  BY <1>2, <1>3, FS_Subset
<1> QED
  BY <1>2, <1>4, FS_CardinalityType

\* However often Temporal retries the actor, its record grows by nothing or by
\* the whole cost of one call that has ended, and the calls of all attempts,
\* whether anybody listens to them or not, overspend by less than the turns of
\* all attempts (BudgetAwareAgent looks at the total of the activity's start).
THEOREM SpendIsAccounted == Spec => []SpendAccounted
<1>1. Init => SpendInv
  BY DEF Init, SpendInv
<1>2. TypeOK /\ SpendInv /\ [Next]_vars => SpendInv'
  BY SpendStep
<1>3. TypeOK /\ SpendInv => SpendAccounted
  <2> SUFFICES ASSUME TypeOK, SpendInv PROVE SpendAccounted
    OBVIOUS
  <2>1. ASSUME Turns # {}
        PROVE  before + Cardinality(Turns) < Critical + MaxAttempts * MaxTurns
    <3>1. PICK turn \in Attempts \X (1 .. MaxTurns) : turn[2] <= spent[turn[1]]
      BY <2>1 DEF Turns
    <3>2. spent[turn[1]] # 0 /\ turn[1] \in Attempts
      BY <3>1, TurnsAssumption DEF TypeOK
    <3>3. before < Critical
      BY <3>2 DEF SpendInv
    <3>4. before \in Nat /\ MaxAttempts * MaxTurns \in Nat
      BY AttemptsAssumption, TurnsAssumption DEF TypeOK
    <3> QED
      BY <3>3, <3>4, TurnsBounded, CriticalAssumption
  <2> QED
    BY <2>1 DEF SpendAccounted, SpendInv
<1> QED
  BY <1>1, <1>2, <1>3, TreeTypeCorrect, PTL DEF Spec
-----------------------------------------------------------------------------
\* What a commit holds.

\* Points of a checkpoint attempt that has found something to commit.
Committing == {"add", "commit", "rev-parse"}

\* The tests have run; what is written from here on is late.
Judged == step \in {"checkpoint", "done"} \/ \E a \in Attempts : git[a] # "none"

\* The diff's files on one side (index, HEAD) are as the tests read them.
OfTested(side) == \A f \in diff : side[f] = tested[f] \/ f \in late

\* A file the diff leaves out that is not late: its diff was missed, or there is
\* none, the tree being as HEAD was or the file in neither HEAD nor index.
LeftOut(f) ==
    f \in late \/ f \in missed \/ tree[f] = origin[f] \/ (index[f] = Absent /\ origin[f] = Absent)

\* Nothing runs git or is proposed before its time; until then HEAD is what it was,
\* and after a commit it is the index, in the files of the diff as they were added
\* and in the others as they were staged before; the tree is what the tests read
\* but for late files, so what an attempt adds and then commits is, too; and once
\* preflight has asked git, every file outside the diff is left out for a reason.
TreeInv ==
    /\ commit # {} => step = "done"
    /\ step \in {"actor", "preflight", "tests"} => \A a \in Attempts : git[a] = "none"
    /\ step = "actor" => ~proposed
    /\ ~proposed => diff = {}
    /\ \A a \in Attempts : git[a] \in Committing => proposed
    /\ step \in {"actor", "preflight", "tests"} => head = origin
    /\ (\E a \in Attempts : git[a] = "rev-parse") => \A f \in Files \ diff : head[f] = index[f]
    /\ Judged => \A f \in Files : tree[f] = tested[f] \/ f \in late
    /\ (\E a \in Attempts : git[a] \in {"commit", "rev-parse"}) => OfTested(index)
    /\ (\E a \in Attempts : git[a] = "rev-parse") => OfTested(head)
    /\ proposed /\ step \notin {"actor", "preflight"} => \A f \in Files \ diff : LeftOut(f)
    /\ CommittedWasTested

\* A step that touches neither files nor results, and at most ends an attempt or
\* fails the session.
LEMMA QuietStep ==
    ASSUME TypeOK, TreeInv,
           UNCHANGED <<commit, tree, index, head, proposed, diff, tested, origin, late, missed>>,
           step' = step \/ (step' = "failed" /\ step \in {"actor", "checkpoint"}),
           \A a \in Attempts : git'[a] = git[a] \/ (git[a] # "none" /\ git'[a] = "over")
    PROVE  TreeInv'
<1>1. /\ step' = step \/ (step' = "failed" /\ step \in {"actor", "checkpoint"})
      /\ \A a \in Attempts : git'[a] = git[a] \/ (git[a] # "none" /\ git'[a] = "over")
  OBVIOUS
<1>2. (OfTested(index))' = OfTested(index) /\ (OfTested(head))' = OfTested(head)
      /\ CommittedWasTested' = CommittedWasTested
  BY DEF OfTested, CommittedWasTested
<1>3. Judged' => Judged
  BY <1>1 DEF Judged
<1>4. /\ commit' # {} => step' = "done"
      /\ step' \in {"actor", "preflight", "tests"} => \A a \in Attempts : git'[a] = "none"
      /\ step' = "actor" => ~proposed'
      /\ ~proposed' => diff' = {}
      /\ \A a \in Attempts : git'[a] \in Committing => proposed'
  BY <1>1 DEF TreeInv, Committing
<1>5. /\ step' \in {"actor", "preflight", "tests"} => head' = origin'
      /\ (\E a \in Attempts : git'[a] = "rev-parse") => \A f \in Files \ diff' : head'[f] = index'[f]
      /\ Judged' => \A f \in Files : tree'[f] = tested'[f] \/ f \in late'
  BY <1>1, <1>3 DEF TreeInv
<1>6. /\ (\E a \in Attempts : git'[a] \in {"commit", "rev-parse"}) => (OfTested(index))'
      /\ (\E a \in Attempts : git'[a] = "rev-parse") => (OfTested(head))'
  BY <1>1, <1>2 DEF TreeInv
<1>7. proposed' /\ step' \notin {"actor", "preflight"} => \A f \in Files \ diff' : LeftOut(f)'
  BY <1>1 DEF TreeInv, LeftOut
<1>8. CommittedWasTested'
  BY <1>2 DEF TreeInv
<1> QED
  BY <1>4, <1>5, <1>6, <1>7, <1>8 DEF TreeInv

\* A turn of an agent call; after preflight what it writes is late.
LEMMA TurnTree == ASSUME TypeOK, TreeInv, NEW a \in Attempts, Turn(a) PROVE TreeInv'
<1>1. UNCHANGED <<step, git, index, head, proposed, diff, commit, tested, origin, missed>>
  BY DEF Turn, Result
<1>2. late \subseteq late' /\ \A f \in Files : tree'[f] = tree[f] \/ step \in {"actor", "preflight"} \/ f \in late'
  BY DEF Turn, TypeOK
<1>3. Judged' = Judged /\ (Judged => step \notin {"actor", "preflight"})
  BY <1>1 DEF Judged, TreeInv
<1>4. (OfTested(index) => (OfTested(index))') /\ (OfTested(head) => (OfTested(head))')
      /\ (CommittedWasTested => CommittedWasTested')
  BY <1>1, <1>2 DEF OfTested, CommittedWasTested
<1>5. Judged' => \A f \in Files : tree'[f] = tested'[f] \/ f \in late'
  BY <1>1, <1>2, <1>3 DEF TreeInv
<1>6. proposed' /\ step' \notin {"actor", "preflight"} => \A f \in Files \ diff' : LeftOut(f)'
  BY <1>1, <1>2 DEF TreeInv, LeftOut
<1> QED
  BY <1>1, <1>4, <1>5, <1>6 DEF TreeInv

\* The three activities before the checkpoint: none of them meets a git attempt.
LEMMA HeardTree ==
    ASSUME TypeOK, TreeInv, NEW a \in Attempts, Finish(a), step = "actor" /\ a = begun
    PROVE  TreeInv'
<1>1. /\ step' = "preflight" /\ step = "actor"
      /\ UNCHANGED <<git, tree, index, head, commit, tested, origin, late, missed>>
      /\ UNCHANGED <<proposed, diff>> \/ proposed' = TRUE
  BY DEF Finish, GoTo, Repo, Ghosts
<1>2. commit = {} /\ (\A b \in Attempts : git[b] = "none") /\ head = origin
      /\ (~proposed => diff = {})
  BY <1>1 DEF TreeInv
<1>3. ~Judged'
  BY <1>1, <1>2 DEF Judged
<1> QED
  BY <1>1, <1>2, <1>3 DEF TreeInv, Committing, CommittedWasTested

LEMMA PreflightTree == ASSUME TypeOK, TreeInv, Preflight PROVE TreeInv'
<1>1. /\ step' = "tests" /\ step = "preflight"
      /\ UNCHANGED <<git, tree, index, head, proposed, commit, tested, origin, late>>
  BY DEF Preflight, GoTo, Repo
<1>2. commit = {} /\ (\A b \in Attempts : git[b] = "none") /\ head = origin
  BY <1>1 DEF TreeInv
<1>3. ~proposed' => diff' = {}
  BY DEF Preflight, TreeInv
<1>4. ~Judged'
  BY <1>1, <1>2 DEF Judged
<1>5. proposed' => \A f \in Files \ diff' : LeftOut(f)'
  <2> SUFFICES ASSUME proposed', NEW f \in Files \ diff' PROVE LeftOut(f)'
    OBVIOUS
  <2>1. missed' = Changed \ diff'
    BY <1>1 DEF Preflight
  <2>2. CASE f \in Changed
    BY <2>1, <2>2 DEF LeftOut
  <2>3. CASE f \notin Changed
    BY <1>1, <1>2, <2>3 DEF Changed, LeftOut
  <2> QED
    BY <2>2, <2>3
<1> QED
  BY <1>1, <1>2, <1>3, <1>4, <1>5 DEF TreeInv, Committing, CommittedWasTested

LEMMA VerifyTree == ASSUME TypeOK, TreeInv, Verify PROVE TreeInv'
<1>1. /\ step' \in {"checkpoint", "done"} /\ step = "tests" /\ tested' = tree
      /\ UNCHANGED <<git, tree, index, head, proposed, diff, commit, origin, late, missed>>
  BY DEF Verify, GoTo, Repo, Result
<1>2. commit = {} /\ \A b \in Attempts : git[b] = "none"
  BY <1>1 DEF TreeInv
<1>3. \A f \in Files : LeftOut(f)' <=> LeftOut(f)
  BY <1>1 DEF LeftOut
<1> QED
  BY <1>1, <1>2, <1>3 DEF TreeInv, Committing, CommittedWasTested

\* The commands of a checkpoint.
LEMMA CheckoutTree ==
    ASSUME TypeOK, TreeInv, NEW a \in Attempts, StartCheckpoint(a) \/ Checkout(a)
    PROVE  TreeInv'
<1>1. /\ UNCHANGED <<step, tree, index, head, proposed, diff, commit, tested, origin, late, missed>>
      /\ \/ step = "checkpoint" /\ git' = [git EXCEPT ![a] = "checkout"]
         \/ git[a] = "checkout" /\ diff # {} /\ git' = [git EXCEPT ![a] = "add"]
  BY DEF StartCheckpoint, Checkout, GitGoesOn, Repo, Result, Ghosts
<1>2. git \in [Attempts -> {"none", "over"} \cup GitPoints]
  BY DEF TypeOK
<1>3. /\ Judged
      /\ step \notin {"actor", "preflight", "tests"}
      /\ diff # {} => proposed
  BY <1>1 DEF TreeInv, Judged
<1>4. \A b \in Attempts : /\ git'[b] \in {"commit", "rev-parse"} => git'[b] = git[b]
                          /\ git'[b] \in Committing => git[b] \in Committing \/ diff # {}
  BY <1>1, <1>2 DEF Committing
<1>5. (OfTested(index))' = OfTested(index) /\ (OfTested(head))' = OfTested(head)
      /\ CommittedWasTested' = CommittedWasTested /\ \A f \in Files : LeftOut(f)' <=> LeftOut(f)
  BY <1>1 DEF OfTested, CommittedWasTested, LeftOut
<1> QED
  BY <1>1, <1>3, <1>4, <1>5 DEF TreeInv

LEMMA AddTree == ASSUME TypeOK, TreeInv, NEW a \in Attempts, Add(a) PROVE TreeInv'
<1>1. /\ UNCHANGED <<step, tree, head, proposed, diff, commit, tested, origin, late, missed>>
      /\ git[a] = "add" /\ git' = [git EXCEPT ![a] = "commit"]
      /\ index' = [f \in Files |-> IF f \in diff THEN tree[f] ELSE index[f]]
  BY DEF Add, GitGoesOn, Result, Ghosts
<1>2. git \in [Attempts -> {"none", "over"} \cup GitPoints] /\ diff \subseteq Files
  BY DEF TypeOK
<1>3. Judged /\ proposed /\ step \notin {"actor", "preflight", "tests"}
  BY <1>1 DEF TreeInv, Judged, Committing
<1>4. \A b \in Attempts : git'[b] = "rev-parse" => git[b] = "rev-parse"
  BY <1>1, <1>2
<1>5. (OfTested(index))'
  BY <1>1, <1>2, <1>3 DEF OfTested, TreeInv
<1>6. (OfTested(head))' = OfTested(head) /\ CommittedWasTested' = CommittedWasTested
  BY <1>1 DEF OfTested, CommittedWasTested
<1>7. \A f \in Files \ diff : index'[f] = index[f] /\ (LeftOut(f) => LeftOut(f)')
  BY <1>1 DEF LeftOut
<1> QED
  BY <1>1, <1>3, <1>4, <1>5, <1>6, <1>7 DEF TreeInv

LEMMA CommitTree == ASSUME TypeOK, TreeInv, NEW a \in Attempts, Commit(a) PROVE TreeInv'
<1>1. /\ UNCHANGED <<step, tree, index, proposed, diff, commit, tested, origin, late, missed>>
      /\ git[a] = "commit" /\ git' = [git EXCEPT ![a] = "rev-parse"] /\ head' = index
  BY DEF Commit, GitGoesOn, Result, Ghosts
<1>2. git \in [Attempts -> {"none", "over"} \cup GitPoints] /\ diff \subseteq Files
  BY DEF TypeOK
<1>3. /\ Judged /\ proposed /\ step \notin {"actor", "preflight", "tests"}
      /\ OfTested(index)
  BY <1>1 DEF TreeInv, Judged, Committing
<1>5. (OfTested(index))' /\ (OfTested(head))'
  BY <1>1, <1>3 DEF OfTested
<1>6. CommittedWasTested'
  BY <1>1 DEF TreeInv, CommittedWasTested
<1>7. proposed' /\ step' \notin {"actor", "preflight"} => \A f \in Files \ diff' : LeftOut(f)'
  BY <1>1 DEF TreeInv, LeftOut
<1>8. Judged' => \A f \in Files : tree'[f] = tested'[f] \/ f \in late'
  BY <1>1, <1>3 DEF TreeInv
<1> QED
  BY <1>1, <1>3, <1>5, <1>6, <1>7, <1>8 DEF TreeInv

\* HEAD, when an attempt that has committed reads its name.
LEMMA HeadWasTested ==
    ASSUME TypeOK, TreeInv, NEW a \in Attempts, git[a] = "rev-parse"
    PROVE  \A f \in Files : \/ head[f] = tested[f]
                            \/ f \in late
                            \/ f \in missed
                            \/ f \notin diff /\ head[f] = Absent /\ origin[f] = Absent
                            \/ f \notin diff /\ tested[f] = origin[f]
<1>1. Judged /\ proposed /\ step \notin {"actor", "preflight"} /\ OfTested(head)
  BY DEF TreeInv, Judged, Committing
<1>2. \A f \in Files : tree[f] = tested[f] \/ f \in late
  BY <1>1 DEF TreeInv
<1>3. \A f \in Files \ diff : head[f] = index[f] /\ LeftOut(f)
  BY <1>1 DEF TreeInv
<1> QED
  BY <1>1, <1>2, <1>3 DEF OfTested, LeftOut

LEMMA ReturnTree ==
    ASSUME TypeOK, TreeInv, NEW a \in Attempts, RevParse(a) \/ NoCommit(a)
    PROVE  TreeInv'
<1>1. PICK named \in {{head}, {}} : Return(a, named) /\ (named = {head} => git[a] = "rev-parse")
  BY DEF RevParse, NoCommit
<1>2. /\ UNCHANGED <<tree, index, head, proposed, diff, tested, origin, late, missed>>
      /\ git' = [git EXCEPT ![a] = "over"] /\ git[a] # "none"
      /\ git \in [Attempts -> {"none", "over"} \cup GitPoints]
  BY <1>1 DEF RevParse, NoCommit, Return, Repo, Result, Ghosts, TypeOK, GitPoints
<1>3. CASE ~(step = "checkpoint" /\ a = begun)
  BY <1>1, <1>2, <1>3, QuietStep DEF Return
<1>4. CASE step = "checkpoint" /\ a = begun
  <2>1. step' = "done" /\ commit' = named
    BY <1>1, <1>4 DEF Return, GoTo
  <2>2. CommittedWasTested'
    BY <1>1, <1>2, <2>1, HeadWasTested DEF CommittedWasTested
  <2>3. (OfTested(index))' = OfTested(index) /\ (OfTested(head))' = OfTested(head)
    BY <1>2 DEF OfTested
  <2>4. Judged
    BY <1>4 DEF Judged
  <2>5. \A b \in Attempts : git'[b] = git[b] \/ git'[b] = "over"
    BY <1>2
  <2>6. \A f \in Files : LeftOut(f)' <=> LeftOut(f)
    BY <1>2 DEF LeftOut
  <2> QED
    BY <1>2, <1>4, <2>1, <2>2, <2>3, <2>4, <2>5, <2>6 DEF TreeInv, Committing
<1> QED
  BY <1>3, <1>4

LEMMA TreeStep == TypeOK /\ TreeInv /\ [Next]_vars => TreeInv'
<1> SUFFICES ASSUME TypeOK, TreeInv, [Next]_vars PROVE TreeInv'
  OBVIOUS
<1>1. CASE BeginActor \/ BeginCheckpoint \/ Expire \/ Over \/ UNCHANGED vars
  <2>1. UNCHANGED <<git, commit, tree, index, head, proposed, diff, tested, origin, late, missed>>
    BY <1>1 DEF BeginActor, BeginCheckpoint, Expire, Over, vars, Repo, Result, Ghosts
  <2>2. step' = step \/ (step' = "failed" /\ step \in {"actor", "checkpoint"})
    BY <1>1 DEF BeginActor, BeginCheckpoint, Expire, Over, vars, GiveUp, GoTo
  <2> QED
    BY <2>1, <2>2, QuietStep
<1>2. ASSUME NEW a \in Attempts, StartCall(a) \/ Throw(a) \/ (Finish(a) /\ ~(step = "actor" /\ a = begun))
      PROVE  TreeInv'
  <2>1. UNCHANGED <<git, commit, tree, index, head, proposed, diff, tested, origin, late, missed>>
    BY <1>2 DEF StartCall, Throw, Finish, Repo, Result, Ghosts
  <2>2. step' = step \/ (step' = "failed" /\ step \in {"actor", "checkpoint"})
    BY <1>2 DEF StartCall, Throw, Finish, GiveUp, GoTo
  <2> QED
    BY <2>1, <2>2, QuietStep
<1>3. CASE Crash
  <2>1. UNCHANGED <<step, commit, tree, index, head, proposed, diff, tested, origin, late, missed>>
    BY <1>3 DEF Crash, Repo, Result, Ghosts
  <2>2. \A a \in Attempts : git'[a] = git[a] \/ (git[a] # "none" /\ git'[a] = "over")
    BY <1>3 DEF Crash, GitPoints
  <2> QED
    BY <2>1, <2>2, QuietStep
<1>4. ASSUME NEW a \in Attempts, Checkpoint(a) PROVE TreeInv'
  BY <1>4, CheckoutTree, AddTree, CommitTree, ReturnTree DEF Checkpoint
<1> QED
  BY <1>1, <1>2, <1>3, <1>4, TurnTree, HeardTree, PreflightTree, VerifyTree DEF Next

\* The commit a session names holds what its tests ran on, whatever the user had
\* staged and whatever the attempts of actor and checkpoint that Temporal gave up go
\* on to do, but for the files CommittedWasTested names: written after preflight
\* asked git, missed by preflight, untracked and unreported, or unreported and in
\* the tree as in HEAD while the index holds something else (gitCheckpointImpl
\* commits the whole index, preflightImpl compares the tree with HEAD).
THEOREM CommitIsTested == Spec => []CommittedWasTested
<1>1. Init => TreeInv
  BY DEF Init, TreeInv, Committing, Judged, CommittedWasTested
<1>2. TypeOK /\ TreeInv /\ [Next]_vars => TreeInv'
  BY TreeStep
<1>3. TreeInv => CommittedWasTested
  BY DEF TreeInv
<1> QED
  BY <1>1, <1>2, <1>3, TreeTypeCorrect, PTL DEF Spec
=============================================================================
