--------------------------------- MODULE Memory ---------------------------------
(***************************************************************************)
(* What sessions on one repository leave for one another: the items of the *)
(* memory provider and the entries of AGENTS.md, written by bootstrap and  *)
(* memory consolidation, read by scout.  Consolidations of two sessions    *)
(* run side by side, and so does an attempt that timed out and its retry.  *)
(* A file is read and written in one step each.                            *)
(***************************************************************************)
EXTENDS Integers, Sequences, FiniteSets

CONSTANTS
    Sessions,       \* the sessions of this run, by the ids of their tasks
    MaxAttempts,    \* retry.maximumAttempts of an activity
    Earlier,        \* how many entries earlier sessions left in AGENTS.md
    Seen,           \* violations of the rule earlier sessions recorded
    Threshold,      \* PROMOTE_THRESHOLD
    MaxRetries,     \* bound: attempts beyond the first, of all sessions
    MaxFaults       \* bound: calls to the provider or the file that fail

\* No task goes by the id that is everybody's.
ASSUME SessionsAssumption  == IsFiniteSet(Sessions) /\ "global" \notin Sessions
ASSUME AttemptsAssumption  == MaxAttempts \in Nat \ {0}
ASSUME EarlierAssumption   == Earlier \in Nat /\ Seen \in Nat
ASSUME ThresholdAssumption == Threshold \in Nat \ {0}
ASSUME BoundsAssumption    == MaxRetries \in Nat /\ MaxFaults \in Nat

VARIABLES
    store,      \* InMemoryProvider.store
    file,       \* AGENTS.md
    phase,      \* where each session is
    violates,   \* the sessions with a critical finding of the rule
    tries,      \* attempts of each session's consolidation
    at,         \* the await each of them is suspended at
    copy,       \* what it read of AGENTS.md
    missed,     \* not in the code: the sessions whose scout searched, found no
                \* lesson and should have: there was one
    overlap,    \* not in the code: the pairs that had both read and not written
    wrote,      \* not in the code: attempts that wrote the file
    faulty,     \* not in the code: attempts whose read or write of the file failed
    trouble     \* not in the code: calls to the provider that failed

items    == <<store, missed, trouble>>
document == <<file, copy, overlap, wrote, faulty>>
control  == <<phase, tries, at>>
vars     == <<items, document, control, violates>>

Calls   == Sessions \X (1 .. MaxAttempts)
Kinds   == {"start", "lesson", "violation", "promoted"}
Past(n) == {<<"earlier", i>> : i \in 1 .. n}
Authors == Calls \cup Past(Earlier)
Awaits  == {"extract", "persist", "purge", "read", "append", "rewrite",
            "violation", "count", "promote"}

\* Entry 0 of the code, all before the first session's heading, is `human` while
\* it holds what somebody wrote there; `old` is what its summary was made of, and
\* `gone` what was replaced by no more than a number, there or in a summary since.
Documents == [human : BOOLEAN, entries : Seq(Authors), old : SUBSET Authors, gone : SUBSET Authors]
Fresh     == [human |-> FALSE, entries |-> <<>>, old |-> {}, gone |-> {}]

\* add(text, userId, agentId, metadata): `kind` stands for the agent and the
\* metadata a query filters by.
Item(kind, user, call) == [kind |-> kind, user |-> user, call |-> call]

\* search with userId, agentId and filters: the user's items, and global ones.
Search(kind, user) == {i \in store : i.kind = kind /\ i.user \in {user, "global"}}

TypeOK ==
    /\ \A i \in store : i.kind \in Kinds /\ i.user \in Sessions \cup {"global"}
    /\ file \in Documents
    /\ phase \in [Sessions -> {"new", "scout", "work", "closing", "closed"}]
    /\ violates \in SUBSET Sessions
    /\ missed \subseteq Sessions
    /\ tries \in [Sessions -> 0 .. MaxAttempts]
    /\ at \in [Calls -> Awaits \cup {"none", "failed", "over"}]
    /\ copy \in [Calls -> Documents]
    /\ overlap \subseteq {{c, d} : c, d \in Calls}
    /\ wrote \subseteq Calls /\ faulty \subseteq Calls /\ trouble \in 0 .. MaxFaults

Init ==
    /\ store = {Item("violation", "global", p) : p \in Past(Seen)}
    /\ file = [human |-> TRUE, entries |-> [i \in 1 .. Earlier |-> <<"earlier", i>>],
               old |-> {}, gone |-> {}]
    /\ phase = [s \in Sessions |-> "new"]
    /\ violates \in SUBSET Sessions
    /\ missed = {}
    /\ tries = [s \in Sessions |-> 0]
    /\ at = [c \in Calls |-> "none"]
    /\ copy = [c \in Calls |-> Fresh]
    /\ overlap = {} /\ wrote = {} /\ faulty = {} /\ trouble = 0

-----------------------------------------------------------------------------
CanFail == trouble + Cardinality(faulty) < MaxFaults
Fails   == CanFail /\ trouble' = trouble + 1

\* A call to the provider that adds an item; a failure is logged and forgotten.
Add(item) ==
    /\ \/ store' = store \cup {item} /\ trouble' = trouble
       \/ store' = store /\ Fails
    /\ missed' = missed

Bootstrap(s) ==
    /\ phase[s] = "new"
    /\ phase' = [phase EXCEPT ![s] = "scout"]
    /\ Add(Item("start", s, <<s, 0>>))
    /\ UNCHANGED <<document, tries, at, violates>>

\* The lessons that have a word in common with the task are found: all of them
\* here.  The other search, for shadow findings, finds what no session stores.
Scout(s) ==
    /\ phase[s] = "scout"
    /\ phase' = [phase EXCEPT ![s] = "work"]
    /\ \/ missed' = IF Search("lesson", "global") = {} /\ \E i \in store : i.kind = "lesson"
                     THEN missed \cup {s} ELSE missed
       \/ CanFail /\ missed' = missed
    /\ UNCHANGED <<store, trouble, document, tries, at, violates>>

\* The session ends, with memory consolidation or without.
Leave(s) ==
    /\ phase[s] = "work"
    /\ \E next \in {"closing", "closed"} : phase' = [phase EXCEPT ![s] = next]
    /\ UNCHANGED <<items, document, tries, at, violates>>

\* Bounds the retries; every session has its first attempt.
Retries(s) ==
    tries[s] = 0 \/ Cardinality({c \in Calls : c[2] > 1 /\ at[c] # "none"}) < MaxRetries

\* A mutant of Begin: an attempt more than the policy allows.
BeginOnceMore(s) ==
    /\ phase[s] = "closing" /\ tries[s] <= MaxAttempts
    /\ tries[s] > 0 => at[<<s, tries[s]>>] # "over"
    /\ tries' = [tries EXCEPT ![s] = @ + 1]
    /\ at' = [at EXCEPT ![<<s, tries[s] + 1>>] = "extract"]
    /\ UNCHANGED <<items, document, phase, violates>>

\* The first attempt, or the next after one that failed or timed out; the
\* latter is not stopped.
Begin(s) ==
    /\ phase[s] = "closing" /\ tries[s] < MaxAttempts /\ Retries(s)
    /\ tries[s] > 0 => at[<<s, tries[s]>>] # "over"
    /\ tries' = [tries EXCEPT ![s] = @ + 1]
    /\ at' = [at EXCEPT ![<<s, tries[s] + 1>>] = "extract"]
    /\ UNCHANGED <<items, document, phase, violates>>

-----------------------------------------------------------------------------
\* memoryConsolidationImpl, from await to await.

Go(c, from, to) ==
    /\ at[c] = from
    /\ at' = [at EXCEPT ![c] = to]
    /\ UNCHANGED <<phase, tries, violates>>

\* Only the first extraction can fail the activity; the audit of the lesson
\* passes when it fails.
Extract(c) ==
    /\ \E to \in {"persist", "failed"} : Go(c, "extract", to)
    /\ UNCHANGED <<items, document>>

Persist(c) ==
    /\ Go(c, "persist", "purge")
    /\ Add(Item("lesson", c[1], c))
    /\ UNCHANGED document

\* A mutant of Noise: lessons are episodic, too.
NoiseAndLessons(s) == {i \in store : i.user = s}

\* The episodic items of the task that are no lesson.
Noise(s) == {i \in store : i.user = s /\ i.kind # "lesson"}

\* Deletes are sent together; some may fail.  Without decisions or mistakes
\* AGENTS.md is left alone.
Purge(c) ==
    /\ \E to \in {"read", "violation"} : Go(c, "purge", to)
    /\ \/ store' = store \ Noise(c[1]) /\ trouble' = trouble
       \/ (\E purged \in SUBSET Noise(c[1]) : store' = store \ purged) /\ Fails
    /\ UNCHANGED <<missed, document>>

\* A file that cannot be read counts as one that is not there.  Whether the text
\* with the new entry passes 80% of agentsMdMaxChars depends on its length.
Read(c) ==
    /\ \E to \in {"append", "rewrite"} : Go(c, "read", to)
    /\ \/ copy' = [copy EXCEPT ![c] = file] /\ faulty' = faulty
       \/ CanFail /\ copy' = [copy EXCEPT ![c] = Fresh] /\ faulty' = faulty \cup {c}
    /\ overlap' = overlap \cup {{c, d} : d \in {e \in Calls : at[e] \in {"append", "rewrite"}}}
    /\ UNCHANGED <<items, file, wrote>>

\* keepCount, of the entries with entry 0.
KeepCount(n) == LET third == (3 * n + 9) \div 10 IN IF third > 3 THEN third ELSE 3

First(n, s) == {s[i] : i \in 1 .. (IF n < Len(s) THEN n ELSE Len(s))}

\* All there is is kept: nothing is left to summarise.
Short(d) == Len(d.entries) + 1 <= KeepCount(Len(d.entries) + 1)

\* A mutant of Consolidated: the oldest entry that is not summarised is not kept.
ConsolidatedShort(d) ==
    LET out == Len(d.entries) - KeepCount(Len(d.entries) + 1)
    IN IF Short(d) THEN d
       ELSE [human |-> FALSE, entries |-> SubSeq(d.entries, out + 2, Len(d.entries)),
             old |-> d.old \cup First(out, d.entries), gone |-> d.gone]

\* The last entries are kept, the others summarised, with the summary before.
Consolidated(d) ==
    LET out == Len(d.entries) - KeepCount(Len(d.entries) + 1)
    IN IF Short(d) THEN d
       ELSE [human |-> FALSE, entries |-> SubSeq(d.entries, out + 1, Len(d.entries)),
             old |-> d.old \cup First(out, d.entries), gone |-> d.gone]

\* The summariser failed: the others, and the summary before, become a number.
Unsummarised(d) ==
    LET kept == Consolidated(d)
    IN  IF Short(d) THEN d ELSE [kept EXCEPT !.old = {}, !.gone = d.gone \cup kept.old]

\* The file is truncated and written; a failure in between leaves it empty.
Write(c, kept) ==
    /\ \/ /\ file' = [kept EXCEPT !.entries = Append(@, c)]
          /\ wrote' = wrote \cup {c} /\ faulty' = faulty
       \/ CanFail /\ file' \in {file, Fresh} /\ faulty' = faulty \cup {c} /\ wrote' = wrote
    /\ copy' = [copy EXCEPT ![c] = Fresh]
    /\ UNCHANGED <<overlap, items>>

AppendEntry(c) == Go(c, "append", "violation") /\ Write(c, copy[c])

Rewrite(c) ==
    /\ Go(c, "rewrite", "violation")
    /\ \E kept \in {Consolidated(copy[c]), Unsummarised(copy[c])} : Write(c, kept)

-----------------------------------------------------------------------------
\* updateSelfHealingRules, for one rule of one kind of module.

Violation(c) ==
    /\ Go(c, "violation", "count")
    /\ IF c[1] \in violates THEN Add(Item("violation", "global", c)) ELSE UNCHANGED items
    /\ UNCHANGED document

\* A mutant of Promotable: more than the threshold.
PromotableAbove(n) == n > Threshold

Promotable(n) == n >= Threshold

\* The search returns up to a hundred; a failure ends it.
Count(c) ==
    /\ \/ /\ Go(c, "count", IF Promotable(Cardinality(Search("violation", "global")))
                            THEN "promote" ELSE "over")
          /\ UNCHANGED items
       \/ /\ Go(c, "count", "over")
          /\ Fails
          /\ UNCHANGED <<store, missed>>
    /\ UNCHANGED document

Promote(c) ==
    /\ Go(c, "promote", "over")
    /\ Add(Item("promoted", "global", c))
    /\ UNCHANGED document

Consolidate(c) ==
    \/ Extract(c) \/ Persist(c) \/ Purge(c)
    \/ Read(c) \/ AppendEntry(c) \/ Rewrite(c)
    \/ Violation(c) \/ Count(c) \/ Promote(c)

Quiet == \A c \in Calls : at[c] \notin Awaits

Closed ==
    /\ Quiet /\ \A s \in Sessions : phase[s] \in {"closing", "closed"}
    /\ UNCHANGED vars

Next ==
    \/ \E s \in Sessions : Bootstrap(s) \/ Scout(s) \/ Leave(s) \/ Begin(s)
    \/ \E c \in Calls : Consolidate(c)
    \/ Closed

Spec == Init /\ [][Next]_vars

-----------------------------------------------------------------------------
\* Consolidating AGENTS.md drops no entry unnoticed: one that was written is still
\* there, or was summarised, or is among those a consolidation whose summary failed
\* replaced by their number.  It is lost without a trace only when a read or write
\* of the file failed, or when an attempt that had read the file before the entry
\* was written wrote it afterwards.
EntriesSurvive ==
    LET entries == First(Len(file.entries), file.entries)
    IN faulty = {} => \A a \in wrote \cup Past(Earlier) :
          \/ a \in entries \cup file.old \cup file.gone
          \/ \E d \in wrote \ {a} : {a, d} \in overlap

\* A step removes nothing from memory but start notes of the task whose
\* consolidation purges them: never a lesson, never another task's note.
OnlyNoisePurged ==
    [][\A i \in store \ store' :
          i.kind = "start" /\ \E c \in Calls : at[c] = "purge" /\ at'[c] # "purge" /\ c[1] = i.user]_vars

\* A rule violated often enough is promoted, in whatever order the attempts
\* record and count, once they are all over and no call to the provider failed.
PromotionNotMissed ==
    /\ Quiet /\ trouble = 0
    /\ Cardinality({i \in store : i.kind = "violation"}) >= Threshold
    /\ \E c \in Calls : at[c] = "over"
    => \E i \in store : i.kind = "promoted"

\* A scout whose search succeeds finds the lessons stored for future sessions.
LessonsReachScout == missed = {}
=============================================================================
