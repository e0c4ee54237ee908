------------------------------ MODULE MemoryProofs ------------------------------
(***************************************************************************)
(* Theorems about the records that are made shorter when they grow.        *)
(*                                                                         *)
(* Memory, for any number of sessions and of attempts: what sessions leave *)
(* for one another is lost only in the ways the properties name.           *)
(*                                                                         *)
(* AuditTrail, for any cap, budget and length of the session: every        *)
(* eviction works on what the one before left, so the invariant,           *)
(* TrailInv, is about a trail that was evicted already, related to the     *)
(* writes of the whole session (Faithful).                                 *)
(***************************************************************************)
EXTENDS Memory, AuditTrail, SequenceTheorems, FiniteSetTheorems, WellFoundedInduction, TLAPS

-----------------------------------------------------------------------------
\* The entries of AGENTS.md.

There(d) == First(Len(d.entries), d.entries) \cup d.old \cup d.gone

LEMMA CallTypes ==
    /\ Calls \subseteq Authors /\ Past(Earlier) \subseteq Authors
    /\ \A c \in Calls : c[1] \in Sessions /\ c[2] \in 1 .. MaxAttempts /\ c = <<c[1], c[2]>>
    /\ IsFiniteSet(Calls)
<1>1. IsFiniteSet(1 .. MaxAttempts)
  BY AttemptsAssumption, FS_Interval
<1>2. IsFiniteSet(Calls)
  BY <1>1, SessionsAssumption, FS_Product DEF Calls
<1> QED
  BY <1>2 DEF Calls, Authors

LEMMA FirstAll ==
    ASSUME NEW S, NEW q \in Seq(S)
    PROVE  First(Len(q), q) = {q[i] : i \in 1 .. Len(q)}
  BY LenProperties DEF First

LEMMA KeepsThree == ASSUME NEW n \in Nat PROVE KeepCount(n) \in Int /\ KeepCount(n) >= 3
<1> DEFINE third == (3 * n + 9) \div 10
<1>1. third \in Int
  OBVIOUS
<1>2. KeepCount(n) = IF third > 3 THEN third ELSE 3
  BY DEF KeepCount
<1> HIDE DEF third
<1> QED
  BY <1>1, <1>2

\* Every entry stays in the list or in what the summary or the number stands for.
LEMMA ConsolidatedKeeps ==
    ASSUME NEW d \in Documents
    PROVE  Consolidated(d) \in Documents /\ There(d) \subseteq There(Consolidated(d))
<1> DEFINE keep == KeepCount(Len(d.entries) + 1)
           out  == Len(d.entries) - keep
           rest == SubSeq(d.entries, out + 1, Len(d.entries))
<1>1. /\ d.entries \in Seq(Authors) /\ Len(d.entries) \in Nat
      /\ d.old \in SUBSET Authors /\ d.gone \in SUBSET Authors
  BY LenProperties DEF Documents
<1>2. CASE Short(d)
  BY <1>2 DEF Consolidated
<1>3. CASE ~Short(d)
  <2>1. keep \in Nat /\ out \in Nat /\ out <= Len(d.entries)
    <3>1. keep \in Int /\ keep >= 3
      BY <1>1, KeepsThree
    <3>2. ~(Len(d.entries) + 1 <= keep)
      BY <1>3 DEF Short
    <3> HIDE DEF keep
    <3> QED
      BY <1>1, <3>1, <3>2
  <2> HIDE DEF keep, out, rest
  <2>2. Consolidated(d) = [human |-> FALSE, entries |-> rest,
                           old |-> d.old \cup First(out, d.entries), gone |-> d.gone]
    BY <1>3 DEF Consolidated, keep, out, rest
  <2>3. /\ rest \in Seq(Authors) /\ Len(rest) = Len(d.entries) - out
        /\ \A i \in 1 .. Len(d.entries) - out : rest[i] = d.entries[out + i]
    BY <1>1, <2>1, SubSeqProperties DEF rest
  <2>4. \A i \in 1 .. Len(d.entries) : d.entries[i] \in Authors
    BY <1>1, ElementOfSeq
  <2>5. First(out, d.entries) = {d.entries[i] : i \in 1 .. out} /\ First(out, d.entries) \subseteq Authors
    <3>1. (IF out < Len(d.entries) THEN out ELSE Len(d.entries)) = out
      BY <1>1, <2>1
    <3>2. First(out, d.entries) = {d.entries[i] : i \in 1 .. out}
      BY <3>1 DEF First
    <3>3. \A i \in 1 .. out : i \in 1 .. Len(d.entries)
      BY <1>1, <2>1
    <3> QED
      BY <2>4, <3>2, <3>3
  <2>6. Consolidated(d) \in Documents
    BY <1>1, <2>2, <2>3, <2>5 DEF Documents
  <2>7. ASSUME NEW a \in There(d) PROVE a \in There(Consolidated(d))
    <3>1. CASE a \in d.old \cup d.gone
      BY <2>2, <3>1 DEF There
    <3>2. ASSUME NEW i \in 1 .. Len(d.entries), a = d.entries[i]
          PROVE  a \in There(Consolidated(d))
      <4>1. CASE i <= out
        <5>1. i \in 1 .. out
          BY <4>1
        <5>2. a \in First(out, d.entries)
          BY <2>5, <3>2, <5>1
        <5>3. Consolidated(d).old = d.old \cup First(out, d.entries)
          BY <2>2
        <5> QED
          BY <5>2, <5>3 DEF There
      <4>2. CASE ~(i <= out)
        <5>1. i - out \in 1 .. Len(rest) /\ rest[i - out] = a
          BY <1>1, <2>1, <2>3, <3>2, <4>2
        <5>2. a \in First(Len(rest), rest)
          BY <2>3, <5>1, FirstAll
        <5>3. Consolidated(d).entries = rest
          BY <2>2
        <5> QED
          BY <5>2, <5>3 DEF There
      <4> QED
        BY <4>1, <4>2
    <3> QED
      BY <1>1, <2>7, <3>1, <3>2, FirstAll DEF There
  <2> QED
    BY <2>6, <2>7
<1> QED
  BY <1>2, <1>3

\* So it is when the summariser fails.
LEMMA UnsummarisedKeeps ==
    ASSUME NEW d \in Documents
    PROVE  Unsummarised(d) \in Documents /\ There(d) \subseteq There(Unsummarised(d))
<1> DEFINE kept == Consolidated(d)
           lost == [kept EXCEPT !.old = {}, !.gone = d.gone \cup kept.old]
<1>1. CASE Short(d)
  BY <1>1 DEF Unsummarised
<1>2. CASE ~Short(d)
  <2>1. kept \in Documents /\ There(d) \subseteq There(kept)
    BY ConsolidatedKeeps
  <2>2. kept.gone = d.gone
    BY <1>2 DEF Consolidated
  <2>3. Unsummarised(d) = lost
    BY <1>2 DEF Unsummarised
  <2> HIDE DEF kept
  <2>4. lost \in Documents /\ lost.entries = kept.entries /\ lost.gone = kept.gone \cup kept.old
    BY <2>1, <2>2 DEF Documents
  <2> HIDE DEF lost
  <2>5. There(kept) \subseteq There(lost)
    BY <2>4 DEF There
  <2> QED
    BY <2>1, <2>3, <2>4, <2>5
<1> QED
  BY <1>1, <1>2

\* A new entry at the end.
LEMMA EntryAdded ==
    ASSUME NEW d \in Documents, NEW c \in Authors
    PROVE  LET e == [d EXCEPT !.entries = Append(@, c)]
           IN  e \in Documents /\ There(d) \subseteq There(e) /\ c \in There(e)
<1> DEFINE e == [d EXCEPT !.entries = Append(@, c)]
<1>1. /\ d.entries \in Seq(Authors) /\ Len(d.entries) \in Nat
      /\ d.old \in SUBSET Authors /\ d.gone \in SUBSET Authors
  BY LenProperties DEF Documents
<1>2. e.entries = Append(d.entries, c) /\ e.old = d.old /\ e.gone = d.gone /\ e \in Documents
  BY <1>1, AppendProperties DEF Documents
<1>3. /\ e.entries \in Seq(Authors)
      /\ Len(e.entries) = Len(d.entries) + 1 /\ e.entries[Len(d.entries) + 1] = c
      /\ \A i \in 1 .. Len(d.entries) : i \in 1 .. Len(e.entries) /\ e.entries[i] = d.entries[i]
      /\ Len(d.entries) + 1 \in 1 .. Len(e.entries)
  BY <1>1, <1>2, AppendProperties
<1> HIDE DEF e
<1>4. /\ First(Len(d.entries), d.entries) = {d.entries[i] : i \in 1 .. Len(d.entries)}
      /\ First(Len(e.entries), e.entries) = {e.entries[i] : i \in 1 .. Len(e.entries)}
  BY <1>1, <1>3, FirstAll
<1>5. e \in Documents /\ There(d) \subseteq There(e) /\ c \in There(e)
  BY <1>2, <1>3, <1>4 DEF There
<1> QED
  BY <1>5 DEF e

-----------------------------------------------------------------------------
\* Type correctness.

Phases == {"new", "scout", "work", "closing", "closed"}
Points == Awaits \cup {"none", "failed", "over"}

LEMMA FreshType == Fresh \in Documents
<1>1. <<>> \in Seq(Authors)
  BY EmptySeq
<1> QED
  BY <1>1 DEF Fresh, Documents

LEMMA InitType == Init => TypeOK
<1> SUFFICES ASSUME Init PROVE TypeOK
  OBVIOUS
<1>1. file \in Documents
  <2>1. [i \in 1 .. Earlier |-> <<"earlier", i>>] \in Seq(Authors)
    <3>1. [i \in 1 .. Earlier |-> <<"earlier", i>>] \in [1 .. Earlier -> Authors]
      BY DEF Authors, Past
    <3> QED
      BY <3>1, EarlierAssumption, SeqDef
  <2> QED
    BY <2>1 DEF Init, Documents
<1>2. \A i \in store : i.kind \in Kinds /\ i.user \in Sessions \cup {"global"}
  BY DEF Init, Item, Kinds
<1>3. copy \in [Calls -> Documents]
  BY FreshType DEF Init
<1> QED
  BY <1>1, <1>2, <1>3, AttemptsAssumption, BoundsAssumption DEF Init, TypeOK

LEMMA TroubleType == ASSUME TypeOK, Fails PROVE trouble' \in 0 .. MaxFaults /\ trouble' # 0
<1>1. Cardinality(faulty) \in Nat
  <2>1. IsFiniteSet(faulty)
    BY CallTypes, FS_Subset DEF TypeOK
  <2> QED
    BY <2>1, FS_CardinalityType
<1> QED
  BY <1>1, BoundsAssumption DEF Fails, CanFail, TypeOK

LEMMA AddType ==
    ASSUME TypeOK, NEW kind \in Kinds, NEW user \in Sessions \cup {"global"}, NEW c,
           Add(Item(kind, user, c))
    PROVE  /\ \A i \in store' : i.kind \in Kinds /\ i.user \in Sessions \cup {"global"}
           /\ missed' = missed /\ trouble' \in 0 .. MaxFaults
  BY TroubleType DEF Add, Item, TypeOK

LEMMA WriteType ==
    ASSUME TypeOK, NEW c \in Calls, NEW kept \in Documents, Write(c, kept)
    PROVE  /\ file' \in Documents /\ copy' \in [Calls -> Documents]
           /\ wrote' \subseteq Calls /\ faulty' \subseteq Calls /\ UNCHANGED <<overlap, items>>
<1>1. [kept EXCEPT !.entries = Append(@, c)] \in Documents
  BY EntryAdded, CallTypes
<1>2. file' \in Documents
  <2>1. file' = [kept EXCEPT !.entries = Append(@, c)] \/ file' = file \/ file' = Fresh
    BY DEF Write
  <2>2. file \in Documents
    BY DEF TypeOK
  <2> QED
    BY <1>1, <2>1, <2>2, FreshType
<1>3. copy' \in [Calls -> Documents]
  BY FreshType DEF Write, TypeOK
<1> QED
  BY <1>2, <1>3 DEF Write, TypeOK

LEMMA ControlType ==
    ASSUME TypeOK, NEW s \in Sessions, Bootstrap(s) \/ Scout(s) \/ Leave(s) \/ Begin(s)
    PROVE  TypeOK'
<1>1. CASE Bootstrap(s)
  <2>1. "start" \in Kinds
    BY DEF Kinds
  <2>2. /\ \A i \in store' : i.kind \in Kinds /\ i.user \in Sessions \cup {"global"}
        /\ missed' = missed /\ trouble' \in 0 .. MaxFaults
    BY <1>1, <2>1, AddType DEF Bootstrap
  <2>3. phase' \in [Sessions -> Phases]
    BY <1>1 DEF Bootstrap, TypeOK, Phases
  <2> QED
    BY <1>1, <2>2, <2>3 DEF Bootstrap, TypeOK, document, Phases
<1>2. CASE Scout(s)
  <2>1. phase' \in [Sessions -> Phases] /\ missed' \subseteq Sessions
    BY <1>2 DEF Scout, TypeOK, Phases
  <2> QED
    BY <1>2, <2>1 DEF Scout, TypeOK, document, Phases
<1>3. CASE Leave(s)
  <2>1. phase' \in [Sessions -> Phases]
    BY <1>3 DEF Leave, TypeOK, Phases
  <2> QED
    BY <1>3, <2>1 DEF Leave, TypeOK, items, document, Phases
<1>4. CASE Begin(s)
  <2>1. tries[s] + 1 \in 1 .. MaxAttempts /\ tries' \in [Sessions -> 0 .. MaxAttempts]
    BY <1>4, AttemptsAssumption DEF Begin, TypeOK
  <2>2. at' \in [Calls -> Points]
    BY <1>4, <2>1 DEF Begin, TypeOK, Points, Awaits, Calls
  <2> QED
    BY <1>4, <2>1, <2>2 DEF Begin, TypeOK, items, document, Points
<1> QED
  BY <1>1, <1>2, <1>3, <1>4

LEMMA GoType ==
    ASSUME TypeOK, NEW c \in Calls, NEW from, NEW to \in Points, Go(c, from, to)
    PROVE  at' \in [Calls -> Points] /\ UNCHANGED <<phase, tries, violates>>
  BY DEF Go, TypeOK, Points

LEMMA ConsolidateType == ASSUME TypeOK, NEW c \in Calls, Consolidate(c) PROVE TypeOK'
<1>1. at' \in [Calls -> Points] /\ UNCHANGED <<phase, tries, violates>>
  <2>1. PICK from \in Awaits, to \in Awaits \cup {"failed", "over"} : Go(c, from, to)
    BY DEF Consolidate, Extract, Persist, Purge, Read, AppendEntry, Rewrite, Violation, Count,
           Promote, Awaits
  <2> QED
    BY <2>1, GoType DEF Points
<1>2. c[1] \in Sessions
  BY CallTypes
<1>3. CASE Extract(c)
  BY <1>1, <1>3 DEF Extract, items, document, TypeOK, Points
<1>4. CASE Persist(c) \/ Violation(c) \/ Promote(c)
  <2>1. {"lesson", "violation", "promoted"} \subseteq Kinds
    BY DEF Kinds
  <2>2. /\ \A i \in store' : i.kind \in Kinds /\ i.user \in Sessions \cup {"global"}
        /\ missed' = missed /\ trouble' \in 0 .. MaxFaults
    <3>1. CASE UNCHANGED items
      BY <3>1 DEF items, TypeOK
    <3>2. CASE ~UNCHANGED items
      <4>1. PICK kind \in {"lesson", "violation", "promoted"}, user \in {c[1], "global"} :
              Add(Item(kind, user, c))
        BY <1>4, <3>2 DEF Persist, Violation, Promote
      <4> QED
        BY <1>2, <2>1, <4>1, AddType
    <3> QED
      BY <3>1, <3>2
  <2> QED
    BY <1>1, <1>4, <2>2 DEF Persist, Violation, Promote, document, TypeOK, Points
<1>5. CASE Purge(c) \/ Count(c)
  <2>1. store' \subseteq store /\ missed' = missed /\ UNCHANGED document
    BY <1>5 DEF Purge, Count, items
  <2>2. trouble' \in 0 .. MaxFaults
    BY <1>5, TroubleType DEF Purge, Count, items, TypeOK
  <2> QED
    BY <1>1, <2>1, <2>2 DEF TypeOK, document, Points
<1>6. CASE Read(c)
  <2>1. copy' \in [Calls -> Documents] /\ faulty' \subseteq Calls
    BY <1>6, FreshType DEF Read, TypeOK
  <2>2. overlap' \subseteq {{d, e} : d, e \in Calls}
    BY <1>6 DEF Read, TypeOK
  <2> QED
    BY <1>1, <1>6, <2>1, <2>2 DEF Read, items, TypeOK, Points
<1>7. CASE AppendEntry(c) \/ Rewrite(c)
  <2>1. copy[c] \in Documents
    BY DEF TypeOK
  <2>2. PICK kept \in Documents : Write(c, kept)
    BY <1>7, <2>1, ConsolidatedKeeps, UnsummarisedKeeps DEF AppendEntry, Rewrite
  <2>3. /\ file' \in Documents /\ copy' \in [Calls -> Documents]
        /\ wrote' \subseteq Calls /\ faulty' \subseteq Calls /\ UNCHANGED <<overlap, items>>
    BY <2>2, WriteType
  <2> QED
    BY <1>1, <2>3 DEF items, TypeOK, Points
<1> QED
  BY <1>3, <1>4, <1>5, <1>6, <1>7 DEF Consolidate

LEMMA NextType == TypeOK /\ [Next]_vars => TypeOK'
<1>1. TypeOK /\ UNCHANGED vars => TypeOK'
  BY DEF vars, items, document, control, TypeOK
<1> QED
  BY <1>1, ControlType, ConsolidateType DEF Next, Closed

\* Every variable keeps its type: no session consolidates more often than the
\* retry policy allows, and what is in memory belongs to a task or to everybody.
THEOREM MemoryTypeCorrect == Spec => []TypeOK
<1> QED
  BY InitType, NextType, PTL DEF Spec
-----------------------------------------------------------------------------
\* What becomes of the items.

\* What a task stored under its own id is the note of its start or a lesson.
ItemInv == \A i \in store : i.user \in Sessions => i.kind \in {"start", "lesson"}

LEMMA NoiseIsStart ==
    ASSUME TypeOK, ItemInv, NEW s \in Sessions
    PROVE  \A i \in Noise(s) : i.kind = "start" /\ i.user = s /\ i \in store
  BY DEF ItemInv, Noise

\* Steps either add one item, or purge, or leave the store alone.
Adds(item) == store' = store \cup {item}

LEMMA StoreMoves ==
    ASSUME TypeOK, [Next]_vars
    PROVE  \/ store' = store
           \/ \E s \in Sessions : phase[s] = "new" /\ Adds(Item("start", s, <<s, 0>>)) /\ at' = at
           \/ \E c \in Calls : \/ at[c] = "persist" /\ Adds(Item("lesson", c[1], c))
                               \/ at[c] = "violation" /\ at'[c] = "count" /\ Adds(Item("violation", "global", c))
                               \/ at[c] = "promote" /\ Adds(Item("promoted", "global", c))
                               \/ /\ at[c] = "purge" /\ at'[c] # "purge"
                                  /\ store \ store' \subseteq Noise(c[1]) /\ store' \subseteq store
<1>1. CASE UNCHANGED vars \/ Closed
  BY <1>1 DEF Closed, vars, items
<1>2. ASSUME NEW s \in Sessions, Bootstrap(s) \/ Scout(s) \/ Leave(s) \/ Begin(s)
      PROVE  store' = store \/ (phase[s] = "new" /\ Adds(Item("start", s, <<s, 0>>)) /\ at' = at)
  BY <1>2 DEF Bootstrap, Scout, Leave, Begin, Add, Adds, items
<1>3. ASSUME NEW c \in Calls, Consolidate(c)
      PROVE  \/ store' = store
             \/ at[c] = "persist" /\ Adds(Item("lesson", c[1], c))
             \/ at[c] = "violation" /\ at'[c] = "count" /\ Adds(Item("violation", "global", c))
             \/ at[c] = "promote" /\ Adds(Item("promoted", "global", c))
             \/ /\ at[c] = "purge" /\ at'[c] # "purge"
                /\ store \ store' \subseteq Noise(c[1]) /\ store' \subseteq store
  <2>1. CASE Purge(c)
    <3>1. at[c] = "purge" /\ at'[c] # "purge"
      BY <2>1 DEF Purge, Go, TypeOK
    <3>2. store \ store' \subseteq Noise(c[1]) /\ store' \subseteq store
      BY <2>1 DEF Purge
    <3> QED
      BY <3>1, <3>2
  <2>2. CASE Violation(c)
    <3>1. at[c] = "violation" /\ at'[c] = "count"
      BY <2>2 DEF Violation, Go, TypeOK
    <3> QED
      BY <2>2, <3>1 DEF Violation, Add, Adds, items
  <2>3. CASE ~Purge(c) /\ ~Violation(c)
    BY <1>3, <2>3 DEF Consolidate, Extract, Persist, Read, AppendEntry, Rewrite, Write, Count,
                      Promote, Go, Add, Adds, items
  <2> QED
    BY <2>1, <2>2, <2>3
<1> QED
  BY <1>1, <1>2, <1>3 DEF Next

LEMMA ItemStep == TypeOK /\ ItemInv /\ [Next]_vars => ItemInv'
<1> SUFFICES ASSUME TypeOK, ItemInv, [Next]_vars PROVE ItemInv'
  OBVIOUS
<1>1. \A kind, user, c : Item(kind, user, c).kind = kind /\ Item(kind, user, c).user = user
  BY DEF Item
<1>2. ASSUME NEW kind \in {"start", "lesson"}, NEW user, NEW c, Adds(Item(kind, user, c))
      PROVE  ItemInv'
  BY <1>1, <1>2 DEF Adds, ItemInv
<1>3. ASSUME NEW kind, NEW c, Adds(Item(kind, "global", c))
      PROVE  ItemInv'
  BY <1>1, <1>3, SessionsAssumption DEF Adds, ItemInv
<1>4. CASE store' \subseteq store
  BY <1>4 DEF ItemInv
<1> QED
  BY <1>2, <1>3, <1>4, StoreMoves

LEMMA ItemInit == Init => ItemInv
<1> SUFFICES ASSUME Init, NEW i \in store PROVE i.user \notin Sessions
  BY DEF ItemInv
<1>1. i.user = "global"
  BY DEF Init, Item
<1> QED
  BY <1>1, SessionsAssumption

\* The lessons are all stored under the id of a task, which is nobody else's.
LessonsArePrivate == \A i \in store : i.kind = "lesson" => i.user \in Sessions

LEMMA PrivateStep == TypeOK /\ LessonsArePrivate /\ [Next]_vars => LessonsArePrivate'
<1> SUFFICES ASSUME TypeOK, LessonsArePrivate, [Next]_vars PROVE LessonsArePrivate'
  OBVIOUS
<1>1. \A kind, user, c : Item(kind, user, c).kind = kind /\ Item(kind, user, c).user = user
  BY DEF Item
<1>2. ASSUME NEW kind, NEW user, NEW c, Adds(Item(kind, user, c)),
             kind = "lesson" => user \in Sessions
      PROVE  LessonsArePrivate'
  BY <1>1, <1>2 DEF Adds, LessonsArePrivate
<1>3. \A c \in Calls : c[1] \in Sessions
  BY DEF Calls
<1>4. CASE store' \subseteq store
  BY <1>4 DEF LessonsArePrivate
<1> QED
  BY <1>2, <1>3, <1>4, StoreMoves

\* What scout's search for lessons finds: it asks for the lessons of "global".
NothingToFind == Search("lesson", "global") = {}

\* Scout (scout/impl.ts) never finds a lesson of another session, however many there
\* are, whatever is retried and whatever fails: consolidation stores each one
\* under the id of its task, and InMemoryProvider gives a user the items of that
\* user and the global ones only.
THEOREM ScoutFindsNoLesson == Spec => []NothingToFind
<1>1. Init => LessonsArePrivate
  BY DEF Init, LessonsArePrivate, Item
<1>2. LessonsArePrivate => NothingToFind
  BY SessionsAssumption DEF LessonsArePrivate, NothingToFind, Search
<1> QED
  <2>1. LessonsArePrivate /\ TypeOK /\ [Next]_vars => LessonsArePrivate'
    BY PrivateStep
  <2> QED
    BY <1>1, <1>2, <2>1, MemoryTypeCorrect, PTL DEF Spec

\* Whatever happens side by side, a step takes from the shared memory only start
\* notes of the task whose consolidation purges them (memory/impl.ts getAll,
\* filter, delete): no lesson, and nothing of another task.
THEOREM NoiseOnlyIsPurged == Spec => OnlyNoisePurged
<1>1. TypeOK /\ ItemInv /\ [Next]_vars =>
        [\A i \in store \ store' : i.kind = "start" /\
            \E c \in Calls : at[c] = "purge" /\ at'[c] # "purge" /\ c[1] = i.user]_vars
  <2> SUFFICES ASSUME TypeOK, ItemInv, [Next]_vars, NEW i \in store \ store'
               PROVE  i.kind = "start" /\
                        \E c \in Calls : at[c] = "purge" /\ at'[c] # "purge" /\ c[1] = i.user
    OBVIOUS
  <2>1. PICK c \in Calls : /\ at[c] = "purge" /\ at'[c] # "purge"
                           /\ store \ store' \subseteq Noise(c[1])
    BY StoreMoves DEF Adds
  <2>2. c[1] \in Sessions
    BY CallTypes
  <2>3. i.kind = "start" /\ i.user = c[1]
    BY <2>1, <2>2, NoiseIsStart
  <2> QED
    BY <2>1, <2>3
<1> QED
  BY <1>1, ItemInit, ItemStep, MemoryTypeCorrect, PTL DEF Spec, OnlyNoisePurged

-----------------------------------------------------------------------------
\* The self-healing rules.

\* Attempts that have not begun stand nowhere.
AtInv == \A s \in Sessions, n \in 1 .. MaxAttempts : n > tries[s] => at[<<s, n>>] = "none"

LEMMA AtStep == TypeOK /\ AtInv /\ [Next]_vars => AtInv'
<1> SUFFICES ASSUME TypeOK, AtInv, [Next]_vars PROVE AtInv'
  OBVIOUS
<1>1. CASE UNCHANGED <<at, tries>>
  BY <1>1 DEF AtInv
<1>2. ASSUME NEW s \in Sessions, Begin(s) PROVE AtInv'
  <2>1. /\ tries' = [tries EXCEPT ![s] = @ + 1] /\ tries \in [Sessions -> 0 .. MaxAttempts]
        /\ at' = [at EXCEPT ![<<s, tries[s] + 1>>] = "extract"]
        /\ at \in [Calls -> Awaits \cup {"none", "failed", "over"}]
        /\ tries[s] + 1 \in 1 .. MaxAttempts
    BY <1>2, AttemptsAssumption DEF Begin, TypeOK
  <2> SUFFICES ASSUME NEW t \in Sessions, NEW n \in 1 .. MaxAttempts, n > tries'[t]
               PROVE  at'[<<t, n>>] = "none"
    BY DEF AtInv
  <2>2. n > tries[t] /\ <<t, n>> # <<s, tries[s] + 1>>
    BY <2>1
  <2>3. <<t, n>> \in Calls
    BY DEF Calls
  <2> QED
    BY <2>1, <2>2, <2>3 DEF AtInv
<1>3. ASSUME NEW c \in Calls, Consolidate(c) PROVE AtInv'
  <2>1. PICK from \in Awaits, to \in Awaits \cup {"failed", "over"} : Go(c, from, to)
    BY <1>3 DEF Consolidate, Extract, Persist, Purge, Read, AppendEntry, Rewrite, Violation, Count,
           Promote, Awaits
  <2>2. at[c] # "none"
    BY <2>1 DEF Go, Awaits
  <2> SUFFICES ASSUME NEW s \in Sessions, NEW n \in 1 .. MaxAttempts, n > tries'[s]
               PROVE  at'[<<s, n>>] = "none"
    BY DEF AtInv
  <2>3. at[<<s, n>>] = "none" /\ <<s, n>> \in Calls
    BY <2>1 DEF AtInv, Go, Calls
  <2> QED
    BY <2>1, <2>2, <2>3 DEF Go, TypeOK
<1> QED
  BY <1>1, <1>2, <1>3 DEF Next, Bootstrap, Scout, Leave, Closed, vars, control

\* What the next attempt starts from is an await nobody is at.
LEMMA BeginMoves ==
    ASSUME TypeOK, AtInv, NEW s \in Sessions, Begin(s)
    PROVE  \E c \in Calls : at[c] = "none" /\ at' = [at EXCEPT ![c] = "extract"]
<1>1. tries[s] + 1 \in 1 .. MaxAttempts /\ tries[s] + 1 > tries[s]
  BY AttemptsAssumption DEF Begin, TypeOK
<1>2. <<s, tries[s] + 1>> \in Calls /\ at[<<s, tries[s] + 1>>] = "none"
  BY <1>1 DEF AtInv, Calls
<1> QED
  BY <1>2 DEF Begin

Violations == {i \in store : i.kind = "violation"}
Promoted   == \E i \in store : i.kind = "promoted"

\* Once there are enough violations and an attempt is over, the rule is promoted
\* or somebody has still to count or to promote.
PromoteInv ==
    /\ \A i \in Violations : i.user = "global"
    /\ trouble = 0 /\ Cardinality(Violations) >= Threshold /\ (\E c \in Calls : at[c] = "over") =>
         Promoted \/ \E c \in Calls : at[c] \in {"count", "promote"}

\* Where an attempt can get to.
LEMMA AtMoves ==
    ASSUME TypeOK, AtInv, [Next]_vars
    PROVE  \/ at' = at
           \/ \E c \in Calls :
                /\ at' = [at EXCEPT ![c] = at'[c]]
                /\ at[c] \in {"count", "promote"} => at'[c] \in {"promote", "over"}
                /\ at'[c] = "over" => Count(c) \/ Promote(c)
                /\ at[c] # "over" /\ (at[c] = "count" => Count(c)) /\ (at[c] = "promote" => Promote(c))
                /\ at[c] = "violation" => at'[c] = "count"
<1>1. at \in [Calls -> Awaits \cup {"none", "failed", "over"}]
  BY DEF TypeOK
<1>2. ASSUME NEW s \in Sessions, Begin(s)
      PROVE  \E c \in Calls : at[c] = "none" /\ at' = [at EXCEPT ![c] = "extract"] /\ at'[c] = "extract"
  BY <1>1, <1>2, BeginMoves
<1>3. ASSUME NEW c \in Calls, Consolidate(c)
      PROVE  /\ at' = [at EXCEPT ![c] = at'[c]]
             /\ at[c] \in {"count", "promote"} => at'[c] \in {"promote", "over"}
             /\ at'[c] = "over" => Count(c) \/ Promote(c)
             /\ at[c] # "over" /\ (at[c] = "count" => Count(c)) /\ (at[c] = "promote" => Promote(c))
             /\ at[c] = "violation" => at'[c] = "count"
  <2>1. CASE Count(c) \/ Promote(c)
    BY <1>1, <2>1 DEF Count, Promote, Go
  <2>2. CASE Violation(c)
    BY <1>1, <2>2 DEF Violation, Go
  <2>3. CASE Extract(c) \/ Persist(c) \/ Purge(c) \/ Read(c) \/ AppendEntry(c) \/ Rewrite(c)
    BY <1>1, <2>3 DEF Extract, Persist, Purge, Read, AppendEntry, Rewrite, Go
  <2> QED
    BY <1>3, <2>1, <2>2, <2>3 DEF Consolidate
<1>4. CASE \E s \in Sessions : Bootstrap(s) \/ Scout(s) \/ Leave(s)
  BY <1>4 DEF Bootstrap, Scout, Leave
<1>5. CASE Closed \/ UNCHANGED vars
  BY <1>5 DEF Closed, vars, control
<1> QED
  BY <1>2, <1>3, <1>4, <1>5 DEF Next

\* Trouble is never taken back.
LEMMA TroubleMoves ==
    ASSUME TypeOK, [Next]_vars
    PROVE  trouble' = 0 => trouble = 0 /\ ~Fails
<1>1. trouble \in Nat /\ (Fails => trouble' = trouble + 1)
  BY DEF Fails, TypeOK
<1>2. trouble' = trouble \/ Fails
  <2>1. ASSUME NEW s \in Sessions, Bootstrap(s) \/ Scout(s) \/ Leave(s) \/ Begin(s)
        PROVE  trouble' = trouble \/ Fails
    BY <2>1 DEF Bootstrap, Scout, Leave, Begin, Add, items
  <2>2. ASSUME NEW c \in Calls, Consolidate(c)
        PROVE  trouble' = trouble \/ Fails
    <3>1. CASE Extract(c) \/ Persist(c) \/ Purge(c) \/ Read(c)
      BY <3>1 DEF Extract, Persist, Purge, Read, Add, items
    <3>2. CASE AppendEntry(c) \/ Rewrite(c)
      BY <3>2 DEF AppendEntry, Rewrite, Write, items
    <3>3. CASE Violation(c) \/ Count(c) \/ Promote(c)
      BY <3>3 DEF Violation, Count, Promote, Add, items
    <3> QED
      BY <2>2, <3>1, <3>2, <3>3 DEF Consolidate
  <2>3. CASE Closed \/ UNCHANGED vars
    BY <2>3 DEF Closed, vars, items
  <2> QED
    BY <2>1, <2>2, <2>3 DEF Next
<1> QED
  BY <1>1, <1>2

LEMMA PromoteStep == TypeOK /\ ItemInv /\ AtInv /\ PromoteInv /\ [Next]_vars => PromoteInv'
<1> SUFFICES ASSUME TypeOK, ItemInv, AtInv, PromoteInv, [Next]_vars PROVE PromoteInv'
  OBVIOUS
<1>1. \A kind, user, c : Item(kind, user, c).kind = kind /\ Item(kind, user, c).user = user
  BY DEF Item
<1>gone. \A i \in store \ store' : i.kind = "start"
  BY StoreMoves, NoiseIsStart, CallTypes DEF Adds
<1>new. \A i \in store' \ store : i.kind = "violation" =>
           i.user = "global" /\ \E c \in Calls : at'[c] = "count"
  <2> SUFFICES ASSUME NEW i \in store' \ store, i.kind = "violation"
               PROVE  i.user = "global" /\ \E c \in Calls : at'[c] = "count"
    OBVIOUS
  <2>1. \A kind, user, d : Adds(Item(kind, user, d)) => i = Item(kind, user, d)
    BY DEF Adds
  <2>2. \A kind, user, d : Adds(Item(kind, user, d)) => kind = "violation" /\ user = i.user
    BY <1>1, <2>1
  <2>3. store' # store /\ ~(store' \subseteq store)
    OBVIOUS
  <2>4. PICK c \in Calls : at'[c] = "count" /\ Adds(Item("violation", "global", c))
    <3>1. \A s \in Sessions : ~Adds(Item("start", s, <<s, 0>>))
      BY <2>2
    <3>2. \A c \in Calls : ~Adds(Item("lesson", c[1], c)) /\ ~Adds(Item("promoted", "global", c))
      BY <2>2
    <3> QED
      BY <2>3, <3>1, <3>2, StoreMoves
  <2> QED
    BY <2>2, <2>4
<1>2. \A i \in Violations' : i.user = "global"
  BY <1>new DEF PromoteInv, Violations
<1>3. Promoted => Promoted'
  BY <1>gone DEF Promoted
<1>4. Violations' = Violations \/ \E c \in Calls : at'[c] = "count"
  BY <1>gone, <1>new DEF Violations
<1>5. trouble' = 0 => trouble = 0 /\ ~Fails
  BY TroubleMoves
<1>6. ASSUME trouble' = 0, Cardinality(Violations') >= Threshold, \E c \in Calls : at'[c] = "over"
      PROVE  Promoted' \/ \E c \in Calls : at'[c] \in {"count", "promote"}
  <2> SUFFICES ASSUME ~Promoted', \A c \in Calls : at'[c] \notin {"count", "promote"}
               PROVE  FALSE
    OBVIOUS
  <2>1. at \in [Calls -> Awaits \cup {"none", "failed", "over"}]
    BY DEF TypeOK
  <2>2. ASSUME NEW c \in Calls, Promote(c) PROVE FALSE
    <3>1. Promoted'
      BY <1>1, <1>5, <1>6, <2>2 DEF Promote, Add, Promoted
    <3> QED
      BY <3>1
  <2>3. ASSUME NEW c \in Calls, Count(c) PROVE FALSE
    <3>1. Go(c, "count", IF Promotable(Cardinality(Search("violation", "global"))) THEN "promote" ELSE "over")
          /\ UNCHANGED store
      BY <1>5, <1>6, <2>3 DEF Count, items
    <3>2. Search("violation", "global") = Violations' /\ Violations' = Violations
      BY <3>1 DEF Search, Violations, PromoteInv
    <3>3. at'[c] = "promote"
      BY <1>6, <2>1, <3>1, <3>2 DEF Promotable, Go
    <3> QED
      BY <3>3
  <2>4. \A c \in Calls : (at'[c] = "over" <=> at[c] = "over") /\ at[c] \notin {"count", "promote"}
    BY <2>1, <2>2, <2>3, AtMoves
  <2>5. Violations' = Violations
    BY <1>4
  <2> QED
    BY <1>3, <1>5, <1>6, <2>4, <2>5 DEF PromoteInv
<1> QED
  BY <1>2, <1>6 DEF PromoteInv

LEMMA PromoteInit == Init => PromoteInv
<1> SUFFICES ASSUME Init PROVE PromoteInv
  OBVIOUS
<1>1. \A i \in Violations : i.user = "global"
  BY DEF Init, Item, Violations
<1>2. \A c \in Calls : at[c] # "over"
  BY DEF Init
<1> QED
  BY <1>1, <1>2 DEF PromoteInv

\* Two attempts may count at the same time; the one that recorded last has still
\* to count, so that somebody finds enough (updateSelfHealingRules in
\* activities/memory/impl.ts).
THEOREM PromotionIsNotMissed == Spec => []PromotionNotMissed
<1>1. Init => AtInv
  BY DEF Init, AtInv, Calls
<1>2. PromoteInv => PromotionNotMissed
  BY DEF PromoteInv, PromotionNotMissed, Promoted, Violations, Quiet, Awaits
<1> QED
  BY <1>1, <1>2, ItemInit, ItemStep, AtStep, PromoteInit, PromoteStep, MemoryTypeCorrect, PTL DEF Spec

-----------------------------------------------------------------------------
\* The entries of AGENTS.md, while consolidations run side by side.

Entries    == wrote \cup Past(Earlier)
Open(c)    == at[c] \in {"append", "rewrite"}
Excused(a) == \E d \in wrote \ {a} : {a, d} \in overlap

\* What an attempt has read lacks only what was written since, by an attempt it
\* overlaps, and what was lost before.
SurviveInv == faulty = {} =>
    /\ \A a \in Entries : a \in There(file) \/ Excused(a)
    /\ \A c \in Calls : Open(c) => \A a \in Entries :
          a \in There(copy[c]) \/ {a, c} \in overlap \/ Excused(a)
    /\ \A c, d \in Calls : Open(c) /\ Open(d) /\ c # d => {c, d} \in overlap

LEMMA SurviveInit == Init => SurviveInv
<1> SUFFICES ASSUME Init PROVE SurviveInv
  OBVIOUS
<1>1. \A c \in Calls : ~Open(c)
  BY DEF Init, Open
<1>2. ASSUME NEW a \in Entries PROVE a \in There(file)
  <2>1. PICK i \in 1 .. Earlier : a = <<"earlier", i>>
    BY DEF Init, Entries, Past
  <2>2. file.entries = [j \in 1 .. Earlier |-> <<"earlier", j>>]
    BY DEF Init
  <2>3. Len(file.entries) = Earlier
    BY <2>2, EarlierAssumption, LenProperties
  <2>4. a \in {file.entries[j] : j \in 1 .. Earlier}
    BY <2>1, <2>2
  <2>5. file.entries \in Seq(Authors)
    BY InitType DEF TypeOK, Documents
  <2> QED
    BY <2>3, <2>4, <2>5, FirstAll DEF There
<1> QED
  BY <1>1, <1>2 DEF SurviveInv

\* Only the steps that read and write the file open and close a copy of it.
LEMMA OpenMoves ==
    ASSUME TypeOK, AtInv, [Next]_vars
    PROVE  \/ UNCHANGED document /\ \A c \in Calls : Open(c)' <=> Open(c)
           \/ \E c \in Calls : Read(c) \/ AppendEntry(c) \/ Rewrite(c)
<1>1. at \in [Calls -> Points]
  BY DEF TypeOK, Points
<1>2. CASE UNCHANGED <<document, at>>
  BY <1>2 DEF Open
<1>3. ASSUME NEW s \in Sessions, Begin(s)
      PROVE  UNCHANGED document /\ \A c \in Calls : Open(c)' <=> Open(c)
  <2>1. PICK c \in Calls : at[c] = "none" /\ at' = [at EXCEPT ![c] = "extract"]
    BY <1>3, BeginMoves
  <2> QED
    BY <1>1, <1>3, <2>1 DEF Begin, Open
<1>4. ASSUME NEW c \in Calls,
             Extract(c) \/ Persist(c) \/ Purge(c) \/ Violation(c) \/ Count(c) \/ Promote(c)
      PROVE  UNCHANGED document /\ \A d \in Calls : Open(d)' <=> Open(d)
  <2>1. UNCHANGED document
    BY <1>4 DEF Extract, Persist, Purge, Violation, Count, Promote
  <2>2. PICK from \in Awaits \ {"append", "rewrite"}, to \in Points \ {"append", "rewrite"} :
          Go(c, from, to)
    BY <1>4 DEF Extract, Persist, Purge, Violation, Count, Promote, Awaits, Points
  <2> QED
    BY <1>1, <2>1, <2>2 DEF Go, Open
<1>5. CASE \E s \in Sessions : Bootstrap(s) \/ Scout(s) \/ Leave(s)
  BY <1>2, <1>5 DEF Bootstrap, Scout, Leave
<1>6. CASE Closed \/ UNCHANGED vars
  BY <1>2, <1>6 DEF Closed, vars, control
<1> QED
  BY <1>3, <1>4, <1>5, <1>6 DEF Next, Consolidate

LEMMA SurviveRead ==
    ASSUME TypeOK, SurviveInv, NEW c \in Calls, Read(c)
    PROVE  SurviveInv'
<1> SUFFICES ASSUME faulty' = {} PROVE SurviveInv'
  BY DEF SurviveInv
<1>1. faulty = {} /\ copy' = [copy EXCEPT ![c] = file] /\ UNCHANGED <<file, wrote>>
  BY DEF Read
<1>2. copy'[c] = file /\ \A d \in Calls \ {c} : copy'[d] = copy[d]
  BY <1>1 DEF TypeOK
<1>3. \A d \in Calls : Open(d)' => d = c \/ Open(d)
  BY DEF Read, Go, Open, TypeOK
<1>4. overlap \subseteq overlap' /\ \A d \in Calls : Open(d) => {c, d} \in overlap'
  BY DEF Read, Open
<1>5. Entries' = Entries /\ \A a : Excused(a) => Excused(a)'
  BY <1>1, <1>4 DEF Entries, Excused
<1>6. \A a \in Entries' : a \in There(file') \/ Excused(a)'
  BY <1>1, <1>5 DEF SurviveInv
<1>7. ASSUME NEW d \in Calls, Open(d)', NEW a \in Entries'
      PROVE  a \in There(copy'[d]) \/ {a, d} \in overlap' \/ Excused(a)'
  <2>1. CASE d = c
    BY <1>1, <1>2, <1>6, <2>1
  <2>2. CASE d # c
    BY <1>1, <1>2, <1>3, <1>4, <1>5, <1>7, <2>2 DEF SurviveInv
  <2> QED
    BY <2>1, <2>2
<1>8. ASSUME NEW d \in Calls, NEW e \in Calls, Open(d)', Open(e)', d # e
      PROVE  {d, e} \in overlap'
  <2>1. CASE d = c
    BY <1>3, <1>4, <1>8, <2>1
  <2>2. CASE e = c
    <3>1. {e, d} \in overlap' /\ {e, d} = {d, e}
      BY <1>3, <1>4, <1>8, <2>2
    <3> QED
      BY <3>1
  <2>3. CASE d # c /\ e # c
    BY <1>1, <1>3, <1>4, <1>8, <2>3 DEF SurviveInv
  <2> QED
    BY <2>1, <2>2, <2>3
<1> QED
  BY <1>6, <1>7, <1>8 DEF SurviveInv

LEMMA SurviveWrite ==
    ASSUME TypeOK, SurviveInv, NEW c \in Calls, AppendEntry(c) \/ Rewrite(c)
    PROVE  SurviveInv'
<1> SUFFICES ASSUME faulty' = {} PROVE SurviveInv'
  BY DEF SurviveInv
<1>1. PICK kept \in Documents : Write(c, kept) /\ There(copy[c]) \subseteq There(kept)
  <2>1. copy[c] \in Documents
    BY DEF TypeOK
  <2> QED
    BY <2>1, ConsolidatedKeeps, UnsummarisedKeeps DEF AppendEntry, Rewrite
<1>2. /\ faulty = {} /\ wrote' = wrote \cup {c} /\ overlap' = overlap
      /\ file' = [kept EXCEPT !.entries = Append(@, c)]
      /\ copy' = [copy EXCEPT ![c] = Fresh]
  BY <1>1 DEF Write
<1>3. There(copy[c]) \subseteq There(file') /\ c \in There(file')
  BY <1>1, <1>2, EntryAdded, CallTypes
<1>4. Open(c) /\ \A d \in Calls : Open(d)' => Open(d) /\ d # c /\ copy'[d] = copy[d]
  BY <1>2 DEF AppendEntry, Rewrite, Go, Open, TypeOK
<1>5. Entries' = Entries \cup {c} /\ \A a : Excused(a) => Excused(a)'
  BY <1>2 DEF Entries, Excused
<1>6. ASSUME NEW a \in Entries' PROVE a \in There(file') \/ Excused(a)'
  <2>1. CASE a = c
    BY <1>3, <2>1
  <2>2. CASE a # c
    <3>1. a \in There(copy[c]) \/ {a, c} \in overlap \/ Excused(a)
      BY <1>2, <1>4, <1>5, <2>2 DEF SurviveInv
    <3>2. {a, c} \in overlap => Excused(a)'
      BY <1>2, <2>2 DEF Excused
    <3> QED
      BY <1>3, <1>5, <3>1, <3>2
  <2> QED
    BY <2>1, <2>2
<1>7. ASSUME NEW d \in Calls, Open(d)', NEW a \in Entries'
      PROVE  a \in There(copy'[d]) \/ {a, d} \in overlap' \/ Excused(a)'
  <2>1. CASE a = c
    BY <1>2, <1>4, <1>7, <2>1 DEF SurviveInv
  <2>2. CASE a # c
    BY <1>2, <1>4, <1>5, <1>7, <2>2 DEF SurviveInv
  <2> QED
    BY <2>1, <2>2
<1>8. \A d, e \in Calls : Open(d)' /\ Open(e)' /\ d # e => {d, e} \in overlap'
  BY <1>2, <1>4 DEF SurviveInv
<1> QED
  BY <1>6, <1>7, <1>8 DEF SurviveInv

LEMMA SurviveStep == TypeOK /\ AtInv /\ SurviveInv /\ [Next]_vars => SurviveInv'
<1> SUFFICES ASSUME TypeOK, AtInv, SurviveInv, [Next]_vars PROVE SurviveInv'
  OBVIOUS
<1>1. CASE UNCHANGED document /\ \A c \in Calls : Open(c)' <=> Open(c)
  <2>1. UNCHANGED <<file, copy, overlap, wrote, faulty>>
    BY <1>1 DEF document
  <2>2. Entries' = Entries /\ \A a : Excused(a)' <=> Excused(a)
    BY <2>1 DEF Entries, Excused
  <2> QED
    BY <1>1, <2>1, <2>2 DEF SurviveInv
<1> QED
  BY <1>1, OpenMoves, SurviveRead, SurviveWrite

\* Whatever consolidations of any number of sessions and their retries do, an entry
\* of AGENTS.md is still there, was summarised, or was replaced by a number because
\* the summary failed; it is lost without a trace only to a failed read or write or
\* to an attempt that had read the file before the entry was written
\* (memoryConsolidationImpl's read, summary and write, each after an await).
THEOREM EntriesDoSurvive == Spec => []EntriesSurvive
<1>1. Init => AtInv
  BY DEF Init, AtInv, Calls
<1>2. SurviveInv => EntriesSurvive
  BY DEF SurviveInv, EntriesSurvive, Entries, Excused, There
<1> QED
  BY <1>1, <1>2, AtStep, SurviveInit, SurviveStep, MemoryTypeCorrect, PTL DEF Spec

-----------------------------------------------------------------------------
\* The places of a list, in order.

LEMMA LeastPlace ==
    ASSUME NEW T \in SUBSET Nat, T # {}
    PROVE  \E m \in T : \A n \in T : m <= n
<1> DEFINE less == {p \in Nat \X Nat : p[1] < p[2]}
<1>1. IsWellFoundedOn(less, Nat)
  BY NatLessThanWellFounded DEF OpToRel
<1>2. \A m, n \in T : n < m => <<n, m>> \in less
  OBVIOUS
<1> HIDE DEF less
<1>3. PICK m \in T : \A n \in T : <<n, m>> \notin less
  BY <1>1, WFMin
<1>4. \A n \in T : ~(n < m)
  BY <1>2, <1>3
<1> QED
  BY <1>4

\* How many of some places come up to one.
UpTo(places, k) == Cardinality({m \in places : m <= k})

LEMMA UpToGrows ==
    ASSUME NEW n \in Nat, NEW places, \A p \in places : p \in 1 .. n
    PROVE  /\ IsFiniteSet(places) /\ Cardinality(places) \in Nat
           /\ \A k \in Nat : UpTo(places, k) \in Nat
           /\ UpTo(places, 0) = 0
           /\ UpTo(places, n) = Cardinality(places)
           /\ \A k \in 1 .. n : UpTo(places, k) =
                 UpTo(places, k - 1) + (IF k \in places THEN 1 ELSE 0)
<1>1. IsFiniteSet(places)
  <2>1. IsFiniteSet(1 .. n) /\ places \in SUBSET (1 .. n)
    BY FS_Interval
  <2> QED
    BY <2>1, FS_Subset
<1>2. \A k \in Int : IsFiniteSet({m \in places : m <= k})
  BY <1>1, FS_Subset
<1>3. \A k \in Nat : UpTo(places, k) \in Nat
  BY <1>2, FS_CardinalityType DEF UpTo
<1>4. {m \in places : m <= 0} = {} /\ {m \in places : m <= n} = places
  OBVIOUS
<1>5. ASSUME NEW k \in 1 .. n, k \in places
      PROVE  UpTo(places, k) = UpTo(places, k - 1) + 1
  <2> DEFINE before == {m \in places : m <= k - 1}
  <2>0. \A m \in places : m \in Int /\ (m <= k <=> m <= k - 1 \/ m = k)
    OBVIOUS
  <2>4. \A m : m \in before <=> m \in places /\ m <= k - 1
    OBVIOUS
  <2>5. k \notin before
    BY <2>4
  <2> HIDE DEF before
  <2>1. {m \in places : m <= k} = before \cup {k} /\ k \notin before
    BY <1>5, <2>0, <2>4, <2>5
  <2>2. IsFiniteSet(before)
    BY <1>2 DEF before
  <2>3. Cardinality(before \cup {k}) = Cardinality(before) + 1
    BY <2>1, <2>2, FS_AddElement
  <2> QED
    BY <2>1, <2>3 DEF UpTo, before
<1>6. ASSUME NEW k \in 1 .. n, k \notin places
      PROVE  UpTo(places, k) = UpTo(places, k - 1)
  <2>1. {m \in places : m <= k} = {m \in places : m <= k - 1}
    BY <1>6
  <2> QED
    BY <2>1 DEF UpTo
<1>7. UpTo(places, 0) = 0 /\ UpTo(places, n) = Cardinality(places)
  BY <1>4, FS_EmptySet DEF UpTo
<1>8. \A k \in 1 .. n : UpTo(places, k) =
                 UpTo(places, k - 1) + (IF k \in places THEN 1 ELSE 0)
  <2> TAKE k \in 1 .. n
  <2>1. UpTo(places, k - 1) \in Nat
    BY <1>3
  <2> QED
    BY <1>5, <1>6, <2>1
<1> QED
  BY <1>1, <1>3, <1>7, <1>8, FS_CardinalityType

\* Every place is the n-th for one n, and for every n there is an n-th.
LEMMA NthPlace ==
    ASSUME NEW n \in Nat, NEW places, \A p \in places : p \in 1 .. n, NEW c \in 1 .. Cardinality(places)
    PROVE  /\ Nth(places, c) \in places
           /\ UpTo(places, Nth(places, c)) = c
<1> DEFINE T == {k \in 0 .. n : UpTo(places, k) >= c}
<1>1. n \in T
  BY UpToGrows
<1>2. T \in SUBSET Nat
  OBVIOUS
<1>3. PICK k \in T : \A m \in T : k <= m
  BY <1>1, <1>2, LeastPlace
<1>4. k # 0
  BY <1>3, UpToGrows
<1>5. k \in 1 .. n /\ k - 1 \in Nat /\ k - 1 \notin T
  BY <1>3, <1>4
<1>6. UpTo(places, k - 1) \in Nat /\ UpTo(places, k - 1) < c
  <2>1. UpTo(places, k - 1) \in Nat
    BY <1>5, UpToGrows
  <2>2. k - 1 \in 0 .. n
    BY <1>5
  <2>3. ~(UpTo(places, k - 1) >= c)
    BY <1>5, <2>2
  <2> QED
    BY <2>1, <2>3
<1>7. k \in places /\ UpTo(places, k) = c
  BY <1>3, <1>5, <1>6, UpToGrows
<1>8. \E m \in places : Cardinality({j \in places : j <= m}) = c
  BY <1>7 DEF UpTo
<1> QED
  BY <1>8 DEF Nth, UpTo

LEMMA UpToStrict ==
    ASSUME NEW n \in Nat, NEW places, \A p \in places : p \in 1 .. n,
           NEW j \in places, NEW k \in places, j < k
    PROVE  UpTo(places, j) < UpTo(places, k)
<1> DEFINE J == {m \in places : m <= j}
           K == {m \in places : m <= k}
<1>1. J \subseteq K /\ J # K
  <2>1. k \in K /\ k \notin J
    OBVIOUS
  <2>2. \A m \in J : m \in K
    OBVIOUS
  <2> QED
    BY <2>1, <2>2
<1>2. IsFiniteSet(K)
  BY UpToGrows, FS_Subset
<1> HIDE DEF J, K
<1>3. IsFiniteSet(J) /\ Cardinality(J) <= Cardinality(K)
  BY <1>1, <1>2, FS_Subset
<1>4. Cardinality(J) # Cardinality(K)
  BY <1>1, <1>2, FS_Subset
<1>5. Cardinality(J) \in Nat /\ Cardinality(K) \in Nat
  BY <1>2, <1>3, FS_CardinalityType
<1> QED
  BY <1>3, <1>4, <1>5 DEF UpTo, J, K

LEMMA PlaceIsNth ==
    ASSUME NEW n \in Nat, NEW places, \A p \in places : p \in 1 .. n, NEW k \in places
    PROVE  \E c \in 1 .. Cardinality(places) : Nth(places, c) = k
<1> DEFINE c == UpTo(places, k)
<1>1. c \in Nat /\ c # 0
  <2>1. k \in 1 .. n /\ k \in Nat
    OBVIOUS
  <2>2. UpTo(places, k) = UpTo(places, k - 1) + 1
    BY <2>1, UpToGrows
  <2>3. UpTo(places, k - 1) \in Nat
    <3>1. k - 1 \in Nat
      BY <2>1
    <3> QED
      BY <3>1, UpToGrows
  <2> QED
    BY <2>2, <2>3
<1>2. c <= Cardinality(places)
  <2>1. {m \in places : m <= k} \subseteq places
    OBVIOUS
  <2> QED
    BY <2>1, UpToGrows, FS_Subset DEF UpTo
<1>3. c \in 1 .. Cardinality(places)
  BY <1>1, <1>2, UpToGrows
<1>4. Nth(places, c) \in places /\ UpTo(places, Nth(places, c)) = c
  BY <1>3, NthPlace
<1> DEFINE m == Nth(places, c)
<1> HIDE DEF m
<1>5. ~(m < k) /\ ~(k < m)
  BY <1>1, <1>4, UpToStrict DEF m
<1>6. m = k
  <2>1. m \in Int /\ k \in Int
    BY <1>4 DEF m
  <2> QED
    BY <1>5, <2>1
<1> QED
  BY <1>3, <1>6 DEF m

-----------------------------------------------------------------------------
\* The parts of a pruned trail.

LEMMA EscalationsListed ==
    ASSUME NEW S, NEW s \in Seq(S), NEW kinds
    PROVE  LET e == Escalations(s, kinds)
           IN  /\ e \in Seq(S)
               /\ Len(e) = Cardinality(Escalated(s, kinds))
               /\ \A n \in 1 .. Len(e) : kinds[e[n]]
               /\ \A k \in 1 .. Len(s) : kinds[s[k]] => \E n \in 1 .. Len(e) : e[n] = s[k]
<1> DEFINE places == Escalated(s, kinds)
           e == Escalations(s, kinds)
<1>1. Len(s) \in Nat /\ \A k \in 1 .. Len(s) : s[k] \in S
  BY LenProperties, ElementOfSeq
<1>2. \A p \in places : p \in 1 .. Len(s) /\ kinds[s[p]]
  BY DEF Escalated
<1>3. \A k \in 1 .. Len(s) : kinds[s[k]] => k \in places
  BY DEF Escalated
<1>4. e = [n \in 1 .. Cardinality(places) |-> s[Nth(places, n)]]
  BY DEF Escalations
<1> HIDE DEF places, e
<1>5. Cardinality(places) \in Nat
  BY <1>1, <1>2, UpToGrows
<1>6. \A n \in 1 .. Cardinality(places) : Nth(places, n) \in places
  BY <1>1, <1>2, NthPlace
<1>7. \A k \in places : \E n \in 1 .. Cardinality(places) : Nth(places, n) = k
  BY <1>1, <1>2, PlaceIsNth
<1>8. e \in [1 .. Cardinality(places) -> S]
  BY <1>1, <1>2, <1>4, <1>6
<1>9. e \in Seq(S) /\ Len(e) = Cardinality(places)
  BY <1>5, <1>8, LenProperties, SeqDef
<1>10. \A n \in 1 .. Len(e) : kinds[e[n]]
  BY <1>2, <1>4, <1>6, <1>9
<1>11. \A k \in 1 .. Len(s) : kinds[s[k]] => \E n \in 1 .. Len(e) : e[n] = s[k]
  BY <1>3, <1>4, <1>7, <1>9
<1> QED
  BY <1>9, <1>10, <1>11 DEF e, places

\* The newest n entries, or as many as there are.
LEMMA NewestListed ==
    ASSUME NEW S, NEW s \in Seq(S), NEW n \in Int, s # << >>
    PROVE  LET e == Newest(s, n)
           IN  /\ e \in Seq(S)
               /\ Len(e) = IF n <= 0 THEN 0 ELSE IF n < Len(s) THEN n ELSE Len(s)
               /\ \A k \in 1 .. Len(e) : e[k] = s[Len(s) - Len(e) + k]
<1>1. Len(s) \in Nat /\ Len(s) # 0
  BY LenProperties, EmptySeq
<1>2. CASE n <= 0
  BY <1>2 DEF Newest
<1>3. CASE n > 0
  <2> DEFINE m == IF n < Len(s) THEN Len(s) - n + 1 ELSE 1
  <2>1. m \in 1 .. Len(s) /\ Len(s) \in 1 .. Len(s) + 1 /\ m <= Len(s)
    BY <1>1, <1>3
  <2>0. ~(n <= 0)
    BY <1>3
  <2>2. Newest(s, n) = SubSeq(s, m, Len(s))
    BY <2>0 DEF Newest
  <2> HIDE DEF m
  <2>3. /\ SubSeq(s, m, Len(s)) \in Seq(S)
        /\ Len(SubSeq(s, m, Len(s))) = Len(s) - m + 1
        /\ \A k \in 1 .. Len(s) - m + 1 : SubSeq(s, m, Len(s))[k] = s[m + k - 1]
    BY <1>1, <2>1, SubSeqProperties
  <2>4. Len(s) - m + 1 = IF n < Len(s) THEN n ELSE Len(s)
    BY <1>1, <1>3 DEF m
  <2>5. \A k \in 1 .. Len(s) - m + 1 : m + k - 1 = Len(s) - (Len(s) - m + 1) + k
    BY <1>1, <2>1
  <2> QED
    BY <1>3, <2>2, <2>3, <2>4, <2>5
<1> QED
  BY <1>2, <1>3

LEMMA Sizes ==
    /\ Max \in Nat /\ Prune \in Nat /\ Setup \in Nat /\ Recent \in Nat
    /\ Setup > 0 /\ Recent > 0 /\ Setup + Recent < Prune /\ Prune < Max
  BY SizesAssumption

LEMMA RoomIsFilled ==
    ASSUME NEW a \in Nat, NEW m \in Nat, NEW f \in Nat, NEW room,
           room = Prune - Setup - a - Recent,
           f = IF room <= 0 THEN 0 ELSE IF room < m THEN room ELSE m
    PROVE  /\ f <= m
           /\ Setup + a + (f + Recent) > Max => a > Prune - Setup - Recent
<1>1. room \in Int
  BY Sizes
<1>2. CASE room <= 0
  BY <1>1, <1>2, Sizes
<1>3. CASE ~(room <= 0)
  <2>1. f <= room /\ f <= m
    BY <1>1, <1>3
  <2> QED
    BY <1>1, <2>1, Sizes
<1> QED
  BY <1>2, <1>3

LEMMA FourParts ==
    ASSUME NEW S, NEW f \in Seq(S), NEW g \in Seq(S), NEW h \in Seq(S), NEW l \in Seq(S)
    PROVE  LET p == f \o g \o h \o l
           IN  /\ p \in Seq(S) /\ Len(p) = Len(f) + Len(g) + (Len(h) + Len(l))
               /\ \A k \in 1 .. Len(p) :
                    p[k] = IF k <= Len(f) THEN f[k]
                           ELSE IF k <= Len(f) + Len(g) THEN g[k - Len(f)]
                           ELSE IF k <= Len(f) + Len(g) + Len(h) THEN h[k - Len(f) - Len(g)]
                           ELSE l[k - Len(f) - Len(g) - Len(h)]
<1> DEFINE x == f \o g
           y == x \o h
           p == y \o l
<1>1. Len(f) \in Nat /\ Len(g) \in Nat /\ Len(h) \in Nat /\ Len(l) \in Nat
  BY LenProperties
<1>2. /\ x \in Seq(S) /\ Len(x) = Len(f) + Len(g)
      /\ \A k \in 1 .. Len(f) + Len(g) : x[k] = IF k <= Len(f) THEN f[k] ELSE g[k - Len(f)]
  BY ConcatProperties
<1> HIDE DEF x
<1>3. /\ y \in Seq(S) /\ Len(y) = Len(x) + Len(h)
      /\ \A k \in 1 .. Len(x) + Len(h) : y[k] = IF k <= Len(x) THEN x[k] ELSE h[k - Len(x)]
  BY <1>2, ConcatProperties
<1> HIDE DEF y
<1>31. y \in Seq(S)
  BY <1>3
<1>4. /\ p \in Seq(S) /\ Len(p) = Len(y) + Len(l)
      /\ \A k \in 1 .. Len(y) + Len(l) : p[k] = IF k <= Len(y) THEN y[k] ELSE l[k - Len(y)]
  BY <1>31, ConcatProperties
<1> HIDE DEF p
<1>5. Len(x) \in Nat /\ Len(y) \in Nat /\ Len(p) \in Nat
  BY <1>1, <1>2, <1>3, <1>4
<1>6. ASSUME NEW k \in 1 .. Len(p)
      PROVE  p[k] = IF k <= Len(f) THEN f[k]
                    ELSE IF k <= Len(f) + Len(g) THEN g[k - Len(f)]
                    ELSE IF k <= Len(f) + Len(g) + Len(h) THEN h[k - Len(f) - Len(g)]
                    ELSE l[k - Len(f) - Len(g) - Len(h)]
  <2>1. CASE k <= Len(x)
    <3>1. p[k] = x[k]
      BY <1>1, <1>3, <1>4, <1>5, <2>1
    <3> QED
      BY <1>1, <1>2, <2>1, <3>1
  <2>2. CASE ~(k <= Len(x)) /\ k <= Len(y)
    <3>1. p[k] = h[k - Len(x)]
      BY <1>1, <1>3, <1>4, <1>5, <2>2
    <3>2. k - Len(x) = k - Len(f) - Len(g)
      BY <1>1, <1>2, <1>5
    <3>3. ~(k <= Len(f)) /\ ~(k <= Len(f) + Len(g)) /\ k <= Len(f) + Len(g) + Len(h)
      BY <1>1, <1>2, <1>3, <1>5, <2>2
    <3>4. p[k] = h[k - Len(f) - Len(g)]
      BY <3>1, <3>2
    <3> QED
      BY <3>3, <3>4
  <2>3. CASE ~(k <= Len(y))
    <3>1. p[k] = l[k - Len(y)]
      BY <1>1, <1>4, <1>5, <2>3
    <3>2. k - Len(y) = k - Len(f) - Len(g) - Len(h)
      BY <1>1, <1>2, <1>3, <1>5
    <3>3. ~(k <= Len(f)) /\ ~(k <= Len(f) + Len(g)) /\ ~(k <= Len(f) + Len(g) + Len(h))
      BY <1>1, <1>2, <1>3, <1>5, <2>3
    <3>4. p[k] = l[k - Len(f) - Len(g) - Len(h)]
      BY <3>1, <3>2
    <3> QED
      BY <3>3, <3>4
  <2> QED
    BY <2>1, <2>2, <2>3
<1>7. Len(p) = Len(f) + Len(g) + (Len(h) + Len(l))
  BY <1>1, <1>2, <1>3, <1>4
<1> QED
  BY <1>4, <1>6, <1>7 DEF p, x, y

\* What p is, made of s: its first entries, then a entries of the kinds, then the last
\* b of s. An entry of the kinds that is not in either kept end is among the a.
MadeOf(p, s, kinds, a, b) ==
    /\ Len(p) = Setup + a + b /\ Recent <= b /\ b <= Len(s) - Setup
    /\ Len(p) > Max => a > Prune - Setup - Recent
    /\ \A k \in 1 .. Setup : p[k] = s[k]
    /\ \A k \in Setup + 1 .. Setup + a : kinds[p[k]]
    /\ \A k \in Setup + a + 1 .. Len(p) : p[k] = s[Len(s) - Len(p) + k]
    /\ \A j \in Setup + 1 .. Len(s) - Recent : kinds[s[j]] =>
          \E k \in Setup + 1 .. Setup + a : p[k] = s[j]

LEMMA PrunedListed ==
    ASSUME NEW S, NEW s \in Seq(S), NEW kinds, Len(s) > Max
    PROVE  /\ Pruned(s, kinds) \in Seq(S)
           /\ \E a \in Nat, b \in Nat : MadeOf(Pruned(s, kinds), s, kinds, a, b)
<1> DEFINE first  == SubSeq(s, 1, Setup)
           middle == Middle(s)
           kept   == Escalations(middle, kinds)
           fill   == Newest(middle, Prune - Setup - Len(kept) - Recent)
           last   == Newest(s, Recent)
           p      == Pruned(s, kinds)
<1>1. Len(s) \in Nat /\ Setup + Recent < Len(s)
  BY LenProperties, Sizes
<1>2. \A k \in 1 .. Len(s) : s[k] \in S
  BY ElementOfSeq
<1>3. /\ first \in Seq(S) /\ Len(first) = Setup
      /\ \A k \in 1 .. Setup : first[k] = s[k]
  <2>1. \A k \in 1 .. Setup : s[k] \in S
    BY <1>1, <1>2, Sizes
  <2>2. /\ SubSeq(s, 1, Setup) \in Seq(S)
        /\ Len(SubSeq(s, 1, Setup)) = IF 1 <= Setup THEN Setup - 1 + 1 ELSE 0
        /\ \A k \in 1 .. Setup - 1 + 1 : SubSeq(s, 1, Setup)[k] = s[1 + k - 1]
    BY <2>1, Sizes, SubSeqProperties
  <2>3. \A k \in 1 .. Setup : 1 + k - 1 = k /\ k \in 1 .. Setup - 1 + 1
    BY Sizes
  <2> QED
    BY <2>2, <2>3, Sizes
<1>4. /\ middle \in Seq(S) /\ Len(middle) = Len(s) - Recent - Setup /\ middle # << >>
      /\ \A k \in 1 .. Len(middle) : middle[k] = s[Setup + k]
  <2> DEFINE m == Setup + 1
             n == Len(s) - Recent
  <2>1. m \in Int /\ n \in Int /\ m <= n /\ \A k \in m .. n : s[k] \in S
    BY <1>1, <1>2, Sizes
  <2>2. middle = SubSeq(s, m, n)
    BY DEF Middle
  <2>3. n - m + 1 = Len(s) - Recent - Setup /\ n - m + 1 > 0
    BY <1>1, Sizes
  <2>4. \A k \in 1 .. n - m + 1 : m + k - 1 = Setup + k
    BY <1>1, Sizes
  <2> HIDE DEF m, n, middle
  <2>5. /\ middle \in Seq(S) /\ Len(middle) = n - m + 1
        /\ \A k \in 1 .. n - m + 1 : middle[k] = s[m + k - 1]
    BY <2>1, <2>2, SubSeqProperties
  <2>6. middle # << >>
    BY <2>3, <2>5
  <2> QED
    BY <2>3, <2>4, <2>5, <2>6
<1> HIDE DEF first, middle
<1>5. /\ kept \in Seq(S) /\ Len(kept) \in Nat
      /\ \A n \in 1 .. Len(kept) : kinds[kept[n]]
      /\ \A k \in 1 .. Len(middle) : kinds[middle[k]] => \E n \in 1 .. Len(kept) : kept[n] = middle[k]
  BY <1>4, EscalationsListed, LenProperties
<1> HIDE DEF kept
<1> DEFINE room == Prune - Setup - Len(kept) - Recent
<1>6. room \in Int
  BY <1>5, Sizes
<1>7. /\ fill \in Seq(S)
      /\ Len(fill) = IF room <= 0 THEN 0 ELSE IF room < Len(middle) THEN room ELSE Len(middle)
      /\ \A k \in 1 .. Len(fill) : fill[k] = middle[Len(middle) - Len(fill) + k]
  <2> HIDE DEF room
  <2>1. LET e == Newest(middle, room)
        IN  /\ e \in Seq(S)
            /\ Len(e) = IF room <= 0 THEN 0 ELSE IF room < Len(middle) THEN room ELSE Len(middle)
            /\ \A k \in 1 .. Len(e) : e[k] = middle[Len(middle) - Len(e) + k]
    BY <1>4, <1>6, NewestListed
  <2> QED
    BY <2>1 DEF room
<1>8. /\ last \in Seq(S) /\ Len(last) = Recent
      /\ \A k \in 1 .. Recent : last[k] = s[Len(s) - Recent + k]
  <2>1. s # << >>
    BY <1>1, Sizes, EmptySeq
  <2>2. LET e == Newest(s, Recent)
        IN  /\ e \in Seq(S)
            /\ Len(e) = IF Recent <= 0 THEN 0 ELSE IF Recent < Len(s) THEN Recent ELSE Len(s)
            /\ \A k \in 1 .. Len(e) : e[k] = s[Len(s) - Len(e) + k]
    BY <2>1, Sizes, NewestListed
  <2>3. Len(last) = Recent
    BY <1>1, <2>2, Sizes
  <2> QED
    BY <2>2, <2>3
<1>9. p = first \o kept \o fill \o last
  BY DEF Pruned, first, middle, kept
<1> HIDE DEF fill, last, p
<1> DEFINE a == Len(kept)
           b == Len(fill) + Recent
<1>10. /\ a \in Nat /\ b \in Nat /\ Len(fill) \in Nat
       /\ Len(fill) <= Len(s) - Recent - Setup
       /\ Setup + a + b > Max => a > Prune - Setup - Recent
  <2>1. Len(middle) \in Nat /\ Len(middle) = Len(s) - Recent - Setup /\ a \in Nat
    BY <1>1, <1>4, <1>5, Sizes
  <2>2. Len(fill) \in Nat
    BY <1>7, LenProperties
  <2>3. Len(fill) = IF room <= 0 THEN 0 ELSE IF room < Len(middle) THEN room ELSE Len(middle)
    BY <1>7
  <2>4. room = Prune - Setup - a - Recent
    OBVIOUS
  <2> HIDE DEF a, room
  <2>5. /\ Len(fill) <= Len(middle)
        /\ Setup + a + (Len(fill) + Recent) > Max => a > Prune - Setup - Recent
    BY <2>1, <2>2, <2>3, <2>4, RoomIsFilled
  <2> QED
    BY <2>1, <2>2, <2>5, Sizes
<1>11. /\ p \in Seq(S) /\ Len(p) = Setup + a + b
       /\ \A k \in 1 .. Len(p) :
            p[k] = IF k <= Setup THEN first[k]
                   ELSE IF k <= Setup + a THEN kept[k - Setup]
                   ELSE IF k <= Setup + a + Len(fill) THEN fill[k - Setup - a]
                   ELSE last[k - Setup - a - Len(fill)]
  <2> HIDE DEF a
  <2>1. Len(kept) = a
    BY DEF a
  <2> QED
    <3> DEFINE q == first \o kept \o fill \o last
    <3>1. /\ q \in Seq(S) /\ Len(q) = Len(first) + Len(kept) + (Len(fill) + Len(last))
          /\ \A k \in 1 .. Len(q) :
                    q[k] = IF k <= Len(first) THEN first[k]
                           ELSE IF k <= Len(first) + Len(kept) THEN kept[k - Len(first)]
                           ELSE IF k <= Len(first) + Len(kept) + Len(fill)
                                THEN fill[k - Len(first) - Len(kept)]
                           ELSE last[k - Len(first) - Len(kept) - Len(fill)]
      <4>1. first \in Seq(S) /\ kept \in Seq(S) /\ fill \in Seq(S) /\ last \in Seq(S)
        BY <1>3, <1>5, <1>7, <1>8
      <4> QED
        BY <4>1, FourParts
    <3> HIDE DEF q
    <3>2. p = q /\ Len(first) = Setup /\ Len(last) = Recent
      BY <1>3, <1>8, <1>9 DEF q
    <3>3. \A k \in 1 .. Len(p) :
            p[k] = IF k <= Setup THEN first[k]
                   ELSE IF k <= Setup + a THEN kept[k - Setup]
                   ELSE IF k <= Setup + a + Len(fill) THEN fill[k - Setup - a]
                   ELSE last[k - Setup - a - Len(fill)]
      BY <2>1, <3>1, <3>2
    <3> QED
      BY <2>1, <3>1, <3>2, <3>3
<1>12. \A k \in 1 .. Setup : p[k] = s[k]
  BY <1>3, <1>10, <1>11, Sizes
<1>13. \A k \in Setup + 1 .. Setup + a : k - Setup \in 1 .. a /\ p[k] = kept[k - Setup]
  BY <1>10, <1>11, Sizes
<1>14. \A k \in Setup + a + 1 .. Len(p) : p[k] = s[Len(s) - Len(p) + k]
  <2> TAKE k \in Setup + a + 1 .. Len(p)
  <2> HIDE DEF a
  <2>1. CASE k <= Setup + a + Len(fill)
    <3> DEFINE f == k - Setup - a
    <3>1. f \in 1 .. Len(fill) /\ p[k] = fill[f]
      BY <1>10, <1>11, <2>1, Sizes
    <3>2. fill[f] = middle[Len(middle) - Len(fill) + f]
      BY <1>7, <3>1
    <3> HIDE DEF f
    <3>3. Len(middle) - Len(fill) + f \in 1 .. Len(middle)
      <4>1. Len(middle) \in Nat /\ Len(fill) <= Len(middle)
        BY <1>1, <1>4, <1>10, Sizes
      <4> QED
        BY <1>10, <3>1, <4>1
    <3>4. middle[Len(middle) - Len(fill) + f] = s[Setup + (Len(middle) - Len(fill) + f)]
      BY <1>4, <3>3
    <3>5. Setup + (Len(middle) - Len(fill) + f) = Len(s) - Len(p) + k
      BY <1>1, <1>4, <1>10, <1>11, Sizes DEF f
    <3> QED
      BY <3>1, <3>2, <3>4, <3>5
  <2>2. CASE k > Setup + a + Len(fill)
    <3> DEFINE f == k - Setup - a - Len(fill)
    <3>1. f \in 1 .. Recent /\ p[k] = last[f]
      BY <1>10, <1>11, <2>2, Sizes
    <3>2. Len(s) - Recent + f = Len(s) - Len(p) + k
      BY <1>1, <1>10, <1>11, Sizes
    <3> QED
      BY <1>8, <3>1, <3>2
  <2> QED
    BY <1>10, <2>1, <2>2, Sizes
<1>15. \A j \in Setup + 1 .. Len(s) - Recent : kinds[s[j]] =>
          \E k \in Setup + 1 .. Setup + a : p[k] = s[j]
  <2> SUFFICES ASSUME NEW j \in Setup + 1 .. Len(s) - Recent, kinds[s[j]]
               PROVE  \E k \in Setup + 1 .. Setup + a : p[k] = s[j]
    OBVIOUS
  <2>1. j - Setup \in 1 .. Len(middle) /\ middle[j - Setup] = s[j]
    <3>1. j - Setup \in 1 .. Len(middle) /\ Setup + (j - Setup) = j
      BY <1>1, <1>4, Sizes
    <3> QED
      BY <1>4, <3>1
  <2>2. PICK n \in 1 .. a : kept[n] = s[j]
    BY <1>5, <2>1
  <2>3. Setup + n \in Setup + 1 .. Setup + a /\ (Setup + n) - Setup = n
    BY <1>10, Sizes
  <2> QED
    BY <1>13, <2>2, <2>3
<1>16. \A k \in Setup + 1 .. Setup + a : kinds[p[k]]
  BY <1>5, <1>13
<1>17. /\ Len(p) = Setup + a + b /\ Recent <= b /\ b <= Len(s) - Setup
       /\ Len(p) > Max => a > Prune - Setup - Recent
  BY <1>1, <1>10, <1>11, Sizes
<1> HIDE DEF a, b
<1>18. a \in Nat /\ b \in Nat /\ p \in Seq(S)
  BY <1>10, <1>11
<1>19. MadeOf(p, s, kinds, a, b)
  BY <1>12, <1>14, <1>15, <1>16, <1>17 DEF MadeOf
<1> QED
  BY <1>18, <1>19 DEF p

-----------------------------------------------------------------------------
\* What a list of writes keeps of all writes so far, L telling which of them were
\* escalations: the trail between two writes, and before it is pruned.
Faithful(q, L) ==
    /\ q \in Seq(1 .. Len(L)) /\ L \in Seq(BOOLEAN)
    /\ Len(L) <= Max => Len(q) = Len(L)
    /\ Len(L) > Max => Len(q) >= Setup + Recent
    /\ \A e \in 1 .. Len(L) : L[e] => \E k \in 1 .. Len(q) : q[k] = e
    /\ \A k \in 1 .. Lesser(Setup, Len(L)) : q[k] = k
    /\ \A k \in 0 .. Lesser(Recent, Len(L)) - 1 : q[Len(q) - k] = Len(L) - k
    /\ \A j, k \in 1 .. Len(q) : j < k /\ ~L[q[j]] /\ ~L[q[k]] => q[j] < q[k]

LEMMA FaithfulTypes ==
    ASSUME NEW q, NEW L, Faithful(q, L)
    PROVE  /\ Len(q) \in Nat /\ Len(L) \in Nat
           /\ \A k \in 1 .. Len(q) : q[k] \in 1 .. Len(L)
           /\ \A e \in 1 .. Len(L) : L[e] \in BOOLEAN
           /\ Len(L) <= Max => Len(q) = Len(L)
           /\ Len(L) > Max => Len(q) >= Setup + Recent
           /\ Len(q) >= Lesser(Setup, Len(L)) /\ Len(q) >= Lesser(Recent, Len(L))
<1>1. /\ Len(q) \in Nat /\ Len(L) \in Nat
      /\ \A k \in 1 .. Len(q) : q[k] \in 1 .. Len(L)
      /\ \A e \in 1 .. Len(L) : L[e] \in BOOLEAN
  BY LenProperties, ElementOfSeq DEF Faithful
<1>2. (Len(L) <= Max => Len(q) = Len(L)) /\ (Len(L) > Max => Len(q) >= Setup + Recent)
  BY DEF Faithful
<1>3. Len(q) >= Lesser(Setup, Len(L)) /\ Len(q) >= Lesser(Recent, Len(L))
  BY <1>1, <1>2, Sizes DEF Lesser
<1> QED
  BY <1>1, <1>2, <1>3

\* A write at the end.
LEMMA AppendKeeps ==
    ASSUME NEW q, NEW L, Faithful(q, L), NEW escalation \in BOOLEAN
    PROVE  Faithful(Append(q, Len(L) + 1), Append(L, escalation))
<1> DEFINE n == Len(L) + 1
           m == Len(q) + 1
           r == Append(q, n)
           K == Append(L, escalation)
<1>1. /\ n \in Nat /\ m \in Nat /\ Len(q) \in Nat /\ Len(L) \in Nat
      /\ Len(q) = m - 1 /\ Len(L) = n - 1
      /\ \A k \in 1 .. Len(q) : q[k] \in 1 .. Len(L)
  BY FaithfulTypes
<1>2. K \in Seq(BOOLEAN) /\ Len(K) = n /\ K[n] = escalation /\ \A e \in 1 .. Len(L) : K[e] = L[e]
  BY AppendProperties DEF Faithful
<1>3. q \in Seq(1 .. n)
  <2>1. q \in [1 .. Len(q) -> 1 .. n]
    <3>1. q \in [1 .. Len(q) -> 1 .. Len(L)]
      BY LenProperties DEF Faithful
    <3> QED
      BY <1>1, <3>1
  <2> QED
    BY <1>1, <2>1, SeqDef
<1>4. /\ r \in Seq(1 .. n) /\ Len(r) = m /\ r[m] = n
      /\ \A k \in 1 .. Len(q) : r[k] = q[k]
  <2>1. n \in 1 .. n
    BY <1>1
  <2> QED
    BY <1>3, <2>1, AppendProperties
<1> HIDE DEF K, r, n, m
<1>5. /\ Len(K) <= Max => Len(r) = Len(K)
      /\ Len(K) > Max => Len(r) >= Setup + Recent
  <2>1. (Len(L) <= Max => Len(q) = Len(L)) /\ (Len(L) > Max => Len(q) >= Setup + Recent)
    BY FaithfulTypes
  <2> QED
    BY <1>1, <1>2, <1>4, <2>1, Sizes
<1>6. ASSUME NEW e \in 1 .. Len(K), K[e]
      PROVE  \E k \in 1 .. Len(r) : r[k] = e
  <2>1. CASE e = n
    BY <1>1, <1>4, <2>1
  <2>2. CASE e # n
    <3>1. e \in 1 .. Len(L) /\ L[e]
      BY <1>1, <1>2, <1>6, <2>2
    <3>2. PICK k \in 1 .. Len(q) : q[k] = e
      BY <3>1 DEF Faithful
    <3>3. k \in 1 .. Len(r) /\ r[k] = e
      BY <1>1, <1>4, <3>2
    <3> QED
      BY <3>3
  <2> QED
    BY <2>1, <2>2
<1>7. ASSUME NEW k \in 1 .. Lesser(Setup, Len(K))
      PROVE  r[k] = k
  <2>0. k \in Nat /\ k >= 1 /\ k <= Setup /\ k <= n
    BY <1>1, <1>2, Sizes DEF Lesser
  <2>1. CASE k <= Len(L)
    <3>1. k \in 1 .. Lesser(Setup, Len(L))
      BY <1>1, <2>0, <2>1, Sizes DEF Lesser
    <3>2. q[k] = k
      BY <3>1 DEF Faithful
    <3>3. Len(q) >= Lesser(Setup, Len(L))
      BY FaithfulTypes
    <3>4. k \in 1 .. Len(q)
      BY <1>1, <2>0, <2>1, <3>3, Sizes DEF Lesser
    <3> QED
      BY <1>4, <3>2, <3>4
  <2>2. CASE ~(k <= Len(L))
    <3>1. k = n /\ Len(L) <= Max
      BY <1>1, <2>0, <2>2, Sizes
    <3>2. Len(q) = Len(L)
      BY <3>1, FaithfulTypes
    <3>3. m = n
      BY <1>1, <3>2
    <3> QED
      BY <1>4, <3>1, <3>3
  <2> QED
    BY <2>1, <2>2
<1>8. ASSUME NEW k \in 0 .. Lesser(Recent, Len(K)) - 1
      PROVE  r[Len(r) - k] = Len(K) - k
  <2>0. k \in Nat /\ k < Recent /\ k < n
    BY <1>1, <1>2, Sizes DEF Lesser
  <2>1. CASE k = 0
    <3>1. Len(r) - k = m /\ Len(K) - k = n
      BY <1>1, <1>2, <1>4, <2>1
    <3> QED
      BY <1>4, <3>1
  <2>2. CASE k # 0
    <3>1. k - 1 \in 0 .. Lesser(Recent, Len(L)) - 1
      BY <1>1, <2>0, <2>2, Sizes DEF Lesser
    <3> DEFINE i == k - 1
    <3>2. q[Len(q) - i] = Len(L) - i
      BY <3>1 DEF Faithful
    <3>3. Len(q) >= Lesser(Recent, Len(L))
      BY FaithfulTypes
    <3>4. Len(q) - i \in 1 .. Len(q)
      BY <1>1, <2>0, <2>2, <3>3, Sizes DEF Lesser
    <3>5. Len(r) - k = Len(q) - i /\ Len(K) - k = Len(L) - i
      BY <1>1, <1>2, <1>4, <2>0
    <3> QED
      BY <1>4, <3>2, <3>4, <3>5
  <2> QED
    BY <2>1, <2>2
<1>9. ASSUME NEW j \in 1 .. Len(r), NEW k \in 1 .. Len(r), j < k, ~K[r[j]], ~K[r[k]]
      PROVE  r[j] < r[k]
  <2>1. j \in 1 .. Len(q) /\ r[j] = q[j] /\ q[j] \in 1 .. Len(L)
    <3>1. j \in 1 .. Len(q)
      BY <1>1, <1>4, <1>9
    <3> QED
      BY <1>1, <1>4, <3>1
  <2>2. CASE k = m
    <3>1. r[k] = n
      BY <1>4, <2>2
    <3> QED
      BY <1>1, <2>1, <3>1
  <2>3. CASE k # m
    <3>1. k \in 1 .. Len(q)
      BY <1>1, <1>4, <2>3
    <3>2. r[k] = q[k] /\ q[k] \in 1 .. Len(L)
      BY <1>1, <1>4, <3>1
    <3>3. ~L[q[j]] /\ ~L[q[k]]
      BY <1>2, <1>9, <2>1, <3>2
    <3> QED
      BY <1>9, <2>1, <3>1, <3>2, <3>3 DEF Faithful
  <2> QED
    BY <2>2, <2>3
<1>10. r \in Seq(1 .. Len(K)) /\ K \in Seq(BOOLEAN)
  BY <1>2, <1>4
<1>11. Faithful(r, K)
  BY <1>5, <1>6, <1>7, <1>8, <1>9, <1>10 DEF Faithful
<1> QED
  BY <1>11 DEF r, K, n

LEMMA SizeOfInterval ==
    ASSUME NEW m \in Nat, NEW a \in Nat
    PROVE  IsFiniteSet(m + 1 .. m + a) /\ Cardinality(m + 1 .. m + a) = a
<1> DEFINE x == m + 1
           y == m + a
<1>1. x \in Int /\ y \in Int /\ (IF x > y THEN 0 ELSE y - x + 1) = a
  OBVIOUS
<1> HIDE DEF x, y
<1>2. IsFiniteSet(x .. y) /\ Cardinality(x .. y) = IF x > y THEN 0 ELSE y - x + 1
  BY <1>1, FS_Interval
<1>3. IsFiniteSet(x .. y) /\ Cardinality(x .. y) = a
  BY <1>1, <1>2
<1> QED
  BY <1>3 DEF x, y

\* An eviction, of whatever the evictions before it left.
LEMMA PruneKeeps ==
    ASSUME NEW q, NEW L, Faithful(q, L), Len(q) > Max
    PROVE  LET p == Pruned(q, L)
           IN  /\ Faithful(p, L)
               /\ Len(p) > Max => Cardinality(Escalated(p, L)) > Prune - Setup - Recent
<1> DEFINE p == Pruned(q, L)
           S == 1 .. Len(L)
<1>1. /\ Len(q) \in Nat /\ Len(L) \in Nat /\ Len(L) > Max
      /\ \A k \in 1 .. Len(q) : q[k] \in 1 .. Len(L)
  <2>1. /\ Len(q) \in Nat /\ Len(L) \in Nat
        /\ \A k \in 1 .. Len(q) : q[k] \in 1 .. Len(L)
        /\ Len(L) <= Max => Len(q) = Len(L)
    BY FaithfulTypes
  <2> QED
    BY <2>1, Sizes
<1>2. q \in Seq(S) /\ L \in Seq(BOOLEAN)
  BY DEF Faithful
<1> HIDE DEF S
<1>3. p \in Seq(S) /\ \E a \in Nat, b \in Nat : MadeOf(p, q, L, a, b)
  BY <1>2, PrunedListed
<1> HIDE DEF p
<1>4. PICK a \in Nat, b \in Nat : MadeOf(p, q, L, a, b)
  BY <1>3
<1>41. /\ Len(p) > Max => a > Prune - Setup - Recent
       /\ \A k \in 1 .. Setup : p[k] = q[k]
       /\ \A k \in Setup + 1 .. Setup + a : L[p[k]]
       /\ \A k \in Setup + a + 1 .. Len(p) : p[k] = q[Len(q) - Len(p) + k]
       /\ \A j \in Setup + 1 .. Len(q) - Recent : L[q[j]] =>
             \E k \in Setup + 1 .. Setup + a : p[k] = q[j]
  BY <1>4 DEF MadeOf
<1>5. /\ Len(p) \in Nat /\ Len(p) = Setup + a + b /\ Recent <= b /\ b <= Len(q) - Setup
      /\ Len(p) >= Setup + Recent
  BY <1>4, Sizes DEF MadeOf
<1>6. ASSUME NEW e \in S, L[e] PROVE \E k \in 1 .. Len(p) : p[k] = e
  <2>1. PICK i \in 1 .. Len(q) : q[i] = e
    BY <1>6 DEF Faithful, S
  <2>2. CASE i <= Setup
    <3>1. i \in 1 .. Setup /\ i \in 1 .. Len(p)
      BY <1>1, <1>5, <2>2, Sizes
    <3> QED
      BY <1>41, <2>1, <3>1
  <2>3. CASE i > Setup /\ i <= Len(q) - Recent
    <3>1. i \in Setup + 1 .. Len(q) - Recent
      BY <1>1, <2>3, Sizes
    <3>2. PICK k \in Setup + 1 .. Setup + a : p[k] = q[i]
      BY <1>41, <1>6, <2>1, <3>1
    <3>3. k \in 1 .. Len(p)
      BY <1>5, Sizes
    <3> QED
      BY <2>1, <3>2, <3>3
  <2>4. CASE i > Len(q) - Recent
    <3> DEFINE k == Len(p) - Len(q) + i
    <3>1. k \in Setup + a + 1 .. Len(p) /\ k \in 1 .. Len(p) /\ Len(q) - Len(p) + k = i
      BY <1>1, <1>5, <2>4, Sizes
    <3> HIDE DEF k
    <3>2. p[k] = q[i]
      BY <1>41, <3>1
    <3> QED
      BY <2>1, <3>1, <3>2
  <2> QED
    BY <1>1, <2>2, <2>3, <2>4, Sizes
<1>7. ASSUME NEW k \in 1 .. Lesser(Setup, Len(L)) PROVE p[k] = k
  <2>1. k \in 1 .. Setup
    BY <1>1, Sizes DEF Lesser
  <2>2. q[k] = k
    BY <1>7 DEF Faithful
  <2> QED
    BY <1>41, <2>1, <2>2
<1>8. ASSUME NEW k \in 0 .. Lesser(Recent, Len(L)) - 1
      PROVE  p[Len(p) - k] = Len(L) - k
  <2>1. k \in Nat /\ k < Recent
    BY <1>1, Sizes DEF Lesser
  <2>2. q[Len(q) - k] = Len(L) - k
    BY <1>8 DEF Faithful
  <2> DEFINE i == Len(p) - k
  <2>3. i \in Setup + a + 1 .. Len(p) /\ Len(q) - Len(p) + i = Len(q) - k
    BY <1>1, <1>5, <2>1, Sizes
  <2> HIDE DEF i
  <2>4. p[i] = q[Len(q) - k]
    BY <1>41, <2>3
  <2> QED
    BY <2>2, <2>4 DEF i
\* Where an ordinary entry comes from.
<1> DEFINE from(k) == IF k <= Setup THEN k ELSE Len(q) - Len(p) + k
<1>9. ASSUME NEW k \in 1 .. Len(p), ~L[p[k]]
      PROVE  from(k) \in 1 .. Len(q) /\ p[k] = q[from(k)]
  <2>1. CASE k <= Setup
    <3>1. k \in 1 .. Setup /\ k \in 1 .. Len(q) /\ from(k) = k
      BY <1>1, <1>5, <2>1, Sizes
    <3> QED
      BY <1>41, <3>1
  <2>2. CASE k > Setup
    <3>1. k \notin Setup + 1 .. Setup + a
      BY <1>41, <1>9
    <3>2. k \in Setup + a + 1 .. Len(p)
      BY <1>5, <2>2, <3>1, Sizes
    <3>3. Len(q) - Len(p) + k \in 1 .. Len(q)
      BY <1>1, <1>5, <3>2, Sizes
    <3>4. from(k) = Len(q) - Len(p) + k
      BY <2>2, <3>2, <1>5, Sizes
    <3> QED
      BY <1>41, <3>2, <3>3, <3>4
  <2> QED
    BY <1>5, <2>1, <2>2, Sizes
<1>10. ASSUME NEW j \in 1 .. Len(p), NEW k \in 1 .. Len(p), j < k, ~L[p[j]], ~L[p[k]]
       PROVE  p[j] < p[k]
  <2>1. /\ from(j) \in 1 .. Len(q) /\ p[j] = q[from(j)]
        /\ from(k) \in 1 .. Len(q) /\ p[k] = q[from(k)]
    BY <1>9, <1>10
  <2>2. from(j) < from(k)
    <3>1. k > Setup => k > Setup + a
      <4>1. k \notin Setup + 1 .. Setup + a
        BY <1>41, <1>10
      <4> QED
        BY <1>5, <4>1, Sizes
    <3>2. CASE k <= Setup
      BY <1>10, <3>2, Sizes
    <3>3. CASE k > Setup /\ j <= Setup
      BY <1>1, <1>5, <3>1, <3>3, Sizes
    <3>4. CASE k > Setup /\ ~(j <= Setup)
      BY <1>1, <1>5, <1>10, <3>4, Sizes
    <3> QED
      BY <1>5, <3>2, <3>3, <3>4, Sizes
  <2> HIDE DEF from
  <2>3. ~L[q[from(j)]] /\ ~L[q[from(k)]]
    BY <1>10, <2>1
  <2> QED
    BY <2>1, <2>2, <2>3 DEF Faithful
<1>11. Faithful(p, L)
  <2>1. p \in Seq(1 .. Len(L))
    BY <1>3 DEF S
  <2>2. ~(Len(L) <= Max)
    BY <1>1, Sizes
  <2> QED
    BY <1>2, <1>5, <1>6, <1>7, <1>8, <1>10, <2>1, <2>2 DEF Faithful, S
<1>12. ASSUME Len(p) > Max PROVE Cardinality(Escalated(p, L)) > Prune - Setup - Recent
  <2> DEFINE I == Setup + 1 .. Setup + a
             E == Escalated(p, L)
  <2>1. I \subseteq E
    <3>1. \A k \in I : k \in 1 .. Len(p) /\ L[p[k]]
      <4>1. \A k \in Setup + 1 .. Setup + a : L[p[k]]
        BY <1>41
      <4>2. \A k \in Setup + 1 .. Setup + a : k \in 1 .. Len(p)
        BY <1>5, Sizes
      <4> QED
        BY <4>1, <4>2
    <3> QED
      BY <3>1 DEF Escalated
  <2>2. IsFiniteSet(E) /\ IsFiniteSet(I) /\ Cardinality(I) = a
    <3>1. E \subseteq 1 .. Len(p)
      BY DEF Escalated
    <3>2. IsFiniteSet(1 .. Len(p))
      BY <1>5, FS_Interval
    <3>3. IsFiniteSet(I) /\ Cardinality(I) = a
      BY Sizes, SizeOfInterval
    <3> QED
      BY <3>1, <3>2, <3>3, FS_Subset
  <2> HIDE DEF I, E
  <2>3. Cardinality(I) <= Cardinality(E) /\ Cardinality(E) \in Nat
    BY <2>1, <2>2, FS_Subset, FS_CardinalityType
  <2>4. a > Prune - Setup - Recent
    BY <1>41, <1>12
  <2>5. Cardinality(E) > Prune - Setup - Recent
    BY <2>2, <2>3, <2>4, Sizes
  <2> QED
    BY <2>5 DEF E
<1> QED
  BY <1>11, <1>12 DEF p

-----------------------------------------------------------------------------
\* The invariant: what holds of the trail after any number of writes.
TrailInv == Faithful(trail, log) /\ CapHolds

LEMMA EmptyIsFaithful == ASSUME Empty PROVE TrailInv
<1>1. trail = << >> /\ log = << >> /\ Len(trail) = 0 /\ Len(log) = 0
  BY DEF Empty
<1>2. trail \in Seq(1 .. Len(log)) /\ log \in Seq(BOOLEAN)
  BY <1>1
<1>3. Lesser(Setup, Len(log)) = 0 /\ Lesser(Recent, Len(log)) - 1 = -1
  BY <1>1, Sizes DEF Lesser
<1>4. Faithful(trail, log)
  BY <1>1, <1>2, <1>3, Sizes DEF Faithful
<1>5. CapHolds
  BY <1>1, Sizes DEF CapHolds
<1> QED
  BY <1>4, <1>5 DEF TrailInv

LEMMA WriteKeeps ==
    ASSUME TrailInv, NEW escalation \in BOOLEAN, WithAuditEntry(escalation)
    PROVE  TrailInv'
<1> DEFINE q == Append(trail, Len(log) + 1)
           L == Append(log, escalation)
<1>1. Faithful(q, L)
  BY AppendKeeps DEF TrailInv
<1>2. log' = L /\ trail' = IF Len(q) <= Max THEN q ELSE Pruned(q, L)
  BY DEF WithAuditEntry
<1>3. Len(q) \in Nat
  BY <1>1, FaithfulTypes
<1> HIDE DEF q, L
<1>4. CASE Len(q) <= Max
  <2>1. trail' = q /\ ~(Len(trail') > Max)
    BY <1>2, <1>3, <1>4, Sizes
  <2> QED
    BY <1>1, <1>2, <2>1 DEF TrailInv, CapHolds
<1>5. CASE ~(Len(q) <= Max)
  <2>1. Len(q) > Max
    BY <1>3, <1>5, Sizes
  <2> DEFINE p == Pruned(q, L)
  <2>2. Faithful(p, L) /\ (Len(p) > Max => Cardinality(Escalated(p, L)) > Prune - Setup - Recent)
    BY <1>1, <2>1, PruneKeeps
  <2>3. trail' = p
    BY <1>2, <1>5
  <2> HIDE DEF p
  <2> QED
    BY <1>2, <2>2, <2>3 DEF TrailInv, CapHolds
<1> QED
  BY <1>4, <1>5

LEMMA TrailIsFaithful == AuditSpec => []TrailInv
<1>1. Empty => TrailInv
  BY EmptyIsFaithful
<1>2. TrailInv /\ [Audit]_records => TrailInv'
  <2>1. CASE UNCHANGED records
    <3>1. trail' = trail /\ log' = log
      BY <2>1 DEF records
    <3> QED
      BY <3>1 DEF TrailInv, CapHolds
  <2>2. CASE Audit
    BY <2>2, WriteKeeps DEF Audit
  <2> QED
    BY <2>1, <2>2
<1> QED
  BY <1>1, <1>2, PTL DEF AuditSpec

\* Whatever is evicted, the trail is a list of writes of the session.
THEOREM TrailTypeCorrect == AuditSpec => []TrailTypeOK
<1>1. TrailInv => TrailTypeOK
  BY DEF TrailInv, Faithful, TrailTypeOK
<1> QED
  BY <1>1, TrailIsFaithful, PTL

\* The trail passes AUDIT_TRAIL_MAX only when more escalations than the budget has
\* room for are in it, for every cap and budget.
THEOREM TrailKeepsCap == AuditSpec => []CapHolds
<1>1. TrailInv => CapHolds
  BY DEF TrailInv
<1> QED
  BY <1>1, TrailIsFaithful, PTL

\* However long the session and however many evictions, no escalation and no
\* baseline is ever missing from the trail.
THEOREM NoEscalationIsEvicted == AuditSpec => []EscalationsKept
<1>1. TrailInv => EscalationsKept
  <2> SUFFICES ASSUME TrailInv, NEW e \in 1 .. Len(log), log[e] PROVE e \in Kept
    BY DEF EscalationsKept
  <2>1. \E k \in 1 .. Len(trail) : trail[k] = e
    BY DEF TrailInv, Faithful
  <2> QED
    BY <2>1 DEF Kept
<1> QED
  BY <1>1, TrailIsFaithful, PTL

\* The first Setup writes and the last Recent ones are where they were made, at the
\* two ends of the trail, after any number of evictions.
THEOREM NoEndIsCut == AuditSpec => []BothEndsKept
<1>1. TrailInv => BothEndsKept
  BY DEF TrailInv, Faithful, BothEndsKept
<1> QED
  BY <1>1, TrailIsFaithful, PTL

\* No ordinary entry is listed twice or out of its order, although an eviction joins
\* four pieces of the trail two of which are cut from the same part of it.
THEOREM OrdinaryStayInOrder == AuditSpec => []OrdinaryOnceInOrder
<1>1. TrailInv => OrdinaryOnceInOrder
  BY DEF TrailInv, Faithful, OrdinaryOnceInOrder
<1> QED
  BY <1>1, TrailIsFaithful, PTL
=============================================================================
