----------------------------- MODULE AuditTrail -----------------------------
(***************************************************************************)
(* The audit trail of a session (state/schemas.ts): withAuditEntry appends *)
(* and, over the cap, evicts.  What a session keeps of its start, of its   *)
(* escalations and of its last steps has to survive any number of          *)
(* evictions, each of which works on what the one before left.             *)
(*                                                                         *)
(* An entry is the number of the write it comes from; log remembers, for   *)
(* the properties, which writes were escalations.  The trail of the code   *)
(* is trail alone.                                                         *)
(***************************************************************************)
EXTENDS Integers, Sequences, FiniteSets

CONSTANTS Max,        \* AUDIT_TRAIL_MAX
          Prune,      \* AUDIT_TRAIL_PRUNE
          Setup,      \* the entries of the start that are kept: 10
          Recent,     \* the newest entries that are kept: 50
          MaxWrites   \* bound: the entries a session writes

ASSUME SizesAssumption ==
    /\ {Max, Prune, Setup, Recent} \subseteq Nat \ {0}
    /\ Setup + Recent < Prune
    /\ Prune < Max

VARIABLES trail,  \* workflowAuditTrail
          log     \* of every write, whether it was an escalation

records == <<trail, log>>

Empty == trail = << >> /\ log = << >>

-----------------------------------------------------------------------------
\* pruneAuditTrail.

\* The n-th of some places, from the first.
Nth(places, n) == CHOOSE k \in places : Cardinality({m \in places : m <= k}) = n

\* The places of entries of the kinds that are kept: hitl_escalation and
\* baseline_verification.
Escalated(s, kinds) == {k \in 1 .. Len(s) : kinds[s[k]]}

\* These entries, in order.
Escalations(s, kinds) ==
    LET places == Escalated(s, kinds)
    IN  [n \in 1 .. Cardinality(places) |-> s[Nth(places, n)]]

\* s.slice(-n), for n > 0; the empty list when nothing remains to fill.
Newest(s, n) == IF n <= 0 THEN << >>
                          ELSE SubSeq(s, IF n < Len(s) THEN Len(s) - n + 1 ELSE 1, Len(s))

Middle(s) == SubSeq(s, Setup + 1, Len(s) - Recent)

\* Mutant of Pruned: the budget is filled with the newest entries only.
PrunedWithoutEscalations(s, kinds) ==
    SubSeq(s, 1, Setup) \o Newest(Middle(s), Prune - Setup - Recent) \o Newest(s, Recent)

\* Mutant of Pruned: the fill is taken from all that follows the setup entries.
PrunedOverlapping(s, kinds) ==
    LET kept == Escalations(Middle(s), kinds)
    IN  SubSeq(s, 1, Setup) \o kept
        \o Newest(SubSeq(s, Setup + 1, Len(s)), Prune - Setup - Len(kept) - Recent)
        \o Newest(s, Recent)

\* Mutant of Pruned: the setup entries are not set aside.
PrunedAtStart(s, kinds) == Escalations(SubSeq(s, 1, Len(s) - Recent), kinds) \o Newest(s, Recent)

\* Mutant of Pruned: slice(-remaining) of a budget that is used up is all of it.
PrunedUnbudgeted(s, kinds) ==
    SubSeq(s, 1, Setup) \o Escalations(Middle(s), kinds) \o Middle(s) \o Newest(s, Recent)

Pruned(s, kinds) ==
    LET kept == Escalations(Middle(s), kinds)
    IN  SubSeq(s, 1, Setup) \o kept
        \o Newest(Middle(s), Prune - Setup - Len(kept) - Recent)
        \o Newest(s, Recent)

-----------------------------------------------------------------------------
WithAuditEntry(escalation) ==
    LET appended == Append(trail, Len(log) + 1)
    IN  /\ Len(log) < MaxWrites
        /\ log' = Append(log, escalation)
        /\ trail' = IF Len(appended) <= Max THEN appended ELSE Pruned(appended, log')

Audit == \E escalation \in BOOLEAN : WithAuditEntry(escalation)

AuditSpec == Empty /\ [][Audit]_records

-----------------------------------------------------------------------------
\* Properties.

Kept == {trail[k] : k \in 1 .. Len(trail)}

Lesser(m, n) == IF m < n THEN m ELSE n

\* The trail lists writes of the session.
TrailTypeOK == trail \in Seq(1 .. Len(log)) /\ log \in Seq(BOOLEAN)

\* Only escalations can take the trail past its cap: without more of them than the
\* budget leaves room for, it stays within AUDIT_TRAIL_MAX.
CapHolds ==
    Len(trail) > Max => Cardinality(Escalated(trail, log)) > Prune - Setup - Recent

\* However many evictions followed it, an escalation or the baseline is in the
\* trail: auditTrailSmartEviction.test.ts checks one eviction.
EscalationsKept == \A e \in 1 .. Len(log) : log[e] => e \in Kept

\* The trail starts with the first writes of the session and ends with its last
\* ones, in the order they were made: an eviction never cuts into either end,
\* nor does a list of escalations longer than the budget.
BothEndsKept ==
    /\ \A k \in 1 .. Lesser(Setup, Len(log)) : trail[k] = k
    /\ \A k \in 0 .. Lesser(Recent, Len(log)) - 1 : trail[Len(trail) - k] = Len(log) - k

\* An eviction lists no ordinary entry twice and moves none past another: only
\* escalations are moved forward, and only they repeat (the fill window does not
\* leave out the escalations already taken), however often the trail is evicted.
OrdinaryOnceInOrder ==
    \A j, k \in 1 .. Len(trail) :
      j < k /\ ~log[trail[j]] /\ ~log[trail[k]] => trail[j] < trail[k]
=============================================================================
