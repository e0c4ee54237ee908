--------------------------- MODULE DebugSessionProofs ---------------------------
(***************************************************************************)
(* Theorems about DebugSession, for any number of rounds and of stops: no  *)
(* stop is recorded twice or out of order, and the DAP adapter keeps in    *)
(* step with the process it debugs.                                        *)
(***************************************************************************)
EXTENDS DebugSession, SequenceTheorems, TLAPS

-----------------------------------------------------------------------------
\* Messages and queues.

IsStop(m) == m \notin Answers

LEMMA MessageKinds ==
    /\ \A m \in Answers : ~IsStop(m) /\ m.to \in Requests
    /\ \A m \in Messages : IsStop(m) => m.stop \in 1 .. MaxStops /\ m = [stop |-> m.stop]
    /\ \A n \in 1 .. MaxStops : LET m == [stop |-> n]
                                IN m \in Messages /\ IsStop(m) /\ m.stop = n
<1>1. \A n \in 1 .. MaxStops : [stop |-> n] \notin Answers
  <2> SUFFICES ASSUME NEW n \in 1 .. MaxStops, [stop |-> n] \in Answers PROVE FALSE
    OBVIOUS
  <2>1. DOMAIN [stop |-> n] = {"to", "ok"}
    BY DEF Answers
  <2> QED
    BY <2>1
<1> QED
  BY <1>1 DEF Answers, Messages, IsStop

\* The head of a queue, and what is left without it.
LEMMA Taken ==
    ASSUME NEW S, NEW q \in Seq(S), q # <<>>
    PROVE  /\ Len(q) \in Nat /\ 1 \in 1 .. Len(q)
           /\ Head(q) = q[1] /\ Head(q) \in S
           /\ Tail(q) \in Seq(S) /\ Len(Tail(q)) \in Nat /\ Len(Tail(q)) = Len(q) - 1
           /\ \A i \in 1 .. Len(Tail(q)) : i + 1 \in 1 .. Len(q) /\ Tail(q)[i] = q[i + 1]
  BY HeadTailProperties

\* One more at the end of a queue.
LEMMA Added ==
    ASSUME NEW S, NEW q \in Seq(S), NEW e \in S
    PROVE  /\ Len(q) \in Nat
           /\ Append(q, e) \in Seq(S) /\ Len(Append(q, e)) = Len(q) + 1
           /\ \A i \in 1 .. Len(q) : i \in 1 .. Len(q) + 1 /\ Append(q, e)[i] = q[i]
           /\ Append(q, e)[Len(q) + 1] = e
           /\ \A i \in 1 .. Len(q) + 1 : i \in 1 .. Len(q) \/ i = Len(q) + 1
  BY AppendProperties

\* What is sent: nothing, or one request.
Sendings == {<<>>} \cup {<<r>> : r \in Requests}

LEMMA SendingType ==
    ASSUME TypeOK, NEW requests \in Sendings, Sending(requests)
    PROVE  calls' \in Seq(Requests)
<1>1. requests \in Seq(Requests) /\ calls \in Seq(Requests)
  <2>1. calls \in Seq(Requests)
    BY DEF TypeOK
  <2>2. requests = <<>> => requests \in Seq(Requests)
    BY EmptySeq
  <2>3. ASSUME NEW r \in Requests, requests = <<r>> PROVE requests \in Seq(Requests)
    <3>1. <<r>> = Append(<<>>, r)
      OBVIOUS
    <3>2. Append(<<>>, r) \in Seq(Requests)
      BY EmptySeq, AppendProperties
    <3> QED
      BY <2>3, <3>1, <3>2
  <2> QED
    BY <2>1, <2>2, <2>3 DEF Sendings
<1>2. calls \o requests \in Seq(Requests)
  BY <1>1, ConcatProperties
<1> QED
  BY <1>1, <1>2 DEF Sending

-----------------------------------------------------------------------------
\* What the strategy's moves have in common.

LEMMA AwaitMoves ==
    ASSUME TypeOK, NEW at, NEW requests \in Sendings, Await(at, requests)
    PROVE  /\ pc' = at /\ got' = "none" /\ calls' \in Seq(Requests)
           /\ UNCHANGED <<wire, line, process, stop>>
  BY SendingType DEF Await

LEMMA WaitMoves ==
    ASSUME TypeOK, NEW at, StartWait(at)
    PROVE  /\ pc' = at /\ got' = "none" /\ calls' \in Seq(Requests)
           /\ UNCHANGED <<wire, line, process, stop>>
<1>1. PICK requests \in {<<>>, <<"resume">>} : Await(at, requests)
  BY DEF StartWait
<1>2. requests \in Sendings
  BY DEF Sendings, Requests
<1> QED
  BY <1>1, <1>2, AwaitMoves

LEMMA DisconnectMoves ==
    ASSUME TypeOK, Disconnect
    PROVE  /\ pc' \in {"disconnect", "done"} /\ got' = "none" /\ calls' \in Seq(Requests)
           /\ line' \in {line, "cut"}
           /\ UNCHANGED <<wire, process, stop>>
<1>1. CASE protocol = "dap"
  <2>1. <<"disconnect">> \in Sendings
    BY DEF Sendings, Requests
  <2> QED
    BY <1>1, <2>1, AwaitMoves DEF Disconnect
<1>2. CASE protocol # "dap"
  BY <1>2 DEF Disconnect, TypeOK
<1> QED
  BY <1>1, <1>2

LEMMA RoundMoves ==
    ASSUME TypeOK, NextRound
    PROVE  /\ step' = step + 1 /\ got' = "none" /\ calls' \in Seq(Requests)
           /\ line' \in {line, "cut"}
           /\ \/ pc' = "wait" /\ step + 1 < MaxSteps
              \/ pc' \in {"disconnect", "done"}
           /\ UNCHANGED <<wire, process, stop>>
  BY WaitMoves, DisconnectMoves DEF NextRound

LEMMA RecordMoves ==
    ASSUME TypeOK, Record
    PROVE  /\ hits' = Append(hits, paused)
           /\ pc' \in {"step", "stepwait"} /\ got' = "none" /\ calls' \in Seq(Requests)
           /\ UNCHANGED <<wire, line, process, stop>>
<1>1. PICK at \in {"step", "stepwait"}, requests \in {<<>>, <<"step">>} :
        hits' = Append(hits, paused) /\ Await(at, requests)
  BY DEF Record
<1>2. requests \in Sendings
  BY DEF Sendings, Requests
<1> QED
  BY <1>1, <1>2, AwaitMoves

-----------------------------------------------------------------------------
\* The invariants.

\* The stop the strategy is looking at and has not recorded.
Fresh == pc \in {"build", "evaluate"} \/ (pc = "wait" /\ got = "hit")

\* Before the connection nothing has happened.
StartInv ==
    pc \in {"launch", "connect"} =>
        /\ step = 0 /\ hits = <<>> /\ got = "none" /\ paused = 0 /\ events = <<>>
        /\ calls = <<>> /\ wire = <<>> /\ line = "down" /\ process = "running" /\ stop = 0

\* A round records at most one hit.
RoundInv ==
    /\ pc \in {"enable", "breakpoint"} => step = 0 /\ hits = <<>>
    /\ pc \in {"wait", "build", "evaluate"} => step < MaxSteps /\ Len(hits) <= step
    /\ pc \in {"step", "stepwait", "rebuild"} => step < MaxSteps /\ Len(hits) <= step + 1

\* Stops travel in the order they happened: what is recorded, then the one the
\* adapter is at, then those in its queue, then those on the wire.
HitsBehind ==
    /\ paused <= stop
    /\ \A i \in 1 .. Len(hits) : hits[i] <= paused
    /\ Fresh => paused > 0 /\ \A i \in 1 .. Len(hits) : hits[i] < paused

EventsAhead ==
    /\ \A i \in 1 .. Len(events) : paused < events[i] /\ events[i] <= stop
    /\ \A i, j \in 1 .. Len(events) : i < j => events[i] < events[j]

WireAhead ==
    /\ \A i \in 1 .. Len(wire) : IsStop(wire[i]) =>
         /\ paused < wire[i].stop /\ wire[i].stop <= stop
         /\ \A j \in 1 .. Len(events) : events[j] < wire[i].stop
    /\ \A i, j \in 1 .. Len(wire) :
         i < j /\ IsStop(wire[i]) /\ IsStop(wire[j]) => wire[i].stop < wire[j].stop

StopsInv ==
    /\ protocol # "dap" => events = <<>>
    /\ protocol = "jdwp" => wire = <<>>
    /\ HitsBehind /\ EventsAhead /\ WireAhead
    /\ HitsInOrder

-----------------------------------------------------------------------------
\* Steps, by what they touch.

\* A move of the strategy that records nothing and takes no stop.
LEMMA MoveKeeps ==
    ASSUME TypeOK, StopsInv,
           UNCHANGED <<protocol, evaluates, worker, hits, paused, events, wire, process, stop>>,
           pc' \in {"launch", "connect", "done"} \cup Asking \cup Waiting,
           got' \in {"none", "ok", "error", "hit"},
           step' \in 0 .. MaxSteps, calls' \in Seq(Requests), line' \in {"down", "up", "cut"},
           Fresh' => Fresh
    PROVE  TypeOK' /\ StopsInv'
<1>1. TypeOK'
  BY DEF TypeOK
<1>2. HitsBehind'
  BY DEF StopsInv, HitsBehind
<1>3. EventsAhead' /\ WireAhead' /\ HitsInOrder'
  BY DEF StopsInv, EventsAhead, WireAhead, HitsInOrder
<1> QED
  BY <1>1, <1>2, <1>3 DEF StopsInv

\* The hit is recorded.
LEMMA RecordKeeps ==
    ASSUME TypeOK, RoundInv, StopsInv, Fresh, Record,
           UNCHANGED <<protocol, evaluates, worker, step, paused, events>>
    PROVE  TypeOK' /\ RoundInv' /\ StopsInv'
<1>1. /\ hits \in Seq(1 .. MaxStops) /\ paused \in 1 .. MaxStops
      /\ paused <= stop /\ paused \in Int /\ stop \in Int
      /\ step \in Nat /\ MaxSteps \in Nat
      /\ \A i \in 1 .. Len(hits) : hits[i] < paused
  BY BoundsAssumption DEF TypeOK, StopsInv, HitsBehind
<1>2. Len(hits) <= step /\ step < MaxSteps
  BY DEF Fresh, RoundInv
<1>3. /\ hits' = Append(hits, paused)
      /\ pc' \in {"step", "stepwait"} /\ got' = "none" /\ calls' \in Seq(Requests)
      /\ UNCHANGED <<wire, line, process, stop>>
  BY RecordMoves
<1>4. /\ hits' \in Seq(1 .. MaxStops) /\ Len(hits') = Len(hits) + 1
      /\ Len(hits) \in Nat
      /\ \A i \in 1 .. Len(hits') : \/ i \in 1 .. Len(hits) /\ hits'[i] = hits[i]
                                    \/ i = Len(hits) + 1 /\ hits'[i] = paused
  BY <1>1, <1>3, Added
<1>5. TypeOK'
  BY <1>1, <1>2, <1>3, <1>4 DEF TypeOK, Asking, Waiting
<1>6. RoundInv'
  BY <1>1, <1>2, <1>3, <1>4 DEF RoundInv
<1>7. ~Fresh'
  BY <1>3 DEF Fresh
<1>8. \A i \in 1 .. Len(hits) : hits[i] \in Int
  <2>1. \A i \in 1 .. Len(hits) : hits[i] \in 1 .. MaxStops
    BY <1>1, ElementOfSeq
  <2> QED
    BY <2>1
<1>9. HitsBehind'
  BY <1>1, <1>3, <1>4, <1>7, <1>8 DEF HitsBehind
<1>10. HitsInOrder'
  BY <1>1, <1>4, <1>8 DEF HitsInOrder, StopsInv
<1>11. EventsAhead' /\ WireAhead'
  BY <1>3 DEF StopsInv, EventsAhead, WireAhead
<1> QED
  BY <1>3, <1>5, <1>6, <1>9, <1>10, <1>11 DEF StopsInv
\* Numbers in the queues, for arithmetic.
LEMMA QueueTypes ==
    ASSUME TypeOK
    PROVE  /\ hits \in Seq(1 .. MaxStops) /\ events \in Seq(1 .. MaxStops) /\ wire \in Seq(Messages)
           /\ Len(hits) \in Nat /\ Len(events) \in Nat /\ Len(wire) \in Nat
           /\ \A i \in 1 .. Len(hits) : hits[i] \in 1 .. MaxStops
           /\ \A i \in 1 .. Len(events) : events[i] \in 1 .. MaxStops
           /\ \A i \in 1 .. Len(wire) : wire[i] \in Messages
           /\ \A i \in 1 .. Len(wire) : IsStop(wire[i]) => wire[i].stop \in 1 .. MaxStops
           /\ paused \in Nat /\ stop \in Nat /\ MaxStops \in Nat
<1>1. /\ hits \in Seq(1 .. MaxStops) /\ events \in Seq(1 .. MaxStops) /\ wire \in Seq(Messages)
      /\ paused \in Nat /\ stop \in Nat /\ MaxStops \in Nat
  BY BoundsAssumption DEF TypeOK
<1>2. Len(hits) \in Nat /\ Len(events) \in Nat /\ Len(wire) \in Nat
  BY <1>1, LenProperties
<1>3. \A i \in 1 .. Len(hits) : hits[i] \in 1 .. MaxStops
  BY <1>1, ElementOfSeq
<1>4. \A i \in 1 .. Len(events) : events[i] \in 1 .. MaxStops
  BY <1>1, ElementOfSeq
<1>5. \A i \in 1 .. Len(wire) : wire[i] \in Messages
  BY <1>1, ElementOfSeq
<1> QED
  BY <1>1, <1>2, <1>3, <1>4, <1>5, MessageKinds

\* The DAP adapter takes the first stop of its queue.
LEMMA TakeKeeps ==
    ASSUME TypeOK, RoundInv, StopsInv, DapStopped
    PROVE  TypeOK' /\ RoundInv' /\ StopsInv'
<1>1. PICK at \in {"build", "rebuild"} : TakeStop(at) /\ (pc = "wait" <=> at = "build")
  BY DEF DapStopped
<1>2. <<"inspect">> \in Sendings
  BY DEF Sendings, Requests
<1>3. /\ pc' = at /\ got' = "none" /\ calls' \in Seq(Requests)
      /\ UNCHANGED <<wire, line, process, stop>>
      /\ UNCHANGED <<protocol, evaluates, worker, step, hits>>
      /\ paused' = Head(events) /\ events' = Tail(events) /\ events # <<>>
      /\ protocol = "dap" /\ pc \in Waiting
  BY <1>1, <1>2, AwaitMoves DEF TakeStop, DapStopped, Own
<1>4. /\ paused' = events[1] /\ paused' \in 1 .. MaxStops /\ 1 \in 1 .. Len(events)
      /\ events' \in Seq(1 .. MaxStops) /\ Len(events') = Len(events) - 1
      /\ \A i \in 1 .. Len(events') : i + 1 \in 1 .. Len(events) /\ events'[i] = events[i + 1]
  BY <1>3, QueueTypes, Taken
<1>5. TypeOK'
  BY <1>3, <1>4 DEF TypeOK, Asking
<1>6. RoundInv'
  BY <1>1, <1>3 DEF RoundInv, Waiting
<1>7. HitsBehind'
  BY <1>3, <1>4, QueueTypes DEF HitsBehind, EventsAhead, StopsInv
<1>8. EventsAhead'
  BY <1>3, <1>4, QueueTypes DEF EventsAhead, StopsInv
<1>9. WireAhead'
  BY <1>3, <1>4, QueueTypes DEF WireAhead, StopsInv
<1> QED
  BY <1>3, <1>5, <1>6, <1>7, <1>8, <1>9 DEF StopsInv, HitsInOrder

\* jdb runs to a breakpoint.
LEMMA JdbKeeps ==
    ASSUME TypeOK, RoundInv, StopsInv, JdbRan
    PROVE  TypeOK' /\ RoundInv' /\ StopsInv'
<1>1. /\ protocol = "jdwp" /\ wire = <<>> /\ events = <<>> /\ stop < MaxStops
      /\ stop' = stop + 1 /\ paused' = stop + 1 /\ got' = "hit"
      /\ UNCHANGED <<pc, step, hits, events, calls, wire, line, process, protocol, evaluates, worker>>
  BY DEF JdbRan, Own, StopsInv
<1>2. TypeOK'
  BY <1>1, QueueTypes DEF TypeOK
<1>3. HitsBehind'
  BY <1>1, QueueTypes DEF HitsBehind, StopsInv
<1>4. EventsAhead' /\ WireAhead'
  BY <1>1 DEF EventsAhead, WireAhead
<1> QED
  BY <1>1, <1>2, <1>3, <1>4 DEF StopsInv, RoundInv, HitsInOrder

\* An answer is read or lost: no stop is taken.
LEMMA WireShrinks ==
    ASSUME TypeOK, StopsInv, UNCHANGED <<hits, paused, events, stop, protocol>>,
           wire' = wire \/ wire' = <<>> \/ (wire # <<>> /\ wire' = Tail(wire)),
           Fresh' => Fresh
    PROVE  wire' \in Seq(Messages) /\ StopsInv'
<1>1. /\ wire' \in Seq(Messages) /\ Len(wire') \in Nat
      /\ wire' = wire \/ \A i \in 1 .. Len(wire') : i + 1 \in 1 .. Len(wire) /\ wire'[i] = wire[i + 1]
  <2>1. CASE wire # <<>> /\ wire' = Tail(wire)
    BY <2>1, QueueTypes, Taken
  <2>2. CASE wire' = <<>>
    BY <2>2
  <2>3. CASE wire' = wire
    BY <2>3, QueueTypes
  <2> QED
    BY <2>1, <2>2, <2>3
<1>2. WireAhead'
  <2>1. CASE wire' = wire
    BY <2>1 DEF WireAhead, StopsInv
  <2>2. CASE wire' # wire
    <3>1. \A i \in 1 .. Len(wire') : i + 1 \in 1 .. Len(wire) /\ wire'[i] = wire[i + 1]
      BY <1>1, <2>2
    <3>2. \A i, j \in 1 .. Len(wire') : i < j => i + 1 < j + 1
      BY <1>1
    <3>3. UNCHANGED <<paused, events, stop>> /\ WireAhead
      BY DEF StopsInv
    <3> QED
      BY <3>1, <3>2, <3>3 DEF WireAhead
  <2> QED
    BY <2>1, <2>2
<1>3. HitsBehind' /\ EventsAhead' /\ HitsInOrder'
  BY DEF StopsInv, HitsBehind, EventsAhead, HitsInOrder
<1>4. protocol = "jdwp" => wire' = <<>>
  BY QueueTypes DEF StopsInv
<1> QED
  BY <1>1, <1>2, <1>3, <1>4 DEF StopsInv
\* The queues when the connection brings a stop: all that is left on the wire
\* comes after it.
LEMMA StopFirst ==
    ASSUME TypeOK, StopsInv, wire # <<>>, IsStop(Head(wire))
    PROVE  /\ wire[1] = Head(wire) /\ 1 \in 1 .. Len(wire) /\ Head(wire).stop \in 1 .. MaxStops
           /\ paused < Head(wire).stop /\ Head(wire).stop <= stop
           /\ \A j \in 1 .. Len(events) : events[j] < Head(wire).stop
           /\ Tail(wire) \in Seq(Messages) /\ Len(Tail(wire)) \in Nat
           /\ \A i \in 1 .. Len(Tail(wire)) :
                /\ i + 1 \in 1 .. Len(wire) /\ Tail(wire)[i] = wire[i + 1]
                /\ IsStop(Tail(wire)[i]) => Head(wire).stop < Tail(wire)[i].stop
<1>1. /\ wire[1] = Head(wire) /\ 1 \in 1 .. Len(wire)
      /\ Tail(wire) \in Seq(Messages) /\ Len(Tail(wire)) \in Nat
      /\ \A i \in 1 .. Len(Tail(wire)) : i + 1 \in 1 .. Len(wire) /\ Tail(wire)[i] = wire[i + 1]
  BY QueueTypes, Taken
<1>2. WireAhead
  BY DEF StopsInv
<1>3. \A i \in 1 .. Len(Tail(wire)) : 1 < i + 1
  BY <1>1
<1>4. \A i \in 1 .. Len(Tail(wire)) : IsStop(Tail(wire)[i]) => Head(wire).stop < Tail(wire)[i].stop
  BY <1>1, <1>2, <1>3 DEF WireAhead
<1> QED
  BY <1>1, <1>2, <1>4, QueueTypes DEF WireAhead

LEMMA StopArrivesKeeps ==
    ASSUME TypeOK, RoundInv, StopsInv, StopArrives
    PROVE  TypeOK' /\ RoundInv' /\ StopsInv'
<1> DEFINE s == Head(wire).stop
<1>1. /\ wire # <<>> /\ IsStop(Head(wire)) /\ wire' = Tail(wire)
      /\ UNCHANGED <<protocol, evaluates, worker, pc, step, hits, calls, line, process, stop>>
      /\ \/ protocol = "dap" /\ events' = Append(events, s) /\ UNCHANGED <<got, paused>>
         \/ protocol # "dap" /\ events' = events /\ got' = "hit" /\ paused' = s
              /\ pc \in Waiting /\ got = "none"
         \/ protocol # "dap" /\ UNCHANGED <<events, got, paused>>
  BY DEF StopArrives, Own, IsStop
<1>2. /\ s \in 1 .. MaxStops /\ paused < s /\ s <= stop
      /\ \A j \in 1 .. Len(events) : events[j] < s
      /\ wire' \in Seq(Messages) /\ Len(wire') \in Nat
      /\ \A i \in 1 .. Len(wire') :
           /\ i + 1 \in 1 .. Len(wire) /\ wire'[i] = wire[i + 1]
           /\ IsStop(wire'[i]) => s < wire'[i].stop
  BY <1>1, StopFirst
<1>3. RoundInv' /\ HitsInOrder'
  BY <1>1 DEF RoundInv, StopsInv, HitsInOrder
<1>4. CASE protocol # "dap" /\ UNCHANGED <<events, got, paused>>
  <2>1. StopsInv'
    BY <1>1, <1>4, WireShrinks DEF Fresh
  <2> QED
    BY <1>1, <1>2, <1>3, <1>4, <2>1 DEF TypeOK
<1>5. CASE protocol # "dap" /\ events' = events /\ got' = "hit" /\ paused' = s
             /\ pc \in Waiting /\ got = "none"
  <2>1. events = <<>>
    BY <1>5 DEF StopsInv
  <2>2. TypeOK'
    BY <1>1, <1>2, <1>5 DEF TypeOK
  <2>3. HitsBehind'
    BY <1>1, <1>2, <1>5, QueueTypes DEF HitsBehind, StopsInv
  <2>4. EventsAhead'
    BY <1>5, <2>1 DEF EventsAhead
  <2>5. WireAhead'
    <3>1. \A i, j \in 1 .. Len(wire') : i < j => i + 1 < j + 1
      BY <1>2
    <3>2. \A i \in 1 .. Len(wire') : IsStop(wire'[i]) => wire'[i].stop <= stop'
      BY <1>1, <1>2 DEF WireAhead, StopsInv
    <3>3. \A i, j \in 1 .. Len(wire') :
            i < j /\ IsStop(wire'[i]) /\ IsStop(wire'[j]) => wire'[i].stop < wire'[j].stop
      BY <1>2, <3>1 DEF WireAhead, StopsInv
    <3>4. \A j \in 1 .. Len(events') : FALSE
      BY <1>5, <2>1
    <3>5. \A i \in 1 .. Len(wire') : IsStop(wire'[i]) => paused' < wire'[i].stop
      BY <1>2, <1>5
    <3> QED
      BY <3>2, <3>3, <3>4, <3>5 DEF WireAhead
  <2>6. protocol = "jdwp" => wire' = <<>>
    BY <1>1 DEF StopsInv
  <2> QED
    BY <1>1, <1>3, <1>5, <2>1, <2>2, <2>3, <2>4, <2>5, <2>6 DEF StopsInv
<1>6. CASE protocol = "dap" /\ events' = Append(events, s) /\ UNCHANGED <<got, paused>>
  <2>1. /\ Len(events) \in Nat
        /\ events' \in Seq(1 .. MaxStops) /\ Len(events') = Len(events) + 1
        /\ \A i \in 1 .. Len(events') : \/ i \in 1 .. Len(events) /\ events'[i] = events[i]
                                        \/ i = Len(events) + 1 /\ events'[i] = s
    BY <1>2, <1>6, QueueTypes, Added
  <2>2. TypeOK'
    BY <1>1, <1>2, <1>6, <2>1 DEF TypeOK
  <2>3. HitsBehind'
    BY <1>1, <1>6 DEF HitsBehind, StopsInv, Fresh
  <2>4. EventsAhead'
    BY <1>1, <1>2, <1>6, <2>1, QueueTypes DEF EventsAhead, StopsInv
  <2>5. WireAhead'
    <3>1. \A i, j \in 1 .. Len(wire') : i < j => i + 1 < j + 1
      BY <1>2
    <3>2. \A i \in 1 .. Len(wire') : IsStop(wire'[i]) => paused' < wire'[i].stop /\ wire'[i].stop <= stop'
      BY <1>1, <1>2, <1>6 DEF WireAhead, StopsInv
    <3>3. \A i, j \in 1 .. Len(wire') :
            i < j /\ IsStop(wire'[i]) /\ IsStop(wire'[j]) => wire'[i].stop < wire'[j].stop
      BY <1>2, <3>1 DEF WireAhead, StopsInv
    <3>4. \A i \in 1 .. Len(wire') : IsStop(wire'[i]) => \A j \in 1 .. Len(events') : events'[j] < wire'[i].stop
      BY <1>2, <2>1 DEF WireAhead, StopsInv
    <3> QED
      BY <3>2, <3>3, <3>4 DEF WireAhead
  <2> QED
    BY <1>1, <1>3, <1>6, <2>2, <2>3, <2>4, <2>5 DEF StopsInv
<1> QED
  BY <1>1, <1>4, <1>5, <1>6

\* The process stops, or its server answers.
LEMMA WireGrows ==
    ASSUME TypeOK, StopsInv, UNCHANGED <<protocol, hits, pc, got, paused, events>>,
           protocol # "jdwp", stop' \in 0 .. MaxStops,
           NEW m \in Messages, wire' = Append(wire, m),
           \/ ~IsStop(m) /\ stop' = stop
           \/ IsStop(m) /\ m.stop = stop + 1 /\ stop' = stop + 1
    PROVE  wire' \in Seq(Messages) /\ StopsInv'
<1>1. /\ wire' \in Seq(Messages) /\ Len(wire) \in Nat /\ Len(wire') = Len(wire) + 1
      /\ \A i \in 1 .. Len(wire') : \/ i \in 1 .. Len(wire) /\ wire'[i] = wire[i]
                                    \/ i = Len(wire) + 1 /\ wire'[i] = m
  BY QueueTypes, Added
<1>2. /\ stop' = stop \/ stop' = stop + 1
      /\ stop \in Nat /\ paused \in Nat /\ paused <= stop
  BY QueueTypes DEF StopsInv, HitsBehind
<1>3. HitsBehind' /\ HitsInOrder'
  BY <1>2 DEF StopsInv, HitsBehind, HitsInOrder, Fresh
<1>4. EventsAhead'
  BY <1>2, QueueTypes DEF StopsInv, EventsAhead
<1>5. WireAhead'
  <2>1. \A i \in 1 .. Len(wire) : IsStop(wire[i]) =>
          /\ wire[i].stop \in Nat
          /\ paused < wire[i].stop /\ wire[i].stop <= stop
          /\ \A j \in 1 .. Len(events) : events[j] < wire[i].stop
    BY QueueTypes DEF StopsInv, WireAhead
  <2>2. \A i \in 1 .. Len(wire') : IsStop(wire'[i]) =>
          /\ paused < wire'[i].stop /\ wire'[i].stop <= stop'
          /\ \A j \in 1 .. Len(events) : events[j] < wire'[i].stop
    <3> SUFFICES ASSUME NEW i \in 1 .. Len(wire'), IsStop(wire'[i])
                 PROVE  /\ paused < wire'[i].stop /\ wire'[i].stop <= stop'
                        /\ \A j \in 1 .. Len(events) : events[j] < wire'[i].stop
      OBVIOUS
    <3>1. CASE i \in 1 .. Len(wire) /\ wire'[i] = wire[i]
      BY <1>2, <2>1, <3>1
    <3>2. CASE wire'[i] = m
      <4>1. m.stop = stop + 1 /\ stop' = stop + 1
        BY <3>2
      <4> QED
        BY <1>2, <3>2, <4>1, QueueTypes DEF StopsInv, EventsAhead
    <3> QED
      BY <1>1, <3>1, <3>2
  <2>3. \A i, j \in 1 .. Len(wire') :
          i < j /\ IsStop(wire'[i]) /\ IsStop(wire'[j]) => wire'[i].stop < wire'[j].stop
    <3> SUFFICES ASSUME NEW i \in 1 .. Len(wire'), NEW j \in 1 .. Len(wire'), i < j,
                        IsStop(wire'[i]), IsStop(wire'[j])
                 PROVE  wire'[i].stop < wire'[j].stop
      OBVIOUS
    <3>1. i \in 1 .. Len(wire) /\ wire'[i] = wire[i]
      BY <1>1
    <3>2. CASE j \in 1 .. Len(wire) /\ wire'[j] = wire[j]
      BY <3>1, <3>2 DEF StopsInv, WireAhead
    <3>3. CASE wire'[j] = m
      <4>1. m.stop = stop + 1
        BY <3>3
      <4> QED
        BY <1>2, <2>1, <3>1, <3>3, <4>1
    <3> QED
      BY <1>1, <3>2, <3>3
  <2> QED
    BY <2>2, <2>3 DEF WireAhead
<1> QED
  BY <1>1, <1>3, <1>4, <1>5 DEF StopsInv
\* The strategy's moves that record nothing and take no stop.
LEMMA StrategyMoves ==
    ASSUME TypeOK, StartInv, RoundInv, StopsInv,
           \/ Launch \/ Connect \/ Enabled \/ BreakpointSet \/ Stepped \/ StepSeen
           \/ Refused \/ WaitTimeout \/ Disconnected
    PROVE  TypeOK' /\ RoundInv' /\ StopsInv'
<1>1. UNCHANGED <<protocol, evaluates, worker, hits, paused, events, wire, process, stop>>
  <2>1. CASE Launch \/ Connect \/ Disconnected
    BY <2>1 DEF Launch, Connect, Disconnected, Own, peer
  <2>2. CASE Enabled \/ BreakpointSet
    BY <2>2, DisconnectMoves, WaitMoves DEF Enabled, BreakpointSet, Own, Await
  <2>3. CASE Stepped \/ StepSeen \/ Refused \/ WaitTimeout
    BY <2>3, DisconnectMoves, WaitMoves, RoundMoves DEF Stepped, StepSeen, Refused, WaitTimeout, Own
  <2> QED
    BY <2>1, <2>2, <2>3
<1>2. /\ step \in 0 .. MaxSteps /\ step \in Int /\ MaxSteps \in Nat \ {0}
      /\ got \in {"none", "ok", "error", "hit"} /\ line \in {"down", "up", "cut"}
      /\ pc \in {"launch", "connect", "done"} \cup Asking \cup Waiting
      /\ calls \in Seq(Requests)
      /\ hits = <<>> => Len(hits) = 0
  BY BoundsAssumption DEF TypeOK
<1>3. <<"setup">> \in Sendings /\ <<"setup">> \in Seq(Requests)
  BY DEF Sendings, Requests
<1>4. /\ pc' \in {"launch", "connect", "done"} \cup Asking \cup Waiting
      /\ got' \in {"none", "ok", "error", "hit"}
      /\ step' \in 0 .. MaxSteps /\ calls' \in Seq(Requests) /\ line' \in {"down", "up", "cut"}
      /\ (Fresh' => Fresh) /\ RoundInv'
  <2>1. CASE Launch
    BY <1>1, <1>2, <2>1 DEF Launch, peer, Fresh, RoundInv
  <2>2. CASE Connect
    <3>1. step = 0 /\ hits = <<>> /\ got = "none"
      BY <2>2 DEF Connect, StartInv
    <3>2. /\ pc' \in {"wait", "enable", "done"} /\ got' = "none" /\ step' = 0
          /\ (calls' = calls \/ calls' = <<"setup">>) /\ line' \in {line, "up"}
      BY <2>2, <3>1 DEF Connect
    <3>3. ~Fresh' /\ RoundInv'
      BY <1>1, <1>2, <3>1, <3>2 DEF Fresh, RoundInv
    <3>4. calls' \in Seq(Requests)
      BY <1>2, <1>3, <3>2
    <3>5. line' \in {"down", "up", "cut"} /\ step' \in 0 .. MaxSteps
      BY <1>2, <3>2
    <3> QED
      BY <3>2, <3>3, <3>4, <3>5 DEF Asking, Waiting
  <2>3. CASE Enabled
    <3>1. /\ step' = step /\ got' = "none" /\ calls' \in Seq(Requests) /\ line' \in {line, "cut"}
          /\ pc' \in {"breakpoint", "disconnect", "done"} /\ pc = "enable"
      BY <1>3, <2>3, DisconnectMoves, AwaitMoves DEF Enabled
    <3> QED
      BY <1>1, <1>2, <3>1 DEF Asking, Fresh, RoundInv
  <2>4. CASE BreakpointSet
    <3>1. /\ step' = step /\ got' = "none" /\ calls' \in Seq(Requests) /\ line' \in {line, "cut"}
          /\ pc' \in {"wait", "disconnect", "done"} /\ pc = "breakpoint"
      BY <2>4, DisconnectMoves, WaitMoves DEF BreakpointSet
    <3> QED
      BY <1>1, <1>2, <3>1 DEF Asking, Waiting, Fresh, RoundInv
  <2>5. CASE Stepped
    <3>1. /\ step' = step /\ got' = "none" /\ calls' \in Seq(Requests) /\ line' = line
          /\ pc' = "stepwait" /\ pc = "step"
      BY <2>5, WaitMoves DEF Stepped
    <3> QED
      BY <1>1, <1>2, <3>1 DEF Waiting, Fresh, RoundInv
  <2>6. CASE StepSeen \/ (WaitTimeout /\ pc # "wait")
    <3>1. NextRound /\ pc \in {"stepwait", "rebuild"}
      BY <2>6 DEF StepSeen, WaitTimeout, Waiting
    <3>2. /\ step' = step + 1 /\ got' = "none" /\ calls' \in Seq(Requests) /\ line' \in {line, "cut"}
          /\ (pc' = "wait" /\ step + 1 < MaxSteps) \/ pc' \in {"disconnect", "done"}
      BY <3>1, RoundMoves
    <3>3. step < MaxSteps /\ Len(hits) <= step + 1
      BY <3>1 DEF RoundInv
    <3> QED
      BY <1>1, <1>2, <3>2, <3>3 DEF Asking, Waiting, Fresh, RoundInv
  <2>7. CASE Refused \/ (WaitTimeout /\ pc = "wait")
    <3>1. /\ step' = step /\ got' = "none" /\ calls' \in Seq(Requests) /\ line' \in {line, "cut"}
          /\ pc' \in {"disconnect", "done"}
      BY <2>7, DisconnectMoves DEF Refused, WaitTimeout
    <3> QED
      BY <1>1, <1>2, <3>1 DEF Asking, Fresh, RoundInv
  <2>8. CASE Disconnected
    BY <1>1, <1>2, <2>8 DEF Disconnected, Fresh, RoundInv
  <2> QED
    BY <2>1, <2>2, <2>3, <2>4, <2>5, <2>6, <2>7, <2>8
<1> QED
  BY <1>1, <1>4, MoveKeeps

\* A hit is evaluated or recorded.
LEMMA HitKeeps ==
    ASSUME TypeOK, RoundInv, StopsInv, Hit \/ Evaluated
    PROVE  TypeOK' /\ RoundInv' /\ StopsInv'
<1>1. Fresh /\ UNCHANGED <<protocol, evaluates, worker, step, paused, events>>
  BY DEF Hit, Evaluated, Fresh, Own
<1>2. CASE Record
  BY <1>1, <1>2, RecordKeeps
<1>3. CASE Hit /\ Await("evaluate", <<"inspect">>) /\ hits' = hits
  <2>1. <<"inspect">> \in Sendings
    BY DEF Sendings, Requests
  <2>2. /\ pc' = "evaluate" /\ got' = "none" /\ calls' \in Seq(Requests)
        /\ UNCHANGED <<wire, line, process, stop>>
    BY <1>3, <2>1, AwaitMoves
  <2>3. TypeOK' /\ StopsInv'
    <3>1. /\ step' \in 0 .. MaxSteps /\ line' \in {"down", "up", "cut"}
          /\ pc' \in {"launch", "connect", "done"} \cup Asking \cup Waiting
      BY <1>1, <2>2 DEF TypeOK, Asking
    <3> QED
      BY <1>1, <1>3, <2>2, <3>1, MoveKeeps
  <2>4. RoundInv'
    BY <1>1, <1>3, <2>2 DEF Hit, RoundInv
  <2> QED
    BY <2>3, <2>4
<1> QED
  BY <1>2, <1>3 DEF Hit, Evaluated

\* The connection and the process.
LEMMA PeerKeeps ==
    ASSUME TypeOK, RoundInv, StopsInv,
           AnswerArrives \/ ResumeArrives \/ Stop \/ Serve \/ Cut
    PROVE  TypeOK' /\ RoundInv' /\ StopsInv'
<1>1. /\ UNCHANGED <<protocol, evaluates, pc, step, hits, paused, events>>
      /\ got' = got \/ got' \in {"ok", "error"}
  BY DEF AnswerArrives, ResumeArrives, Stop, Serve, Cut, Own, session
<1>2. RoundInv' /\ (Fresh' => Fresh)
  BY <1>1 DEF RoundInv, Fresh
<1>3. CASE AnswerArrives \/ ResumeArrives
  <2>1. /\ UNCHANGED <<calls, line, process, stop>> /\ wire # <<>> /\ wire' = Tail(wire)
        /\ worker' \in {"up", "dead"}
    BY <1>3 DEF AnswerArrives, ResumeArrives, Own, TypeOK
  <2>2. wire' \in Seq(Messages) /\ StopsInv'
    BY <1>1, <1>2, <2>1, WireShrinks
  <2> QED
    BY <1>1, <1>2, <2>1, <2>2 DEF TypeOK
<1>4. CASE Cut
  <2>1. /\ UNCHANGED <<process, stop, worker>> /\ line' = "cut" /\ calls' = <<>>
        /\ wire' \in {wire, <<>>}
    BY <1>4 DEF Cut
  <2>2. wire' \in Seq(Messages) /\ StopsInv'
    BY <1>1, <1>2, <2>1, WireShrinks
  <2>3. calls' \in Seq(Requests)
    BY <2>1, EmptySeq
  <2> QED
    BY <1>1, <1>2, <2>1, <2>2, <2>3 DEF TypeOK
<1>5. CASE Stop
  <2>1. /\ UNCHANGED <<got, calls, line, worker>> /\ protocol # "jdwp"
        /\ process' = "stopped" /\ stop' = stop + 1 /\ stop' \in 1 .. MaxStops
        /\ wire' = Append(wire, [stop |-> stop + 1])
    BY <1>5, QueueTypes DEF Stop, Alive, session
  <2>2. [stop |-> stop + 1] \in Messages /\ IsStop([stop |-> stop + 1])
    BY <2>1, MessageKinds
  <2>3. wire' \in Seq(Messages) /\ StopsInv'
    <3>1. stop' \in 0 .. MaxStops
      BY <2>1
    <3> QED
      BY <1>1, <2>1, <2>2, <3>1, WireGrows
  <2> QED
    BY <1>1, <1>2, <2>1, <2>3 DEF TypeOK
<1>6. CASE Serve
  <2>1. /\ UNCHANGED <<got, line, stop, worker>> /\ protocol # "jdwp"
        /\ calls # <<>> /\ calls' = Tail(calls)
        /\ process' \in {"running", process}
    BY <1>6 DEF Serve, Alive, session
  <2>2. PICK ok \in BOOLEAN : wire' = Append(wire, [to |-> Head(calls), ok |-> ok])
    BY <1>6 DEF Serve
  <2>3. Head(calls) \in Requests /\ calls' \in Seq(Requests)
    BY <2>1, Taken DEF TypeOK
  <2>4. [to |-> Head(calls), ok |-> ok] \in Answers
    BY <2>3 DEF Answers
  <2>5. wire' \in Seq(Messages) /\ StopsInv'
    <3>1. [to |-> Head(calls), ok |-> ok] \in Messages /\ ~IsStop([to |-> Head(calls), ok |-> ok])
      BY <2>4 DEF Messages, IsStop
    <3>2. stop' \in 0 .. MaxStops
      BY <2>1 DEF TypeOK
    <3> QED
      BY <1>1, <2>1, <2>2, <3>1, <3>2, WireGrows
  <2> QED
    BY <1>1, <1>2, <2>1, <2>3, <2>5 DEF TypeOK
<1> QED
  BY <1>3, <1>4, <1>5, <1>6

\* Nothing leads back before the connection.
LEMMA StartStep == TypeOK /\ StartInv /\ [Next]_vars => StartInv'
<1> SUFFICES ASSUME TypeOK, StartInv, [Next]_vars, pc' \in {"launch", "connect"}
             PROVE  /\ step' = 0 /\ hits' = <<>> /\ got' = "none" /\ paused' = 0 /\ events' = <<>>
                    /\ calls' = <<>> /\ wire' = <<>> /\ line' = "down" /\ process' = "running"
                    /\ stop' = 0
  BY DEF StartInv
<1>1. CASE Launch \/ UNCHANGED vars
  BY <1>1 DEF Launch, StartInv, vars, session, peer
<1>2. CASE Arrives \/ Stop \/ Serve \/ Cut
  <2>1. pc' = pc
    BY <1>2 DEF Arrives, AnswerArrives, ResumeArrives, StopArrives, Stop, Serve, Cut, session
  <2>2. wire = <<>> /\ line = "down"
    BY <2>1 DEF StartInv
  <2> QED
    BY <1>2, <2>2 DEF Arrives, AnswerArrives, ResumeArrives, StopArrives, Stop, Serve, Cut, Alive
<1>3. CASE Connect \/ Disconnected
  BY <1>3 DEF Connect, Disconnected
<1>4. CASE Enabled \/ BreakpointSet \/ Stepped \/ Refused
  BY <1>4, DisconnectMoves, WaitMoves DEF Enabled, BreakpointSet, Stepped, Refused, Await
<1>5. CASE StepSeen \/ WaitTimeout
  BY <1>5, DisconnectMoves, RoundMoves DEF StepSeen, WaitTimeout
<1>6. CASE Hit \/ Evaluated
  BY <1>6, RecordMoves DEF Hit, Evaluated, Await
<1>7. CASE DapStopped
  BY <1>7 DEF DapStopped, TakeStop, Await
<1>8. CASE JdbRan
  BY <1>8 DEF JdbRan, Waiting
<1> QED
  BY <1>1, <1>2, <1>3, <1>4, <1>5, <1>6, <1>7, <1>8 DEF Next, Strategy

Ordered == TypeOK /\ StartInv /\ RoundInv /\ StopsInv

LEMMA OrderedInit == Init => Ordered
<1> SUFFICES ASSUME Init PROVE Ordered
  OBVIOUS
<1>1. TypeOK
  <2>1. \A S : <<>> \in Seq(S)
    BY EmptySeq
  <2> QED
    BY <2>1, BoundsAssumption DEF Init, TypeOK
<1>2. StartInv /\ RoundInv
  BY DEF Init, StartInv, RoundInv
<1>3. StopsInv
  BY DEF Init, StopsInv, HitsBehind, EventsAhead, WireAhead, HitsInOrder, Fresh
<1> QED
  BY <1>1, <1>2, <1>3 DEF Ordered

LEMMA OrderedStep == Ordered /\ [Next]_vars => Ordered'
<1> SUFFICES ASSUME TypeOK, StartInv, RoundInv, StopsInv, [Next]_vars
             PROVE  TypeOK' /\ RoundInv' /\ StopsInv'
  BY StartStep DEF Ordered
<1>1. CASE UNCHANGED vars
  BY <1>1 DEF vars, session, peer, TypeOK, RoundInv, StopsInv, HitsBehind, EventsAhead, WireAhead,
              HitsInOrder, Fresh
<1> QED
  BY <1>1, StrategyMoves, HitKeeps, PeerKeeps, TakeKeeps, JdbKeeps, StopArrivesKeeps
  DEF Next, Strategy, Arrives

\* Every variable keeps its type; no session records more hits than it has rounds.
THEOREM DebugTypeCorrect == Spec => []TypeOK
<1>1. Ordered => TypeOK
  BY DEF Ordered
<1> QED
  BY <1>1, OrderedInit, OrderedStep, PTL DEF Spec

\* The hits of a session are different stops in the order they happened, for
\* every protocol and however stops, answers, timeouts and a lost connection fall
\* between the strategy's awaits (BreakpointStrategy's loop over its adapter).
THEOREM HitsAreInOrder == Spec => []HitsInOrder
<1>1. Ordered => HitsInOrder
  BY DEF Ordered, StopsInv
<1> QED
  BY <1>1, OrderedInit, OrderedStep, PTL DEF Spec
-----------------------------------------------------------------------------
\* The DAP adapter and the process.

\* No request is on its way, and no answer.
NothingAsked == calls = <<>> /\ \A i \in 1 .. Len(wire) : IsStop(wire[i])

\* At most one request is open, and it is the awaited one; a step is only asked
\* for while the process stands at the stop the adapter knows.
OneRequest ==
    /\ NothingAsked \/ (pc \in Asking /\ got = "none")
    /\ Len(calls) <= 1
    /\ calls # <<>> => \A i \in 1 .. Len(wire) : IsStop(wire[i])
    /\ \A i, j \in 1 .. Len(wire) : ~IsStop(wire[i]) /\ ~IsStop(wire[j]) => i = j
    /\ \A i \in 1 .. Len(calls) : calls[i] \in {"step", "resume"} =>
         pc = "step" /\ process = "stopped" /\ stop = paused

\* A stop that has not been taken yet is the one the process stands at.
StopsStand ==
    /\ \A i \in 1 .. Len(events) : process = "stopped" /\ events[i] = stop
    /\ \A i \in 1 .. Len(wire) : IsStop(wire[i]) => process = "stopped" /\ wire[i].stop = stop

DapInv ==
    protocol = "dap" =>
        /\ got # "hit"
        /\ line = "up" => OneRequest /\ StopsStand /\ DapInStep

\* A step of the strategy or of the connection that leaves the line as it is.
InReach == Ordered /\ DapInv /\ protocol = "dap" /\ line = "up"

\* What was sent, with nothing else open.
LEMMA SentOne ==
    ASSUME TypeOK, line = "up", calls = <<>>
    PROVE  /\ \A r \in Requests : Sending(<<r>>) => calls' = <<r>> /\ calls' # <<>>
           /\ Sending(<<>>) => calls' = <<>>
<1>1. \A r : <<>> \o <<r>> = <<r>> /\ <<r>> # <<>>
  OBVIOUS
<1>2. <<>> \o <<>> = <<>>
  OBVIOUS
<1> QED
  BY <1>1, <1>2 DEF Sending

\* What the strategy does to the process when nothing is open: the DAP adapter
\* waits without asking, or asks one thing.
Asks(r) == calls' = <<r>> /\ pc' \in Asking

DapMove ==
    /\ got' = "none" /\ UNCHANGED <<protocol, paused, events, wire, line, process, stop>>
    /\ \/ pc' \in Waiting /\ calls' = <<>>
       \/ pc' \in {"breakpoint", "disconnect"} /\ \E r \in {"setup", "disconnect"} : Asks(r)
       \/ pc = "build" /\ pc' = "evaluate" /\ Asks("inspect")
       \/ pc \in {"build", "evaluate"} /\ pc' = "step" /\ Asks("step")

LEMMA AwaitDap ==
    ASSUME TypeOK, NothingAsked, line = "up", NEW at
    PROVE  /\ Await(at, <<>>) => pc' = at /\ got' = "none" /\ calls' = <<>>
                                 /\ UNCHANGED <<wire, line, process, stop>>
           /\ \A r \in Requests : Await(at, <<r>>) => pc' = at /\ got' = "none" /\ calls' = <<r>>
                                 /\ UNCHANGED <<wire, line, process, stop>>
  BY SentOne DEF Await, NothingAsked

LEMMA DapMoves ==
    ASSUME InReach,
           \/ Enabled \/ BreakpointSet \/ Hit \/ Evaluated \/ Stepped \/ StepSeen
           \/ Refused \/ WaitTimeout
    PROVE  DapMove /\ NothingAsked
<1>1. TypeOK /\ protocol = "dap" /\ line = "up" /\ got # "hit" /\ OneRequest
  BY DEF InReach, Ordered, DapInv
<1>2. NothingAsked
  BY <1>1 DEF OneRequest, Enabled, BreakpointSet, Hit, Evaluated, Stepped, StepSeen, Refused,
              WaitTimeout, Asking, Waiting
<1>3. UNCHANGED <<protocol, paused, events>>
  BY DEF Enabled, BreakpointSet, Hit, Evaluated, Stepped, StepSeen, Refused, WaitTimeout, Own
<1>4. {"setup", "inspect", "step", "disconnect"} \subseteq Requests
  BY DEF Requests
<1>5. Disconnect => DapMove
  BY <1>1, <1>2, <1>3, <1>4, AwaitDap DEF Disconnect, DapMove, Asks, Asking
<1>6. \A at \in Waiting : StartWait(at) => DapMove
  BY <1>1, <1>2, <1>3, AwaitDap DEF StartWait, DapMove
<1>7. NextRound => DapMove
  BY <1>5, <1>6 DEF NextRound, Waiting
<1>8. Record /\ pc \in {"build", "evaluate"} => DapMove
  BY <1>1, <1>2, <1>3, <1>4, AwaitDap DEF Record, DapMove, Asks, Asking
<1>9. CASE Enabled
  BY <1>1, <1>2, <1>3, <1>4, <1>5, <1>9, AwaitDap DEF Enabled, DapMove, Asks, Asking
<1>10. CASE BreakpointSet \/ Stepped \/ StepSeen \/ Refused \/ WaitTimeout
  BY <1>2, <1>5, <1>6, <1>7, <1>10 DEF BreakpointSet, Stepped, StepSeen, Refused, WaitTimeout, Waiting
<1>11. CASE Hit \/ Evaluated
  <2>1. CASE Record
    BY <1>1, <1>2, <1>8, <1>11, <2>1 DEF Hit, Evaluated
  <2>2. CASE Hit /\ Await("evaluate", <<"inspect">>)
    BY <1>1, <1>2, <1>3, <1>4, <2>2, AwaitDap DEF Hit, DapMove, Asks, Asking
  <2> QED
    BY <1>11, <2>1, <2>2 DEF Hit, Evaluated
<1> QED
  BY <1>2, <1>9, <1>10, <1>11

\* One request, newly sent.
LEMMA AskedOne ==
    ASSUME NothingAsked, wire' = wire, got' = "none", NEW r, Asks(r),
           r \in {"step", "resume"} => pc' = "step" /\ process' = "stopped" /\ stop' = paused'
    PROVE  OneRequest'
<1>1. Len(calls') = 1 /\ calls'[1] = r /\ pc' \in Asking
  BY DEF Asks
<1>2. \A i \in 1 .. Len(wire') : IsStop(wire'[i])
  BY DEF NothingAsked
<1> QED
  BY <1>1, <1>2 DEF OneRequest

LEMMA MoveInStep == ASSUME InReach, DapMove, NothingAsked PROVE DapInv'
<1>1. DapInStep /\ StopsStand /\ protocol = "dap" /\ line = "up"
  BY DEF InReach, DapInv
<1>2. /\ got' = "none" /\ UNCHANGED <<protocol, paused, events, wire, line, process, stop>>
  BY DEF DapMove
<1>3. StopsStand'
  BY <1>1, <1>2 DEF StopsStand
<1>4. process = "stopped" =>
              \/ paused = stop
              \/ \E i \in 1 .. Len(events) : events[i] = stop
              \/ \E i \in 1 .. Len(wire) : wire[i] = [stop |-> stop]
  BY <1>1 DEF DapInStep
<1>5. pc \in {"build", "evaluate"} => process = "stopped" /\ stop = paused
  BY <1>1 DEF DapInStep
<1>6. DapInStep'
  <2>1. pc' \in {"build", "evaluate", "rebuild"} => process = "stopped" /\ stop = paused
    BY <1>5 DEF DapMove, Waiting
  <2> QED
    BY <1>2, <1>4, <2>1 DEF DapInStep
<1>7. OneRequest'
  <2>1. CASE pc' \in Waiting /\ calls' = <<>>
    BY <1>2, <2>1 DEF OneRequest, NothingAsked
  <2>2. ASSUME NEW r \in {"setup", "disconnect", "inspect"}, Asks(r) PROVE OneRequest'
    BY <1>2, <2>2, AskedOne
  <2>3. CASE pc \in {"build", "evaluate"} /\ pc' = "step" /\ Asks("step")
    BY <1>2, <1>5, <2>3, AskedOne
  <2> QED
    BY <2>1, <2>2, <2>3 DEF DapMove
<1> QED
  BY <1>2, <1>3, <1>6, <1>7 DEF DapInv
LEMMA TakeInStep == ASSUME InReach, DapStopped PROVE DapInv'
<1>1. TypeOK /\ DapInStep /\ StopsStand /\ OneRequest /\ protocol = "dap" /\ line = "up"
  BY DEF InReach, Ordered, DapInv
<1>2. PICK at \in {"build", "rebuild"} : TakeStop(at)
  BY DEF DapStopped
<1>3. NothingAsked /\ events # <<>>
  BY <1>1 DEF OneRequest, DapStopped, Asking, Waiting
<1>4. "inspect" \in Requests
  BY DEF Requests
<1>5. /\ pc' = at /\ got' = "none" /\ calls' = <<"inspect">>
      /\ UNCHANGED <<protocol, wire, line, process, stop>>
      /\ paused' = Head(events) /\ events' = Tail(events)
  BY <1>1, <1>2, <1>3, <1>4, AwaitDap DEF TakeStop, DapStopped, Own
<1>6. /\ 1 \in 1 .. Len(events) /\ Head(events) = events[1]
      /\ \A i \in 1 .. Len(events') : i + 1 \in 1 .. Len(events) /\ events'[i] = events[i + 1]
  BY <1>1, <1>3, <1>5, QueueTypes, Taken
<1>7. process = "stopped" /\ paused' = stop
  BY <1>1, <1>5, <1>6 DEF StopsStand
<1>8. StopsStand'
  BY <1>1, <1>5, <1>6 DEF StopsStand
<1>9. DapInStep'
  BY <1>5, <1>7 DEF DapInStep
<1>10. OneRequest'
  BY <1>3, <1>5, AskedOne DEF Asks, Asking
<1> QED
  BY <1>5, <1>8, <1>9, <1>10 DEF DapInv

\* An answer is read.
LEMMA AnswerInStep == ASSUME InReach, AnswerArrives \/ ResumeArrives PROVE DapInv'
<1>1. TypeOK /\ DapInStep /\ StopsStand /\ OneRequest /\ protocol = "dap" /\ line = "up" /\ got # "hit"
  BY DEF InReach, Ordered, DapInv
<1>2. /\ UNCHANGED <<protocol, pc, paused, events, calls, line, process, stop>>
      /\ got' # "hit" /\ wire # <<>> /\ ~IsStop(Head(wire)) /\ wire' = Tail(wire)
  BY <1>1 DEF AnswerArrives, ResumeArrives, Own, session, IsStop
<1>3. /\ 1 \in 1 .. Len(wire) /\ Head(wire) = wire[1] /\ Len(wire) \in Nat
      /\ Len(wire') = Len(wire) - 1
      /\ \A i \in 1 .. Len(wire') : i + 1 \in 1 .. Len(wire) /\ wire'[i] = wire[i + 1]
  BY <1>1, <1>2, QueueTypes, Taken
<1>4. calls = <<>> /\ \A i \in 1 .. Len(wire') : IsStop(wire'[i])
  <2>1. calls = <<>>
    BY <1>1, <1>2, <1>3 DEF OneRequest
  <2>2. \A i \in 1 .. Len(wire') : i + 1 # 1
    BY <1>3
  <2> QED
    BY <1>1, <1>2, <1>3, <2>1, <2>2 DEF OneRequest
<1>5. OneRequest'
  BY <1>2, <1>4 DEF OneRequest, NothingAsked
<1>6. StopsStand'
  BY <1>1, <1>2, <1>3 DEF StopsStand
<1>7. DapInStep'
  <2>1. ASSUME NEW i \in 1 .. Len(wire), wire[i] = [stop |-> stop], process = "stopped"
        PROVE  \E j \in 1 .. Len(wire') : wire'[j] = [stop |-> stop]
    <3>1. IsStop(wire[i])
      <4>1. stop \in 0 .. MaxStops /\ [stop |-> stop] \notin Answers
        <5>1. ASSUME [stop |-> stop] \in Answers PROVE FALSE
          <6>1. DOMAIN [stop |-> stop] = {"to", "ok"}
            BY <5>1 DEF Answers
          <6> QED
            BY <6>1
        <5> QED
          BY <1>1, <5>1 DEF TypeOK
      <4> QED
        BY <2>1, <4>1 DEF IsStop
    <3>2. i # 1
      BY <1>2, <1>3, <3>1
    <3>3. i - 1 \in 1 .. Len(wire') /\ wire'[i - 1] = wire[i]
      BY <1>3, <3>2
    <3> QED
      BY <2>1, <3>3
  <2> QED
    BY <1>1, <1>2, <2>1 DEF DapInStep
<1> QED
  BY <1>2, <1>5, <1>6, <1>7 DEF DapInv

\* A stop is queued.
LEMMA QueueInStep == ASSUME InReach, StopArrives PROVE DapInv'
<1> DEFINE s == Head(wire).stop
<1>1. TypeOK /\ DapInStep /\ StopsStand /\ OneRequest /\ protocol = "dap" /\ line = "up" /\ got # "hit"
  BY DEF InReach, Ordered, DapInv
<1>2. /\ UNCHANGED <<protocol, pc, got, paused, calls, line, process, stop>>
      /\ wire # <<>> /\ IsStop(Head(wire)) /\ wire' = Tail(wire) /\ events' = Append(events, s)
  BY <1>1 DEF StopArrives, Own, IsStop
<1>3. /\ 1 \in 1 .. Len(wire) /\ Head(wire) = wire[1] /\ s \in 1 .. MaxStops
      /\ \A i \in 1 .. Len(wire') : i + 1 \in 1 .. Len(wire) /\ wire'[i] = wire[i + 1]
      /\ \A i, j \in 1 .. Len(wire') : i + 1 = j + 1 => i = j
  BY <1>1, <1>2, QueueTypes, Taken
<1>4. /\ Len(events) + 1 \in 1 .. Len(events') /\ events'[Len(events) + 1] = s
      /\ \A i \in 1 .. Len(events') : events'[i] = s \/ (i \in 1 .. Len(events) /\ events'[i] = events[i])
  BY <1>1, <1>2, <1>3, QueueTypes, Added
<1>5. process = "stopped" /\ s = stop
  BY <1>1, <1>2, <1>3 DEF StopsStand
<1>6. OneRequest'
  BY <1>1, <1>2, <1>3 DEF OneRequest, NothingAsked
<1>7. StopsStand'
  BY <1>1, <1>2, <1>3, <1>4, <1>5 DEF StopsStand
<1>8. DapInStep'
  BY <1>1, <1>2, <1>4, <1>5 DEF DapInStep
<1> QED
  BY <1>1, <1>2, <1>6, <1>7, <1>8 DEF DapInv

\* The process stops: it was running, so no earlier stop is on its way.
LEMMA StopInStep == ASSUME InReach, Stop PROVE DapInv'
<1> DEFINE m == [stop |-> stop + 1]
<1>1. TypeOK /\ DapInStep /\ StopsStand /\ OneRequest /\ protocol = "dap" /\ line = "up" /\ got # "hit"
  BY DEF InReach, Ordered, DapInv
<1>2. /\ UNCHANGED <<protocol, pc, got, paused, events, calls, line>> /\ process = "running"
      /\ process' = "stopped" /\ stop' = stop + 1 /\ stop' \in 1 .. MaxStops /\ wire' = Append(wire, m)
  BY <1>1, QueueTypes DEF Stop, session
<1>3. m \in Messages /\ IsStop(m) /\ m.stop = stop'
  BY <1>2, MessageKinds
<1> HIDE DEF m
<1>4. /\ Len(wire) + 1 \in 1 .. Len(wire') /\ wire'[Len(wire) + 1] = m
      /\ \A i \in 1 .. Len(wire') : wire'[i] = m \/ (i \in 1 .. Len(wire) /\ wire'[i] = wire[i])
  BY <1>1, <1>2, <1>3, QueueTypes, Added
<1>5. (\A i \in 1 .. Len(events) : FALSE) /\ \A i \in 1 .. Len(wire) : ~IsStop(wire[i])
  BY <1>1, <1>2 DEF StopsStand
<1>6. StopsStand'
  BY <1>2, <1>3, <1>4, <1>5 DEF StopsStand
<1>7. OneRequest'
  BY <1>1, <1>2, <1>3, <1>4 DEF OneRequest, NothingAsked
<1>8. DapInStep'
  <2>1. pc' \notin {"build", "evaluate", "rebuild"}
    BY <1>1, <1>2 DEF DapInStep
  <2>2. m = [stop |-> stop']
    BY <1>2 DEF m
  <2> QED
    BY <1>4, <2>1, <2>2 DEF DapInStep
<1> QED
  BY <1>1, <1>2, <1>6, <1>7, <1>8 DEF DapInv

\* The server answers the one request; a step is only taken from a known stop.
LEMMA ServeInStep == ASSUME InReach, Serve PROVE DapInv'
<1>1. TypeOK /\ DapInStep /\ StopsStand /\ OneRequest /\ protocol = "dap" /\ line = "up" /\ got # "hit"
      /\ StopsInv
  BY DEF InReach, Ordered, DapInv
<1>2. /\ UNCHANGED <<protocol, pc, got, paused, events, line, stop>>
      /\ calls # <<>> /\ calls' = Tail(calls)
      /\ \/ process' = process
         \/ process' = "running" /\ Head(calls) \in {"step", "resume"}
  BY DEF Serve, session
<1>3. Head(calls) \in Requests /\ Head(calls) = calls[1] /\ 1 \in 1 .. Len(calls) /\ calls' = <<>>
  <2>1. calls \in Seq(Requests)
    BY <1>1 DEF TypeOK
  <2>2. Head(calls) \in Requests /\ Head(calls) = calls[1] /\ 1 \in 1 .. Len(calls)
        /\ calls' \in Seq(Requests) /\ Len(calls') = Len(calls) - 1
    BY <1>2, <2>1, Taken
  <2>3. Len(calls') = 0
    BY <1>1, <2>1, <2>2 DEF OneRequest
  <2> QED
    BY <2>2, <2>3, EmptySeq
<1>4. PICK m \in Answers : wire' = Append(wire, m)
  <2>1. PICK ok \in BOOLEAN : wire' = Append(wire, [to |-> Head(calls), ok |-> ok])
    BY DEF Serve
  <2>2. [to |-> Head(calls), ok |-> ok] \in Answers
    BY <1>3 DEF Answers
  <2> QED
    BY <2>1, <2>2
<1>5. /\ ~IsStop(m)
      /\ \A i \in 1 .. Len(wire) : i \in 1 .. Len(wire') /\ wire'[i] = wire[i]
      /\ \A i \in 1 .. Len(wire') : \/ wire'[i] = m /\ i = Len(wire) + 1
                                    \/ i \in 1 .. Len(wire) /\ wire'[i] = wire[i]
  <2>1. m \in Messages
    BY DEF Messages
  <2> QED
    BY <1>1, <1>4, <2>1, QueueTypes, Added, MessageKinds
<1>6. (\A i \in 1 .. Len(wire) : IsStop(wire[i])) /\ pc \in Asking /\ got = "none"
  BY <1>1, <1>2 DEF OneRequest, NothingAsked
<1>7. OneRequest'
  <2>1. pc' \in Asking /\ got' = "none" /\ calls' = <<>> /\ Len(calls') = 0
    BY <1>2, <1>3, <1>6
  <2>2. \A i \in 1 .. Len(wire') : ~IsStop(wire'[i]) => i = Len(wire) + 1
    BY <1>5, <1>6
  <2>3. \A i, j \in 1 .. Len(wire') : ~IsStop(wire'[i]) /\ ~IsStop(wire'[j]) => i = j
    BY <2>2
  <2>4. \A i \in 1 .. Len(calls') : FALSE
    BY <2>1
  <2> QED
    BY <2>1, <2>3, <2>4 DEF OneRequest
<1>8. CASE process' = process
  <2>1. StopsStand'
    BY <1>1, <1>2, <1>5, <1>8 DEF StopsStand
  <2>2. DapInStep'
    BY <1>1, <1>2, <1>5, <1>8 DEF DapInStep
  <2> QED
    BY <1>1, <1>2, <1>7, <2>1, <2>2 DEF DapInv
<1>9. CASE process' = "running" /\ Head(calls) \in {"step", "resume"}
  <2>1. pc = "step" /\ stop = paused
    BY <1>1, <1>3, <1>9 DEF OneRequest
  <2>2. (\A i \in 1 .. Len(events) : FALSE) /\ (\A i \in 1 .. Len(wire) : ~IsStop(wire[i]))
    <3>1. ASSUME NEW n \in 1 .. MaxStops, paused < n, n <= stop PROVE FALSE
      BY <1>1, <2>1, <3>1, QueueTypes
    <3>2. \A i \in 1 .. Len(events) : paused < events[i] /\ events[i] <= stop
      BY <1>1 DEF StopsInv, EventsAhead
    <3>3. \A i \in 1 .. Len(wire) : IsStop(wire[i]) => paused < wire[i].stop /\ wire[i].stop <= stop
      BY <1>1 DEF StopsInv, WireAhead
    <3> QED
      BY <1>1, <3>1, <3>2, <3>3, QueueTypes
  <2>3. StopsStand'
    BY <1>2, <1>5, <2>2 DEF StopsStand
  <2>4. DapInStep'
    BY <1>2, <1>9, <2>1 DEF DapInStep
  <2> QED
    BY <1>1, <1>2, <1>7, <2>3, <2>4 DEF DapInv
<1> QED
  BY <1>2, <1>8, <1>9

\* The connection is made; nothing has happened on it.
LEMMA ConnectInStep == ASSUME Ordered, DapInv, protocol = "dap", Connect PROVE DapInv'
<1>1. /\ calls = <<>> /\ wire = <<>> /\ events = <<>> /\ got = "none" /\ process = "running"
      /\ line = "down"
  BY DEF Ordered, StartInv, Connect
<1>2. UNCHANGED <<protocol, got, paused, events, wire, process, stop>>
  BY DEF Connect, Own
<1>3. CASE pc' = "enable" /\ calls' = <<"setup">>
  <2>1. OneRequest'
    BY <1>1, <1>2, <1>3, AskedOne DEF NothingAsked, Asks, Asking
  <2>2. StopsStand'
    BY <1>1, <1>2 DEF StopsStand
  <2>3. DapInStep'
    BY <1>1, <1>2, <1>3 DEF DapInStep
  <2> QED
    BY <1>1, <1>2, <2>1, <2>2, <2>3 DEF DapInv
<1>4. CASE line' = line
  BY <1>1, <1>2, <1>4 DEF DapInv
<1> QED
  BY <1>3, <1>4 DEF Connect

\* With the connection lost there is nothing left to keep in step with.
LEMMA OutOfReach ==
    ASSUME Ordered, DapInv, protocol = "dap", line # "up", [Next]_vars, ~Connect
    PROVE  DapInv'
<1>1. TypeOK /\ got # "hit" /\ protocol = "dap" /\ line # "up"
  BY DEF Ordered, DapInv
<1>2. CASE Launch \/ Disconnected \/ UNCHANGED vars
  BY <1>1, <1>2 DEF Launch, Disconnected, Own, peer, vars, session, DapInv
<1>3. CASE Enabled \/ BreakpointSet \/ Stepped \/ StepSeen \/ Refused \/ WaitTimeout
  BY <1>1, <1>3, DisconnectMoves, WaitMoves, RoundMoves
  DEF Enabled, BreakpointSet, Stepped, StepSeen, Refused, WaitTimeout, Await, Own, DapInv
<1>4. CASE Hit \/ Evaluated \/ DapStopped
  BY <1>1, <1>4, RecordMoves DEF Hit, Evaluated, DapStopped, TakeStop, Await, Own, DapInv
<1>5. CASE JdbRan \/ Arrives \/ Stop \/ Serve \/ Cut
  BY <1>1, <1>5 DEF JdbRan, Arrives, AnswerArrives, ResumeArrives, StopArrives, Stop, Serve, Cut,
                    Alive, Own, session, DapInv
<1> QED
  BY <1>2, <1>3, <1>4, <1>5 DEF Next, Strategy

LEMMA DapStep == Ordered /\ DapInv /\ [Next]_vars => DapInv'
<1> SUFFICES ASSUME Ordered, DapInv, [Next]_vars PROVE DapInv'
  OBVIOUS
<1>1. protocol' = protocol
  BY DEF Next, Strategy, Arrives, Launch, Connect, Enabled, BreakpointSet, DapStopped, JdbRan, Hit,
         Evaluated, Stepped, StepSeen, Refused, WaitTimeout, Disconnected, AnswerArrives,
         ResumeArrives, StopArrives, Stop, Serve, Cut, Own, vars
<1>2. CASE protocol # "dap"
  BY <1>1, <1>2 DEF DapInv
<1>3. CASE protocol = "dap" /\ line # "up"
  BY <1>3, ConnectInStep, OutOfReach
<1>4. CASE protocol = "dap" /\ line = "up"
  <2>1. InReach
    BY <1>4 DEF InReach
  <2>2. pc \notin {"launch", "connect"} /\ got # "hit"
    BY <1>4 DEF Ordered, StartInv, DapInv
  <2>3. CASE UNCHANGED vars
    BY <2>3 DEF vars, session, peer, DapInv, OneRequest, NothingAsked, StopsStand, DapInStep
  <2>4. CASE Disconnected \/ Cut
    BY <1>1, <1>4, <2>2, <2>4 DEF Disconnected, Cut, session, DapInv
  <2>5. ~Launch /\ ~Connect /\ ~JdbRan
    BY <1>4, <2>2 DEF Launch, Connect, JdbRan
  <2> QED
    BY <2>1, <2>3, <2>4, <2>5, DapMoves, MoveInStep, TakeInStep, AnswerInStep, QueueInStep,
       StopInStep, ServeInStep DEF Next, Strategy, Arrives
<1> QED
  BY <1>2, <1>3, <1>4

\* Two sides that count for themselves never get out of step: what the DAP
\* adapter asks about a hit is asked of a process that stands at that hit, and no
\* stop is lost between two waits, for any number of rounds and of stops.
THEOREM DapStaysInStep == Spec => []DapInStep
<1>1. Init => DapInv
  BY DEF Init, DapInv
<1>2. Ordered /\ DapInv => DapInStep
  BY DEF DapInv, DapInStep
<1> QED
  BY <1>1, <1>2, DapStep, OrderedInit, OrderedStep, PTL DEF Spec
=============================================================================
