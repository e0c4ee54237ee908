------------------------------ MODULE DebugSession ------------------------------
(***************************************************************************)
(* One breakpoint session of the debugger package: BreakpointStrategy over *)
(* the adapter of the language's protocol, against the process it debugs.  *)
(* The strategy runs from await to await; what the line delivers between   *)
(* an answer and the code that awaits it is a step of its own, since a     *)
(* chunk of the socket may hold both.  The debugged process is single      *)
(* threaded and, beyond Init, Stop, Serve and Cut, not this repository's.  *)
(***************************************************************************)
EXTENDS Integers, Sequences

CONSTANTS
    Protocols,   \* those to look at
    MaxSteps,    \* DebugStrategy.maxSteps, 3 or 5 in the table
    MaxStops     \* bound: how often the process can stop

ASSUME ProtocolsAssumption == Protocols \subseteq {"cdp", "dap", "jdwp"}
ASSUME BoundsAssumption    == MaxSteps \in Nat \ {0} /\ MaxStops \in Nat

VARIABLES
    protocol,    \* DebugAdapterSpec.protocol
    evaluates,   \* the strategy has an expression to evaluate (none has two)
    pc,          \* the await the strategy is suspended at
    step,        \* the loop's counter
    hits,        \* the stops the loop recorded
    got,         \* what the awaited promise was settled with
    paused,      \* the stop the adapter believes the process is at, 0 if none
    events,      \* DapDebugAdapter.events: the stops nobody took yet
    calls,       \* requests on their way to the process
    wire,        \* answers and events on their way back
    line,        \* the connection: "down", "up", "cut"
    process,     \* "running" or "stopped"
    stop,        \* how often it has stopped
    worker       \* "up", or "dead" of an unhandled rejection

session == <<pc, step, hits, got, paused, events>>
peer    == <<calls, wire, line, process, stop>>
vars    == <<protocol, evaluates, session, peer, worker>>

\* Awaits of a request's answer, which have no time limit, and of a stop.
Asking   == {"enable", "breakpoint", "build", "evaluate", "step", "rebuild", "disconnect"}
Waiting  == {"wait", "stepwait"}
Requests == {"setup", "inspect", "step", "resume", "disconnect"}

Answers  == [to : Requests, ok : BOOLEAN]
Messages == Answers \cup [stop : 1 .. MaxStops]

TypeOK ==
    /\ protocol \in Protocols /\ evaluates \in BOOLEAN
    /\ pc \in {"launch", "connect", "done"} \cup Asking \cup Waiting
    /\ step \in 0 .. MaxSteps
    /\ hits \in Seq(1 .. MaxStops) /\ Len(hits) <= MaxSteps
    /\ got \in {"none", "ok", "error", "hit"}
    /\ paused \in 0 .. MaxStops
    /\ events \in Seq(1 .. MaxStops)
    /\ calls \in Seq(Requests)
    /\ wire \in Seq(Messages)
    /\ line \in {"down", "up", "cut"}
    /\ process \in {"running", "stopped"}
    /\ stop \in 0 .. MaxStops
    /\ worker \in {"up", "dead"}

Init ==
    /\ protocol \in Protocols /\ evaluates \in BOOLEAN
    /\ pc = "launch" /\ step = 0 /\ hits = <<>> /\ got = "none" /\ paused = 0
    /\ events = <<>> /\ calls = <<>> /\ wire = <<>>
    /\ line = "down" /\ process = "running" /\ stop = 0
    /\ worker = "up"

-----------------------------------------------------------------------------
\* The strategy's moves from one await to the next.

\* A request on a closed socket is written to nobody and stays pending.
Sending(requests) ==
    calls' = IF line = "up" THEN calls \o requests ELSE calls

Await(at, requests) ==
    /\ pc' = at /\ got' = "none"
    /\ Sending(requests)
    /\ UNCHANGED <<wire, line, process, stop>>

\* A mutant of StartWait: the other adapters resume as well.
StartWaitResuming(at) == Await(at, <<"resume">>)

\* waitForBreakpointHit: the CDP adapter also resumes the process, and does not
\* await that.
StartWait(at) == Await(at, IF protocol = "cdp" THEN <<"resume">> ELSE <<>>)

\* The finally of execute: only the DAP adapter says goodbye, and waits for the
\* answer; the others just close.
Disconnect ==
    IF protocol = "dap"
    THEN Await("disconnect", <<"disconnect">>)
    ELSE /\ pc' = "done" /\ got' = "none" /\ line' = "cut"
         /\ UNCHANGED <<calls, wire, process, stop>>

\* One round of the loop is over: wait for the next stop or leave.
NextRound ==
    /\ step' = step + 1
    /\ IF step + 1 < MaxSteps THEN StartWait("wait") ELSE Disconnect

\* The hit is recorded and the process told to step.  jdb has no session to
\* step in: its adapter just runs it again.
Record ==
    /\ hits' = Append(hits, paused)
    /\ Await(IF protocol = "jdwp" THEN "stepwait" ELSE "step",
             IF protocol = "jdwp" THEN <<>> ELSE <<"step">>)

\* jdb prints a value or not; the result is not looked at.
Inspect == evaluates /\ protocol # "jdwp"

-----------------------------------------------------------------------------
Own == UNCHANGED <<protocol, evaluates, worker>> /\ worker = "up"

\* No user frame in the stack, or no debug port within 30 s: nothing is tried.
Launch ==
    /\ pc = "launch" /\ Own
    /\ pc' \in {"connect", "done"}
    /\ UNCHANGED <<step, hits, got, paused, events, peer>>

\* Without a connection even the DAP adapter has nobody to wait for.
Connect ==
    /\ pc = "connect" /\ Own
    /\ \/ /\ line' = "up"
          /\ IF protocol = "jdwp" THEN pc' = "wait" /\ calls' = calls
                                  ELSE pc' = "enable" /\ calls' = <<"setup">>
       \/ pc' = "done" /\ UNCHANGED <<line, calls>>
    /\ UNCHANGED <<step, hits, got, paused, events, wire, process, stop>>

Enabled ==
    /\ pc = "enable" /\ got # "none" /\ Own
    /\ IF got = "ok" THEN Await("breakpoint", <<"setup">>) ELSE Disconnect
    /\ UNCHANGED <<step, hits, paused, events>>

BreakpointSet ==
    /\ pc = "breakpoint" /\ got # "none" /\ Own
    /\ IF got = "ok" THEN StartWait("wait") ELSE Disconnect
    /\ UNCHANGED <<step, hits, paused, events>>

\* A mutant of TakeStop: the event is read and not removed.
PeekStop(at) ==
    /\ paused' = Head(events) /\ events' = events
    /\ Await(at, <<"inspect">>)

\* The DAP adapter polls its queue, takes the first stop and asks for its stack.
TakeStop(at) ==
    /\ paused' = Head(events) /\ events' = Tail(events)
    /\ Await(at, <<"inspect">>)

DapStopped ==
    /\ protocol = "dap" /\ pc \in Waiting /\ events # <<>> /\ Own
    /\ TakeStop(IF pc = "wait" THEN "build" ELSE "rebuild")
    /\ UNCHANGED <<step, hits>>

\* jdb attaches, runs to a breakpoint, prints and quits.
JdbRan ==
    /\ protocol = "jdwp" /\ pc \in Waiting /\ got = "none" /\ line = "up" /\ Own
    /\ stop < MaxStops
    /\ stop' = stop + 1 /\ paused' = stop' /\ got' = "hit"
    /\ UNCHANGED <<pc, step, hits, events, calls, wire, line, process>>

Hit ==
    /\ \/ pc = "wait" /\ got = "hit"
       \/ pc = "build" /\ got = "ok"
    /\ Own
    /\ IF Inspect THEN Await("evaluate", <<"inspect">>) /\ hits' = hits ELSE Record
    /\ UNCHANGED <<step, paused, events>>

\* An evaluation that fails is ignored.
Evaluated ==
    /\ pc = "evaluate" /\ got # "none" /\ Own
    /\ Record
    /\ UNCHANGED <<step, paused, events>>

Stepped ==
    /\ pc = "step" /\ got = "ok" /\ Own
    /\ StartWait("stepwait")
    /\ UNCHANGED <<step, hits, paused, events>>

\* The stop that stepOver or stepInto found is not recorded.
StepSeen ==
    /\ \/ pc = "stepwait" /\ got = "hit"
       \/ pc = "rebuild" /\ got = "ok"
    /\ Own
    /\ NextRound
    /\ UNCHANGED <<hits, paused, events>>

\* A request of the loop is refused: execute throws, after its finally.
Refused ==
    /\ pc \in {"build", "rebuild", "step"} /\ got = "error" /\ Own
    /\ Disconnect
    /\ UNCHANGED <<step, hits, paused, events>>

\* A mutant of WaitTimeout: the deadline of a wait is set anew at each poll.
WaitRestarts ==
    /\ pc \in Waiting /\ got = "none" /\ Own
    /\ IF pc = "wait" THEN UNCHANGED <<pc, step, got, peer>> ELSE NextRound
    /\ UNCHANGED <<hits, paused, events>>

\* No stop within 30 s ends the loop, none within 5 s of a step does not.
WaitTimeout ==
    /\ pc \in Waiting /\ got = "none" /\ Own
    /\ IF pc = "wait" THEN Disconnect /\ step' = step ELSE NextRound
    /\ UNCHANGED <<hits, paused, events>>

Disconnected ==
    /\ pc = "disconnect" /\ got # "none" /\ Own
    /\ pc' = "done" /\ got' = "none" /\ line' = "cut"
    /\ UNCHANGED <<step, hits, paused, events, calls, wire, process, stop>>

-----------------------------------------------------------------------------
\* What arrives.  An answer settles its request's promise; the CDP adapter sees a
\* stop only while its handler is installed, the DAP adapter queues it.

AnswerArrives ==
    /\ wire # <<>> /\ Head(wire) \in Answers /\ Own
    /\ Head(wire).to # "resume"
    /\ got' = IF Head(wire).ok THEN "ok" ELSE "error"
    /\ wire' = Tail(wire)
    /\ UNCHANGED <<pc, step, hits, paused, events, calls, line, process, stop>>

\* Nobody awaits the resume of the CDP adapter: its error ends the process of
\* the worker.
ResumeArrives ==
    /\ wire # <<>> /\ Head(wire) \in Answers /\ worker = "up"
    /\ Head(wire).to = "resume"
    /\ worker' = IF Head(wire).ok THEN "up" ELSE "dead"
    /\ wire' = Tail(wire)
    /\ UNCHANGED <<protocol, evaluates, session, calls, line, process, stop>>

StopArrives ==
    /\ wire # <<>> /\ Head(wire) \notin Answers /\ Own
    /\ IF protocol = "dap"
       THEN events' = Append(events, Head(wire).stop) /\ UNCHANGED <<got, paused>>
       ELSE /\ events' = events
            /\ IF pc \in Waiting /\ got = "none"
               THEN got' = "hit" /\ paused' = Head(wire).stop
               ELSE UNCHANGED <<got, paused>>
    /\ wire' = Tail(wire)
    /\ UNCHANGED <<pc, step, hits, calls, line, process, stop>>

-----------------------------------------------------------------------------
\* The debugged process and its protocol server.

Alive == worker = "up" /\ line = "up" /\ protocol # "jdwp"

Stop ==
    /\ Alive /\ process = "running" /\ stop < MaxStops
    /\ process' = "stopped" /\ stop' = stop + 1
    /\ wire' = Append(wire, [stop |-> stop + 1])
    /\ UNCHANGED <<protocol, evaluates, session, calls, line, worker>>

\* Only a stopped process can be inspected, stepped or resumed.
Serve ==
    /\ Alive /\ calls # <<>>
    /\ LET request == Head(calls)
           moves   == request \in {"step", "resume"}
       IN \E ok \in BOOLEAN :
            /\ request \in {"inspect", "step", "resume"} => ok = (process = "stopped")
            /\ wire' = Append(wire, [to |-> request, ok |-> ok])
            /\ process' = IF moves /\ ok THEN "running" ELSE process
    /\ calls' = Tail(calls)
    /\ UNCHANGED <<protocol, evaluates, session, line, stop, worker>>

\* The process ends or closes the connection; what it had sent may be lost.
Cut ==
    /\ worker = "up" /\ line = "up"
    /\ line' = "cut" /\ calls' = <<>> /\ wire' \in {wire, <<>>}
    /\ UNCHANGED <<protocol, evaluates, session, process, stop, worker>>

Strategy ==
    \/ Launch \/ Connect \/ Enabled \/ BreakpointSet
    \/ DapStopped \/ JdbRan \/ Hit \/ Evaluated
    \/ Stepped \/ StepSeen \/ Refused \/ WaitTimeout \/ Disconnected

Arrives == AnswerArrives \/ ResumeArrives \/ StopArrives

\* The strategy waits for an answer that no line is left to bring.
Stuck == pc \in Asking /\ got = "none" /\ line = "cut" /\ wire = <<>>

\* Nothing is left to happen.
Idle == pc = "done" \/ worker = "dead" \/ Stuck

Next ==
    \/ Strategy \/ Arrives
    \/ Stop \/ Serve \/ Cut
    \/ Idle /\ UNCHANGED vars

Spec == Init /\ [][Next]_vars

\* Timers fire, chunks are read, and a server that is there answers.
Fairness == WF_vars(Strategy) /\ WF_vars(Arrives) /\ WF_vars(Serve)

FairSpec == Spec /\ Fairness

-----------------------------------------------------------------------------
\* The recorded hits are different stops in the order they happened: a stop is
\* never recorded twice, whatever was late, lost or timed out.
HitsInOrder ==
    \A i, j \in 1 .. Len(hits) : i < j => hits[i] < hits[j]

\* The DAP adapter keeps in step with the process: what it asks about a hit is
\* asked of a process that stands at that hit, and a process that stands still is
\* known to it or about to be, so no stop is lost between two waits.  (Of CDP
\* neither is true: the resume nobody awaits may overtake the stop, and a stop
\* that comes while nobody waits is gone.)
DapInStep ==
    protocol = "dap" /\ line = "up" =>
        /\ pc \in {"build", "evaluate", "rebuild"} => process = "stopped" /\ stop = paused
        /\ process = "stopped" =>
              \/ paused = stop
              \/ \E i \in 1 .. Len(events) : events[i] = stop
              \/ \E i \in 1 .. Len(wire) : wire[i] = [stop |-> stop]

\* Every session comes to its end, however the process behaves, with two
\* exceptions.  Over CDP and DAP a request whose answer a lost connection cannot
\* bring is waited for without a time limit, and not even the finally of the
\* caller is reached: a request that was out when the connection was lost, or one
\* made after that, such as the goodbye of the DAP adapter when a wait on a dead
\* connection timed out.  Over CDP a resume the process refuses, which nobody
\* awaits, ends the worker and whatever it was doing.
SessionEnds ==
    <>(\/ pc = "done"
       \/ protocol \in {"cdp", "dap"} /\ Stuck
       \/ protocol = "cdp" /\ worker = "dead")
=============================================================================
