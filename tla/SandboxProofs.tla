---------------------------- MODULE SandboxProofs ----------------------------
(***************************************************************************)
(* Type correctness of Sandbox, and that everything a finished call left   *)
(* on the host is explained by a command that failed, for any number of    *)
(* attempts and either provider.                                           *)
(***************************************************************************)
EXTENDS Sandbox, TLAPS

-----------------------------------------------------------------------------
\* Every step of a call is a Go to a known await with resources of a sandbox.

Places == {"none"} \cup Live \cup Ended

Sound(st, held, bad) ==
    st \in Places /\ held \in SUBSET Resources /\ bad \in SUBSET Commands

LEMMA GoType ==
    ASSUME TypeOK, NEW a \in Attempts, NEW to, NEW held, NEW bad,
           Sound(to, held, bad), Go(a, to, held, bad)
    PROVE  TypeOK'
<1>1. at' \in [Attempts -> Places]
  BY DEF TypeOK, Sound, Go, Places
<1>2. host' \in [Attempts -> SUBSET Resources]
  BY DEF TypeOK, Sound, Go
<1>3. failed' \in [Attempts -> SUBSET Commands]
  <2>1. failed[a] \cup bad \in SUBSET Commands
    BY DEF TypeOK, Sound
  <2> QED
    BY <2>1 DEF TypeOK, Go
<1> QED
  BY <1>1, <1>2, <1>3 DEF TypeOK, Go, Places

\* What the commands of a sandbox make or remove are resources.
LEMMA Held ==
    ASSUME TypeOK, NEW a \in Attempts
    PROVE  /\ host[a] \in SUBSET Resources
           /\ \A S \in SUBSET Resources : host[a] \cup S \in SUBSET Resources
           /\ \A S : host[a] \ S \in SUBSET Resources
BY DEF TypeOK

LEMMA StepType ==
    ASSUME TypeOK, NEW a \in Attempts,
           Step(a) \/ Exec(a) \/ Answer(a) \/ Hang(a) \/ Finish(a)
    PROVE  TypeOK'
<1> USE GoType, Held
<1> USE DEF Sound, Places, Live, Warming, Cleaning, Ended, Resources, Commands
<1>1. CASE Ports(a) BY <1>1 DEF Ports, Throw
<1>2. CASE MakeDir(a) BY <1>2 DEF MakeDir, Throw
<1>3. CASE Fill(a) BY <1>3 DEF Fill, Throw
<1>4. CASE Runtime(a) BY <1>4 DEF Runtime
<1>5. CASE Run(a) BY <1>5 DEF Run, Throw
<1>6. CASE VmMakeDir(a) BY <1>6 DEF VmMakeDir, Throw
<1>7. CASE VmSpawn(a) BY <1>7 DEF VmSpawn
<1>8. CASE VmBoot(a) BY <1>8 DEF VmBoot, Throw
<1>9. CASE VmPorts(a) BY <1>9 DEF VmPorts, Throw
<1>10. CASE ExecTimeout(a) BY <1>10 DEF ExecTimeout
<1>11. CASE Kill(a) BY <1>11 DEF Kill
<1>12. CASE VmStop(a) BY <1>12 DEF VmStop
<1>13. CASE Unmount(a) BY <1>13 DEF Unmount
<1>14. CASE Erase(a) BY <1>14 DEF Erase
<1>15. CASE Exec(a) BY <1>15 DEF Exec
<1>16. CASE Answer(a) BY <1>16 DEF Answer
<1>17. CASE Hang(a) BY <1>17 DEF Hang
<1>18. CASE Finish(a) BY <1>18 DEF Finish
<1> QED
  BY <1>1, <1>2, <1>3, <1>4, <1>5, <1>6, <1>7, <1>8, <1>9, <1>10, <1>11, <1>12,
     <1>13, <1>14, <1>15, <1>16, <1>17, <1>18 DEF Step

\* Temporal's and the worker's steps.
LEMMA ControlType ==
    ASSUME TypeOK, Begin \/ Expire \/ Crash \/ Restart \/ Closed
    PROVE  TypeOK'
<1> USE AttemptsAssumption
<1>1. CASE Begin
  <2>1. begun + 1 \in Attempts /\ begun + 1 \in 0 .. MaxAttempts
    BY <1>1 DEF Begin, TypeOK, Attempts
  <2>2. at' \in [Attempts -> {"none"} \cup Live \cup Ended]
    BY <1>1, <2>1 DEF Begin, TypeOK, First, Live, Warming
  <2> QED
    BY <1>1, <2>1, <2>2 DEF Begin, TypeOK
<1>2. CASE Expire BY <1>2 DEF Expire, TypeOK
<1>3. CASE Crash BY <1>3 DEF Crash, TypeOK, Ended
<1>4. CASE Restart BY <1>4 DEF Restart, TypeOK
<1>5. CASE Closed BY <1>5 DEF Closed, TypeOK, vars
<1> QED
  BY <1>1, <1>2, <1>3, <1>4, <1>5

LEMMA InitType == Init => TypeOK
<1> SUFFICES ASSUME Init PROVE TypeOK
  OBVIOUS
<1>1. begun \in 0 .. MaxAttempts
  BY AttemptsAssumption DEF Init
<1>2. at \in [Attempts -> {"none"} \cup Live \cup Ended]
  BY DEF Init
<1>3. host \in [Attempts -> SUBSET Resources] /\ failed \in [Attempts -> SUBSET Commands]
  BY DEF Init
<1> QED
  BY <1>1, <1>2, <1>3 DEF Init, TypeOK

\* Every variable keeps its type, whatever fails, times out or is retried.
THEOREM SandboxTypeCorrect == Spec => []TypeOK
<1>1. Init => TypeOK
  BY InitType
<1>2. TypeOK /\ [Next]_vars => TypeOK'
  <2> SUFFICES ASSUME TypeOK, [Next]_vars PROVE TypeOK'
    OBVIOUS
  <2>1. CASE UNCHANGED vars
    BY <2>1 DEF vars, TypeOK
  <2>2. CASE Next
    BY <2>2, StepType, ControlType DEF Next
  <2> QED
    BY <2>1, <2>2
<1> QED
  BY <1>1, <1>2, PTL DEF Spec

-----------------------------------------------------------------------------
\* What a call may have on the host, by the await it is suspended at: nothing
\* before its directory, no box before it was started, and after each command of
\* the removal only what that command failed to remove.

Placed(to, held, bad) ==
    /\ to \in {"none", "mkdir"} => held = {}
    /\ provider = "docker" /\ to = "ports" => held = {}
    /\ to = "fill" => held \subseteq {"dir"}
    /\ provider = "docker" /\ to \in {"runtime", "run"} => held \cap Boxed = {}
    /\ provider = "firecracker" => "mount" \notin held
    /\ to \in {"unmount", "erase"} /\ held \cap Boxed # {} => "kill" \in bad
    /\ to = "erase" /\ "mount" \in held => "unmount" \in bad
    /\ to = "over" =>
         /\ held \cap Boxed # {} =>
               \/ "kill" \in bad
               \/ provider = "firecracker" /\ bad \cap {"run", "ports"} # {}
         /\ "mount" \in held => bad \cap {"run", "unmount"} # {}
         /\ "dir" \in held => bad # {}

\* The strengthening: attempts Temporal has not begun have not run.
Inv ==
    /\ TypeOK
    /\ \A a \in Attempts : a > begun => at[a] = "none"
    /\ \A a \in Attempts : Placed(at[a], host[a], failed[a])

LEMMA GoPlaced ==
    ASSUME Inv, TypeOK', NEW a \in Attempts, NEW to, NEW held, NEW bad,
           at[a] # "none", Go(a, to, held, bad), Placed(to, held, failed[a] \cup bad)
    PROVE  Inv'
<1>1. provider' = provider /\ begun' = begun
  BY DEF Go
<1>2. ASSUME NEW b \in Attempts PROVE b > begun => at'[b] = "none"
  BY DEF Go, Inv, TypeOK
<1>3. ASSUME NEW b \in Attempts PROVE Placed(at[b], host[b], failed[b])'
  <2>1. CASE b = a
    <3>1. at'[b] = to /\ host'[b] = held /\ failed'[b] = failed[a] \cup bad
      BY <2>1 DEF Go, Inv, TypeOK
    <3> QED
      BY <1>1, <3>1 DEF Placed, Boxed
  <2>2. CASE b # a
    <3>1. at'[b] = at[b] /\ host'[b] = host[b] /\ failed'[b] = failed[b]
      BY <2>2 DEF Go, Inv, TypeOK
    <3>2. Placed(at[b], host[b], failed[b])
      BY DEF Inv
    <3> QED
      BY <1>1, <3>1, <3>2 DEF Placed, Boxed
  <2> QED
    BY <2>1, <2>2
<1> QED
  BY <1>1, <1>2, <1>3 DEF Inv

LEMMA StepPlaced ==
    ASSUME Inv, TypeOK', NEW a \in Attempts,
           Step(a) \/ Exec(a) \/ Answer(a) \/ Hang(a) \/ Finish(a)
    PROVE  Inv'
<1> USE GoPlaced
<1>0. Placed(at[a], host[a], failed[a]) /\ provider \in {"docker", "firecracker"}
  BY ProvidersAssumption DEF Inv, TypeOK
<1> USE DEF Placed, Boxed
<1>1. CASE Ports(a) BY <1>0, <1>1 DEF Ports, Throw
<1>2. CASE MakeDir(a) BY <1>0, <1>2 DEF MakeDir, Throw
<1>3. CASE Fill(a) BY <1>0, <1>3 DEF Fill, Throw
<1>4. CASE Runtime(a) BY <1>0, <1>4 DEF Runtime
<1>5. CASE Run(a) BY <1>0, <1>5 DEF Run, Throw
<1>6. CASE VmMakeDir(a) BY <1>0, <1>6 DEF VmMakeDir, Throw
<1>7. CASE VmSpawn(a) BY <1>0, <1>7 DEF VmSpawn
<1>8. CASE VmBoot(a) BY <1>0, <1>8 DEF VmBoot, Throw
<1>9. CASE VmPorts(a) BY <1>0, <1>9 DEF VmPorts, Throw
<1>10. CASE ExecTimeout(a) BY <1>0, <1>10 DEF ExecTimeout
<1>11. CASE Kill(a) BY <1>0, <1>11 DEF Kill
<1>12. CASE VmStop(a) BY <1>0, <1>12 DEF VmStop
<1>13. CASE Unmount(a) BY <1>0, <1>13 DEF Unmount
<1>14. CASE Erase(a) BY <1>0, <1>14 DEF Erase
<1>15. CASE Exec(a) BY <1>0, <1>15 DEF Exec
<1>16. CASE Answer(a) BY <1>0, <1>16 DEF Answer
<1>17. CASE Hang(a) BY <1>0, <1>17 DEF Hang
<1>18. CASE Finish(a) BY <1>0, <1>18 DEF Finish
<1> QED
  BY <1>1, <1>2, <1>3, <1>4, <1>5, <1>6, <1>7, <1>8, <1>9, <1>10, <1>11, <1>12,
     <1>13, <1>14, <1>15, <1>16, <1>17, <1>18 DEF Step

\* An attempt begins with what an attempt that has not begun has: nothing.  A
\* crash leaves an attempt at no await about which anything is said.
LEMMA ControlPlaced ==
    ASSUME Inv, TypeOK', Begin \/ Expire \/ Crash \/ Restart \/ Closed
    PROVE  Inv'
<1>1. CASE Begin
  <2>1. begun + 1 \in Attempts /\ begun \in Nat
    BY <1>1, AttemptsAssumption DEF Begin, Inv, TypeOK, Attempts
  <2>2. at[begun + 1] = "none"
    BY <2>1 DEF Inv
  <2>3. provider' = provider /\ host' = host /\ failed' = failed /\ begun' = begun + 1
    BY <1>1 DEF Begin
  <2>4. ASSUME NEW b \in Attempts PROVE b > begun' => at'[b] = "none"
    BY <1>1, <2>1, <2>4 DEF Begin, Inv, TypeOK, Attempts
  <2>5. ASSUME NEW b \in Attempts PROVE Placed(at[b], host[b], failed[b])'
    <3>1. Placed(at[b], host[b], failed[b])
      BY DEF Inv
    <3>2. CASE b = begun + 1
      <4>1. at'[b] = First
        BY <1>1, <3>2 DEF Begin, Inv, TypeOK
      <4> QED
        BY <2>2, <2>3, <3>1, <3>2, <4>1 DEF Placed, First, Boxed
    <3>3. CASE b # begun + 1
      <4>1. at'[b] = at[b]
        BY <1>1, <3>3 DEF Begin, Inv, TypeOK
      <4> QED
        BY <2>3, <3>1, <4>1 DEF Placed, Boxed
    <3> QED
      BY <3>2, <3>3
  <2> QED
    BY <2>4, <2>5 DEF Inv
<1>2. CASE Expire BY <1>2 DEF Expire, Inv, Placed, Boxed
<1>3. CASE Crash
  <2>1. ASSUME NEW b \in Attempts PROVE at'[b] \in {at[b], "lost"}
    BY <1>3 DEF Crash
  <2>2. ASSUME NEW b \in Attempts PROVE b > begun' => at'[b] = "none"
    BY <1>3 DEF Crash, Inv, Live, Warming, Cleaning
  <2>3. ASSUME NEW b \in Attempts PROVE Placed(at[b], host[b], failed[b])'
    BY <1>3, <2>1 DEF Crash, Inv, Placed, Boxed
  <2> QED
    BY <2>2, <2>3 DEF Inv
<1>4. CASE Restart BY <1>4 DEF Restart, Inv, Placed, Boxed
<1>5. CASE Closed BY <1>5 DEF Closed, vars, Inv, Placed, Boxed
<1> QED
  BY <1>1, <1>2, <1>3, <1>4, <1>5

\* Nothing stays on the host after a call that ended but what a command that
\* failed made or could not remove: for any number of retries, beside each other.
THEOREM LeaksAreExplained == Spec => []LeakExplained
<1>1. Init => Inv
  <2> SUFFICES ASSUME Init PROVE Inv
    OBVIOUS
  <2>1. TypeOK
    BY InitType
  <2> QED
    BY <2>1 DEF Init, Inv, Placed, Boxed
<1>2. Inv /\ TypeOK' /\ [Next]_vars => Inv'
  <2> SUFFICES ASSUME Inv, TypeOK', [Next]_vars PROVE Inv'
    OBVIOUS
  <2>1. CASE UNCHANGED vars
    BY <2>1 DEF vars, Inv, Placed, Boxed
  <2>2. CASE Next
    BY <2>2, StepPlaced, ControlPlaced DEF Next
  <2> QED
    BY <2>1, <2>2
<1>3. Inv => LeakExplained
  BY DEF Inv, Placed, LeakExplained
<1> QED
  BY <1>1, <1>2, <1>3, SandboxTypeCorrect, PTL DEF Spec
=============================================================================
