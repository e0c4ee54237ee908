-------------------------------- MODULE Sandbox --------------------------------
(***************************************************************************)
(* The life of the sandboxes of one activity: DockerSandboxProvider and    *)
(* FirecrackerSandboxProvider (packages/providers/docker), used in the way *)
(* sandboxValidationImpl and IntelligentDebugger.debug use them (warm, run *)
(* commands, destroy in a finally), as an activity Temporal times out and  *)
(* retries.  An attempt that timed out keeps running beside its retry, and *)
(* a worker that dies takes its calls with it but nothing on the host.     *)
(***************************************************************************)
EXTENDS Integers

CONSTANTS
    MaxAttempts,   \* retry.maximumAttempts of the activity
    Providers      \* the providers to look at

ASSUME AttemptsAssumption  == MaxAttempts \in Nat
ASSUME ProvidersAssumption == Providers \subseteq {"docker", "firecracker"}

VARIABLES
    provider,   \* the one the worker was built with
    worker,     \* "up" or "down"
    begun,      \* attempts Temporal has started
    expired,    \* the last of them passed its start-to-close timeout
    at,         \* the await each attempt's call is suspended at
    host,       \* what each call has on the host
    failed      \* not in the code: the commands of each call that failed

vars == <<provider, worker, begun, expired, at, host, failed>>

Attempts  == 1 .. MaxAttempts
Resources == {"dir", "mount", "box", "command", "orphan"}
Commands  == {"ports", "mkdir", "fill", "run", "kill", "unmount", "erase"}
Warming   == {"ports", "mkdir", "fill", "runtime", "run"}
Cleaning  == {"kill", "unmount", "erase"}
Live      == Warming \cup {"use", "exec"} \cup Cleaning
Ended     == {"over", "hung", "lost"}

TypeOK ==
    /\ provider \in Providers
    /\ worker \in {"up", "down"}
    /\ begun \in 0 .. MaxAttempts
    /\ expired \in BOOLEAN
    /\ at \in [Attempts -> {"none"} \cup Live \cup Ended]
    /\ host \in [Attempts -> SUBSET Resources]
    /\ failed \in [Attempts -> SUBSET Commands]

Init ==
    /\ provider \in Providers
    /\ worker = "up"
    /\ begun = 0
    /\ expired = FALSE
    /\ at = [a \in Attempts |-> "none"]
    /\ host = [a \in Attempts |-> {}]
    /\ failed = [a \in Attempts |-> {}]

\* A call goes on to its next await with `held` on the host.
Go(a, to, held, bad) ==
    /\ worker = "up"
    /\ at' = [at EXCEPT ![a] = to]
    /\ host' = [host EXCEPT ![a] = held]
    /\ failed' = [failed EXCEPT ![a] = @ \cup bad]
    /\ UNCHANGED <<provider, worker, begun, expired>>

\* warmContainer throws: the caller has no handle yet, so its finally has
\* nothing to destroy and the call is over.
Throw(a, held, command) == Go(a, "over", held, {command})

-----------------------------------------------------------------------------
\* warmContainer of the Docker provider: ports, directories, mount or copy,
\* runtime, docker run.

Ports(a) ==
    /\ provider = "docker" /\ at[a] = "ports"
    /\ \/ Go(a, "mkdir", host[a], {})
       \/ Throw(a, host[a], "ports")

\* Three directories under one base: a failure may come after the first.
MakeDir(a) ==
    /\ provider = "docker" /\ at[a] = "mkdir"
    /\ \/ Go(a, "fill", host[a] \cup {"dir"}, {})
       \/ Throw(a, host[a], "mkdir")
       \/ Throw(a, host[a] \cup {"dir"}, "mkdir")

\* The overlay is mounted, or else the repository copied; the copy may fail.
Fill(a) ==
    /\ provider = "docker" /\ at[a] = "fill"
    /\ \/ Go(a, "runtime", host[a] \cup {"mount"}, {})
       \/ Go(a, "runtime", host[a], {})
       \/ Throw(a, host[a], "fill")

\* runsc if it is there, runc otherwise: never an error.
Runtime(a) ==
    /\ provider = "docker" /\ at[a] = "runtime"
    /\ Go(a, "run", host[a], {})

Run(a) ==
    /\ provider = "docker" /\ at[a] = "run"
    /\ \/ Go(a, "use", host[a] \cup {"box"}, {})
       \/ Throw(a, host[a], "run")

-----------------------------------------------------------------------------
\* warmContainer of the Firecracker provider: a directory, a copy whose failure
\* is ignored, a detached process, its socket and API, ports.

VmMakeDir(a) ==
    /\ provider = "firecracker" /\ at[a] = "mkdir"
    /\ \/ Go(a, "fill", host[a] \cup {"dir"}, {})
       \/ Throw(a, host[a], "mkdir")

\* The process is detached before anyone knows whether it works.
VmSpawn(a) ==
    /\ provider = "firecracker" /\ at[a] = "fill"
    /\ Go(a, "run", host[a] \cup {"box"}, {})

\* Its socket does not come up in time, or one of four API calls fails.
VmBoot(a) ==
    /\ provider = "firecracker" /\ at[a] = "run"
    /\ \/ Go(a, "ports", host[a], {})
       \/ Throw(a, host[a], "run")

VmPorts(a) ==
    /\ provider = "firecracker" /\ at[a] = "ports"
    /\ \/ Go(a, "use", host[a], {})
       \/ Throw(a, host[a], "ports")

-----------------------------------------------------------------------------
\* What the caller does with its handle.

Exec(a) ==
    /\ at[a] = "use"
    /\ Go(a, "exec", host[a] \cup {"command"}, {})

Answer(a) ==
    /\ at[a] = "exec"
    /\ Go(a, "use", host[a] \ {"command"}, {})

\* A mutant of ExecTimeout: the command is waited for as long as it takes.
NoTimeout(a) ==
    /\ at[a] = "exec" /\ "command" \notin host[a]
    /\ Go(a, "use", host[a], {})

\* execa kills its own child, the docker or ssh client; execInContainer answers
\* with exit code 1 and the command goes on in the box.
ExecTimeout(a) ==
    /\ at[a] = "exec"
    /\ Go(a, "use", (host[a] \ {"command"}) \cup {"orphan"}, {})

\* A debugger waits for an answer nobody will send any more (DebugSession).
Hang(a) ==
    /\ at[a] = "use"
    /\ Go(a, "hung", host[a], {})

\* The caller returns or throws; either way its finally destroys the sandbox.
Finish(a) ==
    /\ at[a] = "use"
    /\ Go(a, "kill", host[a], {})

-----------------------------------------------------------------------------
\* destroyContainer: every command is tried, every failure swallowed.

Boxed == {"box", "command", "orphan"}

\* A mutant of Kill: the directory is removed before it is unmounted.
KillAndErase(a) ==
    /\ provider = "docker" /\ at[a] = "kill"
    /\ \/ Go(a, "erase", host[a] \ Boxed, {})
       \/ Go(a, "erase", host[a], {"kill"})

Kill(a) ==
    /\ provider = "docker" /\ at[a] = "kill"
    /\ \/ Go(a, "unmount", host[a] \ Boxed, {})
       \/ Go(a, "unmount", host[a], {"kill"})

\* Without a mount umount fails too, and nobody minds.
Unmount(a) ==
    /\ provider = "docker" /\ at[a] = "unmount"
    /\ \/ Go(a, "erase", host[a] \ {"mount"}, {})
       \/ "mount" \in host[a] /\ Go(a, "erase", host[a], {"unmount"})

\* A directory that is still a mount point cannot be removed.
Erase(a) ==
    /\ at[a] = "erase"
    /\ \/ "mount" \notin host[a] /\ Go(a, "over", host[a] \ {"dir"}, {})
       \/ Go(a, "over", host[a], {"erase"})

VmStop(a) ==
    /\ provider = "firecracker" /\ at[a] = "kill"
    /\ \/ Go(a, "erase", host[a] \ Boxed, {})
       \/ Go(a, "erase", host[a], {"kill"})

-----------------------------------------------------------------------------
\* Temporal and the worker.

First == IF provider = "docker" THEN "ports" ELSE "mkdir"

\* The first attempt, or the retry of one that timed out.
Begin ==
    /\ worker = "up" /\ begun < MaxAttempts
    /\ begun = 0 \/ expired
    /\ begun' = begun + 1
    /\ expired' = FALSE
    /\ at' = [at EXCEPT ![begun + 1] = First]
    /\ UNCHANGED <<provider, worker, host, failed>>

\* The timeout ends the attempt for Temporal, not for the worker's code; it is
\* also how Temporal learns of a worker that died.
Expire ==
    /\ begun > 0 /\ ~expired /\ at[begun] # "over"
    /\ expired' = TRUE
    /\ UNCHANGED <<provider, worker, begun, at, host, failed>>

\* Whatever was running is forgotten; what it had on the host stays there.  (The
\* virtual machine's own exit is one cause: nobody handles the rejection of its
\* detached process.)
Crash ==
    /\ worker = "up" /\ \E a \in Attempts : at[a] \in Live \cup {"hung"}
    /\ worker' = "down"
    /\ at' = [a \in Attempts |-> IF at[a] \in Live \cup {"hung"} THEN "lost" ELSE at[a]]
    /\ UNCHANGED <<provider, begun, expired, host, failed>>

Restart ==
    /\ worker = "down"
    /\ worker' = "up"
    /\ UNCHANGED <<provider, begun, expired, at, host, failed>>

Closed ==
    /\ begun > 0 /\ worker = "up" /\ \A a \in Attempts : at[a] \notin Live
    /\ begun = MaxAttempts \/ ~expired
    /\ UNCHANGED vars

\* What the call itself goes on to do.
Step(a) ==
    \/ Ports(a) \/ MakeDir(a) \/ Fill(a) \/ Runtime(a) \/ Run(a)
    \/ VmMakeDir(a) \/ VmSpawn(a) \/ VmBoot(a) \/ VmPorts(a)
    \/ ExecTimeout(a)
    \/ Kill(a) \/ VmStop(a) \/ Unmount(a) \/ Erase(a)

Next ==
    \/ \E a \in Attempts : Step(a) \/ Exec(a) \/ Answer(a) \/ Hang(a) \/ Finish(a)
    \/ Begin \/ Expire \/ Crash \/ Restart \/ Closed

Spec == Init /\ [][Next]_vars

\* The host's commands end, one way or the other, a command in the box is given
\* up after its timeout, and a caller runs finitely many of them.
Fairness ==
    \A a \in Attempts : WF_vars(Step(a)) /\ SF_vars(Finish(a))

FairSpec == Spec /\ Fairness

-----------------------------------------------------------------------------
\* What a finished call left on the host is there because of a command that
\* failed, and the kind says which: a directory or mount of a warm-up that
\* threw after making it, or a removal that failed.  No timeout of a command,
\* error of a strategy or retry of the activity leaves anything by itself.
LeakExplained ==
    \A a \in Attempts : at[a] = "over" =>
        /\ host[a] \cap Boxed # {} =>
              \/ "kill" \in failed[a]
              \/ provider = "firecracker" /\ failed[a] \cap {"run", "ports"} # {}
        /\ "mount" \in host[a] => failed[a] \cap {"run", "unmount"} # {}
        /\ "dir" \in host[a] => failed[a] # {}

\* A sandbox somebody works in is given back, unless a command of its removal
\* fails, the caller hangs, or the worker dies.
Released ==
    \A a \in Attempts :
        at[a] = "use" ~> host[a] = {} \/ failed[a] # {} \/ at[a] \in {"hung", "lost"}
=============================================================================
