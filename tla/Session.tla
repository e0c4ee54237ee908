-------------------------------- MODULE Session --------------------------------
(***************************************************************************)
(* What a coding session promises to the operator who watches and signals  *)
(* it, whatever its correction cycles do.                                  *)
(***************************************************************************)

VARIABLES status,   \* what the session is doing, or how it ended
          mailbox,  \* the last decision the session has not used
          stopped   \* the operator asked it to stop

avars == <<status, mailbox, stopped>>

\* What a session stays in: its four ends, and "stuck", where it still counts as
\* running but never gets on.
Final == {"completed", "failed", "cancelled", "crashed", "stuck"}

Init == status = "working" /\ mailbox = "none" /\ stopped = FALSE

\* From one status to another, on its own.
Goes(from, to) == /\ status = from
                  /\ status' = to
                  /\ UNCHANGED <<mailbox, stopped>>

\* The session needs a human.
Ask == Goes("working", "waiting")

\* The work is done, or was let go by a human: the lesson is written.
Conclude == ~stopped /\ Goes("working", "concluding")

Finish == Goes("concluding", "completed")

Crash == Goes("working", "crashed") \/ Goes("concluding", "crashed")

\* The plan its work was to start from cannot be used.
GetStuck == Goes("working", "stuck")

\* A session that finds it was stopped gives up.
GiveUp == stopped /\ Goes("working", "cancelled")

\* An approval wakes a waiting session, which goes on or concludes, and is used
\* up by it.
Resume == /\ status = "waiting"
          /\ mailbox = "approve" /\ ~stopped
          /\ status' \in {"working", "concluding"}
          /\ mailbox' = "none"
          /\ UNCHANGED stopped

\* A rejection, no answer in time, or too little budget left.
TurnDown == Goes("waiting", "failed")

\* The operator's two signals; a stop may end the session at once.
Decide == /\ status \notin Final
          /\ mailbox' \in {"approve", "reject"}
          /\ UNCHANGED <<status, stopped>>

Stop == /\ status \notin Final
        /\ ~stopped
        /\ stopped' = TRUE
        /\ \/ UNCHANGED status
           \/ status \in {"working", "waiting"} /\ status' = "cancelled"
           \/ status = "waiting" /\ status' = "failed"
        /\ UNCHANGED mailbox

Proceed == Ask \/ Conclude \/ Finish \/ Crash \/ GetStuck \/ GiveUp \/ Resume \/ TurnDown

Next == Proceed \/ Decide \/ Stop

Spec == Init /\ [][Next]_avars
=============================================================================
