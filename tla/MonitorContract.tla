--------------------------- MODULE MonitorContract ---------------------------
(***************************************************************************)
(* What one per-run monitor promises to the heartbeat that spawned it      *)
(* (src/daemon/run_monitor.rs): it looks at a session until it reports one *)
(* verdict.  A verdict that ends a silent session goes through a kill      *)
(* request which stands, unchanged, until it is withdrawn or executed, and *)
(* the session is killed by the step that reports it and by no other.      *)
(***************************************************************************)
CONSTANTS
    Kinds,      \* what a kill request may be for
    Others,     \* the verdicts the monitor may give without killing
    None        \* no request, no verdict

VARIABLES request, verdict, killed

vars == <<request, verdict, killed>>

Init == request = None /\ verdict = None /\ killed = FALSE

\* A lethal condition asks for a kill: nobody else's request is replaced.
Request(k) ==
    /\ verdict = None
    /\ request = None
    /\ request' = k
    /\ UNCHANGED <<verdict, killed>>

\* A sign of life withdraws it.
Withdraw ==
    /\ verdict = None
    /\ request # None
    /\ request' = None
    /\ UNCHANGED <<verdict, killed>>

\* The request is executed: its kind becomes the verdict and the session goes.
\* tmux may refuse to kill it, which nobody looks at.
Execute ==
    /\ verdict = None
    /\ request # None
    /\ verdict' = request
    /\ request' = None
    /\ killed' \in BOOLEAN

\* The monitor ends for a reason that needs no kill.
Conclude(v) ==
    /\ verdict = None
    /\ verdict' = v
    /\ killed' = FALSE
    /\ request' \in Kinds \cup {None}
    /\ request # None => request' = request

Next ==
    \/ \E k \in Kinds : Request(k)
    \/ Withdraw
    \/ Execute
    \/ \E v \in Others : Conclude(v)

Spec == Init /\ [][Next]_vars
=============================================================================
