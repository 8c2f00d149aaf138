---------------------------- MODULE MCRunMonitor ----------------------------
(* Thresholds in poll intervals, in the order the source gives them.       *)
EXTENDS RunMonitor

MCGapAt == [nudge |-> 0, warn |-> 1, kill |-> 2]
MCFailedAt == [nudge |-> 0, warn |-> 1, kill |-> 2]
=============================================================================
