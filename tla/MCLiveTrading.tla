--------------------------- MODULE MCLiveTrading ---------------------------
(* Instances of LiveTrading: which processes exist and what they may run.  *)
EXTENDS LiveTrading

CONSTANTS p1, p2

(* Session dates of a day before, the same day and a day after.            *)
NearbyDates == {-1, 0, 1}

Together == {[procs |-> Procs, first |-> 1]}

(* One command at a time: started by hand over all days, or around the     *)
(* scheduled phases of the last day.                                       *)
HandOrSchedule == {[procs |-> {p1}, first |-> 1], [procs |-> {p2}, first |-> MaxDay]}
ManualRuns == {"run", "reconcile"}
Operations == {"tick", "on", "off", "cancel", "emergency"}
ManualOrOperations == [p \in Procs |-> IF p = p1 THEN ManualRuns ELSE Operations]

(* Manual runs, by one process or by several.                              *)
RunsAndReconcile == [p \in Procs |-> ManualRuns]
TwoRuns == [p \in Procs |-> {"run"}]

(* Two schedulers whose ticks overlap each other and a reconciliation.     *)
TicksAndReconcile ==
    [p \in Procs |-> IF p = p1 THEN {"tick"} ELSE {"tick", "reconcile"}]
=============================================================================
