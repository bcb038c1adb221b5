------------------------- MODULE MC_ReconcilerScaling -------------------------
(* One autoscaled service with the stabilizer on, whose labels and count are *)
(* also changed from outside, and a process that may restart.                *)
EXTENDS Reconciler

CONSTANT web

MCLabelsOf(s) ==
  LET On(min, max) == [optIn |-> {"enabled"}, heal |-> FALSE, rebalance |-> FALSE,
                       min |-> min, max |-> max, target |-> 10]
  IN {On(1, 2), On(0, 1)}

(* A negative reading, 0, on target, and at twice the target per replica. *)
MCReadings(r) == {-10, 0, 10, 20}

MCWindow == [k \in Kind |-> CASE k = "up" -> 1 [] k = "down" -> 2 [] k = "heal" -> 2
                              [] k = "rebalance" -> 2]
===============================================================================
