----------------------- MODULE MC_ReconcilerConvergence -----------------------
(* The closed loop: one service under a constant total load, whose metric is *)
(* the load per replica. Nobody else writes to it; calls and reads may fail  *)
(* for a while. The loop starts from every replica count.                    *)
EXTENDS Reconciler

CONSTANTS web, Load, Target, Min, Max

Policy == [optIn |-> {"enabled"}, heal |-> FALSE, rebalance |-> FALSE,
           min |-> Min, max |-> Max, target |-> Target]
MCLabelsOf(s) == {Policy}

(* Load is divisible by every count the service can have. *)
MCReadings(r) == {IF r = 0 THEN 0 ELSE Load \div r}

MCWindow == [k \in Kind |-> IF k = "down" THEN 2 ELSE 1]

(* Under a constant load the replica count settles at an adequate one and    *)
(* stays there, once reads and calls succeed: proportional rule, deadband,   *)
(* stabilizer, step limit and cooldowns together neither oscillate nor stop  *)
(* short (autoscaler.go, stabilizer.go, guard.go).                           *)
SettlesAtAdequate ==
  <>[][~CallFails /\ ~NoValue]_vars =>
    \E n \in Replica : Adequate(Policy, n) /\ <>[](replicas[web] = n)
===============================================================================
