------------------------- MODULE MC_ReconcilerActions -------------------------
(* One service opted into all three capabilities, so that its scales, heals  *)
(* and rebalances contend for one cooldown; dry run and live.                *)
EXTENDS Reconciler

CONSTANT web

MCLabelsOf(s) == {[optIn |-> {"enabled", "rebalance"}, heal |-> TRUE, rebalance |-> TRUE,
                   min |-> 1, max |-> 2, target |-> 10]}

(* A reading of 0 asks for the minimum, one at twice the target for more. *)
MCReadings(r) == {0, 20}

MCWindow == [k \in Kind |-> CASE k = "up" -> 1 [] k = "down" -> 2 [] k = "heal" -> 2
                              [] k = "rebalance" -> 3]
===============================================================================
