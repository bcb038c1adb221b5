------------------------- MODULE MC_ReconcilerHealing -------------------------
(* Two services in one loop: web is only rebalanced, db is only healed.      *)
(* Listings and calls fail at will.                                          *)
EXTENDS Reconciler

CONSTANTS web, db

MCLabelsOf(s) ==
  IF s = web
    THEN {[optIn |-> {"rebalance"}, heal |-> FALSE, rebalance |-> TRUE,
           min |-> 0, max |-> 0, target |-> 0]}
    ELSE {[optIn |-> {"heal"}, heal |-> TRUE, rebalance |-> FALSE,
           min |-> 0, max |-> 0, target |-> 0]}

MCReadings(r) == {10}

MCWindow == [k \in Kind |-> 2]
===============================================================================
