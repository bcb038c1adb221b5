--------------------------- MODULE MC_ServiceWriters ---------------------------
(***************************************************************************)
(* web is autoscaled between 1 and 2 while its compose count lies outside  *)
(* that range; the second revision turns its autoscaling off.  db is owned *)
(* by Git: nobody scales it, though it may be force-updated.               *)
(***************************************************************************)
EXTENDS ServiceWriters

MCCompose ==
  [r \in 1 .. MaxRevision |->
     [s \in Service |->
        [enabled |-> s = "web" /\ r = 1, min |-> 1, max |-> 2, replicas |-> IF s = "web" THEN 3 ELSE 1]]]

MCTargets == [s \in Service |-> IF s = "web" THEN {2} ELSE {}]
MCOutsideTargets == [s \in Service |-> IF s = "web" THEN {1} ELSE {}]

(* For the service alone: the autoscaler goes both ways, nobody else scales. *)
MCBothWays == [s \in Service |-> {1, 2}]
MCNoTargets == [s \in Service |-> {}]
===============================================================================
