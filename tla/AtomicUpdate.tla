----------------------------- MODULE AtomicUpdate -----------------------------
(***************************************************************************)
(* What a mutation call of the Swarm adapter (Scale, ForceUpdate) promises *)
(* the control loops: one atomic edit of one field of the service as it is *)
(* at that moment, at most once per call, success only after the edit and  *)
(* a reported version conflict only without it.  The other writers of the  *)
(* same services, a stack deploy and a person at the command line, are     *)
(* atomic edits as well.                                                   *)
(***************************************************************************)
EXTENDS Naturals

CONSTANTS
  Service,       \* the services of one stack
  Replica,       \* replica counts
  NoCall,        \* no call in progress
  ForceModulus,  \* where the ForceUpdate counter wraps (2^64 in Swarm)
  Revision       \* Git revisions a service can be deployed from; 0: it does not exist yet

Op == {"scale", "force"}
Call == [service : Service, op : Op, count : Replica]

VARIABLES
  spec,     \* Swarm's spec of each service: replicas, force, revision
  call,     \* the call in progress
  applied,  \* its edit has been made
  answer    \* what the last call returned

vars == <<spec, call, applied, answer>>

Exists(s) == spec[s].revision # 0

(* The edit a call asks for: one field of the spec it is given. *)
Edit(old, c) == IF c.op = "scale" THEN [old EXCEPT !.replicas = c.count]
                                  ELSE [old EXCEPT !.force = (@ + 1) % ForceModulus]

Init ==
  /\ spec \in [Service -> [replicas : Replica, force : 0 .. ForceModulus - 1, revision : Revision]]
  /\ call = NoCall /\ applied = FALSE /\ answer = "none"

Begin ==
  /\ call = NoCall
  /\ \E c \in Call : Exists(c.service) /\ call' = c
  /\ applied' = FALSE /\ answer' = "none"
  /\ UNCHANGED spec

Apply ==
  /\ call # NoCall /\ ~applied
  /\ spec' = [spec EXCEPT ![call.service] = Edit(@, call)]
  /\ applied' = TRUE
  /\ UNCHANGED <<call, answer>>

(* The call ends: with success once it was applied, with an exhausted       *)
(* version conflict only if it was not, with another error either way.      *)
End ==
  /\ call # NoCall /\ call' = NoCall /\ applied' = FALSE
  /\ \/ applied /\ answer' = "ok"
     \/ ~applied /\ answer' = "conflict"
     \/ answer' = "error"
  /\ UNCHANGED spec

(* The calling process dies: nobody learns what became of its call.         *)
Die ==
  /\ call' = NoCall /\ applied' = FALSE /\ answer' = "none"
  /\ UNCHANGED spec

(* A deploy replaces a service's spec but keeps its ForceUpdate counter, or  *)
(* creates the service.                                                      *)
Deploy ==
  /\ \E s \in Service, n \in Replica, r \in Revision \ {0} :
       spec' = [spec EXCEPT ![s] = [replicas |-> n, force |-> @.force, revision |-> r]]
  /\ UNCHANGED <<call, applied, answer>>

OutsideScale ==
  /\ \E s \in Service, n \in Replica :
       Exists(s) /\ spec' = [spec EXCEPT ![s].replicas = n]
  /\ UNCHANGED <<call, applied, answer>>

Next == Begin \/ Apply \/ End \/ Die \/ Deploy \/ OutsideScale

Spec == Init /\ [][Next]_vars
===============================================================================
