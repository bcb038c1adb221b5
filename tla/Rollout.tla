------------------------------- MODULE Rollout -------------------------------
(***************************************************************************)
(* What the GitOps loop promises of the services of a stack: its groups    *)
(* are brought to a released revision one after the other.  A group is     *)
(* written only when every earlier group has completed that revision,      *)
(* nothing goes back to an older one, and nothing runs what Git does not   *)
(* have.  A rollout may stop anywhere and start again with a newer         *)
(* revision.                                                               *)
(***************************************************************************)
EXTENDS Naturals

CONSTANTS
  Stack,
  Groups      \* the number of groups of each stack

VARIABLES
  released,   \* the newest revision of each stack in Git
  touched,    \* per stack and group: the newest revision a service of it has
  applied     \* per stack and group: the revision of its last completed deploy

vars == <<released, touched, applied>>

Init ==
  /\ released = [s \in Stack |-> 1]
  /\ touched = [s \in Stack |-> [g \in 1 .. Groups[s] |-> 0]]
  /\ applied = [s \in Stack |-> [g \in 1 .. Groups[s] |-> 0]]

Release ==
  /\ \A s \in Stack : released'[s] >= released[s]
  /\ UNCHANGED <<touched, applied>>

Write(s, g) ==
  /\ \E r \in touched[s][g] .. released[s] :
       /\ \A f \in 1 .. g - 1 : applied[s][f] = r
       /\ touched' = [touched EXCEPT ![s][g] = r]
  /\ UNCHANGED <<released, applied>>

Complete(s, g) ==
  /\ applied' = [applied EXCEPT ![s][g] = touched[s][g]]
  /\ UNCHANGED <<released, touched>>

Next ==
  \/ Release
  \/ \E s \in Stack : \E g \in 1 .. Groups[s] : Write(s, g) \/ Complete(s, g)

Spec == Init /\ [][Next]_vars
==============================================================================
