------------------------------- MODULE Overlay -------------------------------
(***************************************************************************)
(* Maps written over maps.  TLC's own operator for it means the same, but  *)
(* has no definition that a proof could use.                               *)
(***************************************************************************)

Over(f, g) == [x \in DOMAIN f \cup DOMAIN g |-> IF x \in DOMAIN f THEN f[x] ELSE g[x]]
===============================================================================
