------------------------------- MODULE Scaling -------------------------------
(***************************************************************************)
(* The pure replica arithmetic of the autoscaler: the proportional rule    *)
(* with its deadband, the clamp to the policy's bounds, the scale-down     *)
(* stabilization and the step limit (core/autoscaler, app/reconciler).     *)
(*                                                                         *)
(* Metric values and targets are integers in a common unit.  The code      *)
(* divides in float64; Desired states the exact quotient, and the deadband *)
(* states what float64 makes of its edges: 0.9 - 1.0 rounds towards the    *)
(* band and is inside it, 1.1 - 1.0 rounds away from it and is outside.    *)
(***************************************************************************)
EXTENDS Integers

(* v forced into lo..hi. *)
Clamp(v, lo, hi) == IF v < lo THEN lo ELSE IF v > hi THEN hi ELSE v

(* Mutant: no deadband. *)
NoDeadband(value, target) == FALSE

(* |value/target - 1| <= DefaultTolerance, as float64 evaluates it. *)
InDeadband(value, target) == 9 * target <= 10 * value /\ 10 * value < 11 * target

(* Ceil(a / b) for b > 0. *)
CeilDiv(a, b) == (a + b - 1) \div b

(* Mutant: the bounds are not applied. *)
DesiredUnclamped(current, value, p) ==
  IF p.target <= 0 THEN {current}
  ELSE IF current = 0 THEN {p.min}
  ELSE IF InDeadband(value, p.target) THEN {current}
  ELSE {CeilDiv(current * value, p.target)}

(***************************************************************************)
(* The replica counts Desired may return.  There is more than one only for *)
(* a negative value: converting a negative float64 to uint64 is            *)
(* implementation-defined in Go, so the build picks the low or the high    *)
(* end and the clamp makes the minimum or the maximum of it.               *)
(***************************************************************************)
Desired(current, value, p) ==
  IF p.target <= 0 THEN {Clamp(current, p.min, p.max)}
  ELSE IF current = 0 THEN {Clamp(p.min, p.min, p.max)}
  ELSE IF InDeadband(value, p.target) THEN {Clamp(current, p.min, p.max)}
  ELSE IF CeilDiv(current * value, p.target) < 0 THEN {p.min, p.max}
  ELSE {Clamp(CeilDiv(current * value, p.target), p.min, p.max)}

(* Mutant: the guard on growth is missing. *)
ClampStepGrows(current, desired, maxStep) ==
  IF maxStep = 0 THEN desired
  ELSE IF desired >= current THEN current + maxStep
  ELSE IF current > desired + maxStep THEN current - maxStep
  ELSE desired

(* At most maxStep away from current, 0 meaning no limit. *)
ClampStep(current, desired, maxStep) ==
  IF maxStep = 0 THEN desired
  ELSE IF desired > current + maxStep THEN current + maxStep
  ELSE IF current > desired + maxStep THEN current - maxStep
  ELSE desired

(***************************************************************************)
(* Whether `held` is what the stabilizer makes of a recommendation, given  *)
(* the recommendations `recs` still in its window (this one included):     *)
(* growth passes, a shrink stops at the largest recommendation in the      *)
(* window and never turns into growth.                                     *)
(***************************************************************************)
Stabilized(held, current, desired, recs) ==
  IF desired >= current THEN held = desired
  ELSE \E top \in recs : /\ \A r \in recs : r <= top
                         /\ held = IF top > current THEN current ELSE top

(* A value on the way from `from` to the interval lo..hi, or inside it. *)
Between(a, x, b) == (a <= x /\ x <= b) \/ (b <= x /\ x <= a)
TowardBounds(from, to, lo, hi) == Between(from, to, Clamp(from, lo, hi)) \/ (lo <= to /\ to <= hi)
===============================================================================
