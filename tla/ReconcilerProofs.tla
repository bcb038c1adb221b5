--------------------------- MODULE ReconcilerProofs ---------------------------
(***************************************************************************)
(* Proofs about the reconcile loop, for every set of services, every       *)
(* label set and every setting of the windows and bounds.                  *)
(***************************************************************************)
EXTENDS Reconciler, TLAPS

-------------------------------------------------------------------------------
(* The arithmetic of a scale.                                              *)

(* A clamped value lies within the bounds. *)
LEMMA ClampInBounds ==
  ASSUME NEW v \in Int, NEW lo \in Int, NEW hi \in Int, lo <= hi
  PROVE  Clamp(v, lo, hi) \in lo .. hi
BY DEF Clamp

(* Rounding up a quotient yields an integer. *)
LEMMA CeilDivIsInt ==
  ASSUME NEW a \in Int, NEW b \in Nat, b > 0
  PROVE  CeilDiv(a, b) \in Int
BY DEF CeilDiv

(* Whatever the metric reads, Desired respects the policy's bounds. *)
LEMMA DesiredInBounds ==
  ASSUME NEW current \in Nat, NEW value \in Int, NEW p \in LabelSet, p.min <= p.max
  PROVE  Desired(current, value, p) \subseteq p.min .. p.max
<1>1. p.min \in Int /\ p.max \in Int /\ p.target \in Nat /\ current \in Int
  BY ConstantsOK DEF LabelSet, Replica
<1>2. current * value \in Int
  OBVIOUS
<1>3. p.target > 0 => CeilDiv(current * value, p.target) \in Int
  BY <1>1, <1>2, CeilDivIsInt
<1>4. Clamp(current, p.min, p.max) \in p.min .. p.max
  BY <1>1, ClampInBounds
<1>5. Clamp(p.min, p.min, p.max) \in p.min .. p.max
  BY <1>1, ClampInBounds
<1>6. p.target > 0 => Clamp(CeilDiv(current * value, p.target), p.min, p.max) \in p.min .. p.max
  BY <1>1, <1>3, ClampInBounds
<1> QED
  BY <1>1, <1>3, <1>4, <1>5, <1>6 DEF Desired

(* The step limit stops somewhere on the way from the current count to the *)
(* desired one.                                                            *)
LEMMA ClampStepBetween ==
  ASSUME NEW current \in Nat, NEW desired \in Nat, NEW maxStep \in Nat
  PROVE  /\ ClampStep(current, desired, maxStep) \in Nat
         /\ Between(current, ClampStep(current, desired, maxStep), desired)
BY DEF ClampStep, Between

(* The held count lies between the recommendation and the current count    *)
(* when the recommendation is in the window.                               *)
LEMMA StabilizedBetween ==
  ASSUME NEW current \in Nat, NEW desired \in Nat, NEW held \in Nat,
         NEW recs \in SUBSET Nat, desired \in recs,
         Stabilized(held, current, desired, recs)
  PROVE  Between(current, held, desired)
BY DEF Stabilized, Between

(* A count between the current one and one inside the bounds is on the way *)
(* to the bounds, or inside them.                                          *)
LEMMA BetweenIsToward ==
  ASSUME NEW from \in Nat, NEW to \in Nat, NEW lo \in Nat, NEW hi \in Nat,
         NEW goal \in lo .. hi, lo <= hi, Between(from, to, goal)
  PROVE  TowardBounds(from, to, lo, hi)
BY DEF Between, TowardBounds, Clamp

-------------------------------------------------------------------------------
(* Type correctness.                                                       *)

(* The label sets in use have sane bounds. *)
LEMMA LabelsSane ==
  ASSUME NEW l \in Labels
  PROVE  /\ l \in LabelSet
         /\ l.min \in Replica /\ l.max \in Replica /\ l.min <= l.max
         /\ l.target \in Nat
BY LabelsOK, ConstantsOK DEF LabelSet, ValidPolicy, Replica

(* Ages saturate within their range, and only grow. *)
LEMMA OlderIsAge ==
  ASSUME NEW age \in Age
  PROVE  Older(age) \in Age /\ age <= Older(age)
BY ConstantsOK DEF Older, Age

LEMMA OlderMonotone ==
  ASSUME NEW a \in Age, NEW b \in Age, a <= b
  PROVE  Older(a) <= Older(b)
BY ConstantsOK DEF Older, Age

(* The tick's clock reading is an age well inside the horizon. *)
LEMMA LagIsAge ==
  ASSUME NEW l \in 0 .. MaxLag
  PROVE  l \in Age /\ l + StabilizationWindow < Horizon
BY ConstantsOK, HorizonOK DEF Age

LEMMA InitialValues ==
  /\ AnyService \in Service
  /\ NothingSeen \in [Service -> [replicas : Replica, labels : Labels]]
<1>1. AnyService \in Service
  BY ConstantsOK DEF AnyService
<1>2. \E l \in Labels : TRUE
  BY <1>1, LabelsOK DEF Labels
<1>3. (CHOOSE l \in Labels : TRUE) \in Labels
  BY <1>2
<1>4. 0 \in Replica
  BY ConstantsOK DEF Replica
<1> QED
  BY <1>1, <1>3, <1>4 DEF NothingSeen

(* What a scale sends to Swarm, for a reading of the metric: it is a count   *)
(* between the observed one and one inside the policy's bounds.              *)
LEMMA FinalCount ==
  ASSUME NEW current \in Replica, NEW l \in Labels, NEW value \in Int,
         NEW desired \in Desired(current, value, l), NEW held \in Replica,
         NEW recs \in SUBSET Replica, desired \in recs,
         \/ held = desired
         \/ Stabilized(held, current, desired, recs)
  PROVE  /\ desired \in Replica
         /\ ClampStep(current, held, MaxStep) \in Replica
         /\ TowardBounds(current, ClampStep(current, held, MaxStep), l.min, l.max)
<1>1. /\ l \in LabelSet
      /\ l.min \in Nat /\ l.max \in Nat /\ l.min <= l.max /\ l.max <= MaxReplicas
  BY LabelsSane, ConstantsOK DEF Replica
<1>2. current \in Nat /\ current <= MaxReplicas /\ held \in Nat /\ held <= MaxReplicas
  BY ConstantsOK DEF Replica
<1>3. desired \in l.min .. l.max
  BY <1>1, <1>2, DesiredInBounds
<1>4. desired \in Nat /\ desired <= MaxReplicas
  BY <1>1, <1>3, ConstantsOK
<1>5. recs \in SUBSET Nat
  BY ConstantsOK DEF Replica
<1>6. Between(current, held, desired)
  <2>1. CASE held = desired
    BY <2>1, <1>2, <1>4 DEF Between
  <2>2. CASE Stabilized(held, current, desired, recs)
    BY <2>2, <1>2, <1>4, <1>5, StabilizedBetween
  <2> QED
    BY <2>1, <2>2
<1> DEFINE final == ClampStep(current, held, MaxStep)
<1>7. final \in Nat /\ Between(current, final, held)
  BY <1>2, ClampStepBetween, ConstantsOK
<1> HIDE DEF final
<1>8. Between(current, final, desired)
  BY <1>2, <1>4, <1>6, <1>7 DEF Between
<1>9. final <= MaxReplicas
  BY <1>2, <1>4, <1>7, <1>8, ConstantsOK DEF Between
<1>10. TowardBounds(current, final, l.min, l.max)
  BY <1>1, <1>2, <1>3, <1>7, <1>8, BetweenIsToward
<1> QED
  BY <1>4, <1>7, <1>9, <1>10, ConstantsOK DEF Replica, final

(* Every recommendation is a replica count. *)
LEMMA DesiredReplica ==
  ASSUME NEW current \in Replica, NEW l \in Labels, NEW value \in Int,
         NEW desired \in Desired(current, value, l)
  PROVE  desired \in Replica
<1>1. /\ l \in LabelSet /\ current \in Nat
      /\ l.min \in Nat /\ l.max \in Nat /\ l.min <= l.max /\ l.max <= MaxReplicas
  BY LabelsSane, ConstantsOK DEF Replica
<1>2. desired \in l.min .. l.max
  BY <1>1, DesiredInBounds
<1> QED
  BY <1>1, <1>2, ConstantsOK DEF Replica

(* A method of the Guard leaves its place in the loop and the call in order: *)
(* the action is over, or it is logged or on its way with its window behind  *)
(* it.  Before its return no method touches the record.                      *)
Decided(s, kind) ==
  /\ sinceAction' = sinceAction
  /\ op' \in Kind \cup {NoOp}
  /\ pc' \in {"Services", "Done", "Heal", "Would", "Sent"}
  /\ pc' \in {"Would", "Sent"} => op' = kind /\ Window[kind] <= sinceAction[s]
  /\ pc' = "Sent" => ~dryRun

LEMMA GuardOutcome ==
  ASSUME TypeOK, NEW s \in Service, NEW kind \in Kind,
         (kind = "heal" /\ GuardHeal(s)) \/ (kind = "rebalance" /\ GuardRebalance(s))
  PROVE  Decided(s, kind) /\ target' = target
<1>1. Window[kind] \in Nat /\ sinceAction[s] \in Nat
  BY ConstantsOK DEF TypeOK, Age
<1>2. Allowed(s, Window[kind]) => Window[kind] <= sinceAction[s]
  BY <1>1 DEF Allowed
<1>3. CASE kind = "heal" /\ GuardHeal(s)
  BY <1>2, <1>3 DEF GuardHeal, Decided, TypeOK
<1>4. CASE kind = "rebalance" /\ GuardRebalance(s)
  BY <1>2, <1>4 DEF GuardRebalance, Decided, TypeOK
<1> QED
  BY <1>3, <1>4

LEMMA GuardScaleOutcome ==
  ASSUME TypeOK, NEW s \in Service, NEW final \in Replica, GuardScale(s, final)
  PROVE  /\ Decided(s, IF final > seen[s].replicas THEN "up" ELSE "down")
         /\ target' \in Replica
         /\ pc' = "Sent" => target' = final /\ final # seen[s].replicas
<1> DEFINE kind == IF final > seen[s].replicas THEN "up" ELSE "down"
<1>1. kind \in Kind
  BY DEF Kind
<1>2. Window[kind] \in Nat /\ sinceAction[s] \in Nat
  BY <1>1, ConstantsOK DEF TypeOK, Age
<1>3. Allowed(s, Window[kind]) => Window[kind] <= sinceAction[s]
  BY <1>2 DEF Allowed
<1>4. /\ UNCHANGED sinceAction
      /\ \/ pc' = "Heal" /\ UNCHANGED callVars
         \/ /\ Allowed(s, Window[kind])
            /\ pc' = "Would" /\ op' = kind /\ UNCHANGED target
         \/ /\ Allowed(s, Window[kind]) /\ ~dryRun /\ final # seen[s].replicas
            /\ pc' = "Sent" /\ op' = kind /\ target' = final
  BY DEF GuardScale
<1> HIDE DEF kind
<1>5. Decided(s, kind)
  BY <1>1, <1>3, <1>4 DEF Decided, TypeOK, callVars
<1>6. target' \in Replica /\ (pc' = "Sent" => target' = final /\ final # seen[s].replicas)
  BY <1>4 DEF TypeOK, callVars
<1> QED
  BY <1>5, <1>6 DEF kind

(* What the three methods have in common when they return. *)
Returns == ScaleReturns \/ HealReturns \/ RebalanceReturns

LEMMA ReturnsOutcome ==
  ASSUME TypeOK, Returns
  PROVE  /\ op \in Kind /\ pc' = After(op) /\ op' = NoOp /\ target' \in Replica
         /\ pc' \in {"Services", "Done", "Heal"}
         /\ UNCHANGED <<swarmVars, dryRun, lag, tickVars, visitVars, history, wanted>>
         /\ \/ /\ Record(cur) /\ forgotten' = [forgotten EXCEPT ![cur] = FALSE]
               /\ sinceApplied' \in {sinceApplied, [sinceApplied EXCEPT ![cur] = 0]}
            \/ UNCHANGED <<sinceAction, forgotten, sinceApplied>>
<1>1. PICK kind \in Kind :
        /\ op = kind
        /\ \/ LogEnds /\ Record(cur)
           \/ CallEnds(TRUE) /\ Record(cur)
           \/ CallEnds(FALSE) /\ UNCHANGED sinceAction
  BY DEF Returns, ScaleReturns, HealReturns, RebalanceReturns, Kind
<1>2. After(op) \in {"Services", "Done", "Heal"}
  BY DEF After
<1>3. 0 \in Replica
  BY ConstantsOK DEF Replica
<1> QED
  BY <1>1, <1>2, <1>3 DEF LogEnds, CallEnds, TypeOK

(* The recommendations the stabilizer keeps after a new one, of this tick.   *)
KeptWith(desired) == InWindow(history[cur]) \cup {[age |-> lag, rec |-> desired]}

(* What a metric reading leads to: a count on the way to the bounds that     *)
(* does not shrink below any recommendation kept.                            *)
LEMMA ValueOutcome ==
  ASSUME TypeOK, Value
  PROVE  \E desired \in Replica, final \in Replica :
           /\ GuardScale(cur, final)
           /\ TowardBounds(seen[cur].replicas, final, seen[cur].labels.min, seen[cur].labels.max)
           /\ IF StabilizationWindow = 0
                THEN history' = history /\ wanted' = wanted
                ELSE /\ history' = [history EXCEPT ![cur] = KeptWith(desired)]
                     /\ wanted' = [wanted EXCEPT ![cur] =
                                     [r \in Replica |-> IF r <= desired THEN lag ELSE wanted[cur][r]]]
                     /\ final < seen[cur].replicas =>
                          \A e \in KeptWith(desired) : e.rec <= final
<1> DEFINE current == seen[cur].replicas
           l == seen[cur].labels
           Recs(d) == {e.rec : e \in KeptWith(d)}
           Effect(d) ==
             /\ \E held \in Replica :
                  /\ IF StabilizationWindow = 0 THEN held = d
                                                ELSE Stabilized(held, current, d, Recs(d))
                  /\ GuardScale(cur, ClampStep(current, held, MaxStep))
             /\ history' = IF StabilizationWindow = 0 THEN history
                                                      ELSE [history EXCEPT ![cur] = KeptWith(d)]
             /\ wanted' = IF StabilizationWindow = 0 THEN wanted
                          ELSE [wanted EXCEPT ![cur] =
                                  [r \in Replica |-> IF r <= d THEN lag ELSE wanted[cur][r]]]
<1>1. current \in Replica /\ l \in Labels /\ cur \in Service /\ lag \in Age
  BY LagIsAge DEF TypeOK
<1>2. PICK value \in Readings(replicas[cur]) : \E d \in Desired(current, value, l) : Effect(d)
  BY DEF Value, KeptWith
<1>3. PICK desired \in Desired(current, value, l) : Effect(desired)
  BY <1>2
<1>4. PICK held \in Replica :
        /\ IF StabilizationWindow = 0 THEN held = desired
                                      ELSE Stabilized(held, current, desired, Recs(desired))
        /\ GuardScale(cur, ClampStep(current, held, MaxStep))
  BY <1>3
<1> DEFINE recs == Recs(desired)
           final == ClampStep(current, held, MaxStep)
<1>5. value \in Int
  BY ReadingsOK DEF TypeOK
<1>6. desired \in Replica
  BY <1>1, <1>5, DesiredReplica
<1>7. KeptWith(desired) \in SUBSET [age : Age, rec : Replica]
  BY <1>1, <1>6 DEF InWindow, TypeOK, KeptWith
<1>8. recs \in SUBSET Replica /\ desired \in recs /\ \A e \in KeptWith(desired) : e.rec \in recs
  BY <1>7 DEF KeptWith
<1>9. final \in Replica /\ TowardBounds(current, final, l.min, l.max)
  <2> HIDE DEF current, l, recs
  <2> QED
    BY <1>1, <1>4, <1>5, <1>8, FinalCount DEF recs, current, l
<1>10. ASSUME StabilizationWindow # 0, final < current
       PROVE  \A e \in KeptWith(desired) : e.rec <= final
  <2> HIDE DEF recs, current
  <2>1. current \in Nat /\ desired \in Nat /\ held \in Nat /\ recs \in SUBSET Nat
    BY <1>1, <1>6, <1>8, ConstantsOK DEF Replica
  <2>2. Stabilized(held, current, desired, recs)
    BY <1>4, <1>10 DEF recs
  <2>3. held <= final /\ held < current
    BY <1>10, <2>1, ConstantsOK DEF ClampStep
  <2>4. \A r \in recs : r <= held
    BY <2>1, <2>2, <2>3 DEF Stabilized
  <2>5. final \in Nat
    BY <1>9, ConstantsOK DEF Replica
  <2> HIDE DEF final
  <2>6. SUFFICES ASSUME NEW e \in KeptWith(desired)
                 PROVE  e.rec <= final
    OBVIOUS
  <2>7. e.rec \in recs
    BY <1>8
  <2>8. e.rec \in Nat /\ e.rec <= held
    BY <2>1, <2>4, <2>7
  <2> QED
    BY <2>1, <2>3, <2>5, <2>8
<1> QED
  BY <1>3, <1>4, <1>6, <1>9, <1>10

(* Every step keeps the types, one step of the proof per action. *)
LEMMA TypeStep == TypeOK /\ [Next]_vars => TypeOK'
<1> SUFFICES ASSUME TypeOK, [Next]_vars
             PROVE  TypeOK'
  OBVIOUS
<1> USE DEF swarmVars, tickVars, visitVars, callVars, memoryVars, ghostVars
<1>0. 0 \in 0 .. MaxLag /\ 0 \in Replica /\ 0 \in Age /\ Horizon \in Age
  BY ConstantsOK DEF Replica, Age
<1>1. CASE Tick
  BY <1>1 DEF TypeOK, Tick
<1>2. CASE ManagedServices
  <2>1. ASSUME NEW label, NEW here, NEW next \in {"ListHeal", "ListRebalance", "ListNodes"},
               ListByLabel(label, here, next)
        PROVE  TypeOK'
    <3>1. \A s \in Service : (IF s \in Replicated THEN replicas[s] ELSE 0) \in Replica
      BY <1>0 DEF TypeOK
    <3>2. seen' \in [Service -> [replicas : Replica, labels : Labels]]
      BY <2>1, <3>1 DEF ListByLabel, TypeOK
    <3> QED
      BY <2>1, <3>2 DEF ListByLabel, TypeOK
  <2> QED
    BY <1>2, <2>1 DEF ManagedServices
<1>3. CASE ManagedServicesFails
  BY <1>3 DEF TypeOK, ManagedServicesFails, InTick
<1>4. ASSUME NEW ok \in BOOLEAN, Nodes(ok)
      PROVE  TypeOK'
  BY <1>0, <1>4 DEF TypeOK, Nodes, InTick
<1>5. ASSUME NEW s \in Service, NEW ok \in BOOLEAN, Tasks(s, ok)
      PROVE  TypeOK'
  <2>1. pendingFor[s] \in Int /\ lag \in Int
    BY ConstantsOK DEF TypeOK, Age, NotPending
  <2>2. CASE ok
    BY <1>5, <2>1, <2>2 DEF TypeOK, Tasks, InTick, NotPending
  <2>3. CASE ~ok
    BY <1>5, <2>3 DEF TypeOK, Tasks
  <2> QED
    BY <2>2, <2>3
<1>6. CASE NoValue
  BY <1>6 DEF TypeOK, NoValue, InTick
<1>7. CASE Value
  <2>1. cur \in Service /\ lag \in Age
    BY LagIsAge DEF TypeOK
  <2>2. PICK desired \in Replica, final \in Replica :
          /\ GuardScale(cur, final)
          /\ IF StabilizationWindow = 0
               THEN history' = history /\ wanted' = wanted
               ELSE /\ history' = [history EXCEPT ![cur] = KeptWith(desired)]
                    /\ wanted' = [wanted EXCEPT ![cur] =
                                    [r \in Replica |-> IF r <= desired THEN lag ELSE wanted[cur][r]]]
    BY <1>7, ValueOutcome
  <2>3. /\ sinceAction' \in [Service -> Age]
        /\ op' \in Kind \cup {NoOp} /\ target' \in Replica
        /\ pc' \in {"Services", "Done", "Heal", "Would", "Sent"}
    BY <2>1, <2>2, GuardScaleOutcome DEF Decided, TypeOK
  <2>4. KeptWith(desired) \in SUBSET [age : Age, rec : Replica]
    BY <2>1, <2>2 DEF InWindow, TypeOK, KeptWith
  <2>5. history' \in [Service -> SUBSET [age : Age, rec : Replica]]
    BY <2>2, <2>4 DEF TypeOK
  <2>6. wanted' \in [Service -> [Replica -> Age]]
    <3>1. [r \in Replica |-> IF r <= desired THEN lag ELSE wanted[cur][r]] \in [Replica -> Age]
      BY <2>1 DEF TypeOK
    <3> QED
      BY <2>1, <2>2, <3>1 DEF TypeOK
  <2> QED
    BY <1>7, <2>3, <2>5, <2>6 DEF Value, TypeOK, InTick
<1>8. CASE Heal
  <2>1. CASE GuardHeal(cur)
    <3>1. cur \in Service /\ "heal" \in Kind
      BY DEF TypeOK, Kind
    <3>2. Decided(cur, "heal") /\ target' = target
      BY <2>1, <3>1, GuardOutcome
    <3> QED
      BY <1>8, <3>2 DEF Heal, Decided, TypeOK, InTick
  <2>2. CASE pc' = "Services" /\ UNCHANGED <<sinceAction, callVars>>
    BY <1>8, <2>2 DEF Heal, TypeOK, InTick
  <2> QED
    BY <1>8, <2>1, <2>2 DEF Heal
<1>9. CASE AllVisited
  BY <1>9 DEF TypeOK, AllVisited, InTick
<1>10. CASE Rebalance
  <2>1. ASSUME NEW s \in Movable, cur' = s, GuardRebalance(s)
        PROVE  TypeOK'
    <3>1. s \in Service /\ "rebalance" \in Kind
      BY DEF TypeOK, Kind, Movable
    <3>2. Decided(s, "rebalance") /\ target' = target
      BY <2>1, <3>1, GuardOutcome
    <3> QED
      BY <1>10, <2>1, <3>1, <3>2 DEF Rebalance, Decided, TypeOK, InTick
  <2>2. CASE pc' = "Done" /\ UNCHANGED <<cur, sinceAction, callVars>>
    BY <1>10, <2>2 DEF Rebalance, TypeOK, InTick
  <2> QED
    BY <1>10, <2>1, <2>2 DEF Rebalance
<1>11. CASE Return
  <2>1. NothingSeen \in [Service -> [replicas : Replica, labels : Labels]] /\ AnyService \in Service
    BY InitialValues
  <2>2. seenFor' \in Int /\ seen' \in [Service -> [replicas : Replica, labels : Labels]]
    BY <1>11, <2>1 DEF Return, NotPending
  <2> QED
    BY <1>0, <1>11, <2>1, <2>2 DEF TypeOK, Return
<1>12. CASE Apply
  <2>1. pendingFor' \in [Service -> Age \cup {NotPending}]
    <3>1. ASSUME NEW age \in {0, NotPending},
                 pendingFor' = [pendingFor EXCEPT ![cur] = IF @ = NotPending THEN @ ELSE age]
          PROVE  pendingFor' \in [Service -> Age \cup {NotPending}]
      BY <1>0, <3>1 DEF TypeOK
    <3>2. CASE UNCHANGED pendingFor
      BY <3>2 DEF TypeOK
    <3> QED
      BY <1>12, <3>1, <3>2 DEF Apply
  <2>2. replicas' \in [Service -> Replica]
    BY <1>12 DEF TypeOK, Apply
  <2> QED
    BY <1>0, <1>12, <2>1, <2>2 DEF TypeOK, Apply, InTick
<1>13. CASE Returns
  <2>1. sinceAction' \in [Service -> Age] /\ forgotten' \in [Service -> BOOLEAN]
        /\ sinceApplied' \in [Service -> Age]
    <3>1. CASE /\ Record(cur) /\ forgotten' = [forgotten EXCEPT ![cur] = FALSE]
               /\ sinceApplied' \in {sinceApplied, [sinceApplied EXCEPT ![cur] = 0]}
      <4>1. sinceAction' = [sinceAction EXCEPT ![cur] = 0]
        BY <3>1 DEF Record
      <4> QED
        BY <1>0, <3>1, <4>1 DEF TypeOK
    <3>2. CASE UNCHANGED <<sinceAction, forgotten, sinceApplied>>
      BY <3>2 DEF TypeOK
    <3> QED
      BY <1>13, <3>1, <3>2, ReturnsOutcome
  <2> QED
    BY <1>0, <1>13, <2>1, ReturnsOutcome DEF TypeOK, InTick
<1>14. CASE Elapse
  <2>1. lag' \in 0 .. MaxLag
    BY <1>0, <1>14, ConstantsOK DEF TypeOK, Elapse
  <2>2. pendingFor' \in [Service -> Age \cup {NotPending}]
    BY <1>14, OlderIsAge DEF TypeOK, Elapse
  <2>3. sinceAction' \in [Service -> Age] /\ sinceApplied' \in [Service -> Age]
    BY <1>14, OlderIsAge DEF TypeOK, Elapse
  <2>4. wanted' \in [Service -> [Replica -> Age]]
    BY <1>14, OlderIsAge DEF TypeOK, Elapse
  <2>5. \A s \in Service : \A e \in history[s] :
          [e EXCEPT !.age = Older(e.age)] \in [age : Age, rec : Replica]
    <3> SUFFICES ASSUME NEW s \in Service, NEW e \in history[s]
                 PROVE  [e EXCEPT !.age = Older(e.age)] \in [age : Age, rec : Replica]
      OBVIOUS
    <3>1. e \in [age : Age, rec : Replica]
      BY DEF TypeOK
    <3>2. Older(e.age) \in Age
      BY <3>1, OlderIsAge
    <3> QED
      BY <3>1, <3>2
  <2>6. history' \in [Service -> SUBSET [age : Age, rec : Replica]]
    BY <1>14, <2>5 DEF TypeOK, Elapse
  <2> QED
    BY <1>14, <2>1, <2>2, <2>3, <2>4, <2>6 DEF TypeOK, Elapse
<1>15. ASSUME NEW s \in Service, OutsideScale(s)
       PROVE  TypeOK'
  <2>1. PICK n \in OutsideReplicas : replicas' = [replicas EXCEPT ![s] = n]
    BY <1>15 DEF OutsideScale
  <2>2. n \in Replica
    BY ConstantsOK
  <2> QED
    BY <1>15, <2>1, <2>2 DEF TypeOK, OutsideScale
<1>16. ASSUME NEW s \in Service, Relabel(s)
       PROVE  TypeOK'
  <2>1. PICK l \in LabelsOf(s) : labels' = [labels EXCEPT ![s] = l]
    BY <1>16 DEF Relabel
  <2>2. l \in Labels
    BY DEF Labels
  <2>3. labels' \in [Service -> Labels]
    BY <2>1, <2>2 DEF TypeOK
  <2> QED
    BY <1>16, <2>3 DEF TypeOK, Relabel
<1>17. ASSUME NEW s \in Service, TaskChange(s)
       PROVE  TypeOK'
  <2>1. pendingFor' \in [Service -> Age \cup {NotPending}]
    BY <1>0, <1>17 DEF TypeOK, TaskChange
  <2> QED
    BY <1>17, <2>1 DEF TypeOK, TaskChange
<1>18. ASSUME NEW s \in Service, NodeChange(s)
       PROVE  TypeOK'
  BY <1>18 DEF TypeOK, NodeChange
<1>19. CASE Restart
  <2>1. NothingSeen \in [Service -> [replicas : Replica, labels : Labels]] /\ AnyService \in Service
    BY InitialValues
  <2>2. seenFor' \in Int /\ seen' \in [Service -> [replicas : Replica, labels : Labels]]
    BY <1>19, <2>1 DEF Restart, NotPending
  <2>3. /\ sinceAction' \in [Service -> Age]
        /\ history' \in [Service -> SUBSET [age : Age, rec : Replica]]
        /\ wanted' \in [Service -> [Replica -> Age]]
        /\ forgotten' \in [Service -> BOOLEAN]
    BY <1>0, <1>19 DEF Restart
  <2> QED
    BY <1>0, <1>19, <2>1, <2>2, <2>3 DEF TypeOK, Restart
<1>20. CASE UNCHANGED vars
  BY <1>20 DEF TypeOK, vars
<1> QED
  BY <1>1, <1>2, <1>3, <1>4, <1>5, <1>6, <1>7, <1>8, <1>9, <1>10, <1>11, <1>12, <1>13, <1>14,
     <1>15, <1>16, <1>17, <1>18, <1>19, <1>20
     DEF Next, Loop, Surroundings, Returns

(* The state stays well-typed for every choice of the constants. *)
THEOREM TypeCorrect == Spec => []TypeOK
<1>1. Init => TypeOK
  <2>1. 0 \in 0 .. MaxLag /\ 0 \in Replica /\ Horizon \in Age
    BY ConstantsOK DEF Replica, Age
  <2>2. NothingSeen \in [Service -> [replicas : Replica, labels : Labels]] /\ AnyService \in Service
    BY InitialValues
  <2>3. Init => seenFor \in Int /\ seen \in [Service -> [replicas : Replica, labels : Labels]]
    BY <2>2 DEF Init, NotPending
  <2>4. Init => pendingFor \in [Service -> Age \cup {NotPending}]
    BY DEF Init
  <2>5. Init => labels \in [Service -> Labels] /\ recovered \subseteq Service
    BY ConstantsOK DEF Init
  <2>6. Init => /\ sinceAction \in [Service -> Age] /\ sinceApplied \in [Service -> Age]
                /\ history \in [Service -> SUBSET [age : Age, rec : Replica]]
                /\ forgotten \in [Service -> BOOLEAN]
                /\ wanted \in [Service -> [Replica -> Age]]
    BY <2>1 DEF Init
  <2> QED
    BY <2>1, <2>2, <2>3, <2>4, <2>5, <2>6 DEF Init, TypeOK
<1> QED
  BY <1>1, TypeStep, PTL DEF Spec

-------------------------------------------------------------------------------
(* The cooldown.  SpacedMutations is not inductive: it speaks of the time    *)
(* since Swarm applied a mutation, and the Guard only looks at the tracker.  *)
(* What links them is that the tracker's record is never older than the last *)
(* mutation Swarm applied, unless the process does not know of that one.     *)

RecordKept == \A s \in Service : ~forgotten[s] => sinceAction[s] <= sinceApplied[s]

WindowBehind == pc \in {"Would", "Sent"} => op \in Kind /\ Window[op] <= sinceAction[cur]

CooldownInv == RecordKept /\ WindowBehind

LEMMA CooldownStep == TypeOK /\ CooldownInv /\ [Next]_vars => CooldownInv'
<1> SUFFICES ASSUME TypeOK, CooldownInv, [Next]_vars
             PROVE  CooldownInv'
  OBVIOUS
<1> USE DEF CooldownInv, RecordKept
<1> USE DEF swarmVars, tickVars, visitVars, callVars, memoryVars, ghostVars
<1>0. /\ \A s \in Service : sinceAction[s] \in Age /\ sinceApplied[s] \in Age
      /\ \A age \in Age : age \in Nat
      /\ cur \in Service
  BY DEF TypeOK, Age
<1>1. CASE Tick
  BY <1>1 DEF Tick, WindowBehind
<1>2. CASE ManagedServices
  BY <1>2 DEF ManagedServices, ListByLabel, WindowBehind
<1>3. CASE ManagedServicesFails
  BY <1>3 DEF ManagedServicesFails, WindowBehind
<1>4. ASSUME NEW ok \in BOOLEAN, Nodes(ok)
      PROVE  CooldownInv'
  BY <1>4 DEF Nodes, WindowBehind
<1>5. ASSUME NEW s \in Service, NEW ok \in BOOLEAN, Tasks(s, ok)
      PROVE  CooldownInv'
  BY <1>5 DEF Tasks, WindowBehind
<1>6. CASE NoValue
  BY <1>6 DEF NoValue, WindowBehind
<1>7. CASE Value
  <2>1. PICK final \in Replica : GuardScale(cur, final)
    BY <1>7, ValueOutcome
  <2>2. Decided(cur, IF final > seen[cur].replicas THEN "up" ELSE "down")
    BY <1>0, <2>1, GuardScaleOutcome
  <2>3. UNCHANGED <<sinceApplied, forgotten, cur>>
    BY <1>7 DEF Value
  <2> QED
    BY <2>2, <2>3 DEF Decided, WindowBehind, Kind
<1>8. CASE Heal
  <2>1. CASE GuardHeal(cur)
    <3>1. Decided(cur, "heal")
      BY <1>0, <2>1, GuardOutcome DEF Kind
    <3>2. UNCHANGED <<sinceApplied, forgotten, cur>>
      BY <1>8 DEF Heal
    <3> QED
      BY <3>1, <3>2 DEF Decided, WindowBehind, Kind
  <2>2. CASE pc' = "Services" /\ UNCHANGED <<sinceAction, callVars>>
    BY <1>8, <2>2 DEF Heal, WindowBehind
  <2> QED
    BY <1>8, <2>1, <2>2 DEF Heal
<1>9. CASE AllVisited
  BY <1>9 DEF AllVisited, WindowBehind
<1>10. CASE Rebalance
  <2>1. ASSUME NEW s \in Movable, cur' = s, GuardRebalance(s)
        PROVE  CooldownInv'
    <3>1. s \in Service
      BY DEF TypeOK, Movable
    <3>2. Decided(s, "rebalance")
      BY <2>1, <3>1, GuardOutcome DEF Kind
    <3>3. UNCHANGED <<sinceApplied, forgotten>>
      BY <1>10 DEF Rebalance
    <3> QED
      BY <2>1, <3>2, <3>3 DEF Decided, WindowBehind, Kind
  <2>2. CASE pc' = "Done" /\ UNCHANGED <<cur, sinceAction, callVars>>
    BY <1>10, <2>2 DEF Rebalance, WindowBehind
  <2> QED
    BY <1>10, <2>1, <2>2 DEF Rebalance
<1>11. CASE Return
  BY <1>11 DEF Return, WindowBehind
<1>12. CASE Apply
  <2>1. sinceApplied' = [sinceApplied EXCEPT ![cur] = 0] /\ UNCHANGED sinceAction
    BY <1>12 DEF Apply
  <2>2. forgotten' = [forgotten EXCEPT ![cur] = TRUE] /\ pc' = "Applied"
    BY <1>12 DEF Apply
  <2> QED
    BY <1>0, <2>1, <2>2 DEF TypeOK, WindowBehind
<1>13. CASE Returns
  <2>1. pc' \notin {"Would", "Sent"} /\ UNCHANGED cur
    BY <1>13, ReturnsOutcome
  <2>2. CASE /\ Record(cur) /\ forgotten' = [forgotten EXCEPT ![cur] = FALSE]
             /\ sinceApplied' \in {sinceApplied, [sinceApplied EXCEPT ![cur] = 0]}
    BY <1>0, <2>1, <2>2 DEF TypeOK, WindowBehind, Record
  <2>3. CASE UNCHANGED <<sinceAction, forgotten, sinceApplied>>
    BY <2>1, <2>3 DEF WindowBehind
  <2> QED
    BY <1>13, <2>2, <2>3, ReturnsOutcome
<1>14. CASE Elapse
  <2>1. /\ sinceAction' = [s \in Service |-> Older(sinceAction[s])]
        /\ sinceApplied' = [s \in Service |-> Older(sinceApplied[s])]
        /\ UNCHANGED <<pc, op, cur, forgotten>>
    BY <1>14 DEF Elapse
  <2>2. RecordKept'
    BY <1>0, <2>1, OlderMonotone
  <2>3. pc \in {"Would", "Sent"} => Window[op] \in Nat /\ Older(sinceAction[cur]) \in Age
                       /\ sinceAction[cur] <= Older(sinceAction[cur])
    BY <1>0, ConstantsOK, OlderIsAge DEF WindowBehind
  <2>4. WindowBehind'
    BY <1>0, <2>1, <2>3 DEF WindowBehind, Age
  <2> QED
    BY <2>2, <2>4
<1>15. ASSUME NEW s \in Service, OutsideScale(s) \/ Relabel(s) \/ TaskChange(s) \/ NodeChange(s)
       PROVE  CooldownInv'
  BY <1>15 DEF OutsideScale, Relabel, TaskChange, NodeChange, WindowBehind
<1>16. CASE Restart
  BY <1>16 DEF Restart, WindowBehind
<1>17. CASE UNCHANGED vars
  BY <1>17 DEF vars, WindowBehind
<1> QED
  BY <1>1, <1>2, <1>3, <1>4, <1>5, <1>6, <1>7, <1>8, <1>9, <1>10, <1>11, <1>12, <1>13, <1>14,
     <1>15, <1>16, <1>17
     DEF Next, Loop, Surroundings, Returns

LEMMA CooldownInit == Init => CooldownInv
<1>1. Horizon \in Nat
  BY ConstantsOK
<1> QED
  BY <1>1 DEF Init, CooldownInv, RecordKept, WindowBehind

(* Whatever is decided comes a window after the last action remembered.      *)
LEMMA WindowSinceLast ==
  ASSUME TypeOK, CooldownInv, pc \in {"Would", "Sent"}, ~forgotten[cur]
  PROVE  sinceApplied[cur] >= Window[op]
<1>1. sinceAction[cur] <= sinceApplied[cur] /\ Window[op] <= sinceAction[cur]
  BY DEF TypeOK, CooldownInv, RecordKept, WindowBehind
<1>2. sinceAction[cur] \in Nat /\ sinceApplied[cur] \in Nat /\ Window[op] \in Nat
  BY ConstantsOK DEF TypeOK, Age, CooldownInv, WindowBehind
<1> QED
  BY <1>1, <1>2

(* Mutations of one service are a cooldown window apart on Swarm's own       *)
(* clock, for every window and every interleaving, save those the process    *)
(* has no record of.                                                         *)
THEOREM MutationsSpaced == Spec => []SpacedMutations
<1>1. TypeOK /\ CooldownInv => SpacedMutations
  BY WindowSinceLast DEF SpacedMutations
<1> QED
  BY <1>1, TypeCorrect, CooldownInit, CooldownStep, PTL DEF Spec

-------------------------------------------------------------------------------
(* The scale that goes out.  While a call is in flight nothing that the      *)
(* properties speak of changes but the ages, so it is enough to look at the  *)
(* step that sends it.                                                       *)

(* A step that is not Value leaves the scale in flight as it was, or ends it. *)
LEMMA ScaleInFlight ==
  ASSUME TypeOK, [Next]_vars, ~Value, pc' = "Sent", op' \in {"up", "down"}
  PROVE  pc = "Sent" /\ UNCHANGED <<op, target, cur, seen>>
<1> USE DEF swarmVars, tickVars, visitVars, callVars, memoryVars, ghostVars
<1>1. CASE Tick \/ ManagedServices \/ ManagedServicesFails \/ NoValue \/ AllVisited
  BY <1>1 DEF Tick, ManagedServices, ListByLabel, ManagedServicesFails, NoValue, AllVisited
<1>2. ASSUME NEW ok \in BOOLEAN, Nodes(ok)
      PROVE  FALSE
  BY <1>2 DEF Nodes
<1>3. ASSUME NEW s \in Service, NEW ok \in BOOLEAN, Tasks(s, ok)
      PROVE  FALSE
  BY <1>3 DEF Tasks
<1>4. CASE Heal
  <2>1. CASE GuardHeal(cur)
    BY <2>1 DEF GuardHeal
  <2>2. CASE pc' = "Services"
    BY <2>2
  <2> QED
    BY <1>4, <2>1, <2>2 DEF Heal
<1>5. CASE Rebalance
  BY <1>5 DEF Rebalance, GuardRebalance
<1>6. CASE Return \/ Apply \/ Restart
  BY <1>6 DEF Return, Apply, Restart
<1>7. CASE Elapse
  BY <1>7 DEF Elapse
<1>8. ASSUME NEW s \in Service, OutsideScale(s) \/ Relabel(s) \/ TaskChange(s) \/ NodeChange(s)
      PROVE  pc = "Sent" /\ UNCHANGED <<op, target, cur, seen>>
  BY <1>8 DEF OutsideScale, Relabel, TaskChange, NodeChange
<1>9. CASE UNCHANGED vars
  BY <1>9 DEF vars
<1>10. CASE Returns
  BY <1>10, ReturnsOutcome
<1> QED
  BY <1>1, <1>2, <1>3, <1>4, <1>5, <1>6, <1>7, <1>8, <1>9, <1>10 DEF Next, Loop, Surroundings, Returns

(* Every scale ends inside the bounds of the observed policy or on the way   *)
(* to them, for every policy, reading, history and step limit.               *)
THEOREM ScalesTowardBoundsAlways == Spec => []ScalesTowardBounds
<1>1. Init => ScalesTowardBounds
  BY DEF Init, ScalesTowardBounds
<1>2. TypeOK /\ ScalesTowardBounds /\ [Next]_vars => ScalesTowardBounds'
  <2> SUFFICES ASSUME TypeOK, ScalesTowardBounds, [Next]_vars, pc' = "Sent", op' \in {"up", "down"}
               PROVE  TowardBounds(seen'[cur'].replicas, target',
                                   seen'[cur'].labels.min, seen'[cur'].labels.max)
    BY DEF ScalesTowardBounds
  <2>1. CASE Value
    <3>1. cur \in Service /\ UNCHANGED <<cur, seen>>
      BY <2>1 DEF TypeOK, Value, visitVars, tickVars
    <3>2. PICK final \in Replica :
            /\ GuardScale(cur, final)
            /\ TowardBounds(seen[cur].replicas, final, seen[cur].labels.min, seen[cur].labels.max)
      BY <2>1, ValueOutcome
    <3>3. target' = final
      BY <3>1, <3>2, GuardScaleOutcome DEF Decided
    <3> QED
      BY <3>1, <3>2, <3>3
  <2>2. CASE ~Value
    BY <2>2, ScaleInFlight DEF ScalesTowardBounds
  <2> QED
    BY <2>1, <2>2
<1> QED
  BY <1>1, <1>2, TypeCorrect, PTL DEF Spec

-------------------------------------------------------------------------------
(* The stabilization window.  The stabilizer forgets the entries that fall   *)
(* out of the window each time it is asked; Remembered says that it still    *)
(* holds an entry for every recommendation of the window.  An age minus the  *)
(* lag is the time from a recommendation to the tick's clock reading, which  *)
(* is what the pruning compares, and which never shrinks.                    *)

Remembered ==
  \A s \in Service, r \in Replica :
    \/ wanted[s][r] - lag > StabilizationWindow
    \/ \E e \in history[s] : e.rec >= r /\ e.age = wanted[s][r]

LEMMA AgesAreInt ==
  ASSUME TypeOK
  PROVE  /\ lag \in Nat /\ StabilizationWindow \in Nat /\ Horizon \in Nat
         /\ \A s \in Service, r \in Replica : wanted[s][r] \in Nat /\ wanted[s][r] <= Horizon
         /\ \A s \in Service : \A e \in history[s] : e.age \in Age /\ e.rec \in Replica
         /\ lag + StabilizationWindow < Horizon
         /\ Replica \subseteq Nat /\ Age \subseteq Nat
<1>1. lag \in 0 .. MaxLag /\ MaxLag \in Nat /\ MaxReplicas \in Nat
      /\ StabilizationWindow \in Nat /\ Horizon \in Nat
  BY ConstantsOK DEF TypeOK
<1>2. Replica \subseteq Nat /\ Age \subseteq Nat /\ \A age \in Age : age <= Horizon
  BY <1>1 DEF Age, Replica
<1>3. \A s \in Service, r \in Replica : wanted[s][r] \in Age
  BY DEF TypeOK
<1>4. \A s \in Service : \A e \in history[s] : e \in [age : Age, rec : Replica]
  BY DEF TypeOK
<1>5. lag + StabilizationWindow < Horizon
  BY <1>1, LagIsAge
<1>6. \A s \in Service, r \in Replica : wanted[s][r] \in Nat /\ wanted[s][r] <= Horizon
  BY <1>2, <1>3
<1>7. \A s \in Service : \A e \in history[s] : e.age \in Age /\ e.rec \in Replica
  BY <1>4
<1>8. lag \in Nat
  BY <1>1
<1> QED
  BY <1>1, <1>2, <1>5, <1>6, <1>7, <1>8

(* Resetting or keeping the lag while the ages stay only widens the gap.     *)
LEMMA RememberedKept ==
  ASSUME TypeOK, Remembered, UNCHANGED <<wanted, history>>, lag' = lag \/ lag' = 0
  PROVE  Remembered'
BY AgesAreInt DEF Remembered

LEMMA RememberedAfterValue ==
  ASSUME TypeOK, Remembered, Value
  PROVE  Remembered'
<1>1. PICK desired \in Replica :
        IF StabilizationWindow = 0
          THEN history' = history /\ wanted' = wanted
          ELSE /\ history' = [history EXCEPT ![cur] = KeptWith(desired)]
               /\ wanted' = [wanted EXCEPT ![cur] =
                               [r \in Replica |-> IF r <= desired THEN lag ELSE wanted[cur][r]]]
  BY ValueOutcome
<1>2. lag' = lag /\ cur \in Service
  BY DEF Value, TypeOK
<1>3. CASE StabilizationWindow = 0
  BY <1>1, <1>2, <1>3, RememberedKept
<1>4. CASE StabilizationWindow # 0
  <2> SUFFICES ASSUME NEW s \in Service, NEW r \in Replica
               PROVE  \/ wanted'[s][r] - lag > StabilizationWindow
                      \/ \E e \in history'[s] : e.rec >= r /\ e.age = wanted'[s][r]
    BY <1>2 DEF Remembered
  <2>1. CASE s # cur
    BY <1>1, <1>4, <2>1 DEF Remembered, TypeOK
  <2>2. CASE s = cur
    <3>1. history'[s] = KeptWith(desired)
      BY <1>1, <1>4, <2>2 DEF TypeOK
    <3>2. wanted'[s][r] = IF r <= desired THEN lag ELSE wanted[s][r]
      BY <1>1, <1>4, <2>2 DEF TypeOK
    <3>3. CASE r <= desired
      <4>1. [age |-> lag, rec |-> desired] \in history'[s]
        BY <3>1 DEF KeptWith
      <4> QED
        BY <3>2, <3>3, <4>1, AgesAreInt
    <3>4. CASE ~(r <= desired)
      <4>1. CASE wanted[s][r] - lag > StabilizationWindow
        BY <3>2, <3>4, <4>1
      <4>2. CASE wanted[s][r] - lag <= StabilizationWindow
        <5>1. PICK e \in history[s] : e.rec >= r /\ e.age = wanted[s][r]
          BY <4>2, AgesAreInt DEF Remembered
        <5>2. e \in history'[s]
          BY <2>2, <3>1, <4>2, <5>1 DEF KeptWith, InWindow
        <5> QED
          BY <3>2, <3>4, <5>1, <5>2
      <4> QED
        BY <4>1, <4>2, AgesAreInt
    <3> QED
      BY <3>3, <3>4
  <2> QED
    BY <2>1, <2>2
<1> QED
  BY <1>3, <1>4

LEMMA RememberedAfterElapse ==
  ASSUME TypeOK, Remembered, Elapse
  PROVE  Remembered'
<1>1. /\ wanted' = [s \in Service |-> [r \in Replica |-> Older(wanted[s][r])]]
      /\ history' = [s \in Service |-> {[e EXCEPT !.age = Older(e.age)] : e \in history[s]}]
      /\ lag' = lag + 1 \/ lag' = 0
  BY DEF Elapse
<1>2. lag' + StabilizationWindow < Horizon /\ lag' \in Nat
  <2>1. TypeOK'
    BY TypeStep DEF Next, Surroundings
  <2> QED
    BY <2>1, LagIsAge, AgesAreInt DEF TypeOK
<1> SUFFICES ASSUME NEW s \in Service, NEW r \in Replica
             PROVE  \/ wanted'[s][r] - lag' > StabilizationWindow
                    \/ \E e \in history'[s] : e.rec >= r /\ e.age = wanted'[s][r]
  BY DEF Remembered
<1>3. wanted'[s][r] = Older(wanted[s][r])
  BY <1>1
<1>4. CASE wanted[s][r] - lag > StabilizationWindow
  BY <1>1, <1>2, <1>3, <1>4, AgesAreInt DEF Older
<1>5. ASSUME NEW e \in history[s], e.rec >= r, e.age = wanted[s][r]
      PROVE  \E f \in history'[s] : f.rec >= r /\ f.age = wanted'[s][r]
  <2> DEFINE f == [e EXCEPT !.age = Older(e.age)]
  <2>1. f \in history'[s]
    BY <1>1
  <2>2. e \in [age : Age, rec : Replica]
    BY DEF TypeOK
  <2>3. f.rec = e.rec /\ f.age = Older(e.age)
    BY <2>2
  <2> QED
    BY <1>3, <1>5, <2>1, <2>3
<1> QED
  BY <1>4, <1>5 DEF Remembered

LEMMA RememberedStep == TypeOK /\ Remembered /\ [Next]_vars => Remembered'
<1> SUFFICES ASSUME TypeOK, Remembered, [Next]_vars
             PROVE  Remembered'
  OBVIOUS
<1> USE DEF swarmVars, tickVars, visitVars, callVars, memoryVars, ghostVars
<1>1. CASE \/ Tick \/ ManagedServices \/ ManagedServicesFails \/ NoValue \/ Heal \/ AllVisited
           \/ Rebalance \/ Return \/ Apply \/ UNCHANGED vars
  <2>1. UNCHANGED <<wanted, history>> /\ (lag' = lag \/ lag' = 0)
    BY <1>1 DEF Tick, ManagedServices, ListByLabel, ManagedServicesFails, NoValue, Heal, AllVisited,
                Rebalance, Return, Apply, vars
  <2> QED
    BY <2>1, RememberedKept
<1>2. ASSUME NEW ok \in BOOLEAN, Nodes(ok) \/ Returns
      PROVE  Remembered'
  <2>1. UNCHANGED <<wanted, history>> /\ (lag' = lag \/ lag' = 0)
    BY <1>2, ReturnsOutcome DEF Nodes
  <2> QED
    BY <2>1, RememberedKept
<1>3. ASSUME NEW s \in Service, NEW ok \in BOOLEAN, Tasks(s, ok)
      PROVE  Remembered'
  BY <1>3, RememberedKept DEF Tasks
<1>4. CASE Value
  BY <1>4, RememberedAfterValue
<1>5. CASE Elapse
  BY <1>5, RememberedAfterElapse
<1>6. ASSUME NEW s \in Service, OutsideScale(s) \/ Relabel(s) \/ TaskChange(s) \/ NodeChange(s)
      PROVE  Remembered'
  <2>1. UNCHANGED <<wanted, history, lag>>
    BY <1>6 DEF OutsideScale, Relabel, TaskChange, NodeChange
  <2> QED
    BY <2>1, RememberedKept
<1>7. CASE Restart
  BY <1>7, AgesAreInt DEF Restart, Remembered
<1> QED
  BY <1>1, <1>2, <1>3, <1>4, <1>5, <1>6, <1>7 DEF Next, Loop, Surroundings, Returns

(* A scale-down never goes below a count recommended within the window, for  *)
(* every window, history and interleaving.                                   *)
THEOREM ShrinksOnlyBelowWindowAlways == Spec => []ShrinksOnlyBelowWindow
<1>1. Init => Remembered /\ ShrinksOnlyBelowWindow
  BY ConstantsOK, HorizonOK DEF Init, Remembered, ShrinksOnlyBelowWindow
<1>2. TypeOK /\ Remembered /\ ShrinksOnlyBelowWindow /\ [Next]_vars => ShrinksOnlyBelowWindow'
  <2> SUFFICES ASSUME TypeOK, Remembered, ShrinksOnlyBelowWindow, [Next]_vars,
                      pc' = "Sent", op' = "down", StabilizationWindow > 0,
                      NEW r \in Replica, target' < r, r <= seen'[cur'].replicas
               PROVE  wanted'[cur'][r] - lag' > StabilizationWindow
    BY DEF ShrinksOnlyBelowWindow
  <2>1. cur \in Service
    BY DEF TypeOK
  <2>2. CASE Value
    <3>1. PICK desired \in Replica, final \in Replica :
            /\ GuardScale(cur, final)
            /\ history' = [history EXCEPT ![cur] = KeptWith(desired)]
            /\ wanted' = [wanted EXCEPT ![cur] =
                            [q \in Replica |-> IF q <= desired THEN lag ELSE wanted[cur][q]]]
            /\ final < seen[cur].replicas => \A e \in KeptWith(desired) : e.rec <= final
      BY <2>2, ValueOutcome, AgesAreInt
    <3>2. UNCHANGED <<lag, cur, seen>>
      BY <2>2 DEF Value, visitVars, tickVars
    <3>3. seen[cur].replicas \in Nat /\ final \in Nat /\ r \in Nat
      BY <2>1, AgesAreInt DEF TypeOK
    <3>4. target' = final /\ final < seen[cur].replicas
      <4>1. /\ target' = final
            /\ op' = IF final > seen[cur].replicas THEN "up" ELSE "down"
            /\ final # seen[cur].replicas
        BY <2>1, <3>1, GuardScaleOutcome DEF Decided
      <4> QED
        BY <3>3, <4>1
    <3>5. Remembered' /\ TypeOK'
      BY <2>2, RememberedStep, TypeStep
    <3>6. \A e \in history'[cur] : e.rec <= final
      BY <2>1, <3>1, <3>4 DEF TypeOK
    <3>7. ~ \E e \in history'[cur] : e.rec >= r /\ e.age = wanted'[cur][r]
      <4> SUFFICES ASSUME NEW e \in history'[cur], e.rec >= r
                   PROVE  FALSE
        OBVIOUS
      <4>1. e.rec \in Nat
        BY <2>1, <3>5, AgesAreInt DEF TypeOK
      <4> QED
        BY <3>3, <3>4, <3>6, <4>1
    <3> QED
      BY <2>1, <3>2, <3>5, <3>7 DEF Remembered
  <2>3. CASE ~Value
    <3>1. pc = "Sent" /\ UNCHANGED <<op, target, cur, seen>>
      BY <2>3, ScaleInFlight
    <3>2. wanted[cur][r] - lag > StabilizationWindow
      BY <3>1 DEF ShrinksOnlyBelowWindow
    <3>3. CASE Elapse
      <4>1. wanted'[cur][r] = Older(wanted[cur][r]) /\ lag' = lag + 1
        BY <2>1, <3>1, <3>3 DEF Elapse, InTick
      <4>2. lag' + StabilizationWindow < Horizon
        <5>1. TypeOK'
          BY TypeStep
        <5> QED
          BY <5>1, LagIsAge DEF TypeOK
      <4> QED
        BY <2>1, <3>1, <3>2, <4>1, <4>2, AgesAreInt DEF Older
    <3>4. CASE ~Elapse
      <4>1. UNCHANGED <<wanted, lag>>
        BY <2>3, <3>1, <3>4
           DEF Next, Loop, Surroundings, vars, ghostVars, Tick, ManagedServices, ListByLabel,
               ManagedServicesFails, Nodes, Tasks, NoValue, Heal, AllVisited, Rebalance, Return,
               Apply, ScaleReturns, HealReturns, RebalanceReturns, LogEnds, CallEnds,
               OutsideScale, Relabel, TaskChange, NodeChange, Restart
      <4> QED
        BY <3>1, <3>2, <4>1
    <3> QED
      BY <3>3, <3>4
  <2> QED
    BY <2>2, <2>3
<1> QED
  BY <1>1, <1>2, TypeCorrect, RememberedStep, PTL DEF Spec

-------------------------------------------------------------------------------
(* What a tick may send at all.                                              *)

(* The steps in which the Guard may send a call, and what all others keep.   *)
LEMMA CallInFlight ==
  ASSUME TypeOK, [Next]_vars, ~Value, ~Heal, ~Rebalance,
         pc' \in {"Would", "Sent", "Applied"}
  PROVE  /\ pc \in {"Would", "Sent", "Applied"} /\ (pc' # pc => pc = "Sent")
         /\ UNCHANGED <<op, cur, nodesOk, dryRun>>
<1> USE DEF swarmVars, tickVars, visitVars, callVars, memoryVars, ghostVars
<1>1. CASE Tick \/ ManagedServices \/ ManagedServicesFails \/ NoValue \/ AllVisited
  BY <1>1 DEF Tick, ManagedServices, ListByLabel, ManagedServicesFails, NoValue, AllVisited
<1>2. ASSUME NEW ok \in BOOLEAN, Nodes(ok)
      PROVE  FALSE
  BY <1>2 DEF Nodes
<1>3. ASSUME NEW s \in Service, NEW ok \in BOOLEAN, Tasks(s, ok)
      PROVE  FALSE
  BY <1>3 DEF Tasks
<1>4. CASE Return \/ Apply \/ Restart
  BY <1>4 DEF Return, Apply, Restart
<1>5. CASE Elapse
  BY <1>5 DEF Elapse
<1>6. ASSUME NEW s \in Service, OutsideScale(s) \/ Relabel(s) \/ TaskChange(s) \/ NodeChange(s)
      PROVE  pc' = pc /\ UNCHANGED <<op, cur, nodesOk, dryRun>>
  BY <1>6 DEF OutsideScale, Relabel, TaskChange, NodeChange
<1>7. CASE UNCHANGED vars
  BY <1>7 DEF vars
<1>8. CASE Returns
  BY <1>8, ReturnsOutcome
<1> QED
  BY <1>1, <1>2, <1>3, <1>4, <1>5, <1>6, <1>7, <1>8 DEF Next, Loop, Surroundings, Returns

(* The calls a Guard step sends: none in a dry run, and no heal or rebalance *)
(* from a tick that could not list the nodes.                                *)
LEMMA CallSent ==
  ASSUME TypeOK, ~nodesOk => seenRecovered = {}, Value \/ Heal \/ Rebalance,
         pc' \in {"Would", "Sent", "Applied"}
  PROVE  /\ dryRun' => pc' = "Would"
         /\ ~nodesOk' => op' \in {"up", "down"}
<1>0. cur \in Service /\ {"heal", "rebalance"} \subseteq Kind
  BY DEF TypeOK, Kind
<1>1. UNCHANGED <<dryRun, nodesOk>>
  BY DEF Value, Heal, Rebalance, tickVars
<1>2. CASE Value
  <2>1. PICK final \in Replica : GuardScale(cur, final)
    BY <1>2, ValueOutcome
  <2>2. Decided(cur, IF final > seen[cur].replicas THEN "up" ELSE "down")
    BY <1>0, <2>1, GuardScaleOutcome
  <2> QED
    BY <1>1, <2>2 DEF Decided
<1>3. CASE Heal
  <2>1. GuardHeal(cur) /\ Stuck(cur)
    BY <1>3 DEF Heal
  <2>2. Decided(cur, "heal")
    BY <1>0, <2>1, GuardOutcome
  <2> QED
    BY <1>1, <2>1, <2>2 DEF Stuck, Decided
<1>4. CASE Rebalance
  <2>1. PICK s \in Movable : GuardRebalance(s)
    BY <1>4 DEF Rebalance
  <2>2. s \in Service
    BY <2>1 DEF Movable, TypeOK
  <2>3. Decided(s, "rebalance")
    BY <1>0, <2>1, <2>2, GuardOutcome
  <2> QED
    BY <1>1, <2>1, <2>3 DEF Movable, Decided
<1> QED
  BY <1>2, <1>3, <1>4

(* A tick knows of a node that is back only if it listed the nodes.          *)
NoNodesNoHeal == ~nodesOk => seenRecovered = {}

LEMMA NoNodesNoHealAlways == Spec => []NoNodesNoHeal
<1>1. Init => NoNodesNoHeal
  BY DEF Init, NoNodesNoHeal
<1>2. NoNodesNoHeal /\ [Next]_vars => NoNodesNoHeal'
  BY DEF NoNodesNoHeal, Next, Loop, Surroundings, vars, swarmVars, tickVars, visitVars, callVars,
         memoryVars, ghostVars, Tick, ManagedServices, ListByLabel, ManagedServicesFails, Nodes,
         Tasks, NoValue, Value, Heal, AllVisited, Rebalance, Return, Apply, ScaleReturns,
         HealReturns, RebalanceReturns, LogEnds, CallEnds, Elapse, OutsideScale, Relabel, TaskChange, NodeChange, Restart
<1> QED
  BY <1>1, <1>2, PTL DEF Spec

(* A dry run sends nothing to Swarm, and logs what it would do to a service  *)
(* at most once in a window of the action's kind, whatever the kinds.        *)
DrySilent == dryRun => pc \notin {"Sent", "Applied"}

THEOREM DryRunOnlyLogsAlways == Spec => []DryRunOnlyLogs
<1>1. Init => DrySilent /\ CooldownInv
  BY CooldownInit DEF Init, DrySilent
<1>2. TypeOK /\ NoNodesNoHeal /\ DrySilent /\ [Next]_vars => DrySilent'
  BY CallSent, CallInFlight DEF DrySilent, NoNodesNoHeal
<1>3. TypeOK /\ DrySilent /\ CooldownInv => DryRunOnlyLogs
  BY WindowSinceLast DEF DrySilent, DryRunOnlyLogs
<1> QED
  BY <1>1, <1>2, <1>3, TypeCorrect, NoNodesNoHealAlways, CooldownStep, PTL DEF Spec

(* A tick that could not list the nodes disrupts no service.                 *)
THEOREM BlindTickOnlyScalesAlways == Spec => []BlindTickOnlyScales
<1>1. Init => BlindTickOnlyScales
  BY DEF Init, BlindTickOnlyScales
<1>2. TypeOK /\ NoNodesNoHeal /\ BlindTickOnlyScales /\ [Next]_vars => BlindTickOnlyScales'
  BY CallSent, CallInFlight DEF BlindTickOnlyScales, NoNodesNoHeal
<1> QED
  BY <1>1, <1>2, TypeCorrect, NoNodesNoHealAlways, PTL DEF Spec

-------------------------------------------------------------------------------
(* The closed loop.                                                          *)

(* A quotient rounded up, compared with n.                                   *)
LEMMA CeilDivCompares ==
  ASSUME NEW a \in Nat, NEW n \in Nat, NEW t \in Nat \ {0}
  PROVE  /\ CeilDiv(a, t) \in Int
         /\ a <= n * t => CeilDiv(a, t) <= n
         /\ (n - 1) * t < a => CeilDiv(a, t) >= n
<1> DEFINE c == CeilDiv(a, t)
           r == (a + t - 1) % t
<1>1. c \in Int /\ r \in 0 .. t - 1 /\ a + t - 1 = t * c + r
  BY DEF CeilDiv
<1> HIDE DEF c, r
<1>2. ASSUME a <= n * t, c >= n + 1
      PROVE  FALSE
  <2>1. t * c >= t * (n + 1)
    BY <1>1, <1>2
  <2>2. t * (n + 1) = n * t + t
    OBVIOUS
  <2> QED
    BY <1>1, <1>2, <2>1, <2>2
<1>3. ASSUME (n - 1) * t < a, c <= n - 1
      PROVE  FALSE
  <2>1. t * c <= t * (n - 1)
    BY <1>1, <1>3
  <2>2. t * (n - 1) = (n - 1) * t
    OBVIOUS
  <2> QED
    BY <1>1, <1>3, <2>1, <2>2
<1> QED
  BY <1>1, <1>2, <1>3 DEF c

(* The rule leaves an adequate count alone.                                  *)
LEMMA AdequateIsDesired ==
  ASSUME NEW p \in Labels, NEW n \in Replica, Adequate(p, n), NEW value \in Readings(n)
  PROVE  Desired(n, value, p) = {n}
<1>1. /\ p.min \in Nat /\ p.max \in Nat /\ p.target \in Nat /\ n \in Nat
      /\ p.min <= n /\ n <= p.max
  BY LabelsSane, ConstantsOK DEF Replica, Adequate
<1>2. /\ value \in Nat
      /\ n = p.max \/ 10 * value < 11 * p.target
      /\ n = p.min \/ 9 * p.target <= 10 * value \/ (n - 1) * p.target < n * value
  BY ReadingsOK DEF Adequate
<1>3. Clamp(n, p.min, p.max) = n
  BY <1>1 DEF Clamp
<1>4. CASE p.target = 0 \/ n = 0 \/ InDeadband(value, p.target)
  <2>1. n = 0 => Clamp(p.min, p.min, p.max) = n
    BY <1>1 DEF Clamp
  <2> QED
    BY <1>1, <1>3, <1>4, <2>1 DEF Desired
<1>5. CASE p.target # 0 /\ n # 0 /\ ~InDeadband(value, p.target)
  <2> DEFINE t == p.target
             c == CeilDiv(n * value, t)
  <2>1. t \in Nat \ {0} /\ n * value \in Nat
    BY <1>1, <1>2, <1>5
  <2>2. /\ c \in Int
        /\ n * value <= n * t => c <= n
        /\ (n - 1) * t < n * value => c >= n
    BY <1>1, <2>1, CeilDivCompares
  <2>3. 0 <= c
    <3>1. (0 - 1) * t < n * value
      BY <2>1
    <3> QED
      BY <2>1, <3>1, CeilDivCompares
  <2>4. Desired(n, value, p) = {Clamp(c, p.min, p.max)}
    BY <1>1, <1>5, <2>2, <2>3 DEF Desired
  <2> HIDE DEF c, t
  <2>5. CASE value < t
    <3>1. n * value <= n * t
      BY <1>1, <1>2, <2>1, <2>5
    <3>2. n = p.min \/ c >= n
      BY <1>2, <1>5, <2>1, <2>2, <2>5 DEF InDeadband, t
    <3> QED
      BY <1>1, <2>2, <2>4, <3>1, <3>2 DEF Clamp
  <2>6. CASE value >= t
    <3>1. n = p.max
      BY <1>2, <1>5, <2>1, <2>6 DEF InDeadband, t
    <3>2. n * t <= n * value
      BY <1>1, <1>2, <2>1, <2>6
    <3>3. (n - 1) * t < n * t
      BY <1>1, <2>1
    <3>4. n * t \in Int /\ (n - 1) * t \in Int
      BY <1>1, <2>1
    <3>5. (n - 1) * t < n * value
      BY <2>1, <3>2, <3>3, <3>4
    <3> QED
      BY <1>1, <2>2, <2>4, <3>1, <3>5 DEF Clamp
  <2> QED
    BY <1>2, <2>1, <2>5, <2>6
<1> QED
  BY <1>4, <1>5

(* Nobody but the loop writes counts, and labels stay as they are.           *)
Undisturbed == OutsideReplicas = {} /\ \A s \in Service : \A l, m \in LabelsOf(s) : l = m

(* What the tick read of s is still true of it, *)
Known(s) == seen[s].labels = labels[s] /\ (s \in Replicated => seen[s].replicas = replicas[s])

(* up to its visit; and no scale was decided for an adequate count.          *)
KnownUntilVisited ==
  /\ \A s \in Service : labels[s] \in LabelsOf(s)
  /\ pc \in {"Idle", "ListEnabled", "ListHeal", "ListRebalance", "ListNodes"} =>
       \A s \in listed : Known(s)
  /\ \A s \in todo : Known(s)
  /\ pc = "Metric" => Known(cur) /\ cur \notin todo
  /\ pc = "Sent" /\ op \in {"up", "down"} =>
       cur \notin todo /\ ~Adequate(labels[cur], replicas[cur])

(* The only step that leads to a scale.                                      *)
LEMMA ValueMovesInadequate ==
  ASSUME TypeOK, KnownUntilVisited, Value, pc' = "Sent"
  PROVE  ~Adequate(labels[cur], replicas[cur])
<1>1. cur \in Service /\ Known(cur) /\ seen[cur].replicas \in Replica /\ labels[cur] \in Labels
      /\ replicas[cur] \in Replica
  BY DEF TypeOK, KnownUntilVisited, Value
<1> DEFINE n == seen[cur].replicas
           p == seen[cur].labels
           recs(d) == {e.rec : e \in InWindow(history[cur]) \cup {[age |-> lag, rec |-> d]}}
<1> DEFINE Chosen(d) ==
             \E held \in Replica :
               /\ IF StabilizationWindow = 0 THEN held = d ELSE Stabilized(held, n, d, recs(d))
               /\ GuardScale(cur, ClampStep(n, held, MaxStep))
<1>2. PICK value \in Readings(replicas[cur]) : \E d \in Desired(n, value, p) : Chosen(d)
  BY DEF Value
<1>3. PICK d \in Desired(n, value, p) : Chosen(d)
  BY <1>2
<1>4. PICK held \in Replica :
        /\ IF StabilizationWindow = 0 THEN held = d ELSE Stabilized(held, n, d, recs(d))
        /\ GuardScale(cur, ClampStep(n, held, MaxStep))
  BY <1>3
<1>5. cur \in Replicated /\ ClampStep(n, held, MaxStep) # n
  BY <1>4 DEF GuardScale
<1>6. n = replicas[cur] /\ p = labels[cur]
  BY <1>1, <1>5 DEF Known
<1> SUFFICES ASSUME Adequate(p, n)
             PROVE  FALSE
  BY <1>6
<1>7. Desired(n, value, p) = {n}
  BY <1>1, <1>6, AdequateIsDesired
<1>8. d = n
  BY <1>3, <1>7
<1>9. n \in Nat
  BY <1>1, ConstantsOK DEF Replica
<1>10. held = n
  BY <1>4, <1>8, <1>9 DEF Stabilized
<1>11. ClampStep(n, held, MaxStep) = n
  BY <1>9, <1>10, ConstantsOK DEF ClampStep
<1> QED
  BY <1>5, <1>11

(* What the steps of the surroundings leave as it is.                        *)
LEMMA LabelsStay ==
  ASSUME TypeOK, Undisturbed, \A s \in Service : labels[s] \in LabelsOf(s), [Next]_vars
  PROVE  labels' = labels
<1> USE DEF swarmVars, tickVars, visitVars, callVars, memoryVars, ghostVars
<1>1. ASSUME NEW s \in Service, Relabel(s)
      PROVE  labels' = labels
  <2>1. PICK l \in LabelsOf(s) : labels' = [labels EXCEPT ![s] = l]
    BY <1>1 DEF Relabel
  <2>2. l = labels[s]
    BY DEF Undisturbed
  <2> QED
    BY <2>1, <2>2 DEF TypeOK
<1>2. CASE ~(\E s \in Service : Relabel(s))
  BY <1>2 DEF Next, Loop, Surroundings, vars, Tick, ManagedServices, ListByLabel, ManagedServicesFails,
         Nodes, Tasks, NoValue, Value, Heal, AllVisited, Rebalance, Return, Apply, ScaleReturns,
         HealReturns, RebalanceReturns, LogEnds, CallEnds, Elapse, OutsideScale, TaskChange, NodeChange, Restart
<1> QED
  BY <1>1, <1>2

(* Counts change in one step only.                                           *)
LEMMA CountsStay ==
  ASSUME TypeOK, Undisturbed, [Next]_vars
  PROVE  replicas' = replicas \/ (/\ Apply /\ pc = "Sent" /\ op \in {"up", "down"}
                                 /\ replicas' = [replicas EXCEPT ![cur] = target])
<1> USE DEF swarmVars, tickVars, visitVars, callVars, memoryVars, ghostVars
<1>1. ASSUME NEW s \in Service
      PROVE  ~OutsideScale(s)
  BY DEF OutsideScale, Undisturbed
<1>2. CASE Apply
  BY <1>2 DEF Apply
<1>3. CASE ~Apply
  BY <1>1, <1>3 DEF Next, Loop, Surroundings, vars, Tick, ManagedServices, ListByLabel,
         ManagedServicesFails, Nodes, Tasks, NoValue, Value, Heal, AllVisited, Rebalance, Return,
         ScaleReturns, HealReturns, RebalanceReturns, LogEnds, CallEnds, Elapse, Relabel, TaskChange, NodeChange, Restart
<1> QED
  BY <1>2, <1>3

(* Every step keeps it, one step of the proof per kind of action. *)
LEMMA KnownStep ==
  ASSUME TypeOK, TypeOK', Undisturbed, KnownUntilVisited, [Next]_vars
  PROVE  KnownUntilVisited'
<1> USE DEF swarmVars, tickVars, visitVars, callVars, memoryVars, ghostVars
<1>1. labels' = labels /\ \A s \in Service : labels[s] \in LabelsOf(s)
  BY LabelsStay DEF KnownUntilVisited
<1>2. listed \subseteq Service /\ todo \subseteq Service /\ cur \in Service
  BY DEF TypeOK
<1>3. CASE ManagedServices
  <2>1. ASSUME NEW label, NEW here, NEW next \in {"ListHeal", "ListRebalance", "ListNodes"},
               ListByLabel(label, here, next),
               here \in {"ListEnabled", "ListHeal", "ListRebalance"}
        PROVE  KnownUntilVisited'
    <3>1. ASSUME NEW s \in Service, s \in listed' \/ Known(s), s \in listed => Known(s)
          PROVE  Known(s)'
      BY <1>1, <2>1, <3>1 DEF ListByLabel, Known
    <3>2. \A s \in listed : Known(s)
      BY <2>1 DEF ListByLabel, KnownUntilVisited
    <3>3. listed' \subseteq Service /\ todo' = todo /\ pc' = next
      BY <1>2, <2>1 DEF ListByLabel
    <3>4. \A s \in listed' \cup todo' : Known(s)'
      BY <1>2, <3>1, <3>2, <3>3 DEF KnownUntilVisited
    <3> QED
      BY <1>1, <3>3, <3>4 DEF KnownUntilVisited
  <2> QED
    BY <1>3, <2>1 DEF ManagedServices
<1>4. CASE Value
  <2>1. /\ UNCHANGED <<seen, replicas, listed, todo, cur>> /\ pc = "Metric"
        /\ pc' \in {"Services", "Done", "Heal", "Would", "Sent"}
    <3>1. PICK final \in Replica : GuardScale(cur, final)
      BY <1>4, ValueOutcome
    <3>2. pc' \in {"Services", "Done", "Heal", "Would", "Sent"}
      BY <1>2, <3>1, GuardScaleOutcome DEF Decided
    <3> QED
      BY <1>4, <3>2 DEF Value
  <2>2. pc' = "Sent" => cur \notin todo /\ ~Adequate(labels[cur], replicas[cur])
    BY <1>4, <2>1, ValueMovesInadequate DEF KnownUntilVisited
  <2> QED
    BY <1>1, <2>1, <2>2 DEF KnownUntilVisited, Known
<1>5. CASE Apply
  <2>1. UNCHANGED <<seen, listed, todo, cur>> /\ pc = "Sent" /\ pc' = "Applied"
    BY <1>5 DEF Apply
  <2>2. ASSUME NEW s \in todo
        PROVE  Known(s)'
    <3>1. replicas'[s] = replicas[s]
      BY <1>2, <2>1, CountsStay DEF KnownUntilVisited, TypeOK
    <3> QED
      BY <1>1, <2>1, <3>1 DEF KnownUntilVisited, Known
  <2> QED
    BY <1>1, <2>1, <2>2 DEF KnownUntilVisited
<1>6. ASSUME NEW ok \in BOOLEAN, Nodes(ok)
      PROVE  KnownUntilVisited'
  BY <1>1, <1>6 DEF Nodes, KnownUntilVisited, Known
<1>7. ASSUME NEW s \in Service, NEW ok \in BOOLEAN, Tasks(s, ok)
      PROVE  KnownUntilVisited'
  BY <1>1, <1>7 DEF Tasks, KnownUntilVisited, Known
<1>8. CASE Heal \/ Rebalance
  <2>1. UNCHANGED <<seen, replicas, listed, todo>>
    BY <1>8 DEF Heal, Rebalance
  <2>2. /\ pc' \in {"Services", "Done", "Would", "Sent"}
        /\ pc' = "Sent" => op' \in {"heal", "rebalance"}
    BY <1>8 DEF Heal, Rebalance, GuardHeal, GuardRebalance
  <2> QED
    BY <1>1, <2>1, <2>2 DEF KnownUntilVisited, Known
<1>9. CASE Return \/ Restart
  BY <1>1, <1>9 DEF Return, Restart, KnownUntilVisited
<1>10. CASE Returns
  BY <1>1, <1>10, ReturnsOutcome DEF KnownUntilVisited, Known
<1>11. CASE Tick \/ ManagedServicesFails \/ NoValue \/ AllVisited \/ Elapse \/ UNCHANGED vars
  <2>1. /\ UNCHANGED <<seen, replicas, listed, todo, cur, op>>
        /\ pc' \in {"ListEnabled", "Done", "Heal", "Rebalance"} \/ pc' = pc
        /\ pc' = "ListEnabled" => pc \in {"Idle", "ListEnabled"}
    BY <1>11 DEF Tick, ManagedServicesFails, NoValue, AllVisited, Elapse, vars
  <2> QED
    BY <1>1, <2>1 DEF KnownUntilVisited, Known
<1>12. ASSUME NEW s \in Service, OutsideScale(s) \/ Relabel(s) \/ TaskChange(s) \/ NodeChange(s)
       PROVE  KnownUntilVisited'
  <2>1. /\ UNCHANGED <<seen, listed, todo, cur, op, pc>>
        /\ replicas' = replicas
    BY <1>12 DEF OutsideScale, Relabel, TaskChange, NodeChange, Undisturbed
  <2> QED
    BY <1>1, <2>1 DEF KnownUntilVisited, Known
<1> QED
  BY <1>3, <1>4, <1>5, <1>6, <1>7, <1>8, <1>9, <1>10, <1>11, <1>12
     DEF Next, Loop, Surroundings, Returns

(* Where nobody else writes, the loop leaves every service at an adequate    *)
(* count alone, for every load, policy, history and window.                  *)
THEOREM AdequateIsKeptAlways ==
  ASSUME Undisturbed
  PROVE  Spec => AdequateIsKept
<1>1. Init => KnownUntilVisited
  BY DEF Init, KnownUntilVisited
<1>2. TypeOK /\ TypeOK' /\ KnownUntilVisited /\ [Next]_vars => KnownUntilVisited'
  BY KnownStep
<1>3. TypeOK /\ KnownUntilVisited /\ [Next]_vars =>
        [\A s \in Service : Adequate(labels[s], replicas[s]) => replicas'[s] = replicas[s]]_vars
  BY CountsStay DEF KnownUntilVisited, TypeOK
<1> QED
  BY <1>1, <1>2, <1>3, TypeCorrect, PTL DEF Spec, AdequateIsKept
===============================================================================
