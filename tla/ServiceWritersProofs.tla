------------------------- MODULE ServiceWritersProofs -------------------------
(***************************************************************************)
(* Proofs about ServiceWriters, for every stack, every compose history and *)
(* every number of attempts: the state is well-typed, calls and deploys    *)
(* give up only when contended, a deploy carries the live count, and       *)
(* Scale and ForceUpdate implement AtomicUpdate.                           *)
(***************************************************************************)
EXTENDS ServiceWriters, TLAPS

(* Bounded stays a replica count, and bounding twice changes nothing. *)
LEMMA BoundedIdempotent ==
  ASSUME NEW n \in Replica, NEW min \in Replica, NEW max \in Replica
  PROVE  /\ Bounded(n, min, max) \in Replica
         /\ Bounded(Bounded(n, min, max), min, max) = Bounded(n, min, max)
BY ConstantsOK DEF Bounded, Replica

(* An edit keeps the type of a spec and the revision it was deployed from. *)
LEMMA EditType ==
  ASSUME NEW old \in SpecType, NEW c \in Call
  PROVE  Edit(old, c) \in SpecType
<1>1. (old.force + 1) % ForceModulus \in 0 .. ForceModulus - 1
  BY ConstantsOK DEF SpecType
<1>2. CASE c.op = "scale"
  BY <1>2 DEF Edit, SpecType, Call
<1>3. CASE c.op # "scale"
  BY <1>1, <1>3 DEF Edit, SpecType
<1>4. QED BY <1>2, <1>3

-------------------------------------------------------------------------------
(* Type correctness.                                                       *)

LEMMA NoSpecType == NoSpec \in SpecType
BY ConstantsOK DEF NoSpec, SpecType, Replica, Revision

LEMMA CarryForwardType ==
  ASSUME TypeOK, revision # 0, NEW s \in Service
  PROVE  CarryForward(s) \in Replica
<1>1. revision \in Pushed
  BY DEF TypeOK, Pushed
<1>2. Compose[revision][s] \in [enabled : BOOLEAN, min : Replica, max : Replica, replicas : Replica]
  BY <1>1, ConstantsOK
<1>3. spec[s].replicas \in Replica
  BY DEF TypeOK, SpecType
<1>4. QED BY <1>2, <1>3, BoundedIdempotent DEF CarryForward

THEOREM TypeCorrect == Spec => []TypeOK
<1>1. Init => TypeOK
  <2>1. 1 \in Pushed /\ 1 \in 1 .. MaxAttempts /\ 0 \in Replica /\ 0 \in Revision /\ 0 \in 0 .. MaxAttempts
    BY ConstantsOK DEF Pushed, Revision, Replica
  <2>2. NoFiles \in [Service -> Replica]
    BY <2>1 DEF NoFiles
  <2>3. QED BY <2>1, <2>2, NoSpecType DEF Init, TypeOK
<1>2. TypeOK /\ [Next]_vars => TypeOK'
  <2> SUFFICES ASSUME TypeOK, [Next]_vars PROVE TypeOK'
    OBVIOUS
  <2> USE ConstantsOK DEF TypeOK
  <2>0. NoFiles \in [Service -> Replica] /\ 1 \in 1 .. MaxAttempts /\ 0 \in 0 .. MaxAttempts
    BY DEF NoFiles, Replica
  <2>sat. /\ Saturating(races) \in 0 .. MaxAttempts
          /\ Saturating(deployRaces) \in 0 .. MaxAttempts
    BY DEF Saturating
  <2>1. ASSUME NEW c \in Call, Start(c) PROVE TypeOK'
    BY <2>1 DEF Start, deployVars, ghostVars
  <2>2. CASE Inspect
    <3>1. spec[call.service] \in SpecType
      BY <2>2 DEF Inspect, Call
    <3>2. QED BY <2>2, <3>1 DEF Inspect, deployVars, ghostVars
  <2>3. CASE Update
    <3>1. call \in Call
      BY <2>3 DEF Update
    <3>2. Edit(inspected, call) \in SpecType
      BY <3>1, EditType
    <3>3. spec' \in [Service -> SpecType]
      BY <2>3, <3>2 DEF Update
    <3>4. rescaled' \subseteq Service
      BY <2>3, <3>1 DEF Update, Rescales, Call
    <3>5. current' \subseteq Service /\ deployRaces' \in 0 .. MaxAttempts
      BY <2>3, <2>sat DEF Update, StalesDeploy
    <3>6. QED BY <2>3, <3>1, <3>3, <3>4, <3>5 DEF Update
  <2>4. CASE Conflict
    BY <2>4 DEF Conflict, deployVars, ghostVars
  <2>5. CASE Retry
    BY <2>5 DEF Retry, deployVars, ghostVars
  <2>6. ASSUME NEW with \in {"ok", "conflict", "error"}, Returns(with) PROVE TypeOK'
    BY <2>6, <2>0, NoSpecType DEF Returns, CallEnds, deployVars
  <2>7. CASE Exhausted \/ Answered \/ CallFails \/ Cancelled
    BY <2>6, <2>7 DEF Exhausted, Answered, CallFails, Cancelled
  <2>8. CASE Sync
    BY <2>8 DEF Sync, callVars, ghostVars, Pushed
  <2>9. CASE ReadLive
    <3>1. files' \in [Service -> Replica]
      BY <2>9, CarryForwardType DEF ReadLive
    <3>2. QED BY <2>9, <3>1 DEF ReadLive, callVars
  <2>10. CASE List
    BY <2>10 DEF List, callVars, ghostVars
  <2>11. ASSUME NEW s \in Service, Write(s) PROVE TypeOK'
    <3>1. [replicas |-> files[s], force |-> spec[s].force, revision |-> revision] \in SpecType
      BY DEF SpecType
    <3>2. spec' \in [Service -> SpecType]
      BY <2>11, <3>1 DEF Write
    <3>3. fresh' \in BOOLEAN /\ races' \in 0 .. MaxAttempts
      BY <2>11, <2>sat DEF Write, StalesCall
    <3>4. QED BY <2>11, <3>2, <3>3 DEF Write
  <2>12. ASSUME NEW s \in Service, WriteConflict(s) PROVE TypeOK'
    BY <2>12 DEF WriteConflict, callVars, ghostVars
  <2>13. CASE Redeploy
    BY <2>13 DEF Redeploy, callVars, ghostVars
  <2>14. CASE Deployed \/ DeployExhausted \/ DeployFails
    BY <2>14, <2>0 DEF Deployed, DeployExhausted, DeployFails, DeployReturns, DeployEnds, callVars
  <2>15. CASE GitPush
    BY <2>15 DEF GitPush, callVars, deployVars, ghostVars, Pushed, Revision
  <2>16. ASSUME NEW s \in Service, NEW n \in Replica, OutsideScale(s, n) PROVE TypeOK'
    <3>1. [spec[s] EXCEPT !.replicas = n] \in SpecType
      BY DEF SpecType
    <3>2. spec' \in [Service -> SpecType]
      BY <2>16, <3>1 DEF OutsideScale
    <3>3. fresh' \in BOOLEAN /\ races' \in 0 .. MaxAttempts
      BY <2>16, <2>sat DEF OutsideScale, StalesCall
    <3>4. /\ current' \subseteq Service /\ deployRaces' \in 0 .. MaxAttempts
          /\ rescaled' \subseteq Service
      BY <2>16, <2>sat DEF OutsideScale, StalesDeploy, Rescales
    <3>5. QED BY <2>16, <3>2, <3>3, <3>4 DEF OutsideScale
  <2>17. CASE Restart
    <3>1. 0 \in Revision
      BY DEF Revision
    <3>2. QED BY <2>17, <2>0, <3>1, NoSpecType DEF Restart, CallEnds, DeployEnds
  <2>18. CASE UNCHANGED vars
    BY <2>18 DEF vars, callVars, deployVars, ghostVars
  <2> HIDE DEF TypeOK
  <2>19. QED
    BY <2>1, <2>2, <2>3, <2>4, <2>5, <2>7, <2>8, <2>9, <2>10, <2>11, <2>12, <2>13, <2>14, <2>15,
       <2>16, <2>17, <2>18
    DEF Next, UpdateService, Deploy
<1>3. QED BY <1>1, <1>2, PTL DEF Spec

-------------------------------------------------------------------------------
(* Giving up.  Each attempt costs a write of somebody else: the loop        *)
(* counters never run ahead of the writes counted.                          *)

CallPaid ==
  /\ at = "Idle" => attempt = 1
  /\ at = "Inspect" => races >= attempt - 1
  /\ at = "Update" => races >= attempt - 1 /\ (~fresh => races >= attempt)
  /\ at = "Backoff" => races >= attempt
DeployPaid ==
  /\ stage \in {"Idle", "Live"} => try = 1
  /\ stage = "List" => deployRaces >= try - 1
  /\ stage = "Write" => deployRaces >= try - 1 /\ (~(todo \subseteq current) => deployRaces >= try)
  /\ stage = "Backoff" => deployRaces >= try

LEMMA SaturatingCounts ==
  ASSUME NEW n \in 0 .. MaxAttempts, NEW k \in 1 .. MaxAttempts
  PROVE  /\ Saturating(n) >= n
         /\ n >= k - 1 => Saturating(n) >= k
BY ConstantsOK DEF Saturating

(* A write of another process counts, and makes a running call's version stale. *)
LEMMA CallCharged ==
  ASSUME TypeOK, CallPaid, NEW s \in Service, StalesCall(s), UNCHANGED <<call, at, attempt>>
  PROVE  CallPaid'
<1>1. CASE at # "Idle" /\ s = call.service
  <2>1. races' = Saturating(races) /\ ~fresh'
    BY <1>1 DEF StalesCall
  <2>2. races \in 0 .. MaxAttempts /\ attempt \in 1 .. MaxAttempts
    BY DEF TypeOK
  <2>3. races' >= races /\ (races >= attempt - 1 => races' >= attempt)
    BY <2>1, <2>2, SaturatingCounts
  <2>4. races \in Nat /\ races' \in Nat /\ attempt \in Nat
    BY <2>1, <2>2, ConstantsOK DEF Saturating
  <2>5. QED BY <1>1, <2>1, <2>3, <2>4 DEF CallPaid
<1>2. CASE ~(at # "Idle" /\ s = call.service)
  <2>1. races' = races /\ fresh' = fresh
    BY <1>2 DEF StalesCall, TypeOK
  <2>2. QED BY <2>1 DEF CallPaid
<1>3. QED BY <1>1, <1>2

LEMMA DeployCharged ==
  ASSUME TypeOK, DeployPaid, NEW s \in Service, StalesDeploy(s), UNCHANGED <<stage, try, todo>>
  PROVE  DeployPaid'
<1>1. CASE stage = "Idle"
  BY <1>1 DEF StalesDeploy, DeployPaid
<1>2. CASE stage # "Idle"
  <2>1. deployRaces' = Saturating(deployRaces)
    BY <1>2 DEF StalesDeploy
  <2>2. deployRaces \in 0 .. MaxAttempts /\ try \in 1 .. MaxAttempts
    BY DEF TypeOK
  <2>3. deployRaces' >= deployRaces /\ (deployRaces >= try - 1 => deployRaces' >= try)
    BY <2>1, <2>2, SaturatingCounts
  <2>4. deployRaces \in Nat /\ deployRaces' \in Nat /\ try \in Nat
    BY <2>1, <2>2, ConstantsOK DEF Saturating
  <2>5. QED BY <1>2, <2>3, <2>4 DEF DeployPaid
<1>3. QED BY <1>1, <1>2

LEMMA PaidStep == TypeOK /\ CallPaid /\ DeployPaid /\ [Next]_vars => CallPaid' /\ DeployPaid'
<1> SUFFICES ASSUME TypeOK, CallPaid, DeployPaid, [Next]_vars PROVE CallPaid' /\ DeployPaid'
  OBVIOUS
<1>a. ASSUME UNCHANGED <<callVars, races>> PROVE CallPaid'
  BY <1>a DEF CallPaid, callVars
<1>d. ASSUME UNCHANGED <<deployVars, deployRaces>> PROVE DeployPaid'
  BY <1>d DEF DeployPaid, deployVars
<1>c. ASSUME NEW with, CallEnds(with) PROVE CallPaid'
  BY <1>c DEF CallEnds, CallPaid
<1>e. ASSUME DeployEnds PROVE DeployPaid'
  BY <1>e DEF DeployEnds, DeployPaid
<1>t. attempt \in 1 .. MaxAttempts /\ try \in 1 .. MaxAttempts /\ races \in Nat /\ deployRaces \in Nat
  BY ConstantsOK DEF TypeOK
<1>1. ASSUME NEW c \in Call, Start(c) PROVE CallPaid' /\ DeployPaid'
  BY <1>1, <1>d, <1>t DEF Start, ghostVars, CallPaid
<1>2. CASE Inspect
  BY <1>2, <1>d DEF Inspect, ghostVars, CallPaid
<1>3. CASE Update
  <2>1. call.service \in Service
    BY <1>3 DEF Update, TypeOK, Call
  <2>2. DeployPaid'
    BY <1>3, <2>1, DeployCharged DEF Update
  <2>3. QED BY <1>3, <2>2 DEF Update, CallPaid
<1>4. CASE Conflict
  BY <1>4, <1>d DEF Conflict, ghostVars, CallPaid
<1>5. CASE Retry
  BY <1>5, <1>d, <1>t DEF Retry, ghostVars, CallPaid
<1>6. CASE Exhausted \/ Answered \/ CallFails \/ Cancelled
  BY <1>6, <1>c, <1>d DEF Exhausted, Answered, CallFails, Cancelled, Returns
<1>7. CASE Sync
  BY <1>7, <1>a DEF Sync, ghostVars, DeployPaid
<1>8. CASE ReadLive
  BY <1>8, <1>a, <1>t DEF ReadLive, ghostVars, DeployPaid
<1>9. CASE List
  BY <1>9, <1>a DEF List, ghostVars, DeployPaid
<1>10. ASSUME NEW s \in Service, Write(s) PROVE CallPaid' /\ DeployPaid'
  <2>1. CallPaid'
    BY <1>10, CallCharged DEF Write
  <2>2. QED BY <1>10, <2>1 DEF Write, DeployPaid
<1>11. ASSUME NEW s \in Service, WriteConflict(s) PROVE CallPaid' /\ DeployPaid'
  BY <1>11, <1>a DEF WriteConflict, ghostVars, DeployPaid
<1>12. CASE Redeploy
  BY <1>12, <1>a, <1>t DEF Redeploy, ghostVars, DeployPaid
<1>13. CASE Deployed \/ DeployExhausted \/ DeployFails
  BY <1>13, <1>a, <1>e DEF Deployed, DeployExhausted, DeployFails, DeployReturns
<1>14. CASE GitPush
  BY <1>14, <1>a, <1>d DEF GitPush, ghostVars
<1>15. ASSUME NEW s \in Service, NEW n \in Replica, OutsideScale(s, n) PROVE CallPaid' /\ DeployPaid'
  BY <1>15, CallCharged, DeployCharged DEF OutsideScale
<1>16. CASE Restart
  BY <1>16, <1>c, <1>e DEF Restart
<1>17. CASE UNCHANGED vars
  BY <1>17, <1>a, <1>d DEF vars, ghostVars
<1>18. QED
  BY <1>1, <1>2, <1>3, <1>4, <1>5, <1>6, <1>7, <1>8, <1>9, <1>10, <1>11, <1>12, <1>13, <1>14, <1>15,
     <1>16, <1>17
  DEF Next, UpdateService, Deploy

(* A call or a deploy gives up only after MaxAttempts writes of others.     *)
THEOREM GivesUpOnlyWhenContendedAlways == Spec => []GivesUpOnlyWhenContended
<1>1. Init => CallPaid /\ DeployPaid
  BY DEF Init, CallPaid, DeployPaid
<1>2. TypeOK /\ CallPaid /\ DeployPaid => GivesUpOnlyWhenContended
  BY ConstantsOK DEF TypeOK, CallPaid, DeployPaid, GivesUpOnlyWhenContended
<1>3. QED BY <1>1, <1>2, PaidStep, TypeCorrect, PTL DEF Spec

-------------------------------------------------------------------------------
(* What an accepted update changes.                                        *)

(* While a call's version is current, the spec it inspected is Swarm's. *)
InspectedIsCurrent == at = "Update" /\ fresh => inspected = spec[call.service]

LEMMA InspectedStep == TypeOK /\ InspectedIsCurrent /\ [Next]_vars => InspectedIsCurrent'
<1> SUFFICES ASSUME TypeOK, InspectedIsCurrent, [Next]_vars PROVE InspectedIsCurrent'
  OBVIOUS
<1>1. ASSUME UNCHANGED <<callVars, spec>> PROVE InspectedIsCurrent'
  BY <1>1 DEF InspectedIsCurrent, callVars
<1>2. ASSUME at' # "Update" \/ ~fresh' PROVE InspectedIsCurrent'
  BY <1>2 DEF InspectedIsCurrent
<1>3. ASSUME NEW s \in Service, StalesCall(s), UNCHANGED <<call, at, inspected>>,
             \A r \in Service \ {s} : spec'[r] = spec[r]
      PROVE  InspectedIsCurrent'
  <2>1. CASE at = "Update" /\ fresh'
    <3>1. fresh /\ call.service # s
      BY <1>3, <2>1 DEF StalesCall, TypeOK
    <3>2. call.service \in Service
      BY <2>1 DEF TypeOK, Call
    <3>3. QED BY <1>3, <2>1, <3>1, <3>2 DEF InspectedIsCurrent
  <2>2. QED BY <1>2, <1>3, <2>1
<1>4. ASSUME NEW s \in Service, NEW new, spec' = [spec EXCEPT ![s] = new]
      PROVE  \A r \in Service \ {s} : spec'[r] = spec[r]
  BY <1>4 DEF TypeOK
<1>5. CASE \E c \in Call : Start(c)
  BY <1>5, <1>2 DEF Start
<1>6. CASE Inspect
  BY <1>6 DEF Inspect, InspectedIsCurrent
<1>7. CASE Update \/ Conflict \/ Retry
  BY <1>7, <1>2 DEF Update, Conflict, Retry
<1>8. CASE Exhausted \/ Answered \/ CallFails \/ Cancelled
  BY <1>8, <1>2 DEF Exhausted, Answered, CallFails, Cancelled, Returns, CallEnds
<1>9. CASE Sync \/ ReadLive \/ List \/ Redeploy \/ GitPush
  BY <1>9, <1>1 DEF Sync, ReadLive, List, Redeploy, GitPush
<1>10. CASE Deployed \/ DeployExhausted \/ DeployFails
  BY <1>10, <1>1 DEF Deployed, DeployExhausted, DeployFails, DeployReturns
<1>11. ASSUME NEW s \in Service, Write(s) PROVE InspectedIsCurrent'
  BY <1>11, <1>3, <1>4 DEF Write
<1>12. ASSUME NEW s \in Service, WriteConflict(s) PROVE InspectedIsCurrent'
  BY <1>12, <1>1 DEF WriteConflict
<1>13. ASSUME NEW s \in Service, NEW n \in Replica, OutsideScale(s, n) PROVE InspectedIsCurrent'
  <2>1. spec' = [spec EXCEPT ![s] = [@ EXCEPT !.replicas = n]]
    BY <1>13 DEF OutsideScale
  <2>2. QED BY <1>13, <2>1, <1>3, <1>4 DEF OutsideScale
<1>14. CASE Restart
  BY <1>14, <1>2 DEF Restart, CallEnds
<1>15. CASE UNCHANGED vars
  BY <1>15, <1>1 DEF vars
<1>16. QED
  BY <1>5, <1>6, <1>7, <1>8, <1>9, <1>10, <1>11, <1>12, <1>13, <1>14, <1>15
  DEF Next, UpdateService, Deploy

(* So an accepted update is an edit of the service as it is at that moment. *)
LEMMA UpdateEditsCurrent ==
  ASSUME TypeOK, InspectedIsCurrent, Update
  PROVE  /\ call \in Call /\ call.service \in Service
         /\ spec' = [spec EXCEPT ![call.service] = Edit(@, call)]
BY DEF Update, TypeOK, Call, InspectedIsCurrent

(* Scale and ForceUpdate implement AtomicUpdate: one atomic edit at most per *)
(* call, success only with it, an exhausted conflict only without it.        *)
THEOREM CallsAreAtomicAlways == Spec => CallsAreAtomic
<1>1. Init => Promise!Init
  BY NoSpecType DEF Init, Promise!Init, SpecType
<1>2. TypeOK /\ InspectedIsCurrent /\ [Next]_vars => [Promise!Next]_(Promise!vars)
  <2> SUFFICES ASSUME TypeOK, InspectedIsCurrent, [Next]_vars
               PROVE  Promise!Next \/ UNCHANGED Promise!vars
    OBVIOUS
  <2>1. ASSUME NEW c \in Call, Start(c) PROVE Promise!Begin
    BY <2>1 DEF Start, Promise!Begin, Promise!Call, Promise!Op, Call, Op, Promise!Exists, Exists, TypeOK
  <2>2. CASE Update
    <3>1. call # NoCall /\ ~(at = "Answer") /\ at' = "Answer"
      BY <2>2 DEF Update, TypeOK
    <3>2. spec' = [spec EXCEPT ![call.service] = Promise!Edit(@, call)]
      BY <2>2, UpdateEditsCurrent DEF Promise!Edit, Edit
    <3>3. QED BY <2>2, <3>1, <3>2 DEF Update, Promise!Next, Promise!Apply
  <2>3. CASE Exhausted \/ Answered \/ CallFails \/ Cancelled
    <3>1. call # NoCall
      BY <2>3 DEF Exhausted, Answered, CallFails, Cancelled, TypeOK
    <3>2. call' = NoCall /\ at' = "Idle" /\ spec' = spec
      BY <2>3 DEF Exhausted, Answered, CallFails, Cancelled, Returns, CallEnds
    <3>3. \/ at = "Answer" /\ answer' = "ok"
          \/ ~(at = "Answer") /\ answer' = "conflict"
          \/ answer' = "error"
      BY <2>3 DEF Exhausted, Answered, CallFails, Cancelled, Returns, CallEnds
    <3>4. (at' = "Answer") = FALSE
      BY <3>2
    <3>5. QED BY <3>1, <3>2, <3>3, <3>4 DEF Promise!Next, Promise!End
  <2>4. ASSUME NEW s \in Service, Write(s) PROVE Promise!Deploy
    <3>1. files[s] \in Replica /\ revision \in Revision \ {0}
      BY <2>4 DEF Write, TypeOK
    <3>2. QED BY <2>4, <3>1 DEF Write, Promise!Deploy
  <2>5. ASSUME NEW s \in Service, NEW n \in Replica, OutsideScale(s, n) PROVE Promise!OutsideScale
    BY <2>5 DEF OutsideScale, Promise!OutsideScale, Promise!Exists, Exists
  <2>6. CASE Restart
    <3>1. (at' = "Answer") = FALSE
      BY <2>6 DEF Restart, CallEnds
    <3>2. call' = NoCall /\ answer' = "none" /\ spec' = spec
      BY <2>6 DEF Restart, CallEnds
    <3>3. QED BY <3>1, <3>2 DEF Promise!Next, Promise!Die
  <2>7. CASE Inspect \/ Conflict \/ Retry
    BY <2>7 DEF Inspect, Conflict, Retry, Promise!vars
  <2>8. CASE Sync \/ ReadLive \/ List \/ Redeploy \/ GitPush \/ (\E s \in Service : WriteConflict(s))
    BY <2>8 DEF Sync, ReadLive, List, Redeploy, GitPush, WriteConflict, callVars, Promise!vars
  <2>9. CASE Deployed \/ DeployExhausted \/ DeployFails
    BY <2>9 DEF Deployed, DeployExhausted, DeployFails, DeployReturns, callVars, Promise!vars
  <2>10. CASE UNCHANGED vars
    BY <2>10 DEF vars, callVars, Promise!vars
  <2>11. QED
    BY <2>1, <2>2, <2>3, <2>4, <2>5, <2>6, <2>7, <2>8, <2>9, <2>10
    DEF Next, UpdateService, Deploy, Promise!Next
<1>3. Init => InspectedIsCurrent
  BY DEF Init, InspectedIsCurrent
<1>4. QED BY <1>1, <1>2, <1>3, InspectedStep, TypeCorrect, PTL DEF Spec, CallsAreAtomic, Promise!Spec

-------------------------------------------------------------------------------
(* Carrying the live count.                                                *)

Carrying == stage \in {"List", "Write", "Backoff"}

(* What the files hold for a service the deploy has still to create. *)
CreatesFromCompose ==
  Carrying => \A s \in Service : ~Exists(s) => files[s] = Compose[revision][s].replicas

(* Both facts about one service, which is what a step may disturb. *)
CarriedFor(s) ==
  Carrying =>
    LET c == Compose[revision][s]
    IN /\ ~Exists(s) => files[s] = c.replicas
       /\ s \notin rescaled /\ Exists(s) /\ c.enabled =>
            \/ files[s] = Bounded(spec[s].replicas, c.min, c.max)
            \/ files[s] = c.replicas /\ Created(s)

LEMMA CarriedSplit ==
  (\A s \in Service : CarriedFor(s)) <=> CreatesFromCompose /\ CarriesLiveCount
BY DEF CarriedFor, CreatesFromCompose, CarriesLiveCount, Carrying

LEMMA ComposeType ==
  ASSUME TypeOK, Carrying, NEW s \in Service
  PROVE  Compose[revision][s] \in [enabled : BOOLEAN, min : Replica, max : Replica, replicas : Replica]
<1>1. revision \in Pushed
  BY DEF TypeOK, Carrying, Pushed
<1>2. QED BY <1>1, ConstantsOK

(* Nothing a service's verdict depends on has changed. *)
LEMMA CarriedStays ==
  ASSUME NEW s \in Service, CarriedFor(s), UNCHANGED <<stage, revision, files>>,
         spec'[s].revision = spec[s].revision,
         spec'[s].replicas = spec[s].replicas \/ s \in rescaled' \/ ~Exists(s),
         s \in rescaled => s \in rescaled'
  PROVE  CarriedFor(s)'
BY DEF CarriedFor, Carrying, Exists, Created

LEMMA CarriedStep ==
  TypeOK /\ InspectedIsCurrent /\ (\A s \in Service : CarriedFor(s)) /\ [Next]_vars
    => \A s \in Service : CarriedFor(s)'
<1> SUFFICES ASSUME TypeOK, InspectedIsCurrent, \A s \in Service : CarriedFor(s), [Next]_vars,
                    NEW s \in Service
             PROVE  CarriedFor(s)'
  OBVIOUS
<1>1. ASSUME UNCHANGED <<spec, stage, revision, files, rescaled>> PROVE CarriedFor(s)'
  BY <1>1, CarriedStays
<1>2. ASSUME stage' \in {"Idle", "Live"} PROVE CarriedFor(s)'
  BY <1>2 DEF CarriedFor, Carrying
<1>3. CASE \E c \in Call : Start(c)
  BY <1>3, <1>1 DEF Start, deployVars, ghostVars
<1>4. CASE Inspect \/ Conflict \/ Retry
  BY <1>4, <1>1 DEF Inspect, Conflict, Retry, deployVars, ghostVars
<1>5. CASE Update
  <2>1. spec' = [spec EXCEPT ![call.service] = Edit(@, call)] /\ call \in Call /\ call.service \in Service
    BY <1>5, UpdateEditsCurrent
  <2>2. UNCHANGED <<stage, revision, files>>
    BY <1>5 DEF Update
  <2>3. CASE s # call.service
    <3>1. spec'[s] = spec[s]
      BY <2>1, <2>3 DEF TypeOK
    <3>2. s \in rescaled => s \in rescaled'
      BY <1>5 DEF Update, Rescales
    <3>3. QED BY <2>2, <3>1, <3>2, CarriedStays
  <2>4. CASE s = call.service
    <3>1. spec'[s] = Edit(spec[s], call) /\ spec[s] \in SpecType
      BY <2>1, <2>4 DEF TypeOK
    <3>2. spec'[s].revision = spec[s].revision
      BY <3>1 DEF Edit, SpecType
    <3>3. CASE call.op = "scale"
      <4>1. stage # "Idle" => s \in rescaled'
        BY <1>5, <2>4, <3>3 DEF Update, Rescales
      <4>2. CASE stage = "Idle"
        BY <4>2, <2>2, <1>2
      <4>3. CASE stage # "Idle"
        BY <4>1, <4>3, <2>2, <3>2, CarriedStays
      <4>4. QED BY <4>2, <4>3
    <3>4. CASE call.op # "scale"
      <4>1. spec'[s].replicas = spec[s].replicas
        BY <3>1, <3>4 DEF Edit, SpecType
      <4>2. rescaled' = rescaled
        BY <1>5, <3>4 DEF Update
      <4>3. QED BY <4>1, <4>2, <2>2, <3>2, CarriedStays
    <3>5. QED BY <3>3, <3>4
  <2>5. QED BY <2>3, <2>4
<1>6. CASE Exhausted \/ Answered \/ CallFails \/ Cancelled
  BY <1>6, <1>1 DEF Exhausted, Answered, CallFails, Cancelled, Returns, deployVars
<1>7. CASE Sync
  BY <1>7, <1>2 DEF Sync
<1>8. CASE ReadLive
  <2>1. files'[s] = CarryForward(s) /\ spec' = spec /\ revision' = revision
    BY <1>8 DEF ReadLive
  <2>2. QED BY <2>1 DEF CarryForward, CarriedFor, Exists
<1>9. CASE List \/ Redeploy \/ (\E r \in Service : WriteConflict(r))
  <2>1. Carrying /\ UNCHANGED <<spec, revision, files, rescaled>>
    BY <1>9 DEF List, Redeploy, WriteConflict, Carrying, ghostVars
  <2>2. QED BY <2>1 DEF CarriedFor, Exists, Created
<1>10. ASSUME NEW r \in Service, Write(r) PROVE CarriedFor(s)'
  <2>1. UNCHANGED <<stage, revision, files, rescaled>> /\ Carrying
    BY <1>10 DEF Write, Carrying
  <2>2. CASE s # r
    <3>1. spec'[s] = spec[s]
      BY <1>10, <2>2 DEF Write, TypeOK
    <3>2. QED BY <2>1, <3>1, CarriedStays
  <2>3. CASE s = r
    <3> DEFINE c == Compose[revision][s]
    <3>1. spec'[s].replicas = files[s] /\ spec'[s].revision = revision
      BY <1>10, <2>3 DEF Write, TypeOK
    <3>2. c \in [enabled : BOOLEAN, min : Replica, max : Replica, replicas : Replica]
      BY <2>1, ComposeType
    <3>3. revision # 0
      BY <2>1 DEF TypeOK, Carrying
    <3>4. spec[s].replicas \in Replica
      BY DEF TypeOK, SpecType
    <3>5. ASSUME s \notin rescaled, c.enabled
          PROVE  files[s] = c.replicas \/ files[s] = Bounded(files[s], c.min, c.max)
      <4>1. files[s] = c.replicas \/ files[s] = Bounded(spec[s].replicas, c.min, c.max)
        BY <2>1, <3>5 DEF CarriedFor
      <4>2. QED BY <4>1, <3>2, <3>4, BoundedIdempotent
    <3>6. QED BY <2>1, <3>1, <3>3, <3>5 DEF CarriedFor, Exists, Created
  <2>4. QED BY <2>2, <2>3
<1>11. CASE Deployed \/ DeployExhausted \/ DeployFails
  BY <1>11, <1>2 DEF Deployed, DeployExhausted, DeployFails, DeployReturns, DeployEnds
<1>12. CASE GitPush
  BY <1>12, <1>1 DEF GitPush, deployVars, ghostVars
<1>13. ASSUME NEW r \in Service, NEW n \in Replica, OutsideScale(r, n) PROVE CarriedFor(s)'
  <2>1. CASE stage = "Idle"
    BY <1>13, <2>1, <1>2 DEF OutsideScale
  <2>2. CASE stage # "Idle"
    <3>1. rescaled' = rescaled \cup {r}
      BY <1>13, <2>2 DEF OutsideScale, Rescales
    <3>2. spec'[s].revision = spec[s].revision /\ (s # r => spec'[s] = spec[s])
      BY <1>13 DEF OutsideScale, TypeOK, SpecType
    <3>3. QED BY <1>13, <3>1, <3>2, CarriedStays DEF OutsideScale
  <2>3. QED BY <2>1, <2>2
<1>14. CASE Restart
  BY <1>14, <1>2 DEF Restart, DeployEnds
<1>15. CASE UNCHANGED vars
  BY <1>15, <1>1 DEF vars, deployVars, ghostVars
<1>16. QED
  BY <1>3, <1>4, <1>5, <1>6, <1>7, <1>8, <1>9, <1>10, <1>11, <1>12, <1>13, <1>14, <1>15
  DEF Next, UpdateService, Deploy

(* A deploy carries the live count of every autoscaled service nobody else   *)
(* rescaled, on the first run of docker/cli and on every retry.              *)
THEOREM CarriesLiveCountAlways == Spec => []CarriesLiveCount
<1> DEFINE Carried == \A s \in Service : CarriedFor(s)
<1>1. Init => Carried /\ InspectedIsCurrent
  BY DEF Init, CarriedFor, Carrying, InspectedIsCurrent
<1>2. TypeOK /\ InspectedIsCurrent /\ Carried /\ [Next]_vars => Carried'
  BY CarriedStep
<1>3. Carried => CarriesLiveCount
  BY CarriedSplit
<1> HIDE DEF Carried
<1>4. QED BY <1>1, <1>2, <1>3, InspectedStep, TypeCorrect, PTL DEF Spec
===============================================================================
