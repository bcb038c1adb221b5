------------------------------ MODULE Reconciler ------------------------------
(***************************************************************************)
(* The manager's reconcile loop (app/reconciler) against a live Swarm: one *)
(* tick lists the managed services and the nodes, then for each service    *)
(* lists its tasks, reads its metric, decides and applies a scale through  *)
(* the Guard, decides and applies a heal, and ends with the cluster-level  *)
(* rebalance.  Every Docker call is a step of its own, so time passes,     *)
(* other writers act, calls fail and the process restarts between any two. *)
(*                                                                         *)
(* Times are ages: the time elapsed since an instant, saturating at        *)
(* Horizon, which stands for "that long ago or never".  Horizon exceeds    *)
(* every window, so the code's comparisons see no difference, and the      *)
(* model needs no bound on the clock.                                      *)
(***************************************************************************)
EXTENDS Scaling, FiniteSets

CONSTANTS
  Service,               \* IDs of the Swarm services
  Replicated,            \* those in replicated mode (the others are global)
  Sticky,                \* those with placement constraints whose tasks can get stuck
  MaxReplicas,           \* bound on every replica count
  LabelsOf(_),           \* the label sets a service may carry, parsed (see LabelSet)
  Readings(_),           \* what metrics.Value may return at a replica count
  OutsideReplicas,       \* counts other writers may set (none: no other writer)
  Window,                \* cooldown window of each kind of action
  StabilizationWindow,   \* --scale-down-stabilization, 0 = off
  MaxStep,               \* --max-scale-step, 0 = unlimited
  HealThreshold,         \* --heal-threshold
  Rebalancing,           \* TRUE: the agent registry is wired in
  DryRun,                \* the settings of --dry-run to consider
  CanRestart,            \* TRUE: the process may crash and restart
  MaxLag,                \* bound: the longest a tick takes after it read its clock
  Horizon                \* where ages saturate

Kind == {"up", "down", "heal", "rebalance"}
Replica == 0 .. MaxReplicas
Age == 0 .. Horizon

(* A parsed label set: the opt-in labels that equal "true" (what the three *)
(* listings filter on), the heal and rebalance flags (heal defaults to the *)
(* enabled state), and the autoscaling policy.                             *)
LabelSet == [optIn : SUBSET {"enabled", "heal", "rebalance"}, heal : BOOLEAN, rebalance : BOOLEAN,
             min : Replica, max : Replica, target : Nat]

ASSUME ConstantsOK ==
  /\ Service # {}
  /\ Replicated \subseteq Service
  /\ Sticky \subseteq Service
  /\ MaxReplicas \in Nat
  /\ OutsideReplicas \subseteq Replica
  /\ Window \in [Kind -> Nat]
  /\ StabilizationWindow \in Nat /\ MaxStep \in Nat /\ HealThreshold \in Nat
  /\ Rebalancing \in BOOLEAN /\ DryRun \subseteq BOOLEAN /\ CanRestart \in BOOLEAN
  /\ MaxLag \in Nat \ {0} /\ Horizon \in Nat

Labels == UNION {LabelsOf(s) : s \in Service}

(* A service whose policy is not of this form is skipped as misconfigured;  *)
(* without autoscaling the policy is the zero value.                         *)
ValidPolicy(l) ==
  IF "enabled" \in l.optIn THEN 1 <= l.max /\ l.min <= l.max /\ l.target > 0
                           ELSE l.min = 0 /\ l.max = 0 /\ l.target = 0

ASSUME LabelsOK ==
  /\ \A s \in Service : LabelsOf(s) # {}
  /\ Labels \subseteq LabelSet
  /\ \A l \in Labels : ValidPolicy(l)

ASSUME ReadingsOK == \A r \in Replica : Readings(r) \subseteq Int

ASSUME HorizonOK ==
  /\ \A k \in Kind : Window[k] <= Horizon
  /\ StabilizationWindow + MaxLag < Horizon
  /\ HealThreshold + MaxLag <= Horizon

VARIABLES
  (* Swarm *)
  replicas,      \* the replica count in each service's spec
  labels,        \* the labels each service carries
  pendingFor,    \* age of the longest-pending task, NotPending when there is none
  recovered,     \* services with a constraint-satisfying node that is Active+Ready
  (* the manager process *)
  dryRun,        \* --dry-run
  pc,            \* where the loop is
  lag,           \* time since this tick read its clock
  listed, seen,  \* the managed services of this tick, and what was read of them
  nodesOk,       \* the node listing succeeded
  seenRecovered, \* `recovered` as it showed it (nothing when it failed)
  todo,          \* listed services this tick still has to visit
  cur,           \* the service being visited
  seenFor,       \* age of its longest-pending task at the tick's clock reading
  tasksOf,       \* opted-in services whose tasks were collected for rebalancing
  op, target,    \* the mutation in flight: its kind, and the replica count of a scale
  sinceAction,   \* Cooldown.last, as an age
  history,       \* Stabilizer.history: recommendations and their ages
  (* history variables, read by no action *)
  sinceApplied,  \* time since Swarm applied a mutation of this manager to the service,
                 \* or, in a dry run, since the manager logged that it would make one
  forgotten,     \* the running process has no record of the last of these
  wanted         \* per count r: time since a recommendation was at least r

swarmVars == <<replicas, labels, pendingFor, recovered>>
tickVars == <<listed, seen, nodesOk, seenRecovered, tasksOf>>
visitVars == <<todo, cur, seenFor>>
callVars == <<op, target>>
memoryVars == <<sinceAction, history>>
ghostVars == <<sinceApplied, forgotten, wanted>>
vars == <<swarmVars, dryRun, pc, lag, tickVars, visitVars, callVars, memoryVars, ghostVars>>

NotPending == -1
NoOp == "none"
AnyService == CHOOSE s \in Service : TRUE
NothingSeen == [s \in Service |-> [replicas |-> 0, labels |-> CHOOSE l \in Labels : TRUE]]

(* The places of the loop after it has read its clock. *)
InTick == {"Services", "Metric", "Heal", "Rebalance", "Would", "Sent", "Applied", "Done"}

Older(age) == IF age < Horizon THEN age + 1 ELSE Horizon

-------------------------------------------------------------------------------
(* The Cooldown tracker and the Guard in front of every mutation.          *)

(* Mutant: the window ends one unit early. *)
AllowedEarly(s, window) == window <= 0 \/ sinceAction[s] + 1 >= window

(* Cooldown.Allowed *)
Allowed(s, window) == window <= 0 \/ sinceAction[s] >= window

(* Mutant: the timestamp is not written. *)
RecordNothing(s) == UNCHANGED sinceAction

(* Cooldown.Record *)
Record(s) == sinceAction' = [sinceAction EXCEPT ![s] = 0]

(* Where the loop goes once a method of the Guard returns. *)
After(kind) == CASE kind = "heal"      -> "Services"
                 [] kind = "rebalance" -> "Done"
                 [] OTHER              -> "Heal"

(* Mutant: a scale the cooldown suppressed restarts it. *)
GuardScaleRestartsCooldown(s, final) ==
  LET kind == IF final > seen[s].replicas THEN "up" ELSE "down"
      moves == s \in Replicated /\ final # seen[s].replicas
  IN
  IF moves /\ Allowed(s, Window[kind])
    THEN pc' = "Sent" /\ op' = kind /\ target' = final /\ UNCHANGED sinceAction
    ELSE pc' = "Heal" /\ UNCHANGED callVars /\ IF moves THEN Record(s) ELSE UNCHANGED sinceAction

(* Guard.Scale, up to its call: nothing for a global service or an unchanged *)
(* count; else it takes the window of the direction it moves in and is       *)
(* suppressed by the cooldown, only logged ("Would"), or sent.               *)
GuardScale(s, final) ==
  LET current == seen[s].replicas
      kind == IF final > current THEN "up" ELSE "down"
      moves == s \in Replicated /\ final # current
  IN
  /\ UNCHANGED sinceAction
  /\ \/ /\ moves => ~Allowed(s, Window[kind])
        /\ pc' = "Heal" /\ UNCHANGED callVars
     \/ /\ moves /\ Allowed(s, Window[kind]) /\ dryRun
        /\ pc' = "Would" /\ op' = kind /\ UNCHANGED target
     \/ /\ moves /\ Allowed(s, Window[kind]) /\ ~dryRun
        /\ pc' = "Sent" /\ op' = kind /\ target' = final

(* Mutant: a heal the cooldown suppressed restarts it. *)
GuardHealRestartsCooldown(s) ==
  /\ UNCHANGED target
  /\ IF Allowed(s, Window["heal"])
       THEN pc' = "Sent" /\ op' = "heal" /\ UNCHANGED sinceAction
       ELSE pc' = "Services" /\ Record(s) /\ UNCHANGED op

(* Guard.Heal *)
GuardHeal(s) ==
  /\ UNCHANGED <<sinceAction, target>>
  /\ \/ /\ ~Allowed(s, Window["heal"])
        /\ pc' = "Services" /\ UNCHANGED op
     \/ /\ Allowed(s, Window["heal"]) /\ dryRun
        /\ pc' = "Would" /\ op' = "heal"
     \/ /\ Allowed(s, Window["heal"]) /\ ~dryRun
        /\ pc' = "Sent" /\ op' = "heal"

(* Guard.Rebalance, which checks the opt-in of the service once more. *)
GuardRebalance(s) ==
  /\ UNCHANGED <<sinceAction, target>>
  /\ \/ /\ seen[s].labels.rebalance => ~Allowed(s, Window["rebalance"])
        /\ pc' = "Done" /\ UNCHANGED op
     \/ /\ seen[s].labels.rebalance /\ Allowed(s, Window["rebalance"]) /\ dryRun
        /\ pc' = "Would" /\ op' = "rebalance"
     \/ /\ seen[s].labels.rebalance /\ Allowed(s, Window["rebalance"]) /\ ~dryRun
        /\ pc' = "Sent" /\ op' = "rebalance"

(* Mutant: an entry exactly a window old is dropped. *)
InWindowStrict(h) == {e \in h : e.age - lag < StabilizationWindow}

(* The entries of a history still in the window that ends at the tick's now. *)
InWindow(h) == {e \in h : e.age - lag <= StabilizationWindow}

-------------------------------------------------------------------------------
(* One tick of Reconciler.observe.                                         *)

(* The ticker fires (a tick that comes while another runs is dropped). *)
Tick ==
  /\ pc = "Idle" /\ pc' = "ListEnabled"
  /\ UNCHANGED <<swarmVars, dryRun, lag, tickVars, visitVars, callVars, memoryVars, ghostVars>>

(* One of the three listings of ManagedServices: the services whose label   *)
(* is exactly "true" and that an earlier listing did not already return.    *)
ListByLabel(label, here, next) ==
  LET found == {s \in Service \ listed : label \in labels[s].optIn} IN
  /\ pc = here /\ pc' = next
  /\ listed' = listed \cup found
  /\ seen' = [s \in Service |->
                IF s \in found THEN [replicas |-> IF s \in Replicated THEN replicas[s] ELSE 0,
                                     labels |-> labels[s]]
                               ELSE seen[s]]
  /\ UNCHANGED <<swarmVars, dryRun, lag, nodesOk, seenRecovered, tasksOf, visitVars, callVars,
                 memoryVars, ghostVars>>

ManagedServices ==
  \/ ListByLabel("enabled", "ListEnabled", "ListHeal")
  \/ ListByLabel("heal", "ListHeal", "ListRebalance")
  \/ ListByLabel("rebalance", "ListRebalance", "ListNodes")

(* A failed listing ends the tick. *)
ManagedServicesFails ==
  /\ pc \in {"ListEnabled", "ListHeal", "ListRebalance"} /\ pc' = "Done"
  /\ UNCHANGED <<swarmVars, dryRun, lag, tickVars, visitVars, callVars, memoryVars, ghostVars>>

(* Mutant: the nodes are used although their listing failed. *)
NodesTrusted(ok) ==
  /\ pc = "ListNodes" /\ pc' = "Services" /\ lag' = 0
  /\ nodesOk' = ok
  /\ seenRecovered' = recovered
  /\ todo' = listed
  /\ UNCHANGED <<swarmVars, dryRun, listed, seen, tasksOf, cur, seenFor, callVars, memoryVars, ghostVars>>

(* The node listing, and the tick's reading of the clock. *)
Nodes(ok) ==
  /\ pc = "ListNodes" /\ pc' = "Services" /\ lag' = 0
  /\ nodesOk' = ok
  /\ seenRecovered' = IF ok THEN recovered ELSE {}
  /\ todo' = listed
  /\ UNCHANGED <<swarmVars, dryRun, listed, seen, tasksOf, cur, seenFor, callVars, memoryVars, ghostVars>>

(* The next listed service, in the order Docker happened to return.  A       *)
(* failed task listing skips the service for this tick.                      *)
Tasks(s, ok) ==
  /\ pc = "Services" /\ s \in todo
  /\ todo' = todo \ {s}
  /\ IF ok
       THEN /\ cur' = s
            /\ seenFor' = IF pendingFor[s] = NotPending THEN NotPending ELSE pendingFor[s] - lag
            /\ tasksOf' = IF seen[s].labels.rebalance THEN tasksOf \cup {s} ELSE tasksOf
            /\ pc' = IF "enabled" \in seen[s].labels.optIn THEN "Metric" ELSE "Heal"
       ELSE UNCHANGED <<cur, seenFor, tasksOf, pc>>
  /\ UNCHANGED <<swarmVars, dryRun, lag, listed, seen, nodesOk, seenRecovered, callVars,
                 memoryVars, ghostVars>>

(* No metric data, or a failed read: no scaling, on to healing. *)
NoValue ==
  /\ pc = "Metric" /\ pc' = "Heal"
  /\ UNCHANGED <<swarmVars, dryRun, lag, tickVars, visitVars, callVars, memoryVars, ghostVars>>

(* A reading is turned into a count: proportional rule, stabilizer, step     *)
(* limit, Guard.  A stabilization window of 0 keeps no history.              *)
Value ==
  LET current == seen[cur].replicas
      policy == seen[cur].labels
  IN
  /\ pc = "Metric"
  /\ \E value \in Readings(replicas[cur]) : \E desired \in Desired(current, value, policy) :
       LET kept == InWindow(history[cur]) \cup {[age |-> lag, rec |-> desired]}
           recs == {e.rec : e \in kept}
       IN
       /\ \E held \in Replica :
            /\ IF StabilizationWindow = 0 THEN held = desired
                                          ELSE Stabilized(held, current, desired, recs)
            /\ GuardScale(cur, ClampStep(current, held, MaxStep))
       /\ history' = IF StabilizationWindow = 0 THEN history
                                                ELSE [history EXCEPT ![cur] = kept]
       /\ wanted' = IF StabilizationWindow = 0 THEN wanted
                    ELSE [wanted EXCEPT ![cur] =
                            [r \in Replica |-> IF r <= desired THEN lag ELSE wanted[cur][r]]]
  /\ UNCHANGED <<swarmVars, dryRun, lag, tickVars, visitVars, sinceApplied, forgotten>>

(* healer.Detect on what the tick read: constraints, a task pending beyond   *)
(* the threshold, and a constraint-satisfying node that is Active+Ready.     *)
Stuck(s) == s \in seenRecovered /\ seenFor # NotPending /\ seenFor >= HealThreshold

Heal ==
  /\ pc = "Heal"
  /\ IF seen[cur].labels.heal /\ Stuck(cur)
       THEN GuardHeal(cur)
       ELSE pc' = "Services" /\ UNCHANGED <<sinceAction, callVars>>
  /\ UNCHANGED <<swarmVars, dryRun, lag, tickVars, visitVars, history, ghostVars>>

AllVisited ==
  /\ pc = "Services" /\ todo = {} /\ pc' = "Rebalance"
  /\ UNCHANGED <<swarmVars, dryRun, lag, tickVars, visitVars, callVars, memoryVars, ghostVars>>

(* The one move rebalancer.Recommend may propose: an opted-in replicated     *)
(* service with a task on the hot node.  The loads are left open here.       *)
Movable == IF Rebalancing /\ nodesOk THEN tasksOf \cap Replicated ELSE {}

Rebalance ==
  /\ pc = "Rebalance"
  /\ \/ pc' = "Done" /\ UNCHANGED <<cur, sinceAction, callVars>>
     \/ \E s \in Movable : cur' = s /\ GuardRebalance(s)
  /\ UNCHANGED <<swarmVars, dryRun, lag, tickVars, todo, seenFor, history, ghostVars>>

(* observe returns: the tick's locals go out of scope. *)
Return ==
  /\ pc = "Done" /\ pc' = "Idle" /\ lag' = 0
  /\ listed' = {} /\ seen' = NothingSeen /\ nodesOk' = FALSE /\ seenRecovered' = {}
  /\ tasksOf' = {} /\ todo' = {} /\ cur' = AnyService /\ seenFor' = NotPending
  /\ UNCHANGED <<swarmVars, dryRun, callVars, memoryVars, ghostVars>>

-------------------------------------------------------------------------------
(* The mutation in flight.  adapter/swarm re-inspects the service and        *)
(* applies the change to what it then finds: an absolute count, or a bump    *)
(* of ForceUpdate, whatever happened since the service was listed.           *)

(* Swarm accepts the update. A forced reschedule replaces the tasks.         *)
Apply ==
  /\ pc = "Sent" /\ pc' = "Applied"
  /\ IF op \in {"up", "down"}
       THEN replicas' = [replicas EXCEPT ![cur] = target] /\ UNCHANGED pendingFor
       ELSE /\ \E age \in {0, NotPending} :
                 pendingFor' = [pendingFor EXCEPT ![cur] = IF @ = NotPending THEN @ ELSE age]
            /\ UNCHANGED replicas
  /\ sinceApplied' = [sinceApplied EXCEPT ![cur] = 0]
  /\ forgotten' = [forgotten EXCEPT ![cur] = TRUE]
  /\ UNCHANGED <<labels, recovered, dryRun, lag, tickVars, visitVars, callVars, memoryVars, wanted>>

(* The call ends: with success after Swarm applied it, or with an error,    *)
(* which Swarm may have applied too (the answer was lost or timed out).     *)
CallEnds(ok) ==
  /\ pc \in IF ok THEN {"Applied"} ELSE {"Sent", "Applied"}
  /\ pc' = After(op) /\ op' = NoOp /\ target' = 0
  /\ forgotten' = IF ok THEN [forgotten EXCEPT ![cur] = FALSE] ELSE forgotten
  /\ UNCHANGED <<swarmVars, dryRun, lag, tickVars, visitVars, history, sinceApplied, wanted>>

(* A dry run has logged what it would do. *)
LogEnds ==
  /\ pc = "Would" /\ pc' = After(op) /\ op' = NoOp
  /\ sinceApplied' = [sinceApplied EXCEPT ![cur] = 0]
  /\ forgotten' = [forgotten EXCEPT ![cur] = FALSE]
  /\ UNCHANGED <<swarmVars, dryRun, lag, tickVars, visitVars, target, history, wanted>>

(* The ends of Guard.Scale, Guard.Heal and Guard.Rebalance: a log line and a *)
(* call that succeeded start the cooldown, an error leaves it as it was.     *)
ScaleReturns ==
  /\ op \in {"up", "down"}
  /\ \/ LogEnds /\ Record(cur)
     \/ CallEnds(TRUE) /\ Record(cur)
     \/ CallEnds(FALSE) /\ UNCHANGED sinceAction

HealReturns ==
  /\ op = "heal"
  /\ \/ LogEnds /\ Record(cur)
     \/ CallEnds(TRUE) /\ Record(cur)
     \/ CallEnds(FALSE) /\ UNCHANGED sinceAction

(* Mutant: the third copy does not record what it only logged. *)
RebalanceReturnsUnrecorded ==
  /\ op = "rebalance"
  /\ \/ CallEnds(TRUE) /\ Record(cur)
     \/ (LogEnds \/ CallEnds(FALSE)) /\ UNCHANGED sinceAction

RebalanceReturns ==
  /\ op = "rebalance"
  /\ \/ LogEnds /\ Record(cur)
     \/ CallEnds(TRUE) /\ Record(cur)
     \/ CallEnds(FALSE) /\ UNCHANGED sinceAction

-------------------------------------------------------------------------------
(* The surroundings.                                                       *)

(* A unit of time passes. *)
Elapse ==
  /\ pc \in InTick => lag < MaxLag
  /\ lag' = IF pc \in InTick THEN lag + 1 ELSE 0
  /\ pendingFor' = [s \in Service |-> IF pendingFor[s] = NotPending THEN NotPending
                                                                   ELSE Older(pendingFor[s])]
  /\ sinceAction' = [s \in Service |-> Older(sinceAction[s])]
  /\ sinceApplied' = [s \in Service |-> Older(sinceApplied[s])]
  /\ wanted' = [s \in Service |-> [r \in Replica |-> Older(wanted[s][r])]]
  /\ history' = [s \in Service |-> {[e EXCEPT !.age = Older(e.age)] : e \in history[s]}]
  /\ UNCHANGED <<replicas, labels, recovered, dryRun, pc, tickVars, visitVars, callVars, forgotten>>

(* An operator, or a stack deploy, sets a service's replica count. *)
OutsideScale(s) ==
  /\ \E n \in OutsideReplicas : replicas' = [replicas EXCEPT ![s] = n]
  /\ UNCHANGED <<labels, pendingFor, recovered, dryRun, pc, lag, tickVars, visitVars, callVars,
                 memoryVars, ghostVars>>

(* ... or changes its labels. *)
Relabel(s) ==
  /\ \E l \in LabelsOf(s) : labels' = [labels EXCEPT ![s] = l]
  /\ UNCHANGED <<replicas, pendingFor, recovered, dryRun, pc, lag, tickVars, visitVars, callVars,
                 memoryVars, ghostVars>>

(* A task of s becomes pending, or its last pending task runs. *)
TaskChange(s) ==
  /\ s \in Sticky
  /\ pendingFor' = [pendingFor EXCEPT ![s] = IF @ = NotPending THEN 0 ELSE NotPending]
  /\ UNCHANGED <<replicas, labels, recovered, dryRun, pc, lag, tickVars, visitVars, callVars,
                 memoryVars, ghostVars>>

(* The nodes s is constrained to leave or come back. *)
NodeChange(s) ==
  /\ s \in Sticky
  /\ recovered' = IF s \in recovered THEN recovered \ {s} ELSE recovered \cup {s}
  /\ UNCHANGED <<replicas, labels, pendingFor, dryRun, pc, lag, tickVars, visitVars, callVars,
                 memoryVars, ghostVars>>

(* The process dies and comes back with empty memory.  A request already on *)
(* its way may have been applied (Apply) or not.                            *)
Restart ==
  /\ CanRestart
  /\ pc' = "Idle" /\ lag' = 0
  /\ listed' = {} /\ seen' = NothingSeen /\ nodesOk' = FALSE /\ seenRecovered' = {}
  /\ tasksOf' = {} /\ todo' = {} /\ cur' = AnyService /\ seenFor' = NotPending
  /\ op' = NoOp /\ target' = 0
  /\ sinceAction' = [s \in Service |-> Horizon]
  /\ history' = [s \in Service |-> {}]
  /\ wanted' = [s \in Service |-> [r \in Replica |-> Horizon]]
  /\ forgotten' = [s \in Service |-> TRUE]
  /\ UNCHANGED <<swarmVars, dryRun, sinceApplied>>

-------------------------------------------------------------------------------
Init ==
  /\ replicas \in [Service -> Replica]
  /\ labels \in {f \in [Service -> Labels] : \A s \in Service : f[s] \in LabelsOf(s)}
  /\ pendingFor = [s \in Service |-> NotPending]
  /\ recovered = Sticky
  /\ dryRun \in DryRun
  /\ pc = "Idle" /\ lag = 0
  /\ listed = {} /\ seen = NothingSeen /\ nodesOk = FALSE /\ seenRecovered = {} /\ tasksOf = {}
  /\ todo = {} /\ cur = AnyService /\ seenFor = NotPending
  /\ op = NoOp /\ target = 0
  /\ sinceAction = [s \in Service |-> Horizon]
  /\ history = [s \in Service |-> {}]
  /\ sinceApplied = [s \in Service |-> Horizon]
  /\ forgotten = [s \in Service |-> FALSE]
  /\ wanted = [s \in Service |-> [r \in Replica |-> Horizon]]

Loop ==
  \/ Tick
  \/ ManagedServices
  \/ ManagedServicesFails
  \/ \E ok \in BOOLEAN : Nodes(ok)
  \/ \E s \in Service, ok \in BOOLEAN : Tasks(s, ok)
  \/ NoValue
  \/ Value
  \/ Heal
  \/ AllVisited
  \/ Rebalance
  \/ Return
  \/ Apply
  \/ ScaleReturns \/ HealReturns \/ RebalanceReturns

Surroundings ==
  \/ Elapse
  \/ \E s \in Service : OutsideScale(s) \/ Relabel(s) \/ TaskChange(s) \/ NodeChange(s)
  \/ Restart

Next == Loop \/ Surroundings

Spec == Init /\ [][Next]_vars

(* The loop is one goroutine that always has a next step, and time passes.   *)
(* Its surroundings are under no obligation.                                 *)
FairSpec == Spec /\ WF_vars(Loop) /\ WF_vars(Elapse)

-------------------------------------------------------------------------------
(* Properties.                                                             *)

(* Every variable has its type. *)
TypeOK ==
  /\ replicas \in [Service -> Replica]
  /\ labels \in [Service -> Labels]
  /\ pendingFor \in [Service -> Age \cup {NotPending}]
  /\ recovered \subseteq Service
  /\ dryRun \in DryRun
  /\ pc \in {"Idle", "ListEnabled", "ListHeal", "ListRebalance", "ListNodes"} \cup InTick
  /\ lag \in 0 .. MaxLag
  /\ listed \subseteq Service
  /\ seen \in [Service -> [replicas : Replica, labels : Labels]]
  /\ nodesOk \in BOOLEAN
  /\ seenRecovered \subseteq Service
  /\ tasksOf \subseteq Service
  /\ todo \subseteq Service
  /\ cur \in Service
  /\ seenFor \in Int
  /\ op \in Kind \cup {NoOp}
  /\ target \in Replica
  /\ sinceAction \in [Service -> Age]
  /\ history \in [Service -> SUBSET [age : Age, rec : Replica]]
  /\ sinceApplied \in [Service -> Age]
  /\ forgotten \in [Service -> BOOLEAN]
  /\ wanted \in [Service -> [Replica -> Age]]

(* "All actions on a service share one 'last action' timestamp, so a recent  *)
(* mutation of any kind delays the next one" (cooldown.go): when a mutation  *)
(* is on its way to Swarm, the last one Swarm applied to that service lies a *)
(* full window of the new one's kind back.  The clock that counts is         *)
(* Swarm's, not the tracker's.  The one way around it is a mutation the      *)
(* process has no record of: its answer was lost, or the process restarted.  *)
SpacedMutations ==
  pc = "Sent" /\ ~forgotten[cur] => sinceApplied[cur] >= Window[op]

(* A scale never moves a service away from its [min, max]: it ends inside,   *)
(* or on the way there from the count the tick observed, whatever the        *)
(* stabilizer remembers from under earlier labels and wherever the step      *)
(* limit stops (reconciler.go, autoscaler.go).                               *)
ScalesTowardBounds ==
  pc = "Sent" /\ op \in {"up", "down"} =>
    LET p == seen[cur].labels IN TowardBounds(seen[cur].replicas, target, p.min, p.max)

(* A scale-down never goes below a count that was recommended within the     *)
(* stabilization window, counted back from the tick's clock reading, however *)
(* often the history was pruned since (stabilizer.go).                       *)
ShrinksOnlyBelowWindow ==
  pc = "Sent" /\ op = "down" /\ StabilizationWindow > 0 =>
    \A r \in Replica :
      target < r /\ r <= seen[cur].replicas => wanted[cur][r] - lag > StabilizationWindow

(* "In dry-run mode an intended action is logged and the cooldown is recorded *)
(* so the 'would...' log is throttled to once per window" (guard.go): each of *)
(* the three methods reaches the log and never Swarm, and what it would do   *)
(* comes a full window of its kind after the last thing any of them would    *)
(* have done to the service, unless the process restarted in between.        *)
DryRunOnlyLogs ==
  dryRun =>
    /\ pc \notin {"Sent", "Applied"}
    /\ pc = "Would" /\ ~forgotten[cur] => sinceApplied[cur] >= Window[op]

(* When the nodes could not be listed the tick disrupts nothing: only scales *)
(* go out, or are logged (the comment above the node listing in reconciler.go).             *)
BlindTickOnlyScales ==
  pc \in {"Would", "Sent", "Applied"} /\ ~nodesOk => op \in {"up", "down"}

(* A heal-only service that stays stuck - a pending task, and the node it    *)
(* waits for is back - is force-updated again and again until it is not,     *)
(* once Docker answers: neither the other services of the loop, nor the      *)
(* cooldowns, nor anything that failed earlier holds it back for good        *)
(* (healer.go, guard.go).                                                    *)
StaysStuck(s) ==
  /\ labels[s].optIn = {"heal"} /\ labels[s].heal /\ ~labels[s].rebalance
  /\ pendingFor[s] # NotPending /\ s \in recovered
  /\ ~dryRun
CallFails ==
  \/ ManagedServicesFails \/ Nodes(FALSE) \/ CallEnds(FALSE)
  \/ \E s \in Service : Tasks(s, FALSE)
StuckServiceIsHealed ==
  <>[][~CallFails]_vars =>
    \A s \in Service :
      <>[]StaysStuck(s) => []<>(pc = "Applied" /\ op = "heal" /\ cur = s)

(* A count whose readings do not move it under policy p: enough replicas for the *)
(* load and, unless at the minimum, not more than the rule asks for.         *)
Adequate(p, n) ==
  /\ n \in p.min .. p.max
  /\ \A value \in Readings(n) :
       /\ value >= 0
       /\ n = p.max \/ 10 * value < 11 * p.target
       /\ n = p.min \/ 9 * p.target <= 10 * value \/ (n - 1) * p.target < n * value

(* An adequate count is left alone where nobody else writes: no history, step *)
(* limit, stale listing, restart or lost answer makes the loop act on one    *)
(* (autoscaler.go, stabilizer.go, guard.go).                                 *)
AdequateIsKept ==
  [][\A s \in Service : Adequate(labels[s], replicas[s]) => replicas'[s] = replicas[s]]_vars

-------------------------------------------------------------------------------
(* What the documentation says and the code does not do.                   *)

(* "After any action ..., further actions on that service are suppressed for *)
(* the matching window" (docs/configuration.md): with no exemption for a     *)
(* mutation whose answer never came, the Guard records nothing on an error   *)
(* (guard.go).                                                               *)
EveryMutationSpaced == pc = "Sent" => sinceApplied[cur] >= Window[op]

(* "Hold a scale-down until the recommendation has stayed low for this long" *)
(* (docs/configuration.md): a scale-down is never sent on the strength of    *)
(* the only recommendation in the window (stabilizer.go).                    *)
NoShrinkOnOneReading ==
  [][pc = "Metric" /\ pc' = "Sent" /\ op' = "down" /\ StabilizationWindow > 0
       => InWindow(history[cur]) # {}]_vars
===============================================================================
