------------------------------ MODULE TaskErrors ------------------------------
(***************************************************************************)
(* The task-error window: each tick of the reconciler lists all tasks and  *)
(* services of the cluster, classifies the tasks that carry an error and   *)
(* records them in the shared tracker, whose window it publishes as a      *)
(* gauge; a while after each successful deploy the GitOps loop reads the   *)
(* same window and alerts on the network errors of its stack.              *)
(*                                                                         *)
(* Times are ages, saturated at the window.  A                              *)
(* service name is the sequence of its words between underscores; "<stack>_" *)
(* is a proper prefix of it.                                               *)
(***************************************************************************)
EXTENDS Naturals, Sequences, FiniteSets, SequencesExt, Overlay

CONSTANTS
  Task,        \* task instances
  ServiceId,   \* IDs of services
  ServiceOf,   \* the service of each task
  NameOf,      \* the name of each service
  StackName,   \* the configured stacks, as words
  NamesIn,     \* the names of the services each stack has
  Text,        \* error texts, as the set of the known phrases they contain
  ErrorWindow, \* TaskErrorsWindow
  CheckDelay,  \* DeployCheckDelay
  Cap          \* most events the tracker holds

(* A service's name tells the stack it belongs to. *)
BelongsTo(service, s) == Len(s) < Len(service) /\ SubSeq(service, 1, Len(s)) = s

ASSUME TaskErrorsConstantsOK ==
  /\ IsFiniteSet(Task) /\ <<>> \notin StackName
  /\ ServiceOf \in [Task -> ServiceId]
  /\ NamesIn \in [StackName -> SUBSET {NameOf[id] : id \in ServiceId}]
  /\ \A s \in StackName : \A service \in NamesIn[s] : BelongsTo(service, s)
  /\ ErrorWindow \in Nat /\ CheckDelay \in Nat /\ Cap \in Nat \ {0}
  /\ \A text \in Text : text \subseteq {"vxlan file exists", "sandbox join failed"}

VARIABLES
  swarmTask,  \* Swarm: each task: absent, fine, or failed with a class and an age
  named,      \* Swarm: the services the listing has
  events,     \* the tracker
  gauge,      \* the series of task_errors_window and their values
  checks,     \* per stack: for how long each of its post-deploy checks has waited
  alert,      \* what a post-deploy check alerted just now
  recorded    \* history: the failures recorded and not evicted, as Swarm stamped them

errorVars == <<swarmTask, named, events, gauge, checks, alert, recorded>>
swarmSide == <<swarmTask, named>>
tracker == <<events, recorded>>

Age == 0 .. ErrorWindow
Network == {"vxlan_file_exists", "network_sandbox_join_failed"}
Class == Network \cup {"other"}
Fine == [state |-> "fine", class |-> "other", age |-> 0]
Absent == [Fine EXCEPT !.state = "absent"]
NoGauge == [series \in {} |-> 0]
NoAlert == [stack |-> <<>>, hits |-> NoGauge]

Older(r) == [r EXCEPT !.age = IF @ = ErrorWindow THEN @ ELSE @ + 1]

(* The most specific phrase decides. *)
Classify(text) ==
  CASE "vxlan file exists" \in text -> "vxlan_file_exists"
    [] "sandbox join failed" \in text -> "network_sandbox_join_failed"
    [] OTHER -> "other"

-------------------------------------------------------------------------------
(* The tracker.                                                            *)

SameKey(e, f) == e.service = f.service /\ e.task = f.task
Tracked(e, known) == \E f \in known : SameKey(e, f)
Oldest(known) == {e \in known : \A f \in known : f.age <= e.age}

(* Mutant: an error seen again starts its window afresh. *)
RecordRefreshing(known, e) ==
  IF Cardinality(known) >= Cap /\ ~Tracked(e, known)
  THEN {(known \ {old}) \cup {e} : old \in Oldest(known)}
  ELSE {{f \in known : ~SameKey(e, f)} \cup {[e EXCEPT !.age = 0]}}

(* Mutant: nothing makes room for an event. *)
RecordWithoutRoom(known, e) == IF Tracked(e, known) THEN {known} ELSE {known \cup {e}}

(* One event: known by its key, or in the place of one of the oldest if the  *)
(* tracker is full, or new.                                                 *)
RecordEvent(known, e) ==
  IF Tracked(e, known) THEN {known}
  ELSE IF Cardinality(known) >= Cap THEN {(known \ {old}) \cup {e} : old \in Oldest(known)}
  ELSE {known \cup {e}}

RecordAll(known, list) ==
  LET trackers[i \in 0 .. Len(list)] ==
        IF i = 0 THEN {known} ELSE UNION {RecordEvent(k, list[i]) : k \in trackers[i - 1]}
  IN  trackers[Len(list)]

Young(known) == {e \in known : e.age < ErrorWindow}

(* The snapshot: how many events of each service and class. *)
WindowSnapshot(known) ==
  [series \in {<<e.service, e.class>> : e \in Young(known)} |->
     Cardinality({e \in Young(known) : <<e.service, e.class>> = series})]

-------------------------------------------------------------------------------
(* The tick of the reconciler.                                             *)

(* A task of a service that is not listed is recorded under the raw ID. *)
ServiceName(t) == IF ServiceOf[t] \in named THEN NameOf[ServiceOf[t]] ELSE <<ServiceOf[t]>>

(* joinTaskEvents, over every order the tasks may be listed in. *)
JoinTaskEvents ==
  {[i \in DOMAIN list |-> [service |-> ServiceName(list[i]), task |-> list[i],
                           class |-> swarmTask[list[i]].class, age |-> swarmTask[list[i]].age]] :
     list \in SetToSeqs({t \in Task : swarmTask[t].state = "failed"})}

(* The series that are set: none is for a count of zero. *)
Published(known) == Over(WindowSnapshot(known), gauge)

(* Both listings answered (nothing happens if one fails): the events are     *)
(* recorded, the window is pruned and published.                            *)
ObserveTaskErrors ==
  \E list \in JoinTaskEvents : \E known \in RecordAll(events, list) :
    LET still == {r \in recorded : r \in known} IN
    /\ gauge' = Published(known)
    /\ events' = Young(known)
    /\ recorded' = still \cup {e \in Range(list) : Tracked(e, known) /\ ~Tracked(e, still)}
    /\ UNCHANGED <<swarmSide, checks, alert>>

-------------------------------------------------------------------------------
(* The post-deploy check.                                                  *)

(* A deploy of the stack has succeeded. *)
ScheduleCheck(s) ==
  /\ 0 \notin checks[s]
  /\ checks' = [checks EXCEPT ![s] = @ \cup {0}]
  /\ UNCHANGED <<swarmSide, tracker, gauge, alert>>

(* Mutant: the check reads its own, shorter window. *)
CheckOwnWindow(s) ==
  LET snapshot == WindowSnapshot({e \in events : e.age < CheckDelay}) IN
  /\ CheckDelay \in checks[s] /\ checks' = [checks EXCEPT ![s] = @ \ {CheckDelay}]
  /\ alert' = [stack |-> s,
               hits |-> [series \in {x \in DOMAIN snapshot : BelongsTo(x[1], s) /\ x[2] \in Network}
                           |-> snapshot[series]]]
  /\ events' = {e \in events : e.age < CheckDelay}
  /\ UNCHANGED <<swarmSide, recorded, gauge>>

(* The delay is over. *)
RunPostDeployCheck(s) ==
  LET snapshot == WindowSnapshot(events) IN
  /\ CheckDelay \in checks[s] /\ checks' = [checks EXCEPT ![s] = @ \ {CheckDelay}]
  /\ alert' = [stack |-> s,
               hits |-> [series \in {x \in DOMAIN snapshot : BelongsTo(x[1], s) /\ x[2] \in Network}
                           |-> snapshot[series]]]
  /\ events' = Young(events)
  /\ UNCHANGED <<swarmSide, recorded, gauge>>

-------------------------------------------------------------------------------
(* Swarm, time and the process.                                            *)

TaskStarts(t) ==
  /\ swarmTask[t].state = "absent" /\ ServiceOf[t] \in named
  /\ swarmTask' = [swarmTask EXCEPT ![t] = Fine]
  /\ UNCHANGED <<named, tracker, gauge, checks, alert>>

TaskFails(t, text) ==
  /\ swarmTask[t].state = "fine"
  /\ swarmTask' = [swarmTask EXCEPT ![t] = [state |-> "failed", class |-> Classify(text), age |-> 0]]
  /\ UNCHANGED <<named, tracker, gauge, checks, alert>>

(* A pending task's error goes away, or the task does.  An ID never returns: *)
(* the model uses a task again once nobody remembers it.                     *)
TaskRecovers(t) ==
  /\ swarmTask[t].state = "failed"
  /\ swarmTask' = [swarmTask EXCEPT ![t] = Fine]
  /\ UNCHANGED <<named, tracker, gauge, checks, alert>>
TaskGoes(t) ==
  /\ swarmTask[t].state # "absent"
  /\ \A e \in events : e.task # t
  /\ swarmTask' = [swarmTask EXCEPT ![t] = Absent]
  /\ recorded' = {r \in recorded : r.task # t}
  /\ UNCHANGED <<named, events, gauge, checks, alert>>

ServiceGoes(id) ==
  /\ id \in named /\ named' = named \ {id}
  /\ UNCHANGED <<swarmTask, tracker, gauge, checks, alert>>

(* A check due now runs before more time passes. *)
ElapseErrors ==
  /\ \A s \in StackName : CheckDelay \notin checks[s]
  /\ swarmTask' = [t \in Task |-> IF swarmTask[t].state = "failed" THEN Older(swarmTask[t]) ELSE swarmTask[t]]
  /\ events' = {Older(e) : e \in events} /\ recorded' = {Older(r) : r \in recorded}
  /\ checks' = [s \in StackName |-> {c + 1 : c \in checks[s]}]
  /\ alert' = NoAlert
  /\ UNCHANGED <<named, gauge>>

(* The tracker, the pending checks and the gauge go with the process. *)
ForgetErrors ==
  /\ events' = {} /\ recorded' = {} /\ gauge' = NoGauge
  /\ checks' = [s \in StackName |-> {}] /\ alert' = NoAlert
  /\ UNCHANGED swarmSide

ErrorsInit ==
  /\ swarmTask = [t \in Task |-> Absent] /\ named = ServiceId
  /\ events = {} /\ recorded = {} /\ gauge = NoGauge
  /\ checks = [s \in StackName |-> {}] /\ alert = NoAlert

ErrorsNext ==
  \/ ObserveTaskErrors \/ ElapseErrors \/ ForgetErrors
  \/ \E s \in StackName : ScheduleCheck(s) \/ RunPostDeployCheck(s)
  \/ \E t \in Task : TaskStarts(t) \/ TaskRecovers(t) \/ TaskGoes(t) \/ \E text \in Text : TaskFails(t, text)
  \/ \E id \in ServiceId : ServiceGoes(id)

ErrorsSpec == ErrorsInit /\ [][ErrorsNext]_errorVars

-------------------------------------------------------------------------------
(* Properties.                                                             *)

(* The tracker never holds more than its capacity, nor a failure twice under *)
(* one name; every reader leaves only ages the window can tell apart.        *)
ErrorsTypeOK ==
  /\ \A t \in Task : swarmTask[t] \in [state : {"absent", "fine", "failed"}, class : Class, age : Age]
  /\ named \subseteq ServiceId
  /\ Cardinality(events) <= Cap
  /\ \A e \in events : e.task \in Task /\ e.class \in Class /\ e.age \in Age
  /\ \A e, f \in events : SameKey(e, f) => e = f
  /\ \A series \in DOMAIN gauge : series[2] \in Class /\ gauge[series] \in 1 .. Cap
  /\ checks \in [StackName -> SUBSET (0 .. CheckDelay)]

(* The window has one content for its two readers, whose own snapshots prune *)
(* it at times of their own: every failure recorded and not evicted, from the *)
(* stamp Swarm gave it until it is as old as the window, and no other.       *)
TrackerHoldsWindow == Young(events) = Young(recorded)

(* A post-deploy check alerts on every network error of its stack's services *)
(* recorded within the window before it, each counted once, and on nothing   *)
(* else (but errors of a stack whose name its own begins); whichever reader   *)
(* pruned the window before.                                                *)
ChecksTellTheWindow ==
  [][alert' # alert /\ alert'.stack \in StackName =>
       LET alerted == WindowSnapshot({e \in recorded : e.class \in Network}) IN
       \A series \in DOMAIN alerted \cup DOMAIN alert'.hits :
         /\ series[1] \in NamesIn[alert'.stack] => series \in DOMAIN alert'.hits
         /\ series \in DOMAIN alert'.hits => /\ BelongsTo(series[1], alert'.stack)
                                            /\ series \in DOMAIN alerted
                                            /\ alert'.hits[series] = alerted[series]]_errorVars

(* "services whose errors aged out get their series deleted [...] instead of *)
(* lingering" (reconciler.go:285): between two ticks every series of the     *)
(* gauge has the count of the last snapshot.                                *)
GaugeFollowsWindow == [][ObserveTaskErrors => gauge' = WindowSnapshot(events')]_errorVars
===============================================================================
