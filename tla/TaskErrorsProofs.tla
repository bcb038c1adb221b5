-------------------------- MODULE TaskErrorsProofs --------------------------
(***************************************************************************)
(* Proofs about TaskErrors, for every set of tasks, services and stacks,   *)
(* every window and delay and every capacity of the tracker.               *)
(***************************************************************************)
EXTENDS TaskErrors, Induction

-------------------------------------------------------------------------------
(* The inductive invariant.                                                *)

Name == {NameOf[id] : id \in ServiceId} \cup {<<id>> : id \in ServiceId}
Event == [service : Name, task : Task, class : Class, age : Age]
TaskState == [state : {"absent", "fine", "failed"}, class : Class, age : Age]
OneEach(known) == \A e, f \in known : SameKey(e, f) => e = f

(* What the tracker holds within a set of events. *)
Tracker(B) == {known \in SUBSET B : IsFiniteSet(known) /\ Cardinality(known) <= Cap /\ OneEach(known)}

(* The tracker holds recorded failures only, and each of them that is younger *)
(* than the window: an older one it may still hold, until a reader prunes it. *)
HoldsRecorded == events \subseteq recorded /\ Young(recorded) \subseteq events

GaugeOK == \A series \in DOMAIN gauge : series[2] \in Class /\ gauge[series] \in 1 .. Cap

ErrorsInv ==
  /\ swarmTask \in [Task -> TaskState] /\ named \subseteq ServiceId
  /\ events \in Tracker(Event)
  /\ recorded \subseteq Event /\ HoldsRecorded
  /\ GaugeOK
  /\ checks \in [StackName -> SUBSET (0 .. CheckDelay)]

-------------------------------------------------------------------------------
(* The tracker.                                                            *)

LEMMA WindowLimits ==
  /\ ErrorWindow \in Nat /\ CheckDelay \in Nat /\ Cap \in Nat \ {0}
  /\ IsFiniteSet(Task) /\ ServiceOf \in [Task -> ServiceId]
BY TaskErrorsConstantsOK DEF TaskErrorsConstantsOK

(* An event is recorded in the room there is, and none is held twice. *)
LEMMA RecordEventKeeps ==
  ASSUME NEW B, NEW known \in Tracker(B), NEW e \in B, NEW k \in RecordEvent(known, e)
  PROVE  k \in Tracker(B)
<1>1. known \subseteq B /\ IsFiniteSet(known) /\ Cardinality(known) <= Cap /\ OneEach(known)
  BY DEF Tracker
<1>2. Cap \in Nat \ {0} /\ Cardinality(known) \in Nat
  BY <1>1, WindowLimits, FS_CardinalityType
<1>3. CASE Tracked(e, known)
  <2>1. k = known
    BY <1>3 DEF RecordEvent
  <2> QED
    BY <2>1
<1>4. CASE ~Tracked(e, known) /\ Cardinality(known) >= Cap
  <2>1. PICK old \in Oldest(known) : k = (known \ {old}) \cup {e}
    BY <1>4 DEF RecordEvent
  <2>2. old \in known
    BY DEF Oldest
  <2>3. e \notin known /\ \A f \in known : ~SameKey(e, f) /\ ~SameKey(f, e)
    BY <1>4 DEF Tracked, SameKey
  <2>4. IsFiniteSet(known \ {old}) /\ Cardinality(known \ {old}) = Cardinality(known) - 1
    BY <1>1, <2>2, FS_RemoveElement
  <2>5. IsFiniteSet(k) /\ Cardinality(k) = Cardinality(known)
    <3>1. IsFiniteSet((known \ {old}) \cup {e})
          /\ Cardinality((known \ {old}) \cup {e}) = Cardinality(known \ {old}) + 1
      BY <2>4, <2>3, FS_AddElement
    <3> QED
      BY <3>1, <2>1, <2>4, <1>2
  <2>6. OneEach(k)
    BY <2>1, <2>3, <1>1 DEF OneEach
  <2> QED
    BY <2>1, <2>5, <2>6, <1>1 DEF Tracker
<1>5. CASE ~Tracked(e, known) /\ Cardinality(known) < Cap
  <2>1. k = known \cup {e}
    BY <1>5, <1>2 DEF RecordEvent
  <2>2. e \notin known /\ \A f \in known : ~SameKey(e, f) /\ ~SameKey(f, e)
    BY <1>5 DEF Tracked, SameKey
  <2>3. IsFiniteSet(k) /\ Cardinality(k) <= Cap
    <3>1. IsFiniteSet(known \cup {e}) /\ Cardinality(known \cup {e}) = Cardinality(known) + 1
      BY <1>1, <2>2, FS_AddElement
    <3> QED
      BY <3>1, <2>1, <1>5, <1>2
  <2>4. OneEach(k)
    BY <2>1, <2>2, <1>1 DEF OneEach
  <2> QED
    BY <2>1, <2>3, <2>4, <1>1 DEF Tracker
<1> QED
  BY <1>3, <1>4, <1>5, <1>2

(* So is a batch, recorded event by event. *)
LEMMA RecordAllKeeps ==
  ASSUME NEW B, NEW known \in Tracker(B), NEW m \in Nat, NEW list \in [1 .. m -> B],
         Len(list) = m, NEW k \in RecordAll(known, list)
  PROVE  k \in Tracker(B)
<1> DEFINE V == SUBSET Tracker(B)
           Grown(X, n) == UNION {RecordEvent(x, list[n]) : x \in X}
           step == [n \in 1 .. m |-> [X \in V |-> Grown(X, n)]]
           trackers[i \in 0 .. m] ==
             IF i = 0 THEN {known} ELSE UNION {RecordEvent(x, list[i]) : x \in trackers[i - 1]}
           S == {i \in 0 .. m : trackers[i] \in V}
<1>1. RecordAll(known, list) = trackers[m]
  BY DEF RecordAll
<1>2. \A n \in 1 .. m : \A X \in V : Grown(X, n) \in V
  <2> SUFFICES ASSUME NEW n \in 1 .. m, NEW X \in V, NEW x \in X, NEW y \in RecordEvent(x, list[n])
               PROVE  y \in Tracker(B)
    OBVIOUS
  <2>1. list[n] \in B /\ x \in Tracker(B)
    OBVIOUS
  <2> QED
    BY <2>1, RecordEventKeeps
<1>3. step \in [1 .. m -> [V -> V]]
  BY <1>2
<1>4. {known} \in V
  OBVIOUS
<1>5. \E f \in [0 .. m -> V] : Iterates(f, m, {known}, step)
  <2> HIDE DEF V, step
  <2> QED
    BY <1>3, <1>4, IterationExists
<1>6. PICK f \in [0 .. m -> V] : Iterates(f, m, {known}, step)
  BY <1>5
<1>7. f = [i \in 0 .. m |-> IF i = 0 THEN {known} ELSE Grown(f[i - 1], i)]
  <2>1. \A i \in 0 .. m : f[i] = IF i = 0 THEN {known} ELSE step[i][f[i - 1]]
    BY <1>6 DEF Iterates
  <2>2. ASSUME NEW i \in 0 .. m, i # 0
        PROVE  step[i][f[i - 1]] = Grown(f[i - 1], i)
    <3>1. i \in 1 .. m /\ i - 1 \in 0 .. m
      BY <2>2
    <3>2. f[i - 1] \in V
      BY <3>1
    <3> QED
      BY <3>1, <3>2
  <2> QED
    BY <2>1, <2>2
<1>8. trackers = [i \in 0 .. m |-> IF i = 0 THEN {known} ELSE Grown(trackers[i - 1], i)]
  BY <1>7
<1>9. \A i \in 0 .. m : trackers[i] = IF i = 0 THEN {known} ELSE Grown(trackers[i - 1], i)
  <2> HIDE DEF trackers
  <2> QED
    BY <1>8
<1> HIDE DEF trackers, Grown
<1>10. 0 \in S
  <2>1. 0 \in 0 .. m
    OBVIOUS
  <2>2. trackers[0] = {known}
    BY <2>1, <1>9
  <2> QED
    BY <2>1, <2>2, <1>4
<1>11. ASSUME NEW i \in 0 .. m - 1, i \in S
       PROVE  i + 1 \in S
  <2>1. i + 1 \in 0 .. m /\ i + 1 \in 1 .. m /\ i + 1 # 0 /\ i + 1 - 1 = i
    OBVIOUS
  <2>2. trackers[i + 1] = Grown(trackers[i], i + 1)
    BY <2>1, <1>9
  <2>3. trackers[i] \in V
    BY <1>11
  <2>4. trackers[i + 1] \in V
    <3> HIDE DEF V
    <3> QED
      BY <2>1, <2>2, <2>3, <1>2
  <2> QED
    BY <2>1, <2>4
<1>12. 0 .. m \subseteq S
  <2> HIDE DEF S
  <2> QED
    BY <1>10, <1>11, UpToInduction
<1>13. m \in S
  BY <1>12
<1> QED
  BY <1>13, <1>1

(* The events of a tick: one of each failed task, whatever their order. *)
LEMMA JoinedEvents ==
  ASSUME ErrorsInv, NEW list \in JoinTaskEvents
  PROVE  /\ \E m \in Nat : list \in [1 .. m -> Range(list)] /\ Len(list) = m
         /\ Range(list) \subseteq Event /\ OneEach(Range(list))
<1> DEFINE failed == {t \in Task : swarmTask[t].state = "failed"}
           m == Cardinality(failed)
           event(t) == [service |-> ServiceName(t), task |-> t,
                        class |-> swarmTask[t].class, age |-> swarmTask[t].age]
<1>1. m \in Nat
  <2>1. IsFiniteSet(Task) /\ failed \in SUBSET Task
    BY WindowLimits
  <2> HIDE DEF failed
  <2> QED
    BY <2>1, FS_Subset, FS_CardinalityType
<1>2. PICK tasks \in [1 .. m -> failed] :
        /\ \A i, j \in 1 .. m : i # j => tasks[i] # tasks[j]
        /\ list = [i \in 1 .. m |-> event(tasks[i])]
  BY DEF JoinTaskEvents, SetToSeqs
<1>3. \A t \in failed : event(t) \in Event
  <2> SUFFICES ASSUME NEW t \in failed
               PROVE  event(t) \in Event
    OBVIOUS
  <2>1. ServiceName(t) \in Name
    BY WindowLimits DEF ServiceName, Name
  <2>2. swarmTask[t] \in TaskState
    BY DEF ErrorsInv
  <2> QED
    BY <2>1, <2>2 DEF Event, TaskState
<1>4. \A t, u \in failed : SameKey(event(t), event(u)) => t = u
  BY DEF SameKey
<1> HIDE DEF failed, m, event
<1>5. DOMAIN list = 1 .. m /\ \A i \in 1 .. m : list[i] = event(tasks[i]) /\ tasks[i] \in failed
  BY <1>2
<1>6. Range(list) = {event(tasks[i]) : i \in 1 .. m}
  BY <1>5 DEF Range
<1>7. list \in [1 .. m -> Range(list)]
  BY <1>2, <1>6
<1>8. Len(list) = m
  BY <1>1, <1>7
<1>9. Range(list) \subseteq Event
  BY <1>6, <1>3, <1>5
<1>10. OneEach(Range(list))
  BY <1>6, <1>4, <1>5 DEF OneEach
<1> QED
  BY <1>1, <1>7, <1>8, <1>9, <1>10

(* A snapshot counts events, each series at least one. *)
LEMMA SnapshotCounts ==
  ASSUME NEW B, B \subseteq Event, NEW known \in Tracker(B), NEW series \in DOMAIN WindowSnapshot(known)
  PROVE  series[2] \in Class /\ WindowSnapshot(known)[series] \in 1 .. Cap
<1> DEFINE counted == {e \in Young(known) : <<e.service, e.class>> = series}
<1>1. PICK e \in Young(known) : series = <<e.service, e.class>>
  BY DEF WindowSnapshot
<1>2. e \in Event
  BY DEF Young, Tracker
<1>3. WindowSnapshot(known)[series] = Cardinality(counted)
  BY DEF WindowSnapshot
<1>4. counted \in SUBSET known /\ e \in counted
  BY <1>1 DEF Young
<1> HIDE DEF counted
<1>5. IsFiniteSet(counted) /\ Cardinality(counted) <= Cardinality(known)
  BY <1>4, FS_Subset DEF Tracker
<1>6. Cardinality(counted) \in Nat /\ Cardinality(counted) # 0
  BY <1>5, <1>4, FS_CardinalityType, FS_EmptySet
<1>7. Cardinality(known) \in Nat /\ Cardinality(known) <= Cap /\ Cap \in Nat
  BY FS_CardinalityType, WindowLimits DEF Tracker
<1>8. Cardinality(counted) \in 1 .. Cap
  BY <1>5, <1>6, <1>7
<1> QED
  BY <1>1, <1>2, <1>3, <1>8 DEF Event

(* A reader's pruning keeps what the tracker may hold. *)
LEMMA PrunedTracker ==
  ASSUME NEW B, NEW known \in Tracker(B)
  PROVE  Young(known) \in Tracker(B)
<1>1. Young(known) \in SUBSET known
  BY DEF Young
<1>2. IsFiniteSet(Young(known)) /\ Cardinality(Young(known)) <= Cardinality(known)
  BY <1>1, FS_Subset DEF Tracker
<1>3. Cardinality(Young(known)) <= Cap
  <2>1. Cardinality(known) \in Nat /\ Cardinality(Young(known)) \in Nat /\ Cap \in Nat
    BY <1>2, FS_CardinalityType, WindowLimits DEF Tracker
  <2>2. Cardinality(known) <= Cap
    BY DEF Tracker
  <2> QED
    BY <1>2, <2>1, <2>2
<1> QED
  BY <1>1, <1>2, <1>3 DEF Tracker, OneEach

-------------------------------------------------------------------------------
(* The steps.                                                              *)

LEMMA ObserveKeepsInv ==
  ASSUME ErrorsInv, ObserveTaskErrors
  PROVE  ErrorsInv'
<1>0. PICK list \in JoinTaskEvents : \E known \in RecordAll(events, list) :
        /\ gauge' = Published(known)
        /\ events' = Young(known)
        /\ recorded' = {r \in recorded : r \in known}
             \cup {e \in Range(list) : Tracked(e, known) /\ ~Tracked(e, {r \in recorded : r \in known})}
        /\ UNCHANGED <<swarmSide, checks, alert>>
  BY DEF ObserveTaskErrors
<1>1. PICK known \in RecordAll(events, list) :
        /\ gauge' = Published(known)
        /\ events' = Young(known)
        /\ recorded' = {r \in recorded : r \in known}
             \cup {e \in Range(list) : Tracked(e, known) /\ ~Tracked(e, {r \in recorded : r \in known})}
        /\ UNCHANGED <<swarmSide, checks, alert>>
  BY <1>0
<1> DEFINE B == events \cup Range(list)
           still == {r \in recorded : r \in known}
<1>2. PICK m \in Nat : list \in [1 .. m -> Range(list)] /\ Len(list) = m
  BY JoinedEvents
<1>3. Range(list) \subseteq Event /\ OneEach(Range(list))
  BY JoinedEvents
<1>4. events \in Tracker(B) /\ list \in [1 .. m -> B] /\ B \subseteq Event
  BY <1>2, <1>3 DEF ErrorsInv, Tracker
<1>5. known \in Tracker(B)
  <2> HIDE DEF B
  <2> QED
    BY <1>1, <1>2, <1>4, RecordAllKeeps
<1>6. known \subseteq B /\ OneEach(known)
  BY <1>5 DEF Tracker
<1>7. events' \in Tracker(Event)
  <2>1. Young(known) \in Tracker(B)
    BY <1>5, PrunedTracker
  <2> QED
    BY <2>1, <1>1, <1>4 DEF Tracker
<1>8. recorded' \subseteq Event
  BY <1>1, <1>3 DEF ErrorsInv
<1>9. known \subseteq recorded'
  <2> SUFFICES ASSUME NEW k \in known, k \notin still
               PROVE  k \in recorded'
    BY <1>1
  <2>1. k \in Range(list)
    BY <1>6 DEF ErrorsInv, HoldsRecorded
  <2>2. Tracked(k, known)
    BY DEF Tracked, SameKey
  <2>3. ~Tracked(k, still)
    BY <1>6 DEF Tracked, OneEach
  <2> QED
    BY <2>1, <2>2, <2>3, <1>1
<1>10. recorded' \subseteq known
  <2> SUFFICES ASSUME NEW e \in Range(list), Tracked(e, known), ~Tracked(e, still)
               PROVE  e \in known
    BY <1>1
  <2>1. PICK f \in known : SameKey(e, f)
    BY DEF Tracked
  <2>2. f \notin events
    BY <2>1 DEF Tracked, ErrorsInv, HoldsRecorded
  <2>3. f \in Range(list)
    BY <2>2, <1>6
  <2> QED
    BY <2>1, <2>3, <1>3 DEF OneEach
<1>11. HoldsRecorded'
  BY <1>1, <1>9, <1>10 DEF HoldsRecorded, Young
<1>12. GaugeOK'
  <2> SUFFICES ASSUME NEW series \in DOMAIN Published(known)
               PROVE  series[2] \in Class /\ Published(known)[series] \in 1 .. Cap
    BY <1>1 DEF GaugeOK
  <2>1. CASE series \in DOMAIN WindowSnapshot(known)
    <3>1. Published(known)[series] = WindowSnapshot(known)[series]
      BY <2>1 DEF Published, Over
    <3>2. series[2] \in Class /\ WindowSnapshot(known)[series] \in 1 .. Cap
      <4> HIDE DEF B
      <4> QED
        BY <2>1, <1>4, <1>5, SnapshotCounts
    <3> QED
      BY <3>1, <3>2
  <2>2. CASE series \notin DOMAIN WindowSnapshot(known)
    <3>1. series \in DOMAIN gauge /\ Published(known)[series] = gauge[series]
      BY <2>2 DEF Published, Over
    <3> QED
      BY <3>1 DEF ErrorsInv, GaugeOK
  <2> QED
    BY <2>1, <2>2
<1> QED
  BY <1>1, <1>7, <1>8, <1>11, <1>12 DEF ErrorsInv, swarmSide

(* An event that ages keeps its key, its type and its place in the window. *)
LEMMA OlderEvent ==
  ASSUME NEW e \in Event
  PROVE  /\ Older(e) \in Event /\ Older(e).age >= e.age
         /\ Older(e).service = e.service /\ Older(e).task = e.task
BY WindowLimits DEF Event, Age, Older

LEMMA OlderState ==
  ASSUME NEW s \in TaskState
  PROVE  Older(s) \in TaskState
BY WindowLimits DEF TaskState, Age, Older

LEMMA ElapseKeepsInv ==
  ASSUME ErrorsInv, ElapseErrors
  PROVE  ErrorsInv'
<1>1. swarmTask' \in [Task -> TaskState]
  <2>1. ASSUME NEW t \in Task
        PROVE  (IF swarmTask[t].state = "failed" THEN Older(swarmTask[t]) ELSE swarmTask[t]) \in TaskState
    <3>1. swarmTask[t] \in TaskState
      BY DEF ErrorsInv
    <3> QED
      BY <3>1, OlderState
  <2> QED
    BY <2>1 DEF ElapseErrors
<1>2. events \subseteq Event /\ IsFiniteSet(events) /\ Cardinality(events) <= Cap /\ OneEach(events)
      /\ recorded \subseteq Event
  BY DEF ErrorsInv, Tracker
<1>3. events' = {Older(e) : e \in events} /\ recorded' = {Older(r) : r \in recorded}
  BY DEF ElapseErrors
<1>4. events' \in Tracker(Event)
  <2> DEFINE age == [e \in events |-> Older(e)]
  <2>1. age \in Surjection(events, events')
    BY <1>3 DEF Surjection
  <2>2. IsFiniteSet(events') /\ Cardinality(events') <= Cardinality(events)
    <3> HIDE DEF age
    <3> QED
      BY <2>1, <1>2, FS_Surjection
  <2>3. Cardinality(events') <= Cap
    <3>1. Cardinality(events) \in Nat /\ Cardinality(events') \in Nat /\ Cap \in Nat
      BY <1>2, <2>2, FS_CardinalityType, WindowLimits
    <3> QED
      BY <3>1, <2>2, <1>2
  <2>4. OneEach(events')
    <3>1. \A e, f \in events : SameKey(Older(e), Older(f)) => e = f
      BY <1>2, OlderEvent DEF OneEach, SameKey
    <3> QED
      BY <3>1, <1>3 DEF OneEach
  <2>5. events' \subseteq Event
    BY <1>2, <1>3, OlderEvent
  <2> QED
    BY <2>2, <2>3, <2>4, <2>5 DEF Tracker
<1>5. recorded' \subseteq Event
  BY <1>2, <1>3, OlderEvent
<1>6. HoldsRecorded'
  <2>1. events' \subseteq recorded'
    BY <1>3 DEF ErrorsInv, HoldsRecorded
  <2>2. ASSUME NEW r \in recorded, Older(r).age < ErrorWindow
        PROVE  Older(r) \in events'
    <3>1. r \in Event /\ Older(r) \in Event /\ Older(r).age >= r.age
      BY <1>2, OlderEvent
    <3>2. r.age \in Int /\ Older(r).age \in Int /\ ErrorWindow \in Int
      BY <3>1, WindowLimits DEF Event, Age
    <3>3. r \in Young(recorded)
      BY <3>1, <3>2, <2>2 DEF Young
    <3> QED
      BY <3>3, <1>3 DEF ErrorsInv, HoldsRecorded
  <2> QED
    BY <2>1, <2>2, <1>3 DEF HoldsRecorded, Young
<1>7. checks' \in [StackName -> SUBSET (0 .. CheckDelay)]
  <2>1. ASSUME NEW s \in StackName, NEW c \in checks[s]
        PROVE  c + 1 \in 0 .. CheckDelay
    <3>1. c \in 0 .. CheckDelay /\ c # CheckDelay
      BY <2>1 DEF ErrorsInv, ElapseErrors
    <3> QED
      BY <3>1, WindowLimits
  <2> QED
    BY <2>1 DEF ElapseErrors
<1>8. GaugeOK' /\ named' \subseteq ServiceId
  BY DEF ErrorsInv, ElapseErrors, GaugeOK
<1> QED
  BY <1>1, <1>4, <1>5, <1>6, <1>7, <1>8 DEF ErrorsInv

LEMMA ClassifyType == \A text : Classify(text) \in Class
BY DEF Classify, Class, Network

(* The steps of Swarm touch its tasks, and forget what no tracker holds. *)
LEMMA SwarmKeepsInv ==
  ASSUME ErrorsInv,
         \/ \E t \in Task : TaskStarts(t) \/ TaskRecovers(t) \/ TaskGoes(t) \/ \E text \in Text : TaskFails(t, text)
         \/ \E id \in ServiceId : ServiceGoes(id)
  PROVE  ErrorsInv'
<1>1. Fine \in TaskState /\ Absent \in TaskState
  BY WindowLimits DEF TaskState, Fine, Absent, Class, Age
<1>2. ASSUME NEW t \in Task, TaskStarts(t) \/ TaskRecovers(t)
      PROVE  ErrorsInv'
  BY <1>1, <1>2 DEF TaskStarts, TaskRecovers, ErrorsInv, HoldsRecorded, GaugeOK, tracker
<1>3. ASSUME NEW t \in Task, NEW text \in Text, TaskFails(t, text)
      PROVE  ErrorsInv'
  <2>1. [state |-> "failed", class |-> Classify(text), age |-> 0] \in TaskState
    BY ClassifyType, WindowLimits DEF TaskState, Age
  <2> QED
    BY <2>1, <1>3 DEF TaskFails, ErrorsInv, HoldsRecorded, GaugeOK, tracker
<1>4. ASSUME NEW t \in Task, TaskGoes(t)
      PROVE  ErrorsInv'
  <2>1. HoldsRecorded'
    BY <1>4 DEF TaskGoes, ErrorsInv, HoldsRecorded, Young
  <2>2. recorded' \subseteq Event
    BY <1>4 DEF TaskGoes, ErrorsInv
  <2> QED
    BY <1>1, <1>4, <2>1, <2>2 DEF TaskGoes, ErrorsInv, GaugeOK
<1>5. ASSUME NEW id \in ServiceId, ServiceGoes(id)
      PROVE  ErrorsInv'
  BY <1>5 DEF ServiceGoes, ErrorsInv, HoldsRecorded, GaugeOK, tracker
<1> QED
  BY <1>2, <1>3, <1>4, <1>5

(* A deploy schedules a check; a check prunes the window it reads. *)
LEMMA ChecksKeepInv ==
  ASSUME ErrorsInv, NEW s \in StackName, ScheduleCheck(s) \/ RunPostDeployCheck(s)
  PROVE  ErrorsInv'
<1>1. CASE ScheduleCheck(s)
  <2>1. 0 \in 0 .. CheckDelay
    BY WindowLimits
  <2> QED
    BY <1>1, <2>1 DEF ScheduleCheck, ErrorsInv, HoldsRecorded, GaugeOK, tracker, swarmSide
<1>2. CASE RunPostDeployCheck(s)
  <2>1. events' = Young(events) /\ UNCHANGED <<swarmSide, recorded, gauge>>
    BY <1>2 DEF RunPostDeployCheck
  <2>2. events' \in Tracker(Event)
    BY <2>1, PrunedTracker DEF ErrorsInv
  <2>3. HoldsRecorded'
    BY <2>1 DEF ErrorsInv, HoldsRecorded, Young
  <2>4. checks' \in [StackName -> SUBSET (0 .. CheckDelay)]
    BY <1>2 DEF RunPostDeployCheck, ErrorsInv
  <2> QED
    BY <2>1, <2>2, <2>3, <2>4 DEF ErrorsInv, GaugeOK, swarmSide
<1> QED
  BY <1>1, <1>2

LEMMA NothingTracked == {} \in Tracker(Event)
BY FS_EmptySet, WindowLimits DEF Tracker, OneEach

LEMMA ForgetKeepsInv ==
  ASSUME ErrorsInv, ForgetErrors
  PROVE  ErrorsInv'
BY NothingTracked DEF ErrorsInv, ForgetErrors, HoldsRecorded, Young, GaugeOK, NoGauge, swarmSide

LEMMA ErrorsInitInv == ErrorsInit => ErrorsInv
<1> SUFFICES ASSUME ErrorsInit
             PROVE  ErrorsInv
  OBVIOUS
<1>1. Absent \in TaskState
  BY WindowLimits DEF TaskState, Fine, Absent, Class, Age
<1> QED
  BY <1>1, NothingTracked DEF ErrorsInit, ErrorsInv, HoldsRecorded, Young, GaugeOK, NoGauge

LEMMA ErrorsNextInv == ErrorsInv /\ [ErrorsNext]_errorVars => ErrorsInv'
<1> SUFFICES ASSUME ErrorsInv, [ErrorsNext]_errorVars
             PROVE  ErrorsInv'
  OBVIOUS
<1>1. CASE UNCHANGED errorVars
  BY <1>1 DEF errorVars, ErrorsInv, HoldsRecorded, GaugeOK
<1>2. CASE ErrorsNext
  BY <1>2, ObserveKeepsInv, ElapseKeepsInv, ForgetKeepsInv, ChecksKeepInv, SwarmKeepsInv DEF ErrorsNext
<1> QED
  BY <1>1, <1>2

-------------------------------------------------------------------------------
(* The theorems.                                                           *)

LEMMA ErrorsSpecInv == ErrorsSpec => []ErrorsInv
BY ErrorsInitInv, ErrorsNextInv, PTL DEF ErrorsSpec

(* Whatever the listings hold and in whatever order they come, the tracker   *)
(* stays within its capacity, holds one event per task and service name, and *)
(* publishes counts of 1 to its capacity only.                              *)
THEOREM ErrorsTyped == ErrorsSpec => []ErrorsTypeOK
<1>1. ErrorsInv => ErrorsTypeOK
  BY DEF ErrorsInv, ErrorsTypeOK, GaugeOK, Tracker, OneEach, Event, TaskState
<1> QED
  BY <1>1, ErrorsSpecInv, PTL

(* The window holds exactly the failures recorded and not evicted, each from *)
(* the stamp Swarm gave it: neither of its readers takes one from the other,  *)
(* and one recorded again does not live longer.                             *)
THEOREM WindowIsTheRecord == ErrorsSpec => []TrackerHoldsWindow
<1>1. ErrorsInv => TrackerHoldsWindow
  BY DEF ErrorsInv, TrackerHoldsWindow, HoldsRecorded, Young
<1> QED
  BY <1>1, ErrorsSpecInv, PTL

(* The events of one series are the same in the tracker and in the record.   *)
LEMMA SeriesOfStack ==
  ASSUME ErrorsInv, NEW series, series[2] \in Network
  PROVE  {e \in Young(events) : <<e.service, e.class>> = series}
         = {e \in Young({r \in recorded : r.class \in Network}) : <<e.service, e.class>> = series}
<1>1. Young(events) = Young(recorded)
  BY DEF ErrorsInv, HoldsRecorded, Young
<1>2. \A e \in recorded : <<e.service, e.class>> = series => e.class \in Network
  OBVIOUS
<1>3. \A e : e \in Young({r \in recorded : r.class \in Network}) <=> e \in Young(recorded) /\ e.class \in Network
  BY DEF Young
<1>4. \A e \in Young(recorded) : e \in recorded
  BY DEF Young
<1> HIDE DEF Young
<1> QED
  BY <1>1, <1>2, <1>3, <1>4

LEMMA CheckTellsTheWindow ==
  ASSUME ErrorsInv, NEW s \in StackName, RunPostDeployCheck(s)
  PROVE  LET alerted == WindowSnapshot({e \in recorded : e.class \in Network}) IN
         \A series \in DOMAIN alerted \cup DOMAIN alert'.hits :
           /\ series[1] \in NamesIn[s] => series \in DOMAIN alert'.hits
           /\ series \in DOMAIN alert'.hits => /\ BelongsTo(series[1], s)
                                              /\ series \in DOMAIN alerted
                                              /\ alert'.hits[series] = alerted[series]
<1> DEFINE kept == {e \in recorded : e.class \in Network}
           alerted == WindowSnapshot(kept)
           snapshot == WindowSnapshot(events)
           hits == alert'.hits
           Mine(x) == BelongsTo(x[1], s)
<1>1. hits = [series \in {x \in DOMAIN snapshot : Mine(x) /\ x[2] \in Network} |-> snapshot[series]]
  BY DEF RunPostDeployCheck
<1>2. \A x : x[1] \in NamesIn[s] => Mine(x)
  BY TaskErrorsConstantsOK DEF TaskErrorsConstantsOK
<1> HIDE DEF Mine, hits
<1>3. \A x : x \in DOMAIN hits <=> x \in DOMAIN snapshot /\ Mine(x) /\ x[2] \in Network
  BY <1>1
<1>4. \A x \in DOMAIN hits : hits[x] = snapshot[x]
  BY <1>1
<1>5. DOMAIN alerted = {<<e.service, e.class>> : e \in Young(kept)}
      /\ DOMAIN snapshot = {<<e.service, e.class>> : e \in Young(events)}
  BY DEF WindowSnapshot
<1>6. \A x \in DOMAIN alerted : x[2] \in Network /\ x \in DOMAIN snapshot
  <2> SUFFICES ASSUME NEW e \in Young(kept)
               PROVE  LET x == <<e.service, e.class>> IN x[2] \in Network /\ x \in DOMAIN snapshot
    BY <1>5
  <2>1. e \in Young(recorded) /\ e.class \in Network
    BY DEF Young
  <2>2. e \in Young(events)
    BY <2>1 DEF ErrorsInv, HoldsRecorded, Young
  <2> QED
    BY <2>1, <2>2, <1>5
<1>7. ASSUME NEW x, x \in DOMAIN snapshot, x[2] \in Network
      PROVE  x \in DOMAIN alerted /\ snapshot[x] = alerted[x]
  <2>1. {e \in Young(events) : <<e.service, e.class>> = x} = {e \in Young(kept) : <<e.service, e.class>> = x}
    BY <1>7, SeriesOfStack
  <2>2. x \in DOMAIN alerted
    BY <2>1, <1>7, <1>5
  <2> QED
    BY <2>1, <2>2, <1>7 DEF WindowSnapshot
<1> HIDE DEF alerted, snapshot
<1>8. ASSUME NEW series \in DOMAIN alerted \cup DOMAIN hits
      PROVE  /\ series[1] \in NamesIn[s] => series \in DOMAIN hits
             /\ series \in DOMAIN hits => /\ Mine(series)
                                          /\ series \in DOMAIN alerted
                                          /\ hits[series] = alerted[series]
  BY <1>8, <1>2, <1>3, <1>4, <1>6, <1>7
<1> QED
  BY <1>8 DEF alerted, hits, Mine

(* A post-deploy check alerts on the network errors of its stack that were   *)
(* recorded within the window, whatever the tick of the reconciler pruned in *)
(* the meantime.                                                           *)
THEOREM ChecksTellThem == ErrorsSpec => ChecksTellTheWindow
<1> DEFINE Told ==
      alert' # alert /\ alert'.stack \in StackName =>
        LET alerted == WindowSnapshot({e \in recorded : e.class \in Network}) IN
        \A series \in DOMAIN alerted \cup DOMAIN alert'.hits :
          /\ series[1] \in NamesIn[alert'.stack] => series \in DOMAIN alert'.hits
          /\ series \in DOMAIN alert'.hits => /\ BelongsTo(series[1], alert'.stack)
                                             /\ series \in DOMAIN alerted
                                             /\ alert'.hits[series] = alerted[series]
<1>1. ErrorsInv /\ [ErrorsNext]_errorVars => Told
  <2> SUFFICES ASSUME ErrorsInv, [ErrorsNext]_errorVars, alert' # alert, alert'.stack \in StackName
               PROVE  Told
    OBVIOUS
  <2>1. alert' # NoAlert
    <3>1. NoAlert.stack = <<>> /\ <<>> \notin StackName
      BY TaskErrorsConstantsOK DEF TaskErrorsConstantsOK, NoAlert
    <3> QED
      BY <3>1
  <2>2. \E s \in StackName : RunPostDeployCheck(s)
    BY <2>1 DEF errorVars, ErrorsNext, ObserveTaskErrors, ElapseErrors, ForgetErrors, ScheduleCheck,
       TaskStarts, TaskRecovers, TaskGoes, TaskFails, ServiceGoes
  <2>3. PICK s \in StackName : RunPostDeployCheck(s)
    BY <2>2
  <2>4. alert'.stack = s
    BY <2>3 DEF RunPostDeployCheck
  <2> QED
    BY <2>3, <2>4, CheckTellsTheWindow
<1> QED
  BY <1>1, ErrorsSpecInv, PTL DEF ErrorsSpec, ChecksTellTheWindow
===============================================================================
