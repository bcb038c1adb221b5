----------------------------- MODULE StackStatus -----------------------------
(***************************************************************************)
(* One stack as its owners see it: its services in Swarm, the snapshot of  *)
(* the desired replicas a sync takes of what Git holds, the status it      *)
(* records, and the /stacks request that compares the status with Swarm.   *)
(* Git, the autoscaler and people change their part at any time; the       *)
(* request reads the status first and Swarm later.                         *)
(***************************************************************************)
EXTENDS Compose

CONSTANTS
  Service,    \* short names of the stack's services
  MergeGroup, \* the merge groups Git may hold
  MaxCount,   \* bound on replica counts
  Worktree    \* paths of the worktree, from the working directory or absolute

(* The documents, of the two modes the code tells apart. *)
LabelList == Seq([key : STRING, value : STRING])
Mode == {"", "replicated", "global"}
Count == 0 .. MaxCount
Decl == [labels : LabelList, deployLabels : LabelList, mode : Mode, deployMode : Mode,
         replicas : Count \cup {Unset}, deployReplicas : Count \cup {Unset}]
IsDocument(doc) ==
  /\ doc \in [path : Seq(STRING), files : SUBSET Seq(STRING), hasServices : BOOLEAN, services : {doc.services}]
  /\ DOMAIN doc.services \subseteq Service /\ doc.services \in [DOMAIN doc.services -> Decl]

ASSUME StackConstantsOK ==
  /\ MaxCount \in Nat \ {0} /\ \A v \in DOMAIN Uint : Uint[v] <= MaxCount
  /\ \A docs \in MergeGroup : docs # <<>> /\ docs \in Seq({doc \in Range(docs) : IsDocument(doc)})

(* A document's path is relative, only the first component of a file's is "/", *)
(* and the base document of a group climbs no further than the worktree       *)
(* itself does: it lies in the worktree or beside it.                        *)
ASSUME PathsOK ==
  /\ \A w \in Worktree : w \in Seq(STRING)
  /\ \A group \in MergeGroup : \A i \in DOMAIN group :
       /\ group[i].path # <<>> /\ \A k \in DOMAIN group[i].path : group[i].path[k] # "/"
       /\ \A f \in group[i].files : f # <<>> /\ \A k \in DOMAIN f : f[k] = "/" => k = 1
  /\ \A group \in MergeGroup, w \in Worktree : LET base == DocDir(w, group[1].path) IN
       \A k \in DOMAIN base : base[k] = ".." => k \in DOMAIN Clean(w) /\ Clean(w)[k] = ".."

VARIABLES
  live,      \* Swarm: the services of the stack that exist
  foreign,   \* history: the services someone else removed or scaled since the last deploy
  phase,     \* the pipeline: idle, sync, rendered, deployed, failed
  docs,      \* the documents it rendered last
  lastDesired,  \* the loop's snapshot of the desired replicas
  shown,     \* the stack's entry of the status store
  request,   \* the status a /stacks request has read; state "none" if there is none
  answer     \* the drift the last request answered, and whether Swarm answered it

pipeline == <<phase, docs, lastDesired, shown>>
api == <<request, answer>>
stackVars == <<live, foreign, pipeline, api>>

NoDesired == [n \in {} |-> 0]
NoRequest == [state |-> "none", ok |-> FALSE, desired |-> NoDesired, fresh |-> FALSE]

(* A pass that renders makes a status read before it an old one (history). *)
Outdate == request' = [request EXCEPT !.fresh = FALSE]

-------------------------------------------------------------------------------
(* The pipeline of the stack.                                              *)

SyncStack ==
  /\ phase = "idle" /\ phase' = "sync"
  /\ shown' = [shown EXCEPT !.state = "syncing"]
  /\ UNCHANGED <<live, foreign, docs, lastDesired, api>>

(* Git may hold any group by now. *)
RenderStack(group) ==
  /\ phase = "sync" /\ phase' = "rendered"
  /\ docs' = group /\ lastDesired' = DesiredReplicasGroup(group)
  /\ Outdate
  /\ UNCHANGED <<live, foreign, shown, answer>>

SyncStackFails ==
  /\ phase = "sync" /\ phase' = "failed"
  /\ UNCHANGED <<live, foreign, docs, lastDesired, shown, api>>

(* What docker/cli makes of a group: the last document that sets a value wins, *)
(* and Swarm knows a service by its deploy.labels, a list item without "="   *)
(* with an empty value (where the code reads "true": Flat).                  *)
LastSetting(group, n, field, unset) ==
  LET at == {i \in DOMAIN group : n \in DOMAIN group[i].services /\ group[i].services[n][field] # unset}
  IN  IF at = {} THEN 0 ELSE Max(at)
Deployable(group) == UNION {DOMAIN group[i].services : i \in DOMAIN group}
DeployedMode(group, n) ==
  LET i == LastSetting(group, n, "deployMode", "")
  IN  IF i = 0 THEN "replicated" ELSE group[i].services[n].deployMode
DeployedCount(group, n) ==
  LET i == LastSetting(group, n, "deployReplicas", Unset)
  IN  IF i = 0 THEN 1 ELSE group[i].services[n].deployReplicas
StoredLabels(section) ==
  [k \in {section[i].key : i \in DOMAIN section} |->
     section[Max({i \in DOMAIN section : section[i].key = k})].value]
DeployedLabels(group, n) ==
  LET labels[i \in 0 .. Len(group)] ==
        IF i = 0 THEN NoLabels
        ELSE IF n \in DOMAIN group[i].services
        THEN Over(StoredLabels(group[i].services[n].deployLabels), labels[i - 1]) ELSE labels[i - 1]
  IN  labels[Len(group)]
DeployedService(group, n) ==
  [replicated |-> DeployedMode(group, n) = "replicated",
   replicas   |-> IF DeployedMode(group, n) = "replicated" THEN DeployedCount(group, n) ELSE 0,
   labels     |-> DeployedLabels(group, n)]

(* Swarm refuses to change the mode of a service. *)
Refused(group, n) == n \in DOMAIN live /\ live[n].replicated # DeployedService(group, n).replicated
WriteServices(group, written) ==
  /\ live' = Over([n \in written |-> DeployedService(group, n)], live)
  /\ foreign' = foreign \ written

(* Carry-forward, then docker/cli writes every service of the group. *)
DeployStack ==
  LET group == ApplyCarryForwardGroup(docs, live) IN
  /\ phase = "rendered" /\ phase' = "deployed"
  /\ HasServices(docs) /\ \A n \in Deployable(group) : ~Refused(group, n)
  /\ WriteServices(group, Deployable(group))
  /\ UNCHANGED <<docs, lastDesired, shown, api>>

(* It fails, some of the services written. *)
DeployStackFails ==
  LET group == ApplyCarryForwardGroup(docs, live) IN
  /\ phase = "rendered" /\ phase' = "failed"
  /\ \E written \in SUBSET {n \in Deployable(group) : HasServices(docs) /\ ~Refused(group, n)} :
       WriteServices(group, written)
  /\ UNCHANGED <<docs, lastDesired, shown, api>>

RecordStack ==
  /\ phase \in {"deployed", "failed"} /\ phase' = "idle"
  /\ shown' = [state |-> "", ok |-> phase = "deployed", desired |-> lastDesired]
  /\ UNCHANGED <<live, foreign, docs, lastDesired, api>>

-------------------------------------------------------------------------------
(* The /stacks request.                                                    *)

(* buildPayload copies the status; without desired replicas it reads no more. *)
ReadStatus ==
  /\ request.state = "none"
  /\ DOMAIN shown.desired # {}
  /\ request' = [state |-> shown.state, ok |-> shown.ok, desired |-> shown.desired, fresh |-> TRUE]
  /\ UNCHANGED <<live, foreign, pipeline, answer>>

(* StackServices answers and Drift compares, or the read fails. *)
AnswerDrift ==
  /\ request.state # "none" /\ request' = NoRequest
  /\ \/ answer' = [drifted |-> Drift(request.desired, live), failed |-> FALSE]
     \/ answer' = [drifted |-> {}, failed |-> TRUE]
  /\ UNCHANGED <<live, foreign, pipeline>>

-------------------------------------------------------------------------------
(* The others.                                                             *)

(* The control loop scales a service whose label says so, towards its bounds. *)
AutoscaleService(n, count) ==
  /\ n \in DOMAIN live /\ live[n].replicated /\ OptedIn(live[n].labels)
  /\ Within(live[n].labels, count) = count
  /\ live' = [live EXCEPT ![n].replicas = count]
  /\ UNCHANGED <<foreign, pipeline, api>>

ScaleByHand(n, count) ==
  /\ n \in DOMAIN live /\ live[n].replicated
  /\ live' = [live EXCEPT ![n].replicas = count]
  /\ foreign' = foreign \cup {n}
  /\ UNCHANGED <<pipeline, api>>

RemoveService(n) ==
  /\ n \in DOMAIN live
  /\ live' = [m \in DOMAIN live \ {n} |-> live[m]]
  /\ foreign' = foreign \cup {n}
  /\ UNCHANGED <<pipeline, api>>

StackInit ==
  /\ live = [n \in {} |-> [replicated |-> TRUE, replicas |-> 0, labels |-> NoLabels]] /\ foreign = {}
  /\ phase = "idle" /\ docs = <<>> /\ lastDesired = NoDesired
  /\ shown = [state |-> "", ok |-> FALSE, desired |-> NoDesired]
  /\ request = NoRequest /\ answer = [drifted |-> {}, failed |-> FALSE]

StackNext ==
  \/ SyncStack \/ SyncStackFails \/ DeployStack \/ DeployStackFails \/ RecordStack
  \/ ReadStatus \/ AnswerDrift
  \/ \E group \in MergeGroup : RenderStack(group)
  \/ \E n \in Service : RemoveService(n) \/ \E c \in 0 .. MaxCount : AutoscaleService(n, c) \/ ScaleByHand(n, c)

StackSpec == StackInit /\ [][StackNext]_stackVars

-------------------------------------------------------------------------------
(* Properties.                                                             *)

(* A label, mode or count misplaced at the top level of a document, or a bare *)
(* list label: the merges fall back on the one and read the other as "true", *)
(* and that contradicts what docker/cli deploys.                             *)
Misplaced(group, n) ==
  LET carried == MergeServices(group)[n]
      stored == DeployedService(group, n)
  IN  \/ OptedIn(carried.labels) # OptedIn(stored.labels)
      \/ \E key \in {"min", "max"} : ParseUintLabel(carried.labels, key) # ParseUintLabel(stored.labels, key)
      \/ carried.global = stored.replicated
      \/ MergeGroupServices(group)[n].replicas \notin {Unset, DeployedCount(group, n)}

(* The values of the stack's state; no Unset count reaches Swarm, a snapshot  *)
(* or a status, although a document may give none.                           *)
StackTypeOK ==
  /\ docs \in MergeGroup \cup {<<>>}
  /\ DOMAIN live \subseteq Service /\ foreign \subseteq Service
  /\ \A n \in DOMAIN live : live[n].replicas \in 0 .. MaxCount /\ live[n].replicated \in BOOLEAN
  /\ phase \in {"idle", "sync", "rendered", "deployed", "failed"}
  /\ phase \in {"rendered", "deployed"} => docs # <<>>
  /\ \A d \in {lastDesired, shown.desired, request.desired} :
       DOMAIN d \subseteq Service /\ \A n \in DOMAIN d : d[n] \in 0 .. MaxCount
  /\ shown.state \in {"", "syncing"} /\ request.state \in {"none", "", "syncing"}
  /\ answer.drifted \subseteq Service

(* Every count has one owner, across both readings of the labels and however *)
(* the documents of a group share a service out: a deploy leaves an          *)
(* autoscaled service at its live count, inside the bounds of Git, and brings *)
(* every other service to Git's.                                            *)
EveryCountHasOneOwner ==
  [][DeployStack => \A n \in DOMAIN live' : n \in Deployable(docs) /\ ~Misplaced(docs, n) =>
       IF OptedIn(live'[n].labels) /\ live'[n].replicated /\ n \in DOMAIN live
       THEN live'[n].replicas = Within(live'[n].labels, live[n].replicas)
       ELSE live'[n].replicas = DeployedService(docs, n).replicas]_stackVars

(* "carry-forward and the drift snapshot can never disagree about whether a  *)
(* service is autoscaler-owned" (carryforward.go:207): the two merges,        *)
(* written twice, agree on every group rendered, misplaced labels included.   *)
OwnershipReadingsAgree ==
  LET carried == MergeServices(docs)
      desired == MergeGroupServices(docs)
  IN  /\ DOMAIN carried = DOMAIN desired
      /\ \A n \in DOMAIN carried : /\ carried[n].labels = desired[n].labels
                                  /\ carried[n].global = desired[n].global

(* Drift shown for a stack that is at rest and in order is somebody's doing:  *)
(* neither a deploy, an autoscaler's decision nor a new commit shows as       *)
(* drift; and a removed service always does.                                *)
DriftIsSomebodysDoing ==
  [][AnswerDrift /\ request.fresh /\ request.state = "" /\ request.ok /\ ~answer'.failed =>
       \A n \in DOMAIN request.desired : ~Misplaced(docs, n) =>
         /\ n \in answer'.drifted => n \in foreign
         /\ n \notin DOMAIN live => n \in answer'.drifted]_stackVars

(* Wherever base and override lie, and whether the worktree is a relative or *)
(* an absolute path, docker/cli opens the very file decryption wrote and      *)
(* rotation hashed.                                                         *)
SameFileEverywhere ==
  phase = "rendered" => \A w \in Worktree, i \in DOMAIN docs : \A f \in docs[i].files : ~IsAbs(f) =>
    LET base   == DocDir(w, docs[1].path)
        opened == OpenedByDocker(base, RebaseFile(DocDir(w, docs[i].path), base, f))
    IN  /\ opened = ReadFile(w, DiscoverSecretFile(docs[i].path, f))
        /\ opened = ReadFile(w, RotationRel(docs[i].path, f))
===============================================================================
