---------------------------- MODULE ServiceWriters ----------------------------
(***************************************************************************)
(* The writers that share the services of one stack: the control loops     *)
(* through adapter/swarm's updateService (inspect, edit, versioned update, *)
(* retry on a version conflict), the GitOps deployer through               *)
(* adapter/stackdeploy (read the live counts, carry them into the compose  *)
(* files, `docker stack deploy` with a retry of its own), and a person at  *)
(* the command line.  Every call to Swarm is a step.  Swarm accepts an     *)
(* update only with the service's current version; a version is kept as    *)
(* whether it still is the current one.                                    *)
(***************************************************************************)
EXTENDS Naturals

CONSTANTS
  Service,        \* the services of the stack, all replicated
  MaxReplicas,    \* bound on every replica count
  ForceModulus,   \* where the ForceUpdate counter wraps (2^64 in Swarm)
  MaxRevision,    \* bound on the pushes to Git
  Compose,        \* per revision and service: the merged autoscaler labels and replicas
  Targets,        \* per service, the counts the autoscaler may ask for
  OutsideTargets, \* per service, the counts a person may set
  MaxAttempts,    \* maxUpdateAttempts, deployMaxAttempts
  NoCall,         \* no call in progress
  CanFail         \* TRUE: calls fail, answers get lost, the process restarts

Replica == 0 .. MaxReplicas
Revision == 0 .. MaxRevision    \* 0: the service does not exist yet
Pushed == Revision \ {0}
SpecType == [replicas : Replica, force : 0 .. ForceModulus - 1, revision : Revision]

Op == {"scale", "force"}
Call == [service : Service, op : Op, count : Replica]

ASSUME ConstantsOK ==
  /\ Service # {}
  /\ MaxReplicas \in Nat /\ ForceModulus \in Nat \ {0} /\ MaxRevision \in Nat \ {0}
  /\ Compose \in [Pushed -> [Service -> [enabled : BOOLEAN, min : Replica, max : Replica,
                                         replicas : Replica]]]
  /\ {Targets, OutsideTargets} \subseteq [Service -> SUBSET Replica]
  /\ MaxAttempts \in Nat \ {0}
  /\ NoCall \notin Call
  /\ CanFail \in BOOLEAN

VARIABLES
  spec,       \* Swarm's spec of each service
  head,       \* the newest revision in Git
  (* updateService *)
  call,       \* its arguments, NoCall when none is running
  at,         \* where it is
  attempt,    \* its loop counter
  inspected,  \* the spec its last inspect returned
  fresh,      \* the version that inspect returned is still the current one
  answer,     \* what the last call returned
  (* Deployer.Deploy under WithRetry *)
  stage,      \* where it is
  revision,   \* the revision of the files it was given
  files,      \* the replica counts in the files it wrote
  try,        \* the retry's loop counter
  todo,       \* services this run of docker/cli still has to write
  current,    \* those whose version, as it listed them, is still the current one
  (* history variables, read by no action *)
  races,      \* writes of others to the called service during the call
  deployRaces,\* writes of others to the stack during the deploy
  rescaled    \* services whose count another writer set since the deploy read it

callVars == <<call, at, attempt, inspected, fresh, answer>>
deployVars == <<stage, revision, files, try, todo, current>>
ghostVars == <<races, deployRaces, rescaled>>
vars == <<spec, head, callVars, deployVars, ghostVars>>

NoSpec == [replicas |-> 0, force |-> 0, revision |-> 0]
NoFiles == [s \in Service |-> 0]

Exists(s) == spec[s].revision # 0
Saturating(n) == IF n < MaxAttempts THEN n + 1 ELSE n

(* The parts of a write every writer's step shares: what it makes stale.    *)
StalesCall(s) ==
  /\ fresh' = (fresh /\ ~(at # "Idle" /\ s = call.service))
  /\ races' = IF at # "Idle" /\ s = call.service THEN Saturating(races) ELSE races
StalesDeploy(s) ==
  /\ current' = current \ {s}
  /\ deployRaces' = IF stage = "Idle" THEN deployRaces ELSE Saturating(deployRaces)
Rescales(s) == rescaled' = IF stage = "Idle" THEN rescaled ELSE rescaled \cup {s}

-------------------------------------------------------------------------------
(* Scale and ForceUpdate.                                                  *)

(* The change a call makes to the spec it inspected. *)
Edit(old, c) == IF c.op = "scale" THEN [old EXCEPT !.replicas = c.count]
                                  ELSE [old EXCEPT !.force = (@ + 1) % ForceModulus]

Start(c) ==
  /\ at = "Idle" /\ at' = "Inspect"
  /\ Exists(c.service) /\ call' = c
  /\ c.op = "scale" => c.count \in Targets[c.service]
  /\ c.op = "force" => c.count = 0
  /\ answer' = "none"
  /\ UNCHANGED <<spec, head, attempt, inspected, fresh, deployVars, ghostVars>>

(* Mutant: a retry edits the spec of the first inspect under a new version. *)
InspectVersionOnly ==
  /\ at = "Inspect" /\ at' = "Update"
  /\ inspected' = IF attempt = 1 THEN spec[call.service] ELSE inspected
  /\ fresh' = TRUE
  /\ UNCHANGED <<spec, head, call, attempt, answer, deployVars, ghostVars>>

Inspect ==
  /\ at = "Inspect" /\ at' = "Update"
  /\ inspected' = spec[call.service] /\ fresh' = TRUE
  /\ UNCHANGED <<spec, head, call, attempt, answer, deployVars, ghostVars>>

(* Swarm accepts the update: the whole inspected spec with the one change. *)
Update ==
  /\ at = "Update" /\ fresh /\ at' = "Answer"
  /\ spec' = [spec EXCEPT ![call.service] = Edit(inspected, call)]
  /\ fresh' = FALSE
  /\ StalesDeploy(call.service)
  /\ IF call.op = "scale" THEN Rescales(call.service) ELSE UNCHANGED rescaled
  /\ UNCHANGED <<head, call, attempt, inspected, answer, stage, revision, files, try, todo, races>>

(* Swarm rejects the update, out of sequence. *)
Conflict ==
  /\ at = "Update" /\ ~fresh /\ at' = "Backoff"
  /\ UNCHANGED <<spec, head, call, attempt, inspected, fresh, answer, deployVars, ghostVars>>

(* updateService ends: its locals go out of scope. *)
CallEnds(with) ==
  /\ at' = "Idle" /\ call' = NoCall /\ answer' = with
  /\ attempt' = 1 /\ inspected' = NoSpec /\ fresh' = FALSE /\ races' = 0
Returns(with) ==
  /\ CallEnds(with)
  /\ UNCHANGED <<spec, head, deployVars, deployRaces, rescaled>>

(* Mutant: the retry sends the rejected update again. *)
RetryWithoutInspect ==
  /\ at = "Backoff" /\ attempt < MaxAttempts
  /\ at' = "Update" /\ attempt' = attempt + 1
  /\ UNCHANGED <<spec, head, call, inspected, fresh, answer, deployVars, ghostVars>>

(* Mutant: the loop goes round once too often. *)
RetryOnceMore ==
  /\ at = "Backoff" /\ attempt <= MaxAttempts
  /\ at' = "Inspect" /\ attempt' = attempt + 1
  /\ UNCHANGED <<spec, head, call, inspected, fresh, answer, deployVars, ghostVars>>

(* The backoff ends: the loop goes round again or is exhausted. *)
Retry ==
  /\ at = "Backoff" /\ attempt < MaxAttempts
  /\ at' = "Inspect" /\ attempt' = attempt + 1
  /\ UNCHANGED <<spec, head, call, inspected, fresh, answer, deployVars, ghostVars>>

Exhausted == at = "Backoff" /\ attempt = MaxAttempts /\ Returns("conflict")

Answered == at = "Answer" /\ Returns("ok")

(* The inspect or the update fails otherwise, or the answer is lost. *)
CallFails == CanFail /\ at \in {"Inspect", "Update", "Answer"} /\ Returns("error")

(* The wait is cut short: ctx is done because the process stops. *)
Cancelled == CanFail /\ at = "Backoff" /\ Returns("error")

-------------------------------------------------------------------------------
(* Deploy.                                                                 *)

(* Mutant: a revision that was deployed, or tried, is not deployed again. *)
SyncChangedOnly ==
  /\ stage = "Idle" /\ stage' = "Live" /\ head # revision /\ revision' = head
  /\ UNCHANGED <<spec, head, callVars, files, try, todo, current, ghostVars>>

(* A sync of the stack reaches the deploy with the files of Git's head.     *)
Sync ==
  /\ stage = "Idle" /\ stage' = "Live" /\ revision' = head
  /\ UNCHANGED <<spec, head, callVars, files, try, todo, current, ghostVars>>

(* A live count forced into the bounds of the merged labels, 0 = no bound. *)
Bounded(n, min, max) ==
  LET capped == IF max > 0 /\ n > max THEN max ELSE n
  IN IF min > 0 /\ capped < min THEN min ELSE capped

(* Mutant: every service keeps its compose count. *)
ComposeCount(s) == Compose[revision][s].replicas

(* The count the files carry for a service: the live one if it is           *)
(* autoscaled by the labels being deployed and live, else the compose one.  *)
CarryForward(s) ==
  LET c == Compose[revision][s]
  IN IF c.enabled /\ Exists(s) THEN Bounded(spec[s].replicas, c.min, c.max) ELSE c.replicas

(* StackServices, the carry-forward and the temp files. *)
ReadLive ==
  /\ stage = "Live" /\ stage' = "List"
  /\ files' = [s \in Service |-> CarryForward(s)]
  /\ rescaled' = {}
  /\ UNCHANGED <<spec, head, callVars, revision, try, todo, current, races, deployRaces>>

(* docker/cli lists the stack's services with their versions. *)
List ==
  /\ stage = "List" /\ stage' = "Write"
  /\ todo' = Service /\ current' = Service
  /\ UNCHANGED <<spec, head, callVars, revision, files, try, ghostVars>>

(* docker/cli creates a service, or replaces its spec under the listed       *)
(* version; it keeps the ForceUpdate counter.                                *)
Write(s) ==
  /\ stage = "Write" /\ s \in todo /\ s \in current
  /\ spec' = [spec EXCEPT ![s] = [replicas |-> files[s], force |-> @.force, revision |-> revision]]
  /\ todo' = todo \ {s}
  /\ StalesCall(s)
  /\ UNCHANGED <<head, call, at, attempt, inspected, answer, stage, revision, files, try, current,
                 deployRaces, rescaled>>

(* A service changed since it was listed: this run of docker/cli fails,      *)
(* after the services it has already written.                                *)
WriteConflict(s) ==
  /\ stage = "Write" /\ s \in todo \ current /\ stage' = "Backoff"
  /\ UNCHANGED <<spec, head, callVars, revision, files, try, todo, current, ghostVars>>

(* docker/cli runs again, on the same files. *)
Redeploy ==
  /\ stage = "Backoff" /\ try < MaxAttempts
  /\ stage' = "List" /\ try' = try + 1
  /\ UNCHANGED <<spec, head, callVars, revision, files, todo, current, ghostVars>>

(* Deploy ends.  The loop remembers which revision it tried.               *)
DeployEnds ==
  /\ stage' = "Idle" /\ files' = NoFiles /\ try' = 1 /\ todo' = {} /\ current' = {}
  /\ deployRaces' = 0 /\ rescaled' = {}
DeployReturns ==
  /\ DeployEnds
  /\ UNCHANGED <<spec, head, callVars, revision, races>>

Deployed == stage = "Write" /\ todo = {} /\ DeployReturns

DeployExhausted == stage = "Backoff" /\ try = MaxAttempts /\ DeployReturns

(* Any other error ends the deploy where it is; a create or an update may    *)
(* have been made all the same (Write).                                      *)
DeployFails == CanFail /\ stage # "Idle" /\ DeployReturns

-------------------------------------------------------------------------------
(* The surroundings.                                                       *)

GitPush ==
  /\ head < MaxRevision /\ head' = head + 1
  /\ UNCHANGED <<spec, callVars, deployVars, ghostVars>>

OutsideScale(s, n) ==
  /\ Exists(s) /\ n \in OutsideTargets[s]
  /\ spec' = [spec EXCEPT ![s].replicas = n]
  /\ StalesCall(s) /\ StalesDeploy(s) /\ Rescales(s)
  /\ UNCHANGED <<head, call, at, attempt, inspected, answer, stage, revision, files, try, todo>>

(* The manager stops, both its loops wherever they are, and starts again. *)
Restart ==
  /\ CanFail
  /\ CallEnds("none") /\ DeployEnds
  /\ revision' = 0
  /\ UNCHANGED <<spec, head>>

-------------------------------------------------------------------------------
Init ==
  /\ spec = [s \in Service |-> NoSpec]
  /\ head = 1
  /\ call = NoCall /\ at = "Idle" /\ attempt = 1 /\ fresh = FALSE /\ answer = "none"
  /\ inspected = NoSpec
  /\ stage = "Idle" /\ revision = 0 /\ files = NoFiles /\ try = 1
  /\ todo = {} /\ current = {}
  /\ races = 0 /\ deployRaces = 0 /\ rescaled = {}

UpdateService == Inspect \/ Update \/ Conflict \/ Retry \/ Exhausted \/ Answered \/ CallFails \/ Cancelled

Deploy ==
  \/ ReadLive \/ List \/ Redeploy \/ Deployed \/ DeployExhausted \/ DeployFails
  \/ \E s \in Service : Write(s) \/ WriteConflict(s)

Next ==
  \/ \E c \in Call : Start(c)
  \/ UpdateService
  \/ Sync
  \/ Deploy
  \/ GitPush
  \/ \E s \in Service, n \in Replica : OutsideScale(s, n)
  \/ Restart

Spec == Init /\ [][Next]_vars

(* The sync ticker fires again and again, and a running deploy goes on.  The *)
(* other writers are under no obligation.                                    *)
FairSpec == Spec /\ WF_vars(Sync) /\ WF_vars(Deploy)

-------------------------------------------------------------------------------
(* Properties.                                                             *)

(* Every variable has its type. *)
TypeOK ==
  /\ spec \in [Service -> SpecType]
  /\ head \in Pushed
  /\ at \in {"Idle", "Inspect", "Update", "Backoff", "Answer"}
  /\ call \in Call \cup {NoCall} /\ (call = NoCall <=> at = "Idle")
  /\ attempt \in 1 .. MaxAttempts
  /\ inspected \in SpecType
  /\ fresh \in BOOLEAN
  /\ answer \in {"none", "ok", "conflict", "error"}
  /\ stage \in {"Idle", "Live", "List", "Write", "Backoff"}
  /\ revision \in Revision /\ (stage # "Idle" => revision # 0)
  /\ files \in [Service -> Replica]
  /\ try \in 1 .. MaxAttempts
  /\ todo \subseteq Service /\ current \subseteq Service
  /\ races \in 0 .. MaxAttempts /\ deployRaces \in 0 .. MaxAttempts
  /\ rescaled \subseteq Service

(* Scale and ForceUpdate keep the promise of AtomicUpdate: each call edits   *)
(* its one field of the service as it is at that moment, at most once,       *)
(* whatever the deploys and the command line write between its inspect and   *)
(* its update and however often it retries (mutate.go).                      *)
Promise == INSTANCE AtomicUpdate WITH applied <- at = "Answer"
CallsAreAtomic == Promise!Spec

(* A call, or a deploy, gives up on version conflicts only when others wrote *)
(* the service, or the stack, at least MaxAttempts times while it ran        *)
(* (mutate.go, retry.go): one interfering write never uses up two attempts.  *)
GivesUpOnlyWhenContended ==
  /\ at = "Backoff" /\ attempt = MaxAttempts => races = MaxAttempts
  /\ stage = "Backoff" /\ try = MaxAttempts => deployRaces = MaxAttempts

(* A deploy writes an autoscaled service's live count back, forced into the  *)
(* bounds it deploys, unless another writer set that count after the deploy  *)
(* read it - on every retry and on a service it already wrote                *)
(* (carryforward.go).                                                        *)
Created(s) == spec[s].revision = revision /\ spec[s].replicas = Compose[revision][s].replicas
CarriesLiveCount ==
  \A s \in Service \ rescaled :
    stage \in {"List", "Write", "Backoff"} /\ Exists(s) /\ Compose[revision][s].enabled =>
      LET c == Compose[revision][s]
      IN \/ files[s] = Bounded(spec[s].replicas, c.min, c.max)
         \/ files[s] = c.replicas /\ Created(s)

(* Once deploys stop failing and conflicting, every service ends up deployed *)
(* from Git's head, including those a failed deploy left behind, and no      *)
(* scale or heal in between takes it back to an older spec (loop.go,         *)
(* mutate.go).                                                               *)
DeployDisturbed ==
  \/ DeployFails \/ Restart
  \/ \E s \in Service : WriteConflict(s)
HeadIsDeployed ==
  <>[][~DeployDisturbed]_vars => <>[](\A s \in Service : spec[s].revision = head)

-------------------------------------------------------------------------------
(* What the documentation says and the code does not do.                   *)

(* "A deploy never clobbers a replica count the autoscaler just set"         *)
(* (deploy.go, docs/gitops.md): writing an autoscaled service whose count is *)
(* within the bounds leaves the count as it is at that moment.               *)
NeverClobbers ==
  [][\A s \in todo :
       todo' = todo \ {s} /\ Exists(s) /\ Compose[revision][s].enabled =>
         LET c == Compose[revision][s]
             live == spec[s].replicas
         IN live = Bounded(live, c.min, c.max) => spec'[s].replicas = live]_vars
===============================================================================
