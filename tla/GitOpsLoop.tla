------------------------------ MODULE GitOpsLoop ------------------------------
(***************************************************************************)
(* The GitOps stack-sync loop: passes over the configured stacks on a      *)
(* bounded pool of workers, the pipeline of one stack from the Git sync to *)
(* the deploy of its last compose group, the worktree the stacks of one    *)
(* repository share, and the status shown for each stack.  Commits arrive  *)
(* at any time, every call can fail, a pipeline can panic and the process  *)
(* can die between any two steps.                                          *)
(***************************************************************************)
EXTENDS Naturals, Sequences, FiniteSets

CONSTANTS
  NumStacks,    \* the configured stacks are 1 .. NumStacks, in the order of the list
  Repo,         \* repositories
  Branch,       \* branches
  RepoOf,       \* the repository of each stack
  BranchOf,     \* its branch
  Groups,       \* how many merge groups (`docker stack deploy` runs) it has
  Secrets,      \* the files to decrypt, as discovered over all its documents
  Concurrency,  \* size of the worker pool
  LastRevision, \* bound on the revisions of each branch
  MaxFaults,    \* bound on failed calls, panics and restarts together
  NoStack       \* nobody holds the lock

Stack == 1 .. NumStacks
Revision == Nat    \* 0: none
SecretFile == UNION {{Secrets[s][i] : i \in 1 .. Len(Secrets[s])} : s \in Stack}

ASSUME ConstantsOK ==
  /\ NumStacks \in Nat /\ Concurrency \in Nat \ {0} /\ Branch # {}
  /\ LastRevision \in [Repo -> [Branch -> Nat \ {0}]] /\ MaxFaults \in Nat
  /\ RepoOf \in [Stack -> Repo] /\ BranchOf \in [Stack -> Branch]
  /\ Groups \in [Stack -> Nat \ {0}]
  /\ \A s \in Stack : Secrets[s] \in Seq(SecretFile)
  /\ NoStack \notin Stack

VARIABLES
  (* outside the process *)
  head,       \* the newest revision of each branch of each repository
  tree,       \* the worktree of each repository: branch, revision, files in plaintext
  applied,    \* per stack and group: the revision of its last completed deploy
  touched,    \* per stack and group: the newest revision any of its services has
  (* the process *)
  dryRun,     \* its dry-run setting
  faults,     \* how many faults there were
  next,       \* the stack syncAll hands out next; 0 between passes
  slots,      \* the stacks holding a slot of the worker pool
  pc,         \* where the worker of each stack is
  rev,        \* its local: the revision Sync returned
  docs,       \* its local: the revision of the documents it rendered
  at,         \* its local: the secret file or the group it is at
  failed,     \* its local: the failing stage, "" if none
  files,      \* its local: the outcome per group, <<>> before the deploy
  lock,       \* the holder of each repository's lock
  desired,    \* lastDesired: the revision of the replica snapshot of each stack
  status      \* the status store

outside == <<head, tree, applied, touched>>
locals == <<rev, docs, at, failed, files>>
pool == <<dryRun, next, slots>>
vars == <<outside, pool, faults, pc, locals, lock, desired, status>>

InLock == {"sync", "render", "decrypt", "deploy", "write", "unlock"}
Stage == {"", "git", "render", "secrets", "rotate", "deploy", "sync"}
Outcome == {"", "ok", "failed", "skipped"}

(* The entry SetState seeds for a stack it has no status of. *)
NoStatus == [state |-> "", revision |-> 0, ok |-> FALSE, stage |-> "", files |-> <<>>, desired |-> 0]

Tree(s) == tree[RepoOf[s]]
Goto(s, place) == pc' = [pc EXCEPT ![s] = place]
Faulty == faults < MaxFaults /\ faults' = faults + 1
(* An early return: the deferred calls run. *)
Fails(s, stage) == failed' = [failed EXCEPT ![s] = stage] /\ Goto(s, "unlock")

-------------------------------------------------------------------------------
(* Run and syncAll.                                                        *)

(* Mutant: a pass leaves out the first stack. *)
TickFromSecond ==
  /\ next = 0 /\ next' = 2
  /\ UNCHANGED <<outside, dryRun, faults, slots, pc, locals, lock, desired, status>>

Tick ==
  /\ next = 0 /\ next' = 1
  /\ UNCHANGED <<outside, dryRun, faults, slots, pc, locals, lock, desired, status>>

(* The slot is taken before the worker is started. *)
Spawn ==
  /\ next \in Stack /\ Cardinality(slots) < Concurrency
  /\ next' = next + 1 /\ slots' = slots \cup {next} /\ Goto(next, "begin")
  /\ UNCHANGED <<outside, dryRun, faults, locals, lock, desired, status>>

(* wg.Wait returns. *)
PassEnds ==
  /\ next = NumStacks + 1 /\ \A s \in Stack : pc[s] = "idle"
  /\ next' = 0
  /\ UNCHANGED <<outside, dryRun, faults, slots, pc, locals, lock, desired, status>>

-------------------------------------------------------------------------------
(* The status store.                                                       *)

SetState(s, state) == status' = [status EXCEPT ![s].state = state]

SetStatus(s) ==
  status' = [status EXCEPT ![s] = [state |-> "", revision |-> rev[s], ok |-> failed[s] = "",
                                   stage |-> failed[s], files |-> files[s], desired |-> desired[s]]]

-------------------------------------------------------------------------------
(* syncStack.                                                              *)

MarkWaiting(s) ==
  /\ pc[s] = "begin" /\ Goto(s, "wait")
  /\ SetState(s, "waiting")
  /\ UNCHANGED <<outside, pool, faults, locals, lock, desired>>

(* Mutant: the stacks of one repository do not exclude each other. *)
AcquireShared(s) ==
  /\ pc[s] = "wait" /\ Goto(s, "sync")
  /\ SetState(s, "syncing")
  /\ UNCHANGED <<outside, pool, faults, locals, lock, desired>>

(* acquireRepoLock, then the overlay. *)
Acquire(s) ==
  /\ pc[s] = "wait" /\ lock[RepoOf[s]] = NoStack
  /\ lock' = [lock EXCEPT ![RepoOf[s]] = s] /\ Goto(s, "sync")
  /\ SetState(s, "syncing")
  /\ UNCHANGED <<outside, pool, faults, locals, desired>>

(* Fetch and forced checkout: every tracked file is again as committed.     *)
Checkout(s) ==
  tree' = [tree EXCEPT ![RepoOf[s]] =
             [branch |-> BranchOf[s], revision |-> head[RepoOf[s]][BranchOf[s]], plain |-> {}]]

(* Mutant: a revision rendered before is not deployed again. *)
SyncChangedOnly(s) ==
  /\ pc[s] = "sync" /\ Goto(s, IF desired[s] = head[RepoOf[s]][BranchOf[s]] THEN "unlock" ELSE "render")
  /\ Checkout(s)
  /\ rev' = [rev EXCEPT ![s] = head[RepoOf[s]][BranchOf[s]]]
  /\ UNCHANGED <<head, applied, touched, pool, faults, docs, at, failed, files, lock, desired, status>>

(* The pipeline goes on whether or not the revision is new. *)
Sync(s) ==
  /\ pc[s] = "sync" /\ Goto(s, "render")
  /\ Checkout(s)
  /\ rev' = [rev EXCEPT ![s] = head[RepoOf[s]][BranchOf[s]]]
  /\ UNCHANGED <<head, applied, touched, pool, faults, docs, at, failed, files, lock, desired, status>>

(* Authentication, clone and fetch fail before the checkout, resolving the  *)
(* reference after it.                                                      *)
SyncFails(s) ==
  /\ Faulty /\ pc[s] = "sync" /\ Fails(s, "git")
  /\ Checkout(s) \/ UNCHANGED tree
  /\ UNCHANGED <<head, applied, touched, pool, rev, docs, at, files, lock, desired, status>>

(* Mutant: a dry run deploys as well. *)
AfterRenderWet(s) == "decrypt"

(* Where a rendered pipeline goes on. *)
AfterRender(s) == IF dryRun THEN "unlock" ELSE "decrypt"

(* Every document of every group is read and rendered, and the snapshot of  *)
(* the desired replicas taken from them.                                    *)
Render(s) ==
  /\ pc[s] = "render" /\ Goto(s, AfterRender(s))
  /\ docs' = [docs EXCEPT ![s] = Tree(s).revision]
  /\ desired' = [desired EXCEPT ![s] = Tree(s).revision]
  /\ at' = [at EXCEPT ![s] = 1]
  /\ UNCHANGED <<outside, pool, faults, rev, failed, files, lock, status>>

RenderFails(s) ==
  /\ Faulty /\ pc[s] = "render" /\ Fails(s, "render")
  /\ UNCHANGED <<outside, pool, rev, docs, at, files, lock, desired, status>>

(* One file of the list in place.  sops refuses a file that is plaintext.   *)
Decrypt(s) ==
  /\ pc[s] = "decrypt" /\ at[s] <= Len(Secrets[s])
  /\ Secrets[s][at[s]] \notin Tree(s).plain
  /\ tree' = [tree EXCEPT ![RepoOf[s]].plain = @ \cup {Secrets[s][at[s]]}]
  /\ at' = [at EXCEPT ![s] = @ + 1]
  /\ UNCHANGED <<head, applied, touched, pool, faults, pc, rev, docs, failed, files, lock, desired, status>>

(* Discovery, sops or the write of the plaintext fails. *)
DecryptFails(s) ==
  /\ pc[s] = "decrypt" /\ Fails(s, "secrets")
  /\ IF at[s] <= Len(Secrets[s]) /\ Secrets[s][at[s]] \in Tree(s).plain
       THEN UNCHANGED faults ELSE Faulty
  /\ UNCHANGED <<outside, pool, rev, docs, at, files, lock, desired, status>>

(* Mutant: the index of the last file stays. *)
DecryptedKeepsIndex(s) ==
  /\ pc[s] = "decrypt" /\ at[s] > Len(Secrets[s]) /\ Goto(s, "deploy")
  /\ files' = [files EXCEPT ![s] = [g \in 1 .. Groups[s] |-> ""]]
  /\ UNCHANGED <<outside, pool, faults, rev, docs, at, failed, lock, desired, status>>

Decrypted(s) ==
  /\ pc[s] = "decrypt" /\ at[s] > Len(Secrets[s]) /\ Goto(s, "deploy")
  /\ files' = [files EXCEPT ![s] = [g \in 1 .. Groups[s] |-> ""]]
  /\ at' = [at EXCEPT ![s] = 1]
  /\ UNCHANGED <<outside, pool, faults, rev, docs, failed, lock, desired, status>>

(* Rotation of the group at hand; `docker stack deploy` writes a service.     *)
Write(s) ==
  /\ pc[s] = "deploy" /\ Goto(s, "write")
  /\ touched' = [touched EXCEPT ![s][at[s]] = docs[s]]
  /\ UNCHANGED <<head, tree, applied, pool, faults, locals, lock, desired, status>>

(* It has written them all. *)
Deployed(s) ==
  LET g == at[s] IN
  /\ pc[s] = "write"
  /\ applied' = [applied EXCEPT ![s][g] = docs[s]]
  /\ files' = [files EXCEPT ![s][g] = "ok"]
  /\ IF g < Groups[s] THEN at' = [at EXCEPT ![s] = g + 1] /\ Goto(s, "deploy")
                      ELSE Goto(s, "unlock") /\ UNCHANGED at
  /\ UNCHANGED <<head, tree, touched, pool, faults, rev, docs, failed, lock, desired, status>>

(* Mutant: only the failed group is marked. *)
MarkFailedOne(s) == files' = [files EXCEPT ![s][at[s]] = "failed"]

MarkFailedFrom(s) ==
  files' = [files EXCEPT ![s] = [g \in DOMAIN @ |-> IF g < at[s] THEN @[g]
                                                    ELSE IF g = at[s] THEN "failed" ELSE "skipped"]]

RotateFails(s) ==
  /\ Faulty /\ pc[s] = "deploy" /\ Fails(s, "rotate") /\ MarkFailedFrom(s)
  /\ UNCHANGED <<outside, pool, rev, docs, at, lock, desired, status>>

(* Mutant: a failed group does not keep the later ones from being deployed. *)
DeployFailsGoesOn(s) ==
  LET g == at[s] IN
  /\ pc[s] \in {"deploy", "write"} /\ failed' = [failed EXCEPT ![s] = "deploy"]
  /\ files' = [files EXCEPT ![s][g] = "failed"]
  /\ IF g < Groups[s] THEN at' = [at EXCEPT ![s] = g + 1] /\ Goto(s, "deploy")
                      ELSE Goto(s, "unlock") /\ UNCHANGED at
  /\ UNCHANGED <<outside, pool, faults, rev, docs, lock, desired, status>>

(* The live counts cannot be read, a file not be written, or docker/cli      *)
(* gives up: before its first write or after.                               *)
DeployFails(s) ==
  /\ Faulty /\ pc[s] \in {"deploy", "write"} /\ Fails(s, "deploy") /\ MarkFailedFrom(s)
  /\ UNCHANGED <<outside, pool, rev, docs, at, lock, desired, status>>

(* A panic anywhere under the lock; syncStack recovers. *)
Panic(s) ==
  /\ Faulty /\ pc[s] \in InLock \ {"unlock"} /\ Fails(s, "sync")
  /\ UNCHANGED <<outside, pool, rev, docs, at, files, lock, desired, status>>

(* Mutant: the slot is released with the lock. *)
UnlockAndLeave(s) ==
  /\ pc[s] = "unlock" /\ Goto(s, "record")
  /\ lock' = [lock EXCEPT ![RepoOf[s]] = NoStack]
  /\ slots' = slots \ {s}
  /\ UNCHANGED <<outside, dryRun, faults, next, locals, desired, status>>

(* The deferred calls, last one first: unlock, status, slot. *)
Unlock(s) ==
  /\ pc[s] = "unlock" /\ Goto(s, "record")
  /\ lock' = [lock EXCEPT ![RepoOf[s]] = NoStack]
  /\ UNCHANGED <<outside, pool, faults, locals, desired, status>>

RecordStatus(s) ==
  /\ pc[s] = "record" /\ Goto(s, "leave")
  /\ SetStatus(s)
  /\ rev' = [rev EXCEPT ![s] = 0] /\ docs' = [docs EXCEPT ![s] = 0]
  /\ at' = [at EXCEPT ![s] = 0] /\ failed' = [failed EXCEPT ![s] = ""]
  /\ files' = [files EXCEPT ![s] = <<>>]
  /\ UNCHANGED <<outside, pool, faults, lock, desired>>

Leave(s) ==
  /\ pc[s] = "leave" /\ Goto(s, "idle")
  /\ slots' = slots \ {s}
  /\ UNCHANGED <<outside, dryRun, faults, next, locals, lock, desired, status>>

-------------------------------------------------------------------------------
(* The world.                                                              *)

Push(r, b) ==
  /\ head[r][b] < LastRevision[r][b]
  /\ head' = [head EXCEPT ![r][b] = @ + 1]
  /\ UNCHANGED <<tree, applied, touched, pool, faults, pc, locals, lock, desired, status>>

(* The process dies; the one started next finds the worktrees as they are.   *)
Restart ==
  /\ Faulty
  /\ dryRun' \in BOOLEAN /\ next' = 0 /\ slots' = {}
  /\ pc' = [s \in Stack |-> "idle"]
  /\ rev' = [s \in Stack |-> 0] /\ docs' = [s \in Stack |-> 0] /\ at' = [s \in Stack |-> 0]
  /\ failed' = [s \in Stack |-> ""] /\ files' = [s \in Stack |-> <<>>]
  /\ lock' = [r \in Repo |-> NoStack]
  /\ desired' = [s \in Stack |-> 0] /\ status' = [s \in Stack |-> NoStatus]
  /\ UNCHANGED outside

Init ==
  /\ head = [r \in Repo |-> [b \in Branch |-> 1]]
  /\ tree = [r \in Repo |-> [branch |-> CHOOSE b \in Branch : TRUE, revision |-> 0, plain |-> {}]]
  /\ applied = [s \in Stack |-> [g \in 1 .. Groups[s] |-> 0]]
  /\ touched = [s \in Stack |-> [g \in 1 .. Groups[s] |-> 0]]
  /\ faults = 0 /\ dryRun \in BOOLEAN /\ next = 0 /\ slots = {}
  /\ pc = [s \in Stack |-> "idle"]
  /\ rev = [s \in Stack |-> 0] /\ docs = [s \in Stack |-> 0] /\ at = [s \in Stack |-> 0]
  /\ failed = [s \in Stack |-> ""] /\ files = [s \in Stack |-> <<>>]
  /\ lock = [r \in Repo |-> NoStack]
  /\ desired = [s \in Stack |-> 0] /\ status = [s \in Stack |-> NoStatus]

Step(s) ==
  \/ MarkWaiting(s) \/ Acquire(s) \/ Sync(s) \/ Render(s) \/ Decrypt(s) \/ Decrypted(s)
  \/ Write(s) \/ Deployed(s) \/ Unlock(s) \/ RecordStatus(s) \/ Leave(s)
Fault(s) ==
  \/ SyncFails(s) \/ RenderFails(s) \/ DecryptFails(s) \/ RotateFails(s) \/ DeployFails(s)
  \/ Panic(s)

Next ==
  \/ Tick \/ Spawn \/ PassEnds
  \/ \E s \in Stack : Step(s) \/ Fault(s)
  \/ \E r \in Repo, b \in Branch : Push(r, b)
  \/ Restart

(* The ticker goes on, workers are scheduled and every call ends; a worker   *)
(* waiting for its repository gets the lock if it is free again and again    *)
(* (sync.Mutex hands it over to a waiter it has kept waiting).               *)
Fairness ==
  /\ WF_vars(Tick) /\ WF_vars(Spawn) /\ WF_vars(PassEnds)
  /\ \A s \in Stack : WF_vars(Step(s) \/ Fault(s)) /\ SF_vars(Acquire(s))

Spec == Init /\ [][Next]_vars
FairSpec == Spec /\ Fairness

-------------------------------------------------------------------------------
(* Properties.                                                             *)

Outcomes(s) == [1 .. Groups[s] -> Outcome]
StatusType(s) ==
  [state : {"", "waiting", "syncing"}, revision : Revision, ok : BOOLEAN, stage : Stage,
   files : {<<>>} \cup Outcomes(s), desired : Revision]

(* Every variable stays within the values the code gives it; whoever         *)
(* decrypts or deploys has an index into its secrets or groups, and a deploy *)
(* an outcome for each group.                                               *)
TypeOK ==
  /\ head \in [Repo -> [Branch -> Revision]]
  /\ tree \in [Repo -> [branch : Branch, revision : Revision, plain : SUBSET SecretFile]]
  /\ dryRun \in BOOLEAN /\ faults \in 0 .. MaxFaults
  /\ next \in 0 .. NumStacks + 1 /\ slots \subseteq Stack
  /\ pc \in [Stack -> InLock \cup {"idle", "begin", "wait", "record", "leave"}]
  /\ rev \in [Stack -> Revision] /\ docs \in [Stack -> Revision]
  /\ at \in [Stack -> Nat] /\ failed \in [Stack -> Stage]
  /\ lock \in [Repo -> Stack \cup {NoStack}]
  /\ desired \in [Stack -> Revision]
  /\ Stack = DOMAIN applied /\ Stack = DOMAIN touched
  /\ Stack = DOMAIN files /\ Stack = DOMAIN status
  /\ \A s \in Stack :
       /\ applied[s] \in [1 .. Groups[s] -> Revision] /\ touched[s] \in [1 .. Groups[s] -> Revision]
       /\ files[s] \in {<<>>} \cup Outcomes(s) /\ status[s] \in StatusType(s)
       /\ pc[s] = "decrypt" => at[s] \in 1 .. Len(Secrets[s]) + 1
       /\ pc[s] \in {"deploy", "write"} => at[s] \in 1 .. Groups[s] /\ files[s] \in Outcomes(s)

(* The secret files of a stack that are plaintext before the i-th is decrypted. *)
DecryptedBefore(s, i) == {Secrets[s][j] : j \in 1 .. i - 1}
PlainAt(s) ==
  CASE pc[s] = "render" -> {}
    [] pc[s] = "decrypt" -> DecryptedBefore(s, at[s])
    [] OTHER -> DecryptedBefore(s, Len(Secrets[s]) + 1)

(* From its Sync to its unlock a pipeline works on its own branch at the     *)
(* revision it synced, whatever the other stacks of the repository do: its   *)
(* documents, the files rotation hashes and docker/cli reads are of that one *)
(* revision, its secrets are plaintext exactly as far as it has decrypted    *)
(* them, and nothing an earlier or killed pipeline decrypted is left.        *)
OneRevisionPerPipeline ==
  \A s \in Stack : pc[s] \in {"render", "decrypt", "deploy", "write"} =>
    /\ Tree(s) = [branch |-> BranchOf[s], revision |-> rev[s], plain |-> PlainAt(s)]
    /\ pc[s] # "render" => docs[s] = rev[s]

(* The services of a stack are brought to a revision group by group, in the  *)
(* order of the list, and never back.                                       *)
R == INSTANCE Rollout WITH released <- [s \in Stack |-> head[RepoOf[s]][BranchOf[s]]]
RollsOutInOrder == R!Spec

(* What /stacks shows of a stack between two passes is true of Swarm and of  *)
(* one revision: a group shown ok runs the shown revision; a pass shown      *)
(* without error deployed every group (or none, dry) and the replicas it     *)
(* compares with are of that revision; a failed rotation or deploy shows     *)
(* the groups before it ok, one failed, the rest skipped.                    *)
StatusTellsOutcome ==
  \A s \in Stack : LET st == status[s] IN st.state = "" =>
    /\ \A g \in DOMAIN st.files : st.files[g] = "ok" => applied[s][g] = st.revision
    /\ st.ok => st.desired = st.revision /\ \A g \in DOMAIN st.files : st.files[g] = "ok"
    /\ st.stage \in {"rotate", "deploy"} =>
         /\ st.desired = st.revision
         /\ \E f \in DOMAIN st.files : \A g \in DOMAIN st.files :
              st.files[g] = IF g < f THEN "ok" ELSE IF g = f THEN "failed" ELSE "skipped"

(* The stacks shown waiting or syncing never outnumber the worker pool,      *)
(* although a status outlives the pipeline and its lock.                     *)
ShownInFlightWithinPool ==
  Cardinality({s \in Stack : status[s].state # ""}) <= Concurrency

(* A dry run changes no service and writes no plaintext to the worktree.     *)
DryRunLeavesNoTrace ==
  [][dryRun => /\ UNCHANGED <<applied, touched>>
               /\ \A r \in Repo : tree'[r].plain \subseteq tree[r].plain]_vars

(* Every stack is synced again and again: no stack waits for ever for a slot *)
(* or for its repository, whatever fails in the others.                      *)
EveryStackSynced == \A s \in Stack : []<>(pc[s] = "leave")

(* No file of the stack is listed twice: sops refuses one it has decrypted,   *)
(* and such a stack is never deployed (see SecretsDecryptedOnce).             *)
Deployable(s) == \A i, j \in 1 .. Len(Secrets[s]) : Secrets[s][i] = Secrets[s][j] => i = j

(* Once no more commits arrive, every stack runs its branch's head for good, *)
(* whatever failed, panicked or was killed halfway before.                   *)
HeadReachesSwarm ==
  \A s \in Stack : Deployable(s) =>
    <>[](dryRun \/ \A g \in 1 .. Groups[s] : applied[s][g] = head[RepoOf[s]][BranchOf[s]])

-------------------------------------------------------------------------------
(* What the documentation says and the code does not do.                   *)

(* "Every secret referenced anywhere in the stack is decrypted once, before   *)
(* any deploy" (loop.go:358-360; docs/gitops.md: discovery "unions the file-  *)
(* backed secrets of every document ... and decrypts them once"): decryption  *)
(* fails only when something else does.  The code joins the lists of the      *)
(* documents without uniting them, and sops refuses a file the second time.   *)
SecretsDecryptedOnce == faults = 0 => \A s \in Stack : failed[s] # "secrets"
===============================================================================
