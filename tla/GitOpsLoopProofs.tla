--------------------------- MODULE GitOpsLoopProofs ---------------------------
(***************************************************************************)
(* Proofs about GitOpsLoop, for every set of stacks, repositories and      *)
(* branches, every pool and every number of faults.                        *)
(***************************************************************************)
EXTENDS GitOpsLoop, FiniteSetTheorems, TLAPS

-------------------------------------------------------------------------------
(* Type correctness.                                                       *)

LEMMA NoStatusType == ASSUME NEW s \in Stack PROVE NoStatus \in StatusType(s)
BY DEF NoStatus, StatusType, Stage, Revision

LEMMA SecretType ==
  ASSUME NEW s \in Stack, NEW i \in 1 .. Len(Secrets[s]) PROVE Secrets[s][i] \in SecretFile
BY DEF SecretFile

LEMMA CheckoutType ==
  ASSUME TypeOK, NEW s \in Stack, Checkout(s)
  PROVE  /\ tree' \in [Repo -> [branch : Branch, revision : Revision, plain : SUBSET SecretFile]]
         /\ head[RepoOf[s]][BranchOf[s]] \in Revision
<1>1. /\ RepoOf[s] \in Repo /\ BranchOf[s] \in Branch
      /\ head[RepoOf[s]][BranchOf[s]] \in Revision
  BY ConstantsOK DEF TypeOK
<1>2. QED BY <1>1 DEF TypeOK, Checkout

LEMMA FaultyType == ASSUME TypeOK, Faulty PROVE faults' \in 0 .. MaxFaults
<1>1. faults \in 0 .. MaxFaults /\ MaxFaults \in Nat
  BY ConstantsOK DEF TypeOK
<1> QED BY <1>1 DEF Faulty

(* A failure on the way keeps the types, whatever the stage. *)
LEMMA FailsType ==
  ASSUME TypeOK, NEW s \in Stack, NEW stage \in Stage, Fails(s, stage)
  PROVE  /\ pc' \in [Stack -> InLock \cup {"idle", "begin", "wait", "record", "leave"}]
         /\ failed' \in [Stack -> Stage]
         /\ \A t \in Stack : pc'[t] \in {"decrypt", "deploy", "write"} => pc[t] = pc'[t]
BY DEF TypeOK, Fails, Goto, InLock

LEMMA MarkFailedType ==
  ASSUME TypeOK, NEW s \in Stack, pc[s] \in {"deploy", "write"}, MarkFailedFrom(s)
  PROVE  /\ Stack = DOMAIN files'
         /\ \A t \in Stack : files'[t] \in {<<>>} \cup Outcomes(t)
         /\ \A t \in Stack : t # s => files'[t] = files[t]
         /\ files'[s] \in Outcomes(s)
<1> files[s] \in Outcomes(s)
  BY DEF TypeOK
<1> QED BY DEF TypeOK, MarkFailedFrom, Outcomes, Outcome

(* What SetState makes of the status store. *)
LEMMA SetStateType ==
  ASSUME TypeOK, NEW s \in Stack, NEW state \in {"", "waiting", "syncing"}, SetState(s, state)
  PROVE  Stack = DOMAIN status' /\ \A t \in Stack : status'[t] \in StatusType(t)
<1>1. \A t \in Stack : status[t] \in StatusType(t)
  BY DEF TypeOK
<1>2. Stack = DOMAIN status
  BY DEF TypeOK
<1>3. [status[s] EXCEPT !.state = state] \in StatusType(s)
  BY <1>1 DEF StatusType
<1>4. status' = [status EXCEPT ![s] = [status[s] EXCEPT !.state = state]]
  BY DEF SetState
<1> QED BY <1>1, <1>2, <1>3, <1>4

LEMMA InitType == Init => TypeOK
<1> SUFFICES ASSUME Init PROVE TypeOK
  OBVIOUS
<1>1. (CHOOSE b \in Branch : TRUE) \in Branch
  BY ConstantsOK
<1>2. 0 \in 0 .. MaxFaults /\ 0 \in 0 .. NumStacks + 1
  BY ConstantsOK
<1>3. head \in [Repo -> [Branch -> Revision]]
  BY DEF Init, Revision
<1>4. tree \in [Repo -> [branch : Branch, revision : Revision, plain : SUBSET SecretFile]]
  BY <1>1 DEF Init, Revision
<1>5. \A s \in Stack : status[s] \in StatusType(s)
  BY NoStatusType DEF Init
<1>6. \A s \in Stack : applied[s] \in [1 .. Groups[s] -> Revision] /\ touched[s] \in [1 .. Groups[s] -> Revision]
  BY DEF Init, Revision
<1> QED BY <1>2, <1>3, <1>4, <1>5, <1>6 DEF Init, TypeOK, InLock, Stage, Revision

(* The steps of the loop itself and of the world.                           *)
LEMMA PassType ==
  ASSUME TypeOK, Tick \/ Spawn \/ PassEnds PROVE TypeOK'
<1> USE ConstantsOK DEF TypeOK
<1>1. CASE Tick
  <2> 1 \in 0 .. NumStacks + 1
    OBVIOUS
  <2> QED BY <1>1 DEF Tick, outside, locals
<1>2. CASE Spawn
  <2> next' \in 0 .. NumStacks + 1
    BY <1>2 DEF Spawn, Stack
  <2> slots' \subseteq Stack
    BY <1>2 DEF Spawn
  <2> /\ pc' \in [Stack -> InLock \cup {"idle", "begin", "wait", "record", "leave"}]
      /\ \A t \in Stack : pc'[t] \in {"decrypt", "deploy", "write"} => pc[t] = pc'[t]
    BY <1>2 DEF Spawn, Goto
  <2> QED BY <1>2 DEF Spawn, outside, locals
<1>3. CASE PassEnds
  <2> 0 \in 0 .. NumStacks + 1
    OBVIOUS
  <2> QED BY <1>3 DEF PassEnds, outside, locals
<1> QED BY <1>1, <1>2, <1>3

LEMMA WorldType ==
  ASSUME TypeOK, Restart \/ \E r \in Repo, b \in Branch : Push(r, b) PROVE TypeOK'
<1> USE ConstantsOK DEF TypeOK
<1>1. CASE Restart
  <2>0. Faulty
    BY <1>1 DEF Restart
  <2>1. 0 \in 0 .. NumStacks + 1 /\ faults' \in 0 .. MaxFaults
    BY <2>0, FaultyType
  <2>2. \A s \in Stack : status'[s] \in StatusType(s)
    BY <1>1, NoStatusType DEF Restart
  <2> QED BY <1>1, <2>1, <2>2 DEF Restart, outside, InLock, Stage, Revision
<1>2. ASSUME NEW r \in Repo, NEW b \in Branch, Push(r, b) PROVE TypeOK'
  <2> head' \in [Repo -> [Branch -> Revision]]
    BY <1>2 DEF Push, Revision
  <2> QED BY <1>2 DEF Push, pool, locals
<1> QED BY <1>1, <1>2

(* The steps of one worker. *)
LEMMA StepType ==
  ASSUME TypeOK, NEW s \in Stack, Step(s) PROVE TypeOK'
<1> USE ConstantsOK DEF TypeOK
<1>1. CASE MarkWaiting(s) \/ Acquire(s)
  <2> RepoOf[s] \in Repo
    OBVIOUS
  <2>1. Stack = DOMAIN status' /\ \A t \in Stack : status'[t] \in StatusType(t)
    BY <1>1, SetStateType DEF MarkWaiting, Acquire
  <2>2. /\ pc' \in [Stack -> InLock \cup {"idle", "begin", "wait", "record", "leave"}]
        /\ \A t \in Stack : pc'[t] \in {"decrypt", "deploy", "write"} => pc[t] = pc'[t]
    BY <1>1 DEF MarkWaiting, Acquire, Goto, InLock
  <2>3. lock' \in [Repo -> Stack \cup {NoStack}]
    BY <1>1 DEF MarkWaiting, Acquire
  <2> QED BY <1>1, <2>1, <2>2, <2>3 DEF MarkWaiting, Acquire, outside, pool, locals
<1>2. CASE Sync(s)
  <2>1. /\ tree' \in [Repo -> [branch : Branch, revision : Revision, plain : SUBSET SecretFile]]
        /\ head[RepoOf[s]][BranchOf[s]] \in Revision
    BY <1>2, CheckoutType DEF Sync
  <2>2. rev' \in [Stack -> Revision]
    BY <1>2, <2>1 DEF Sync
  <2>3. /\ pc' \in [Stack -> InLock \cup {"idle", "begin", "wait", "record", "leave"}]
        /\ \A t \in Stack : pc'[t] \in {"decrypt", "deploy", "write"} => pc[t] = pc'[t]
    BY <1>2 DEF Sync, Goto, InLock
  <2> QED BY <1>2, <2>1, <2>2, <2>3 DEF Sync, pool
<1>3. CASE Render(s)
  <2>1. Tree(s).revision \in Revision
    BY DEF Tree
  <2>2. Len(Secrets[s]) \in Nat
    OBVIOUS
  <2>3. 1 \in 1 .. Len(Secrets[s]) + 1
    BY <2>2
  <2>4. docs' \in [Stack -> Revision] /\ desired' \in [Stack -> Revision] /\ at' \in [Stack -> Nat]
    BY <1>3, <2>1 DEF Render
  <2>5. /\ pc' \in [Stack -> InLock \cup {"idle", "begin", "wait", "record", "leave"}]
        /\ \A t \in Stack : t # s => pc[t] = pc'[t]
        /\ pc'[s] \notin {"deploy", "write"}
    BY <1>3 DEF Render, Goto, InLock, AfterRender
  <2>6. at'[s] = 1 /\ \A t \in Stack : t # s => at'[t] = at[t]
    BY <1>3 DEF Render
  <2> QED BY <1>3, <2>3, <2>4, <2>5, <2>6 DEF Render, outside, pool
<1>4. CASE Decrypt(s)
  <2>1. at[s] \in 1 .. Len(Secrets[s]) + 1 /\ at[s] <= Len(Secrets[s]) /\ Len(Secrets[s]) \in Nat
    BY <1>4 DEF Decrypt
  <2>2. at[s] \in 1 .. Len(Secrets[s]) /\ at[s] + 1 \in 1 .. Len(Secrets[s]) + 1
    BY <2>1
  <2>3. Secrets[s][at[s]] \in SecretFile /\ RepoOf[s] \in Repo
    BY <2>2, SecretType
  <2>4. tree' \in [Repo -> [branch : Branch, revision : Revision, plain : SUBSET SecretFile]]
    <3>1. /\ tree[RepoOf[s]] \in [branch : Branch, revision : Revision, plain : SUBSET SecretFile]
          /\ tree' = [tree EXCEPT ![RepoOf[s]] =
                        [tree[RepoOf[s]] EXCEPT !.plain = @ \cup {Secrets[s][at[s]]}]]
      BY <1>4, <2>3 DEF Decrypt
    <3>2. [tree[RepoOf[s]] EXCEPT !.plain = @ \cup {Secrets[s][at[s]]}]
            \in [branch : Branch, revision : Revision, plain : SUBSET SecretFile]
      BY <3>1, <2>3
    <3> QED BY <3>1, <3>2, <2>3
  <2>5. at' \in [Stack -> Nat] /\ at'[s] = at[s] + 1 /\ \A t \in Stack : t # s => at'[t] = at[t]
    BY <1>4, <2>1 DEF Decrypt
  <2> QED BY <1>4, <2>2, <2>4, <2>5 DEF Decrypt, pool
<1>5. CASE Decrypted(s)
  <2>1. files'[s] \in Outcomes(s) /\ Stack = DOMAIN files' /\ \A t \in Stack : t # s => files'[t] = files[t]
    BY <1>5 DEF Decrypted, Outcomes, Outcome
  <2>2. 1 \in 1 .. Groups[s]
    OBVIOUS
  <2>3. at' \in [Stack -> Nat] /\ at'[s] = 1 /\ \A t \in Stack : t # s => at'[t] = at[t]
    BY <1>5 DEF Decrypted
  <2>4. /\ pc' \in [Stack -> InLock \cup {"idle", "begin", "wait", "record", "leave"}]
        /\ pc'[s] = "deploy" /\ \A t \in Stack : t # s => pc[t] = pc'[t]
    BY <1>5 DEF Decrypted, Goto, InLock
  <2> QED BY <1>5, <2>1, <2>2, <2>3, <2>4 DEF Decrypted, outside, pool
<1>6. CASE Write(s)
  <2>1. at[s] \in 1 .. Groups[s] /\ files[s] \in Outcomes(s)
    BY <1>6 DEF Write
  <2>2. touched'[s] \in [1 .. Groups[s] -> Revision] /\ Stack = DOMAIN touched'
        /\ \A t \in Stack : t # s => touched'[t] = touched[t]
    BY <1>6, <2>1 DEF Write
  <2>3. /\ pc' \in [Stack -> InLock \cup {"idle", "begin", "wait", "record", "leave"}]
        /\ pc'[s] = "write" /\ \A t \in Stack : t # s => pc[t] = pc'[t]
    BY <1>6 DEF Write, Goto, InLock
  <2> QED BY <1>6, <2>1, <2>2, <2>3 DEF Write, pool, locals
<1>7. CASE Deployed(s)
  <2>1. at[s] \in 1 .. Groups[s] /\ files[s] \in Outcomes(s)
    BY <1>7 DEF Deployed
  <2>2. applied'[s] \in [1 .. Groups[s] -> Revision] /\ Stack = DOMAIN applied'
        /\ \A t \in Stack : t # s => applied'[t] = applied[t]
    BY <1>7, <2>1 DEF Deployed
  <2>3. files'[s] \in Outcomes(s) /\ Stack = DOMAIN files' /\ \A t \in Stack : t # s => files'[t] = files[t]
    BY <1>7, <2>1 DEF Deployed, Outcomes, Outcome
  <2>4. /\ pc' \in [Stack -> InLock \cup {"idle", "begin", "wait", "record", "leave"}]
        /\ \A t \in Stack : t # s => pc[t] = pc'[t]
        /\ pc'[s] # "decrypt"
    BY <1>7 DEF Deployed, Goto, InLock
  <2>5. /\ at' \in [Stack -> Nat] /\ \A t \in Stack : t # s => at'[t] = at[t]
        /\ at'[s] \in 1 .. Groups[s]
    <3>1. CASE at[s] < Groups[s]
      <4>1. at[s] + 1 \in 1 .. Groups[s] /\ at[s] + 1 \in Nat
        BY <3>1, <2>1
      <4>2. at' = [at EXCEPT ![s] = at[s] + 1]
        BY <3>1, <1>7 DEF Deployed
      <4>3. at \in [Stack -> Nat]
        OBVIOUS
      <4> HIDE DEF TypeOK
      <4> QED BY <4>1, <4>2, <4>3
    <3>2. CASE ~(at[s] < Groups[s])
      BY <3>2, <1>7, <2>1 DEF Deployed
    <3> QED BY <3>1, <3>2
  <2> QED BY <1>7, <2>2, <2>3, <2>4, <2>5 DEF Deployed, pool
<1>8. CASE Unlock(s) \/ Leave(s)
  <2>1. /\ pc' \in [Stack -> InLock \cup {"idle", "begin", "wait", "record", "leave"}]
        /\ \A t \in Stack : pc'[t] \in {"decrypt", "deploy", "write"} => pc[t] = pc'[t]
    BY <1>8 DEF Unlock, Leave, Goto, InLock
  <2>2. lock' \in [Repo -> Stack \cup {NoStack}] /\ slots' \subseteq Stack
    BY <1>8 DEF Unlock, Leave, pool
  <2> QED BY <1>8, <2>1, <2>2 DEF Unlock, Leave, outside, pool, locals
<1>9. CASE RecordStatus(s)
  <2>1. /\ pc' \in [Stack -> InLock \cup {"idle", "begin", "wait", "record", "leave"}]
        /\ \A t \in Stack : pc'[t] \in {"decrypt", "deploy", "write"} => pc[t] = pc'[t] /\ t # s
    BY <1>9 DEF RecordStatus, Goto, InLock
  <2>2. status'[s] \in StatusType(s) /\ Stack = DOMAIN status' /\ \A t \in Stack : t # s => status'[t] = status[t]
    <3>1. /\ rev[s] \in Revision /\ failed[s] \in Stage /\ files[s] \in {<<>>} \cup Outcomes(s)
          /\ desired[s] \in Revision
      OBVIOUS
    <3>2. [state |-> "", revision |-> rev[s], ok |-> failed[s] = "", stage |-> failed[s],
           files |-> files[s], desired |-> desired[s]] \in StatusType(s)
      BY <3>1 DEF StatusType
    <3> QED BY <1>9, <3>2 DEF RecordStatus, SetStatus
  <2>3. /\ rev' \in [Stack -> Revision] /\ docs' \in [Stack -> Revision] /\ at' \in [Stack -> Nat]
        /\ failed' \in [Stack -> Stage]
    BY <1>9 DEF RecordStatus, Revision, Stage
  <2>4. /\ Stack = DOMAIN files' /\ files'[s] = <<>>
        /\ \A t \in Stack : t # s => files'[t] = files[t] /\ at'[t] = at[t]
    BY <1>9 DEF RecordStatus
  <2> QED BY <1>9, <2>1, <2>2, <2>3, <2>4 DEF RecordStatus, outside, pool
<1> HIDE DEF TypeOK
<1> QED BY <1>1, <1>2, <1>3, <1>4, <1>5, <1>6, <1>7, <1>8, <1>9 DEF Step

(* The failures of one worker. *)
LEMMA FaultType ==
  ASSUME TypeOK, NEW s \in Stack, Fault(s) PROVE TypeOK'
<1>1. PICK stage \in Stage : Fails(s, stage)
  BY DEF Fault, SyncFails, RenderFails, DecryptFails, RotateFails, DeployFails, Panic, Stage
<1>2. /\ pc' \in [Stack -> InLock \cup {"idle", "begin", "wait", "record", "leave"}]
      /\ failed' \in [Stack -> Stage]
      /\ \A t \in Stack : pc'[t] \in {"decrypt", "deploy", "write"} => pc[t] = pc'[t]
  BY <1>1, FailsType
<1>3. faults' \in 0 .. MaxFaults
  BY FaultyType DEF Fault, SyncFails, RenderFails, DecryptFails, RotateFails, DeployFails, Panic, TypeOK
<1>4. CASE SyncFails(s)
  <2> tree' \in [Repo -> [branch : Branch, revision : Revision, plain : SUBSET SecretFile]]
    BY <1>4, CheckoutType DEF SyncFails, TypeOK
  <2> QED BY <1>2, <1>3, <1>4 DEF SyncFails, TypeOK, pool
<1>5. CASE RenderFails(s) \/ DecryptFails(s) \/ Panic(s)
  BY <1>2, <1>3, <1>5 DEF RenderFails, DecryptFails, Panic, TypeOK, pool, outside
<1>6. CASE RotateFails(s) \/ DeployFails(s)
  <2> /\ Stack = DOMAIN files' /\ \A t \in Stack : files'[t] \in {<<>>} \cup Outcomes(t)
      /\ \A t \in Stack : t # s => files'[t] = files[t]
      /\ files'[s] \in Outcomes(s)
    BY <1>6, MarkFailedType DEF RotateFails, DeployFails
  <2> QED BY <1>2, <1>3, <1>6 DEF RotateFails, DeployFails, TypeOK, pool, outside
<1> QED BY <1>4, <1>5, <1>6 DEF Fault

(* Every variable stays within the values the code gives it, and every index *)
(* of a running pipeline within its secrets or groups, whatever is           *)
(* configured and whatever fails.                                            *)
THEOREM TypeCorrect == Spec => []TypeOK
<1>1. TypeOK /\ [Next]_vars => TypeOK'
  <2> SUFFICES ASSUME TypeOK, [Next]_vars PROVE TypeOK'
    OBVIOUS
  <2>1. CASE UNCHANGED vars
    BY <2>1 DEF vars, outside, pool, locals, TypeOK
  <2> QED BY <2>1, PassType, WorldType, StepType, FaultType DEF Next
<1> QED BY InitType, <1>1, PTL DEF Spec

-------------------------------------------------------------------------------
(* The lock and the queue of a pass.                                       *)

(* Whoever is under the lock holds it; whoever is not started yet is idle.  *)
LockInv == \A s \in Stack : pc[s] \in InLock => lock[RepoOf[s]] = s
QueueInv == \A s \in Stack : next = 0 \/ next <= s => pc[s] = "idle"

(* A worker leaves everything of the others alone, and the worktree of       *)
(* whoever is under a lock.                                                 *)
LEMMA StepFrame ==
  ASSUME TypeOK, LockInv, NEW s \in Stack, Step(s) \/ Fault(s)
  PROVE  /\ UNCHANGED <<head, dryRun, next>>
         /\ \A t \in Stack \ {s} :
              /\ pc'[t] = pc[t] /\ rev'[t] = rev[t] /\ docs'[t] = docs[t] /\ at'[t] = at[t]
              /\ failed'[t] = failed[t] /\ files'[t] = files[t] /\ desired'[t] = desired[t]
              /\ status'[t] = status[t] /\ applied'[t] = applied[t] /\ touched'[t] = touched[t]
              /\ pc[t] \in InLock =>
                   tree'[RepoOf[t]] = tree[RepoOf[t]] /\ lock'[RepoOf[t]] = lock[RepoOf[t]]
<1>1. UNCHANGED <<head, dryRun, next>>
  BY DEF Step, MarkWaiting, Acquire, Sync, Render, Decrypt, Decrypted, Write, Deployed, Unlock,
         RecordStatus, Leave, Fault, SyncFails, RenderFails, DecryptFails, RotateFails, DeployFails,
         Panic, outside, pool
<1> SUFFICES ASSUME NEW t \in Stack, t # s
             PROVE /\ pc'[t] = pc[t] /\ rev'[t] = rev[t] /\ docs'[t] = docs[t] /\ at'[t] = at[t]
                   /\ failed'[t] = failed[t] /\ files'[t] = files[t] /\ desired'[t] = desired[t]
                   /\ status'[t] = status[t] /\ applied'[t] = applied[t] /\ touched'[t] = touched[t]
                   /\ pc[t] \in InLock =>
                        tree'[RepoOf[t]] = tree[RepoOf[t]] /\ lock'[RepoOf[t]] = lock[RepoOf[t]]
  BY <1>1
<1>2. pc'[t] = pc[t]
  BY DEF Step, MarkWaiting, Acquire, Sync, Render, Decrypt, Decrypted, Write, Deployed, Unlock,
         RecordStatus, Leave, Fault, SyncFails, RenderFails, DecryptFails, RotateFails, DeployFails,
         Panic, Fails, Goto, TypeOK
<1>3. rev'[t] = rev[t] /\ docs'[t] = docs[t]
  BY DEF Step, MarkWaiting, Acquire, Sync, Render, Decrypt, Decrypted, Write, Deployed, Unlock,
         RecordStatus, Leave, Fault, SyncFails, RenderFails, DecryptFails, RotateFails, DeployFails,
         Panic, locals, TypeOK
<1>4. at'[t] = at[t]
  BY DEF Step, MarkWaiting, Acquire, Sync, Render, Decrypt, Decrypted, Write, Deployed, Unlock,
         RecordStatus, Leave, Fault, SyncFails, RenderFails, DecryptFails, RotateFails, DeployFails,
         Panic, locals, TypeOK
<1>5. failed'[t] = failed[t] /\ desired'[t] = desired[t]
  BY DEF Step, MarkWaiting, Acquire, Sync, Render, Decrypt, Decrypted, Write, Deployed, Unlock,
         RecordStatus, Leave, Fault, SyncFails, RenderFails, DecryptFails, RotateFails, DeployFails,
         Panic, Fails, locals, TypeOK
<1>6. files'[t] = files[t]
  BY DEF Step, MarkWaiting, Acquire, Sync, Render, Decrypt, Decrypted, Write, Deployed, Unlock,
         RecordStatus, Leave, Fault, SyncFails, RenderFails, DecryptFails, RotateFails, DeployFails,
         Panic, MarkFailedFrom, locals, TypeOK
<1>7. status'[t] = status[t]
  BY DEF Step, MarkWaiting, Acquire, Sync, Render, Decrypt, Decrypted, Write, Deployed, Unlock,
         RecordStatus, Leave, Fault, SyncFails, RenderFails, DecryptFails, RotateFails, DeployFails,
         Panic, SetState, SetStatus, TypeOK
<1>8. applied'[t] = applied[t] /\ touched'[t] = touched[t]
  BY DEF Step, MarkWaiting, Acquire, Sync, Render, Decrypt, Decrypted, Write, Deployed, Unlock,
         RecordStatus, Leave, Fault, SyncFails, RenderFails, DecryptFails, RotateFails, DeployFails,
         Panic, outside, TypeOK
<1>9. ASSUME pc[t] \in InLock
      PROVE  tree'[RepoOf[t]] = tree[RepoOf[t]] /\ lock'[RepoOf[t]] = lock[RepoOf[t]]
  <2>1. /\ RepoOf[t] \in Repo /\ RepoOf[s] \in Repo /\ lock[RepoOf[t]] = t /\ t # NoStack
        /\ pc[s] \in InLock => RepoOf[s] # RepoOf[t]
    BY <1>9, ConstantsOK DEF LockInv
  <2>2. CASE pc[s] \in InLock
    <3>1. tree'[RepoOf[t]] = tree[RepoOf[t]]
      BY <2>1, <2>2
      DEF Step, MarkWaiting, Acquire, Sync, Render, Decrypt, Decrypted, Write, Deployed, Unlock,
          RecordStatus, Leave, Fault, SyncFails, RenderFails, DecryptFails, RotateFails, DeployFails,
          Panic, Checkout, outside, TypeOK
    <3>2. lock'[RepoOf[t]] = lock[RepoOf[t]]
      BY <2>1, <2>2
      DEF Step, MarkWaiting, Acquire, Sync, Render, Decrypt, Decrypted, Write, Deployed, Unlock,
          RecordStatus, Leave, Fault, SyncFails, RenderFails, DecryptFails, RotateFails, DeployFails,
          Panic, InLock, TypeOK
    <3> QED BY <3>1, <3>2
  <2>3. CASE pc[s] \notin InLock
    <3>1. MarkWaiting(s) \/ Acquire(s) \/ RecordStatus(s) \/ Leave(s)
      BY <2>3 DEF Step, Sync, Render, Decrypt, Decrypted, Write, Deployed, Unlock,
                  Fault, SyncFails, RenderFails, DecryptFails, RotateFails, DeployFails, Panic, InLock
    <3> QED BY <3>1, <2>1 DEF MarkWaiting, Acquire, RecordStatus, Leave, outside, TypeOK
  <2> QED BY <2>2, <2>3
<1> QED BY <1>2, <1>3, <1>4, <1>5, <1>6, <1>7, <1>8, <1>9

(* How a worker moves: under the lock it stays or ends, and only Acquire     *)
(* brings it there.                                                         *)
LEMMA StepMoves ==
  ASSUME TypeOK, LockInv, NEW s \in Stack, Step(s) \/ Fault(s)
  PROVE  /\ pc[s] # "idle"
         /\ pc'[s] \in InLock => lock'[RepoOf[s]] = s
<1>1. pc[s] # "idle"
  BY DEF Step, MarkWaiting, Acquire, Sync, Render, Decrypt, Decrypted, Write, Deployed, Unlock,
         RecordStatus, Leave, Fault, SyncFails, RenderFails, DecryptFails, RotateFails, DeployFails,
         Panic, InLock
<1>2. CASE Acquire(s)
  BY <1>1, <1>2, ConstantsOK DEF Acquire, TypeOK
<1>3. CASE MarkWaiting(s) \/ Unlock(s) \/ RecordStatus(s) \/ Leave(s)
  <2> pc'[s] \in {"wait", "record", "leave", "idle"}
    BY <1>3 DEF MarkWaiting, Unlock, RecordStatus, Leave, Goto, TypeOK
  <2> QED BY <1>1 DEF InLock
<1>4. CASE ~(Acquire(s) \/ MarkWaiting(s) \/ Unlock(s) \/ RecordStatus(s) \/ Leave(s))
  <2> pc[s] \in InLock /\ lock' = lock
    BY <1>4
    DEF Step, Sync, Render, Decrypt, Decrypted, Write, Deployed,
        Fault, SyncFails, RenderFails, DecryptFails, RotateFails, DeployFails, Panic, InLock
  <2> QED BY <1>1 DEF LockInv
<1> QED BY <1>2, <1>3, <1>4

(* Every worker under the lock of its repository holds it, so that there is  *)
(* at most one per repository, and no worker runs that its pass has not      *)
(* started.                                                                 *)
THEOREM LockAndQueue == Spec => [](LockInv /\ QueueInv)
<1>1. Init => LockInv /\ QueueInv
  BY DEF Init, LockInv, QueueInv, InLock
<1>2. TypeOK /\ LockInv /\ QueueInv /\ [Next]_vars => LockInv' /\ QueueInv'
  <2> SUFFICES ASSUME TypeOK, LockInv, QueueInv, [Next]_vars PROVE LockInv' /\ QueueInv'
    OBVIOUS
  <2>1. CASE UNCHANGED vars
    BY <2>1 DEF vars, pool, LockInv, QueueInv
  <2>2. CASE Tick \/ PassEnds
    <3>1. LockInv'
      BY <2>2 DEF Tick, PassEnds, LockInv
    <3>2. \A s \in Stack : pc'[s] = "idle"
      BY <2>2 DEF Tick, PassEnds, QueueInv
    <3> QED BY <3>1, <3>2 DEF QueueInv
  <2>3. CASE Spawn
    <3>1. /\ pc' = [pc EXCEPT ![next] = "begin"] /\ next \in Stack /\ lock' = lock /\ next' = next + 1
      BY <2>3 DEF Spawn, Goto
    <3>2. LockInv'
      BY <3>1 DEF LockInv, InLock, TypeOK
    <3>3. ASSUME NEW s \in Stack, next' = 0 \/ next' <= s PROVE pc'[s] = "idle"
      <4>1. next \in Nat /\ s \in Nat /\ next # 0
        BY <3>1, ConstantsOK DEF Stack
      <4>2. next <= s /\ s # next
        BY <4>1, <3>1, <3>3
      <4> QED BY <4>2, <3>1 DEF QueueInv, TypeOK
    <3> QED BY <3>2, <3>3 DEF QueueInv
  <2>4. ASSUME NEW s \in Stack, Step(s) \/ Fault(s) PROVE LockInv' /\ QueueInv'
    <3>1. LockInv'
      BY <2>4, StepFrame, StepMoves DEF LockInv
    <3>2. QueueInv'
      BY <2>4, StepFrame, StepMoves DEF QueueInv
    <3> QED BY <3>1, <3>2
  <2>5. CASE \E r \in Repo, b \in Branch : Push(r, b)
    BY <2>5 DEF Push, pool, LockInv, QueueInv
  <2>6. CASE Restart
    BY <2>6 DEF Restart, LockInv, QueueInv, InLock
  <2> QED BY <2>1, <2>2, <2>3, <2>4, <2>5, <2>6 DEF Next
<1> QED BY <1>1, <1>2, TypeCorrect, PTL DEF Spec

-------------------------------------------------------------------------------
(* One revision per pipeline.                                              *)

OneRevision(s) ==
  pc[s] \in {"render", "decrypt", "deploy", "write"} =>
    /\ Tree(s) = [branch |-> BranchOf[s], revision |-> rev[s], plain |-> PlainAt(s)]
    /\ pc[s] # "render" => docs[s] = rev[s]

LEMMA OneRevisionStep ==
  ASSUME TypeOK, LockInv, NEW s \in Stack, OneRevision(s), Step(s) \/ Fault(s)
  PROVE  OneRevision(s)'
<1>0. /\ RepoOf[s] \in Repo /\ BranchOf[s] \in Branch /\ Len(Secrets[s]) \in Nat
      /\ tree[RepoOf[s]] \in [branch : Branch, revision : Revision, plain : SUBSET SecretFile]
  BY ConstantsOK DEF TypeOK
<1>1. CASE Sync(s)
  <2>1. /\ pc'[s] = "render" /\ rev'[s] = head[RepoOf[s]][BranchOf[s]]
        /\ tree'[RepoOf[s]] = [branch |-> BranchOf[s], revision |-> head[RepoOf[s]][BranchOf[s]], plain |-> {}]
    BY <1>0, <1>1 DEF Sync, Goto, Checkout, TypeOK
  <2> QED BY <2>1 DEF OneRevision, Tree, PlainAt
<1>2. CASE Render(s)
  <2>1. /\ pc[s] = "render" /\ docs'[s] = Tree(s).revision /\ at'[s] = 1 /\ rev' = rev
        /\ tree' = tree /\ pc'[s] \in {"unlock", "decrypt"}
    BY <1>2 DEF Render, Goto, AfterRender, outside, TypeOK
  <2>2. Tree(s) = [branch |-> BranchOf[s], revision |-> rev[s], plain |-> {}]
    BY <2>1 DEF OneRevision, PlainAt
  <2>3. pc'[s] = "decrypt" => PlainAt(s)' = {}
    BY <2>1 DEF PlainAt, DecryptedBefore
  <2> QED BY <2>1, <2>2, <2>3 DEF OneRevision, Tree
<1>3. CASE Decrypt(s)
  <2>1. /\ pc[s] = "decrypt" /\ pc' = pc /\ rev' = rev /\ docs' = docs /\ at'[s] = at[s] + 1
        /\ tree'[RepoOf[s]] = [Tree(s) EXCEPT !.plain = @ \cup {Secrets[s][at[s]]}]
    BY <1>0, <1>3 DEF Decrypt, TypeOK, Tree
  <2>2. at[s] \in Nat /\ at[s] >= 1
    BY <1>0, <2>1 DEF TypeOK
  <2>3. DecryptedBefore(s, at[s] + 1) = DecryptedBefore(s, at[s]) \cup {Secrets[s][at[s]]}
    <3>1. 1 .. (at[s] + 1) - 1 = (1 .. at[s] - 1) \cup {at[s]}
      BY <2>2
    <3> QED BY <3>1 DEF DecryptedBefore
  <2>4. Tree(s) = [branch |-> BranchOf[s], revision |-> rev[s], plain |-> DecryptedBefore(s, at[s])]
        /\ docs[s] = rev[s]
    BY <2>1 DEF OneRevision, PlainAt
  <2>5. tree'[RepoOf[s]] =
          [branch |-> BranchOf[s], revision |-> rev[s], plain |-> DecryptedBefore(s, at[s] + 1)]
    BY <2>1, <2>3, <2>4
  <2>6. PlainAt(s)' = DecryptedBefore(s, at[s] + 1)
    BY <2>1 DEF PlainAt, DecryptedBefore
  <2> QED BY <2>1, <2>4, <2>5, <2>6 DEF OneRevision, Tree
<1>4. CASE Decrypted(s)
  <2>1. /\ pc[s] = "decrypt" /\ pc'[s] = "deploy" /\ rev' = rev /\ docs' = docs /\ tree' = tree
        /\ at[s] > Len(Secrets[s])
    BY <1>4 DEF Decrypted, Goto, outside, TypeOK
  <2>2. at[s] = Len(Secrets[s]) + 1
    BY <1>0, <2>1 DEF TypeOK
  <2>3. Tree(s) = [branch |-> BranchOf[s], revision |-> rev[s], plain |-> DecryptedBefore(s, at[s])]
        /\ docs[s] = rev[s]
    BY <2>1 DEF OneRevision, PlainAt
  <2>4. PlainAt(s)' = DecryptedBefore(s, at[s])
    BY <2>1, <2>2 DEF PlainAt, DecryptedBefore
  <2> QED BY <2>1, <2>3, <2>4 DEF OneRevision, Tree
<1>5. CASE Write(s) \/ Deployed(s)
  <2>1. /\ pc[s] \in {"deploy", "write"} /\ pc'[s] \in {"deploy", "write", "unlock"}
        /\ rev' = rev /\ docs' = docs /\ tree' = tree
    BY <1>5 DEF Write, Deployed, Goto, locals, TypeOK
  <2>2. PlainAt(s) = DecryptedBefore(s, Len(Secrets[s]) + 1)
    BY <2>1 DEF PlainAt
  <2>3. pc'[s] # "unlock" => PlainAt(s)' = DecryptedBefore(s, Len(Secrets[s]) + 1)
    BY <2>1 DEF PlainAt, DecryptedBefore
  <2> QED BY <2>1, <2>2, <2>3 DEF OneRevision, Tree
<1>6. CASE MarkWaiting(s) \/ Acquire(s) \/ Unlock(s) \/ RecordStatus(s) \/ Leave(s)
  <2> pc'[s] \in {"wait", "sync", "record", "leave", "idle"}
    BY <1>6 DEF MarkWaiting, Acquire, Unlock, RecordStatus, Leave, Goto, TypeOK
  <2> QED BY DEF OneRevision
<1>7. CASE Fault(s)
  <2> pc'[s] = "unlock"
    BY <1>7 DEF Fault, SyncFails, RenderFails, DecryptFails, RotateFails, DeployFails, Panic, Fails, Goto, TypeOK
  <2> QED BY DEF OneRevision
<1> QED BY <1>1, <1>2, <1>3, <1>4, <1>5, <1>6, <1>7 DEF Step

(* From its Sync to its unlock a pipeline works on its own branch at the     *)
(* revision it synced, and its secrets are plaintext exactly as far as it    *)
(* has decrypted them, however many stacks share the repository.             *)
THEOREM PipelineSeesOneRevision == Spec => []OneRevisionPerPipeline
<1>1. Init => OneRevisionPerPipeline
  BY DEF Init, OneRevisionPerPipeline
<1>2. TypeOK /\ LockInv /\ OneRevisionPerPipeline /\ [Next]_vars => OneRevisionPerPipeline'
  <2> SUFFICES ASSUME TypeOK, LockInv, OneRevisionPerPipeline, [Next]_vars
               PROVE OneRevisionPerPipeline'
    OBVIOUS
  <2>0. \A s \in Stack : OneRevision(s)
    BY DEF OneRevisionPerPipeline, OneRevision
  <2> SUFFICES ASSUME NEW t \in Stack PROVE OneRevision(t)'
    BY DEF OneRevisionPerPipeline, OneRevision
  <2>1. CASE \/ UNCHANGED vars \/ Tick \/ PassEnds \/ \E r \in Repo, b \in Branch : Push(r, b)
    <3> UNCHANGED <<pc, rev, docs, at, tree>>
      BY <2>1 DEF vars, Tick, PassEnds, Push, outside, locals
    <3> QED BY <2>0 DEF OneRevision, Tree, PlainAt, DecryptedBefore
  <2>2. CASE Spawn
    <3>1. /\ UNCHANGED <<rev, docs, at, tree>>
          /\ pc'[t] = pc[t] \/ pc'[t] = "begin"
      BY <2>2 DEF Spawn, Goto, outside, locals, TypeOK
    <3> QED BY <2>0, <3>1 DEF OneRevision, Tree, PlainAt, DecryptedBefore
  <2>3. ASSUME NEW s \in Stack, Step(s) \/ Fault(s) PROVE OneRevision(t)'
    <3>1. CASE t = s
      BY <2>0, <2>3, <3>1, OneRevisionStep
    <3>2. CASE t # s
      <4>1. /\ pc'[t] = pc[t] /\ rev'[t] = rev[t] /\ docs'[t] = docs[t] /\ at'[t] = at[t]
            /\ pc[t] \in InLock => tree'[RepoOf[t]] = tree[RepoOf[t]]
        BY <2>3, <3>2, StepFrame
      <4>2. pc[t] \in {"render", "decrypt", "deploy", "write"} =>
              tree'[RepoOf[t]] = tree[RepoOf[t]] /\ PlainAt(t)' = PlainAt(t)
        BY <4>1 DEF InLock, PlainAt, DecryptedBefore
      <4> QED BY <2>0, <4>1, <4>2 DEF OneRevision, Tree
    <3> QED BY <3>1, <3>2
  <2>4. CASE Restart
    BY <2>4 DEF Restart, OneRevision
  <2> QED BY <2>1, <2>2, <2>3, <2>4 DEF Next
<1> QED BY <1>1, <1>2, TypeCorrect, LockAndQueue, PTL DEF Spec

-------------------------------------------------------------------------------
(* The pool and what is shown in flight.                                   *)

(* A worker that is not idle holds a slot; a stack is shown in flight from   *)
(* its wait for the lock until its outcome is recorded.                     *)
SlotInv == Cardinality(slots) <= Concurrency /\ \A s \in Stack : pc[s] # "idle" => s \in slots
ShownInv == \A s \in Stack : status[s].state # "" <=> pc[s] \in {"wait", "record"} \cup InLock

LEMMA SlotsFinite ==
  ASSUME TypeOK
  PROVE  IsFiniteSet(slots) /\ Cardinality(slots) \in Nat
<1>1. IsFiniteSet(Stack)
  BY FS_Interval, ConstantsOK DEF Stack
<1>2. IsFiniteSet(slots)
  BY <1>1, FS_Subset DEF TypeOK
<1> QED BY <1>2, FS_CardinalityType

LEMMA ShownStep ==
  ASSUME TypeOK, NEW s \in Stack, Step(s) \/ Fault(s),
         status[s].state # "" <=> pc[s] \in {"wait", "record"} \cup InLock
  PROVE  (status[s].state # "" <=> pc[s] \in {"wait", "record"} \cup InLock)'
<1>0. Stack = DOMAIN status /\ status[s] \in StatusType(s)
  BY DEF TypeOK
<1>1. CASE MarkWaiting(s)
  <2> status'[s].state = "waiting" /\ pc'[s] = "wait"
    BY <1>0, <1>1 DEF MarkWaiting, SetState, Goto, StatusType, TypeOK
  <2> QED OBVIOUS
<1>2. CASE Acquire(s)
  <2> status'[s].state = "syncing" /\ pc'[s] = "sync"
    BY <1>0, <1>2 DEF Acquire, SetState, Goto, StatusType, TypeOK
  <2> QED BY DEF InLock
<1>3. CASE RecordStatus(s)
  <2> status'[s].state = "" /\ pc'[s] = "leave"
    BY <1>0, <1>3 DEF RecordStatus, SetStatus, Goto, TypeOK
  <2> QED BY DEF InLock
<1>4. CASE Leave(s)
  <2> status' = status /\ pc[s] = "leave" /\ pc'[s] = "idle"
    BY <1>4 DEF Leave, Goto, TypeOK
  <2> QED BY DEF InLock
<1>5. CASE ~(MarkWaiting(s) \/ Acquire(s) \/ RecordStatus(s) \/ Leave(s))
  <2>1. status' = status /\ pc[s] \in InLock
    BY <1>5 DEF Step, Sync, Render, Decrypt, Decrypted, Write, Deployed, Unlock,
                Fault, SyncFails, RenderFails, DecryptFails, RotateFails, DeployFails, Panic, InLock
  <2>2. pc'[s] \in {"record"} \cup InLock
    BY <1>5 DEF Step, Sync, Render, AfterRender, Decrypt, Decrypted, Write, Deployed, Unlock, Fault,
                SyncFails, RenderFails, DecryptFails, RotateFails, DeployFails, Panic, Fails, Goto,
                InLock, TypeOK
  <2> QED BY <2>1, <2>2
<1> QED BY <1>1, <1>2, <1>3, <1>4, <1>5

THEOREM SlotsAndShown == Spec => [](SlotInv /\ ShownInv)
<1>1. Init => SlotInv /\ ShownInv
  <2>1. Cardinality({}) <= Concurrency
    BY FS_EmptySet, ConstantsOK
  <2>2. ASSUME Init, NEW s \in Stack PROVE pc[s] = "idle" /\ status[s].state = ""
    <3> status[s] = NoStatus
      BY <2>2 DEF Init
    <3> QED BY <2>2 DEF Init, NoStatus
  <2> QED BY <2>1, <2>2 DEF Init, SlotInv, ShownInv, InLock
<1>2. TypeOK /\ LockInv /\ QueueInv /\ SlotInv /\ ShownInv /\ [Next]_vars => SlotInv' /\ ShownInv'
  <2> SUFFICES ASSUME TypeOK, LockInv, QueueInv, SlotInv, ShownInv, [Next]_vars PROVE SlotInv' /\ ShownInv'
    OBVIOUS
  <2>1. CASE \/ UNCHANGED vars \/ Tick \/ PassEnds \/ \E r \in Repo, b \in Branch : Push(r, b)
    BY <2>1 DEF vars, pool, Tick, PassEnds, Push, SlotInv, ShownInv
  <2>2. CASE Spawn
    <3>1. /\ next \in Stack /\ Cardinality(slots) < Concurrency /\ slots' = slots \cup {next}
          /\ pc' = [pc EXCEPT ![next] = "begin"] /\ status' = status
      BY <2>2 DEF Spawn, Goto
    <3>2. Cardinality(slots \cup {next}) <= Cardinality(slots) + 1
      <4>1. IsFiniteSet(slots) /\ Cardinality(slots) \in Nat
        BY SlotsFinite
      <4>2. Cardinality(slots \cup {next}) = IF next \in slots THEN Cardinality(slots) ELSE Cardinality(slots) + 1
        BY <4>1, FS_AddElement, Zenon
      <4> QED BY <4>1, <4>2
    <3>3. Cardinality(slots \cup {next}) \in Nat
      BY SlotsFinite, FS_AddElement, FS_CardinalityType
    <3>4. Cardinality(slots') <= Concurrency
      BY <3>1, <3>2, <3>3, SlotsFinite, ConstantsOK
    <3>5. \A s \in Stack : pc'[s] # "idle" => s \in slots'
      BY <3>1 DEF SlotInv, TypeOK
    <3>6. ShownInv'
      <4> SUFFICES ASSUME NEW s \in Stack
                   PROVE  status[s].state # "" <=> pc'[s] \in {"wait", "record"} \cup InLock
        BY <3>1 DEF ShownInv
      <4>1. CASE s # next
        BY <4>1, <3>1 DEF ShownInv, TypeOK
      <4>2. CASE s = next
        <5>1. pc[s] = "idle"
          <6> next # 0 /\ next <= s
            BY <4>2, <3>1, ConstantsOK DEF Stack
          <6> QED BY <4>2, <3>1 DEF QueueInv
        <5>2. pc'[s] = "begin"
          BY <4>2, <3>1 DEF TypeOK
        <5> QED BY <5>1, <5>2 DEF ShownInv, InLock
      <4> QED BY <4>1, <4>2
    <3> QED BY <3>4, <3>5, <3>6 DEF SlotInv
  <2>3. ASSUME NEW s \in Stack, Step(s) \/ Fault(s) PROVE SlotInv' /\ ShownInv'
    <3>1. ShownInv'
      <4> SUFFICES ASSUME NEW t \in Stack
                   PROVE  status'[t].state # "" <=> pc'[t] \in {"wait", "record"} \cup InLock
        BY DEF ShownInv
      <4>1. status[t].state # "" <=> pc[t] \in {"wait", "record"} \cup InLock
        BY DEF ShownInv
      <4>2. CASE t = s
        BY <2>3, <4>1, <4>2, ShownStep
      <4>3. CASE t # s
        <5> status'[t] = status[t] /\ pc'[t] = pc[t]
          BY <2>3, <4>3, StepFrame
        <5> QED BY <4>1
      <4> QED BY <4>2, <4>3
    <3>2. CASE Leave(s)
      <4>1. slots' = slots \ {s} /\ pc'[s] = "idle"
        BY <3>2 DEF Leave, Goto, TypeOK
      <4>2. Cardinality(slots \ {s}) <= Cardinality(slots) /\ Cardinality(slots \ {s}) \in Nat
        BY SlotsFinite, FS_Subset, FS_CardinalityType
      <4>3. Cardinality(slots') <= Concurrency
        BY <4>1, <4>2, SlotsFinite, ConstantsOK DEF SlotInv
      <4> QED BY <3>1, <4>1, <4>3, <2>3, StepFrame DEF SlotInv
    <3>3. CASE ~Leave(s)
      <4>1. slots' = slots
        BY <2>3, <3>3
        DEF Step, MarkWaiting, Acquire, Sync, Render, Decrypt, Decrypted, Write, Deployed, Unlock,
            RecordStatus, Fault, SyncFails, RenderFails, DecryptFails, RotateFails, DeployFails,
            Panic, pool
      <4> QED BY <3>1, <4>1, <2>3, StepFrame, StepMoves DEF SlotInv
    <3> QED BY <3>2, <3>3
  <2>4. CASE Restart
    <3>1. Cardinality({}) <= Concurrency
      BY FS_EmptySet, ConstantsOK
    <3>2. \A s \in Stack : pc'[s] = "idle" /\ status'[s].state = ""
      BY <2>4 DEF Restart, NoStatus
    <3> QED BY <2>4, <3>1, <3>2 DEF Restart, SlotInv, ShownInv, InLock
  <2> QED BY <2>1, <2>2, <2>3, <2>4 DEF Next
<1> QED BY <1>1, <1>2, TypeCorrect, LockAndQueue, PTL DEF Spec

(* The stacks shown waiting or syncing never outnumber the worker pool.      *)
THEOREM ShownWithinPool == Spec => []ShownInFlightWithinPool
<1>1. TypeOK /\ SlotInv /\ ShownInv => ShownInFlightWithinPool
  <2> SUFFICES ASSUME TypeOK, SlotInv, ShownInv PROVE ShownInFlightWithinPool
    OBVIOUS
  <2> DEFINE shown == {s \in Stack : status[s].state # ""}
  <2>1. shown \subseteq slots
    BY DEF SlotInv, ShownInv, InLock
  <2>2. Cardinality(shown) <= Cardinality(slots) /\ Cardinality(shown) \in Nat
    BY <2>1, SlotsFinite, FS_Subset, FS_CardinalityType
  <2>3. Cardinality(slots) <= Concurrency
    BY DEF SlotInv
  <2> HIDE DEF shown
  <2>4. Cardinality(shown) <= Concurrency
    BY <2>2, <2>3, SlotsFinite, ConstantsOK
  <2> QED BY <2>4 DEF ShownInFlightWithinPool, shown
<1> QED BY <1>1, TypeCorrect, SlotsAndShown, PTL

-------------------------------------------------------------------------------
(* Dry runs.                                                               *)

DryInv == dryRun => \A s \in Stack : pc[s] \notin {"decrypt", "deploy", "write"}

(* In a dry run no worker gets past the rendering. *)
LEMMA DryStep ==
  ASSUME TypeOK, LockInv, DryInv, NEW s \in Stack, Step(s) \/ Fault(s)
  PROVE  /\ DryInv'
         /\ dryRun => /\ UNCHANGED <<applied, touched>>
                      /\ \A r \in Repo : tree'[r].plain \subseteq tree[r].plain
<1> SUFFICES ASSUME dryRun
             PROVE /\ DryInv' /\ UNCHANGED <<applied, touched>>
                   /\ \A r \in Repo : tree'[r].plain \subseteq tree[r].plain
  BY StepFrame DEF DryInv
<1>0. dryRun' = dryRun /\ pc[s] \notin {"decrypt", "deploy", "write"}
  BY StepFrame DEF DryInv
<1>1. pc'[s] \notin {"decrypt", "deploy", "write"}
  BY <1>0 DEF Step, MarkWaiting, Acquire, Sync, Render, AfterRender, Decrypt, Decrypted, Write, Deployed,
              Unlock, RecordStatus, Leave, Fault, SyncFails, RenderFails, DecryptFails, RotateFails,
              DeployFails, Panic, Fails, Goto, TypeOK
<1>2. DryInv'
  BY <1>1, StepFrame DEF DryInv
<1>3. UNCHANGED <<applied, touched>>
  BY <1>0 DEF Step, MarkWaiting, Acquire, Sync, Render, Decrypt, Decrypted, Write, Deployed,
              Unlock, RecordStatus, Leave, Fault, SyncFails, RenderFails, DecryptFails, RotateFails,
              DeployFails, Panic, outside
<1>4. ASSUME NEW r \in Repo PROVE tree'[r].plain \subseteq tree[r].plain
  <2>1. tree' = tree \/ Checkout(s)
    BY <1>0 DEF Step, MarkWaiting, Acquire, Sync, Render, Decrypt, Decrypted, Write, Deployed,
                Unlock, RecordStatus, Leave, Fault, SyncFails, RenderFails, DecryptFails, RotateFails,
                DeployFails, Panic, outside
  <2>2. CASE Checkout(s)
    <3> tree'[r] = tree[r] \/ tree'[r].plain = {}
      BY <2>2 DEF Checkout, TypeOK
    <3> QED OBVIOUS
  <2> QED BY <2>1, <2>2
<1> QED BY <1>2, <1>3, <1>4

(* A dry run changes no service and writes no plaintext to a worktree,        *)
(* whatever else fails or is pushed while it runs.                          *)
THEOREM DryRunIsDry == Spec => DryRunLeavesNoTrace
<1>1. Init => DryInv
  BY DEF Init, DryInv
<1>2. TypeOK /\ LockInv /\ DryInv /\ [Next]_vars =>
        /\ DryInv'
        /\ [dryRun => /\ UNCHANGED <<applied, touched>>
                      /\ \A r \in Repo : tree'[r].plain \subseteq tree[r].plain]_vars
  <2> SUFFICES ASSUME TypeOK, LockInv, DryInv, [Next]_vars
               PROVE /\ DryInv'
                     /\ dryRun => /\ UNCHANGED <<applied, touched>>
                                  /\ \A r \in Repo : tree'[r].plain \subseteq tree[r].plain
    OBVIOUS
  <2>1. CASE \/ UNCHANGED vars \/ Tick \/ PassEnds \/ \E r \in Repo, b \in Branch : Push(r, b)
    BY <2>1 DEF vars, outside, pool, Tick, PassEnds, Push, DryInv
  <2>2. CASE Spawn
    <3> UNCHANGED <<tree, applied, touched, dryRun>> /\ \A s \in Stack : pc'[s] \in {pc[s], "begin"}
      BY <2>2 DEF Spawn, Goto, outside, TypeOK
    <3> QED BY DEF DryInv
  <2>3. CASE \E s \in Stack : Step(s) \/ Fault(s)
    BY <2>3, DryStep
  <2>4. CASE Restart
    BY <2>4 DEF Restart, outside, DryInv
  <2> QED BY <2>1, <2>2, <2>3, <2>4 DEF Next
<1> QED BY <1>1, <1>2, TypeCorrect, LockAndQueue, PTL DEF Spec, DryRunLeavesNoTrace

-------------------------------------------------------------------------------
(* A secret listed twice.                                                  *)

(* A stack that lists no file twice never meets one it has decrypted. *)
LEMMA NotYetDecrypted ==
  ASSUME TypeOK, NEW s \in Stack, OneRevision(s), Deployable(s),
         pc[s] = "decrypt", at[s] <= Len(Secrets[s])
  PROVE  Secrets[s][at[s]] \notin Tree(s).plain
<1>1. Tree(s).plain = {Secrets[s][j] : j \in 1 .. at[s] - 1}
  BY DEF OneRevision, PlainAt, DecryptedBefore
<1>2. at[s] \in Nat /\ at[s] >= 1 /\ Len(Secrets[s]) \in Nat
  BY ConstantsOK DEF TypeOK
<1>3. \A j \in 1 .. at[s] - 1 : Secrets[s][j] # Secrets[s][at[s]]
  BY <1>2 DEF Deployable
<1> QED
  BY <1>1, <1>3

(* What the documentation promises of every stack holds where no stack lists *)
(* a file twice: the repetition alone breaks it, whatever the repositories,  *)
(* branches, groups and schedules.                                           *)
THEOREM DecryptedOnceIfListedOnce ==
  ASSUME \A s \in Stack : Deployable(s)
  PROVE  Spec => []SecretsDecryptedOnce
<1>1. Init => SecretsDecryptedOnce
  BY DEF Init, SecretsDecryptedOnce
<1>2. TypeOK /\ OneRevisionPerPipeline /\ SecretsDecryptedOnce /\ [Next]_vars => SecretsDecryptedOnce'
  <2> SUFFICES ASSUME TypeOK, OneRevisionPerPipeline, SecretsDecryptedOnce, [Next]_vars,
                      faults' = 0, NEW t \in Stack
               PROVE  failed'[t] # "secrets"
    BY DEF SecretsDecryptedOnce
  <2>0. MaxFaults \in Nat /\ faults \in Nat
    BY ConstantsOK DEF TypeOK
  <2>1. CASE \/ UNCHANGED vars \/ Tick \/ Spawn \/ PassEnds \/ \E r \in Repo, b \in Branch : Push(r, b)
    <3> UNCHANGED <<failed, faults>>
      BY <2>1 DEF vars, outside, pool, locals, Tick, Spawn, PassEnds, Push
    <3> QED BY DEF SecretsDecryptedOnce
  <2>2. ASSUME NEW s \in Stack, Step(s) PROVE failed'[t] # "secrets"
    <3> /\ faults' = faults /\ (failed' = failed \/ failed' = [failed EXCEPT ![s] = ""])
      BY <2>2 DEF Step, MarkWaiting, Acquire, Sync, Render, Decrypt, Decrypted, Write, Deployed,
                  Unlock, RecordStatus, Leave, outside, pool, locals
    <3> QED BY DEF SecretsDecryptedOnce, TypeOK
  <2>3. ASSUME NEW s \in Stack, Fault(s) PROVE failed'[t] # "secrets"
    <3>1. ~Faulty
      BY <2>0 DEF Faulty
    <3>2. DecryptFails(s) /\ at[s] <= Len(Secrets[s]) /\ Secrets[s][at[s]] \in Tree(s).plain
      BY <2>3, <3>1 DEF Fault, SyncFails, RenderFails, DecryptFails, RotateFails, DeployFails, Panic
    <3>3. pc[s] = "decrypt" /\ OneRevision(s) /\ Deployable(s)
      BY <3>2 DEF DecryptFails, OneRevisionPerPipeline, OneRevision
    <3> QED BY <3>2, <3>3, NotYetDecrypted
  <2>4. CASE Restart
    BY <2>0, <2>4 DEF Restart, Faulty
  <2> QED BY <2>1, <2>2, <2>3, <2>4 DEF Next
<1> QED BY <1>1, <1>2, TypeCorrect, PipelineSeesOneRevision, PTL DEF Spec

-------------------------------------------------------------------------------
(* What the status tells.                                                  *)

(* The groups before n are ok, and no other group is. *)
OkBefore(s, n) == \A g \in DOMAIN files[s] : files[s][g] = "ok" <=> g < n
(* The groups shown ok run the revision of the pipeline. *)
OkRun(s) == \A g \in DOMAIN files[s] : files[s][g] = "ok" => applied[s][g] = rev[s]
(* One group failed, those before it are ok, those after it skipped. *)
OneFailed(fs) ==
  \E f \in DOMAIN fs : \A g \in DOMAIN fs :
    fs[g] = IF g < f THEN "ok" ELSE IF g = f THEN "failed" ELSE "skipped"

(* The outcome a pipeline has so far. *)
OutcomeInv(s) ==
  /\ pc[s] \in {"idle", "begin", "wait", "sync", "render", "decrypt", "leave"} =>
       files[s] = <<>> /\ failed[s] = ""
  /\ pc[s] = "decrypt" => desired[s] = rev[s]
  /\ pc[s] \in {"deploy", "write"} =>
       failed[s] = "" /\ desired[s] = rev[s] /\ OkBefore(s, at[s]) /\ OkRun(s)
  /\ pc[s] \in {"unlock", "record"} =>
       /\ OkRun(s)
       /\ failed[s] = "" => desired[s] = rev[s] /\ \A g \in DOMAIN files[s] : files[s][g] = "ok"
       /\ failed[s] \in {"rotate", "deploy"} => desired[s] = rev[s] /\ OneFailed(files[s])

LEMMA EmptyDomain == DOMAIN <<>> = {}
OBVIOUS

LEMMA OutcomeStep ==
  ASSUME TypeOK, LockInv, NEW s \in Stack, OneRevision(s), OutcomeInv(s), Step(s) \/ Fault(s)
  PROVE  OutcomeInv(s)'
<1> USE DEF OkRun
<1>1. CASE MarkWaiting(s) \/ Acquire(s) \/ Sync(s)
  <2> /\ files' = files /\ failed' = failed /\ pc'[s] \in {"wait", "sync", "render"}
      /\ pc[s] \in {"begin", "wait", "sync"}
    BY <1>1 DEF MarkWaiting, Acquire, Sync, Goto, locals, TypeOK
  <2> QED BY DEF OutcomeInv
<1>2. CASE Render(s)
  <2>1. /\ files' = files /\ failed' = failed /\ pc'[s] \in {"decrypt", "unlock"}
        /\ pc[s] = "render" /\ desired'[s] = Tree(s).revision /\ rev' = rev
    BY <1>2 DEF Render, AfterRender, Goto, TypeOK
  <2>2. desired'[s] = rev'[s]
    BY <2>1 DEF OneRevision
  <2>3. files[s] = <<>> /\ failed[s] = ""
    BY <2>1 DEF OutcomeInv
  <2>4. DOMAIN files'[s] = {}
    BY <2>1, <2>3, EmptyDomain, Zenon
  <2> QED BY <2>1, <2>2, <2>3, <2>4 DEF OutcomeInv
<1>3. CASE Decrypt(s)
  <2> UNCHANGED <<files, failed, pc, rev, desired>> /\ pc[s] = "decrypt"
    BY <1>3 DEF Decrypt
  <2> QED BY DEF OutcomeInv
<1>4. CASE Decrypted(s)
  <2>1. /\ files'[s] = [g \in 1 .. Groups[s] |-> ""] /\ failed' = failed /\ pc'[s] = "deploy"
        /\ pc[s] = "decrypt" /\ at'[s] = 1 /\ UNCHANGED <<rev, desired, applied>>
    BY <1>4 DEF Decrypted, Goto, outside, TypeOK
  <2>2. OkBefore(s, at[s])'
    <3>1. DOMAIN files'[s] = 1 .. Groups[s]
      BY <2>1
    <3>2. \A g \in 1 .. Groups[s] : ~(g < 1) /\ files'[s][g] # "ok"
      <4>1. Groups[s] \in Nat
        BY ConstantsOK
      <4>2. \A g \in 1 .. Groups[s] : ~(g < 1)
        BY <4>1
      <4> QED BY <2>1, <4>2
    <3> QED BY <2>1, <3>1, <3>2 DEF OkBefore
  <2>3. OkRun(s)'
    BY <2>1
  <2> QED BY <2>1, <2>2, <2>3 DEF OutcomeInv
<1>5. CASE Write(s)
  <2> /\ UNCHANGED <<files, failed, at, rev, desired, applied>> /\ pc[s] = "deploy"
      /\ pc'[s] = "write"
    BY <1>5 DEF Write, Goto, locals, TypeOK
  <2> QED BY DEF OutcomeInv, OkBefore
<1>6. CASE Deployed(s)
  <2>1. /\ pc[s] = "write" /\ at[s] \in 1 .. Groups[s] /\ docs[s] = rev[s] /\ Groups[s] \in Nat
        /\ failed[s] = "" /\ desired[s] = rev[s] /\ OkBefore(s, at[s]) /\ OkRun(s)
        /\ files[s] \in [1 .. Groups[s] -> Outcome] /\ applied[s] \in [1 .. Groups[s] -> Revision]
    BY <1>6, ConstantsOK DEF Deployed, OutcomeInv, OneRevision, TypeOK, Outcomes
  <2>2. /\ applied'[s] = [applied[s] EXCEPT ![at[s]] = docs[s]]
        /\ files'[s] = [files[s] EXCEPT ![at[s]] = "ok"]
        /\ UNCHANGED <<failed, rev, desired>>
    BY <1>6 DEF Deployed, TypeOK
  <2>3. OkRun(s)'
    BY <2>1, <2>2
  <2>4. /\ DOMAIN files'[s] = 1 .. Groups[s]
        /\ \A g \in 1 .. Groups[s] : files'[s][g] = "ok" <=> g < at[s] + 1
    <3> DEFINE fs == files[s]
    <3>0. at[s] \in 1 .. Groups[s] /\ Groups[s] \in Nat /\ fs \in [1 .. Groups[s] -> Outcome]
      BY <2>1
    <3>n. at[s] \in Nat
      BY <3>0
    <3>1. \A g \in 1 .. Groups[s] : fs[g] = "ok" <=> g < at[s]
      BY <2>1 DEF OkBefore
    <3>2. DOMAIN files'[s] = 1 .. Groups[s]
      BY <2>1, <2>2
    <3>3. ASSUME NEW g \in 1 .. Groups[s] PROVE files'[s][g] = "ok" <=> g < at[s] + 1
      <4>0. files'[s] = [fs EXCEPT ![at[s]] = "ok"] /\ g \in Nat
        BY <2>2, <3>0
      <4>1. CASE g = at[s]
        <5> files'[s][g] = "ok" /\ g < at[s] + 1
          BY <4>0, <4>1, <3>0, <3>n
        <5> QED OBVIOUS
      <4>2. CASE g # at[s]
        <5> files'[s][g] = fs[g]
          BY <4>0, <4>2, <3>0
        <5> g < at[s] + 1 <=> g < at[s]
          BY <4>0, <4>2, <3>n
        <5> QED BY <3>1
      <4> QED BY <4>1, <4>2
    <3> QED BY <3>2, <3>3
  <2>5. CASE at[s] < Groups[s]
    <3>1. at'[s] = at[s] + 1 /\ pc'[s] = "deploy"
      BY <1>6, <2>5 DEF Deployed, Goto, TypeOK
    <3>2. OkBefore(s, at[s])'
      BY <2>4, <3>1 DEF OkBefore
    <3> QED BY <2>1, <2>2, <2>3, <3>1, <3>2 DEF OutcomeInv
  <2>6. CASE ~(at[s] < Groups[s])
    <3>1. pc'[s] = "unlock"
      BY <1>6, <2>6 DEF Deployed, Goto, TypeOK
    <3>2. \A g \in DOMAIN files'[s] : files'[s][g] = "ok"
      <4> at[s] \in 1 .. Groups[s] /\ Groups[s] \in Nat
        BY <2>1
      <4> \A g \in 1 .. Groups[s] : g < at[s] + 1
        BY <2>6
      <4> QED BY <2>4
    <3> QED BY <2>1, <2>2, <2>3, <3>1, <3>2 DEF OutcomeInv
  <2> QED BY <2>5, <2>6
<1>7. CASE Unlock(s)
  <2> /\ UNCHANGED <<files, failed, rev, desired, applied>> /\ pc[s] = "unlock" /\ pc'[s] = "record"
    BY <1>7 DEF Unlock, Goto, outside, locals, TypeOK
  <2> QED BY DEF OutcomeInv
<1>8. CASE RecordStatus(s)
  <2> files'[s] = <<>> /\ failed'[s] = "" /\ pc'[s] = "leave"
    BY <1>8 DEF RecordStatus, Goto, TypeOK
  <2> QED BY DEF OutcomeInv
<1>9. CASE Leave(s)
  <2> UNCHANGED <<files, failed>> /\ pc[s] = "leave" /\ pc'[s] = "idle"
    BY <1>9 DEF Leave, Goto, locals, TypeOK
  <2> QED BY DEF OutcomeInv
<1>10. CASE SyncFails(s) \/ RenderFails(s) \/ DecryptFails(s)
  <2>1. /\ files' = files /\ pc'[s] = "unlock" /\ failed'[s] \in {"git", "render", "secrets"}
        /\ pc[s] \in {"sync", "render", "decrypt"}
    BY <1>10 DEF SyncFails, RenderFails, DecryptFails, Fails, Goto, TypeOK
  <2>2. files[s] = <<>>
    BY <2>1 DEF OutcomeInv
  <2>3. DOMAIN files'[s] = {}
    BY <2>1, <2>2
  <2> QED BY <2>1, <2>3 DEF OutcomeInv
<1>11. CASE Panic(s)
  <2>1. /\ UNCHANGED <<files, rev, applied>> /\ pc'[s] = "unlock" /\ failed'[s] = "sync"
        /\ pc[s] \in {"sync", "render", "decrypt", "deploy", "write"}
    BY <1>11 DEF Panic, Fails, Goto, InLock, outside, TypeOK
  <2>2. OkRun(s)
    <3>1. CASE pc[s] \in {"sync", "render", "decrypt"}
      <4> files[s] = <<>>
        BY <3>1 DEF OutcomeInv
      <4> DOMAIN files[s] = {}
        OBVIOUS
      <4> QED OBVIOUS
    <3> QED BY <2>1, <3>1 DEF OutcomeInv
  <2> QED BY <2>1, <2>2 DEF OutcomeInv
<1>12. CASE RotateFails(s) \/ DeployFails(s)
  <2>1. /\ UNCHANGED <<rev, applied, desired>> /\ pc'[s] = "unlock" /\ failed'[s] \in {"rotate", "deploy"}
        /\ pc[s] \in {"deploy", "write"}
    BY <1>12 DEF RotateFails, DeployFails, Fails, Goto, outside, TypeOK
  <2>2. /\ at[s] \in 1 .. Groups[s] /\ files[s] \in [1 .. Groups[s] -> Outcome] /\ Groups[s] \in Nat
        /\ desired[s] = rev[s] /\ OkBefore(s, at[s]) /\ OkRun(s)
    BY <2>1, ConstantsOK DEF OutcomeInv, TypeOK, Outcomes
  <2>3. files'[s] = [g \in 1 .. Groups[s] |-> IF g < at[s] THEN files[s][g]
                                              ELSE IF g = at[s] THEN "failed" ELSE "skipped"]
    BY <1>12, <2>2 DEF RotateFails, DeployFails, MarkFailedFrom, TypeOK
  <2>4. \A g \in 1 .. Groups[s] : g < at[s] => files[s][g] = "ok"
    BY <2>2 DEF OkBefore
  <2>5. DOMAIN files'[s] = 1 .. Groups[s]
    BY <2>3
  <2>6. OkRun(s)'
    BY <2>1, <2>2, <2>3
  <2>7. OneFailed(files'[s])
    BY <2>2, <2>3, <2>4, <2>5 DEF OneFailed
  <2> QED BY <2>1, <2>2, <2>6, <2>7 DEF OutcomeInv
<1> QED BY <1>1, <1>2, <1>3, <1>4, <1>5, <1>6, <1>7, <1>8, <1>9, <1>10, <1>11, <1>12 DEF Step, Fault

THEOREM OutcomeSoFar == Spec => [](\A s \in Stack : OutcomeInv(s))
<1> DEFINE Inv == \A s \in Stack : OutcomeInv(s)
<1>1. Init => Inv
  BY DEF Init, OutcomeInv
<1>2. TypeOK /\ LockInv /\ QueueInv /\ OneRevisionPerPipeline /\ Inv /\ [Next]_vars => Inv'
  <2> SUFFICES ASSUME TypeOK, LockInv, QueueInv, OneRevisionPerPipeline, Inv, [Next]_vars, NEW t \in Stack
               PROVE OutcomeInv(t)'
    OBVIOUS
  <2>0. OutcomeInv(t) /\ OneRevision(t)
    BY DEF OneRevisionPerPipeline, OneRevision
  <2> HIDE DEF Inv
  <2> USE DEF OkRun, OkBefore, OneFailed
  <2>1. CASE \/ UNCHANGED vars \/ Tick \/ PassEnds \/ \E r \in Repo, b \in Branch : Push(r, b)
    <3> UNCHANGED <<pc, at, failed, files, rev, desired, applied>>
      BY <2>1 DEF vars, outside, pool, locals, Tick, PassEnds, Push
    <3> QED BY <2>0 DEF OutcomeInv
  <2>2. CASE Spawn
    <3>1. UNCHANGED <<at, failed, files, rev, desired, applied>> /\ pc' = [pc EXCEPT ![next] = "begin"]
      BY <2>2 DEF Spawn, Goto, outside, locals
    <3>2. CASE t = next
      <4>1. pc[t] = "idle"
        <5> next # 0 /\ next <= t
          BY <3>2, ConstantsOK DEF Stack
        <5> QED BY <3>2 DEF QueueInv
      <4>2. pc'[t] = "begin"
        BY <3>1, <3>2 DEF TypeOK
      <4> QED BY <2>0, <3>1, <4>1, <4>2 DEF OutcomeInv
    <3>3. CASE t # next
      <4> pc'[t] = pc[t]
        BY <3>1, <3>3 DEF TypeOK
      <4> QED BY <2>0, <3>1 DEF OutcomeInv
    <3> QED BY <3>2, <3>3
  <2>3. ASSUME NEW s \in Stack, Step(s) \/ Fault(s) PROVE OutcomeInv(t)'
    <3>1. CASE t = s
      BY <2>0, <2>3, <3>1, OutcomeStep
    <3>2. CASE t # s
      <4>1. /\ pc'[t] = pc[t] /\ at'[t] = at[t] /\ failed'[t] = failed[t] /\ files'[t] = files[t]
            /\ rev'[t] = rev[t] /\ desired'[t] = desired[t] /\ applied'[t] = applied[t]
        BY <2>3, <3>2, StepFrame
      <4>2. OkRun(t)' <=> OkRun(t)
        BY <4>1
      <4>3. OkBefore(t, at[t])' <=> OkBefore(t, at[t])
        BY <4>1
      <4>4. OneFailed(files[t])' <=> OneFailed(files[t])
        BY <4>1
      <4> HIDE DEF OkRun, OkBefore, OneFailed
      <4> QED BY <2>0, <4>1, <4>2, <4>3, <4>4 DEF OutcomeInv
    <3> QED BY <3>1, <3>2
  <2>4. CASE Restart
    <3> pc'[t] = "idle" /\ files'[t] = <<>> /\ failed'[t] = ""
      BY <2>4 DEF Restart
    <3> QED BY DEF OutcomeInv
  <2> QED BY <2>1, <2>2, <2>3, <2>4 DEF Next
<1> QED BY <1>1, <1>2, TypeCorrect, LockAndQueue, PipelineSeesOneRevision, PTL DEF Spec

(* What is shown of one stack. *)
Tells(s) ==
  LET st == status[s] IN st.state = "" =>
    /\ \A g \in DOMAIN st.files : st.files[g] = "ok" => applied[s][g] = st.revision
    /\ st.ok => st.desired = st.revision /\ \A g \in DOMAIN st.files : st.files[g] = "ok"
    /\ st.stage \in {"rotate", "deploy"} => st.desired = st.revision /\ OneFailed(st.files)

LEMMA NoStatusTells ==
  ASSUME NEW s \in Stack, status[s] = NoStatus
  PROVE  Tells(s)
<1>1. NoStatus.files = <<>> /\ NoStatus.desired = NoStatus.revision /\ NoStatus.stage = ""
  BY DEF NoStatus
<1>2. DOMAIN NoStatus.files = {}
  BY <1>1, EmptyDomain, Zenon
<1> QED BY <1>1, <1>2 DEF Tells

LEMMA TellsStep ==
  ASSUME TypeOK, LockInv, ShownInv, ShownInv', NEW s \in Stack, OutcomeInv(s), Tells(s), Step(s) \/ Fault(s)
  PROVE  Tells(s)'
<1>1. CASE RecordStatus(s)
  <2> DEFINE new == [state |-> "", revision |-> rev[s], ok |-> failed[s] = "", stage |-> failed[s],
                     files |-> files[s], desired |-> desired[s]]
  <2>1. status'[s] = new /\ applied' = applied /\ pc[s] = "record"
    BY <1>1 DEF RecordStatus, SetStatus, outside, TypeOK
  <2>2. /\ new.state = "" /\ new.revision = rev[s] /\ new.stage = failed[s] /\ new.files = files[s]
        /\ new.desired = desired[s]
    OBVIOUS
  <2>3. new.ok <=> failed[s] = ""
    OBVIOUS
  <2>4. /\ OkRun(s)
        /\ failed[s] = "" => desired[s] = rev[s] /\ \A g \in DOMAIN files[s] : files[s][g] = "ok"
        /\ failed[s] \in {"rotate", "deploy"} => desired[s] = rev[s] /\ OneFailed(files[s])
    BY <2>1 DEF OutcomeInv
  <2> HIDE DEF new
  <2> QED BY <2>1, <2>2, <2>3, <2>4 DEF Tells, OkRun
<1>2. CASE Leave(s)
  <2> status' = status /\ applied' = applied
    BY <1>2 DEF Leave, outside
  <2> QED BY DEF Tells
<1>3. CASE ~(RecordStatus(s) \/ Leave(s))
  <2>1. pc'[s] \in {"wait", "record"} \cup InLock
    BY <1>3 DEF Step, MarkWaiting, Acquire, Sync, Render, AfterRender, Decrypt, Decrypted, Write,
                Deployed, Unlock, Fault, SyncFails, RenderFails, DecryptFails, RotateFails,
                DeployFails, Panic, Fails, Goto, InLock, TypeOK
  <2>2. status'[s].state # ""
    BY <2>1 DEF ShownInv
  <2> QED BY <2>2 DEF Tells
<1> QED BY <1>1, <1>2, <1>3

(* A status shown between two passes is true of Swarm and of one revision,   *)
(* however the pass it tells of ended.                                      *)
THEOREM StatusIsTrue == Spec => []StatusTellsOutcome
<1> DEFINE Inv == \A s \in Stack : Tells(s)
<1> DEFINE Told == \A s \in Stack : OutcomeInv(s)
<1>1. Init => Inv
  BY NoStatusTells DEF Init
<1>2. TypeOK /\ LockInv /\ ShownInv /\ ShownInv' /\ Told /\ Inv /\ [Next]_vars => Inv'
  <2> SUFFICES ASSUME TypeOK, LockInv, ShownInv, ShownInv', Told, Inv, [Next]_vars, NEW t \in Stack
               PROVE Tells(t)'
    OBVIOUS
  <2>0. Tells(t) /\ OutcomeInv(t)
    OBVIOUS
  <2> HIDE DEF Inv, Told
  <2>1. CASE UNCHANGED vars \/ Tick \/ PassEnds \/ Spawn \/ \E r \in Repo, b \in Branch : Push(r, b)
    <3> UNCHANGED <<applied, status>>
      BY <2>1 DEF vars, outside, Tick, PassEnds, Push, Spawn
    <3> QED BY <2>0 DEF Tells
  <2>2. ASSUME NEW s \in Stack, Step(s) \/ Fault(s) PROVE Tells(t)'
    <3>1. CASE t = s
      BY <2>0, <2>2, <3>1, TellsStep
    <3>2. CASE t # s
      <4> status'[t] = status[t] /\ applied'[t] = applied[t]
        BY <2>2, <3>2, StepFrame
      <4> QED BY <2>0 DEF Tells
    <3> QED BY <3>1, <3>2
  <2>3. CASE Restart
    <3>1. status'[t] = NoStatus
      BY <2>3 DEF Restart
    <3>2. NoStatus.files = <<>> /\ NoStatus.desired = NoStatus.revision /\ NoStatus.stage = ""
      BY DEF NoStatus
    <3>3. DOMAIN NoStatus.files = {}
      BY <3>2, EmptyDomain, Zenon
    <3> QED BY <3>1, <3>2, <3>3 DEF Tells
  <2> QED BY <2>1, <2>2, <2>3 DEF Next
<1>3. Inv => StatusTellsOutcome
  BY DEF Tells, OneFailed, StatusTellsOutcome
<1> QED BY <1>1, <1>2, <1>3, TypeCorrect, LockAndQueue, SlotsAndShown, OutcomeSoFar, PTL DEF Spec

-------------------------------------------------------------------------------
(* The rollout.                                                            *)

(* The newest revision of the branch of a stack. *)
Released(s) == head[RepoOf[s]][BranchOf[s]]

(* No service is newer than the pipeline under way, and no pipeline newer     *)
(* than Git.                                                                *)
RollInv(s) ==
  /\ rev[s] <= Released(s)
  /\ \A g \in 1 .. Groups[s] : touched[s][g] <= Released(s)
  /\ pc[s] \in {"render", "decrypt", "deploy", "write"} =>
       \A g \in 1 .. Groups[s] : touched[s][g] <= rev[s]
  /\ pc[s] = "write" => touched[s][at[s]] = rev[s]

LEMMA RollTypes ==
  ASSUME TypeOK, NEW s \in Stack
  PROVE  /\ Released(s) \in Nat /\ rev[s] \in Nat /\ Groups[s] \in Nat
         /\ touched[s] \in [1 .. Groups[s] -> Nat]
BY ConstantsOK DEF TypeOK, Released, Revision

LEMMA RollStep ==
  ASSUME TypeOK, LockInv, NEW s \in Stack, OneRevision(s), RollInv(s), Step(s) \/ Fault(s)
  PROVE  RollInv(s)'
<1>0. /\ Released(s)' = Released(s)
      /\ Released(s) \in Nat /\ rev[s] \in Nat /\ Groups[s] \in Nat
      /\ touched[s] \in [1 .. Groups[s] -> Nat]
  BY StepFrame, RollTypes DEF Released
<1>1. CASE Sync(s)
  <2> pc'[s] = "render" /\ rev'[s] = Released(s) /\ touched' = touched
    BY <1>1 DEF Sync, Goto, Released, TypeOK
  <2> QED BY <1>0 DEF RollInv
<1>2. CASE Write(s)
  <2>1. /\ pc[s] = "deploy" /\ pc'[s] = "write" /\ rev' = rev /\ at' = at /\ docs[s] = rev[s]
        /\ touched'[s] = [touched[s] EXCEPT ![at[s]] = docs[s]]
        /\ at[s] \in 1 .. Groups[s]
    BY <1>2 DEF Write, Goto, locals, OneRevision, TypeOK
  <2>2. \A g \in 1 .. Groups[s] : touched[s][g] <= rev[s]
    BY <2>1 DEF RollInv
  <2>3. \A g \in 1 .. Groups[s] : touched'[s][g] = IF g = at[s] THEN rev[s] ELSE touched[s][g]
    BY <1>0, <2>1
  <2>4. \A g \in 1 .. Groups[s] : touched'[s][g] <= rev[s] /\ touched'[s][g] <= Released(s)
    BY <1>0, <2>2, <2>3 DEF RollInv
  <2> QED BY <1>0, <2>1, <2>3, <2>4 DEF RollInv
<1>3. CASE RecordStatus(s)
  <2> pc'[s] = "leave" /\ rev'[s] = 0 /\ touched' = touched
    BY <1>3 DEF RecordStatus, Goto, outside, TypeOK
  <2> QED BY <1>0 DEF RollInv
<1>4. CASE ~(Sync(s) \/ Write(s) \/ RecordStatus(s))
  <2>1. touched' = touched /\ rev' = rev
    BY <1>4 DEF Step, MarkWaiting, Acquire, Render, Decrypt, Decrypted, Deployed, Unlock, Leave,
                Fault, SyncFails, RenderFails, DecryptFails, RotateFails, DeployFails, Panic,
                outside, locals
  <2>2. /\ pc'[s] # "write"
        /\ pc'[s] \in {"render", "decrypt", "deploy"} => pc[s] \in {"render", "decrypt", "deploy", "write"}
    BY <1>4 DEF Step, MarkWaiting, Acquire, Render, AfterRender, Decrypt, Decrypted, Deployed, Unlock,
                Leave, Fault, SyncFails, RenderFails, DecryptFails, RotateFails, DeployFails, Panic,
                Fails, Goto, TypeOK
  <2> QED BY <1>0, <2>1, <2>2 DEF RollInv
<1> QED BY <1>1, <1>2, <1>3, <1>4

(* A step of a worker is a step of the rollout or leaves it alone.           *)
LEMMA RollRefines ==
  ASSUME TypeOK, LockInv, NEW s \in Stack, OneRevision(s), OutcomeInv(s), RollInv(s), Step(s) \/ Fault(s)
  PROVE  [R!Next]_R!vars
<1>0. UNCHANGED head
  BY StepFrame
<1>1. CASE Write(s)
  <2>1. /\ pc[s] = "deploy" /\ docs[s] = rev[s] /\ applied' = applied
        /\ touched' = [touched EXCEPT ![s][at[s]] = rev[s]]
        /\ at[s] \in 1 .. Groups[s]
    BY <1>1 DEF Write, OneRevision, TypeOK
  <2>2. rev[s] \in touched[s][at[s]] .. Released(s)
    <3>1. touched[s][at[s]] \in Nat /\ Released(s) \in Nat /\ rev[s] \in Nat
      BY <2>1, RollTypes
    <3>2. touched[s][at[s]] <= rev[s] /\ rev[s] <= Released(s)
      BY <2>1 DEF RollInv
    <3> QED BY <3>1, <3>2
  <2>3. \A f \in 1 .. at[s] - 1 : applied[s][f] = rev[s]
    <3>1. OkBefore(s, at[s]) /\ OkRun(s) /\ DOMAIN files[s] = 1 .. Groups[s]
      BY <2>1 DEF OutcomeInv, TypeOK, Outcomes
    <3>2. \A f \in 1 .. at[s] - 1 : f \in 1 .. Groups[s] /\ f < at[s]
      BY <2>1, RollTypes
    <3> QED BY <3>1, <3>2 DEF OkBefore, OkRun
  <2>4. R!Write(s, at[s])
    BY <1>0, <2>1, <2>2, <2>3 DEF R!Write, Released
  <2> QED BY <2>1, <2>4 DEF R!Next
<1>2. CASE Deployed(s)
  <2>1. /\ pc[s] = "write" /\ docs[s] = rev[s] /\ touched' = touched
        /\ applied' = [applied EXCEPT ![s][at[s]] = docs[s]]
        /\ at[s] \in 1 .. Groups[s]
    BY <1>2 DEF Deployed, OneRevision, TypeOK
  <2>2. touched[s][at[s]] = docs[s]
    BY <2>1 DEF RollInv
  <2>3. R!Complete(s, at[s])
    BY <1>0, <2>1, <2>2 DEF R!Complete
  <2> QED BY <2>1, <2>3 DEF R!Next
<1>3. CASE ~(Write(s) \/ Deployed(s))
  <2> touched' = touched /\ applied' = applied
    BY <1>3 DEF Step, MarkWaiting, Acquire, Sync, Render, Decrypt, Decrypted, Unlock, RecordStatus, Leave,
                Fault, SyncFails, RenderFails, DecryptFails, RotateFails, DeployFails, Panic, outside
  <2> QED BY <1>0 DEF R!vars
<1> QED BY <1>1, <1>2, <1>3

(* Every behaviour of the loop is a rollout: its pipelines bring the groups   *)
(* of a stack to released revisions in the order of the list, never back,    *)
(* whatever fails and however many stacks share a repository.                *)
THEOREM ImplementsRollout == Spec => RollsOutInOrder
<1> DEFINE Inv == \A s \in Stack : RollInv(s)
<1> DEFINE Told == \A s \in Stack : OutcomeInv(s)
<1>1. Init => Inv /\ R!Init
  <2> SUFFICES ASSUME Init PROVE Inv /\ R!Init
    OBVIOUS
  <2>1. \A s \in Stack : Released(s) = 1
    BY ConstantsOK DEF Init, Released
  <2>2. R!Init
    BY <2>1 DEF Init, R!Init, Released
  <2>3. ASSUME NEW s \in Stack PROVE RollInv(s)
    <3> /\ rev[s] = 0 /\ pc[s] = "idle" /\ Released(s) = 1
        /\ \A g \in 1 .. Groups[s] : touched[s][g] = 0
      BY <2>1 DEF Init
    <3> QED BY DEF RollInv
  <2> QED BY <2>2, <2>3
<1>2. TypeOK /\ LockInv /\ OneRevisionPerPipeline /\ Told /\ Inv /\ [Next]_vars
        => Inv' /\ [R!Next]_R!vars
  <2> SUFFICES ASSUME TypeOK, LockInv, OneRevisionPerPipeline, Told, Inv, [Next]_vars
               PROVE Inv' /\ [R!Next]_R!vars
    OBVIOUS
  <2>0. \A s \in Stack : RollInv(s) /\ OneRevision(s) /\ OutcomeInv(s)
    BY DEF OneRevisionPerPipeline, OneRevision
  <2> HIDE DEF Told
  <2>1. CASE UNCHANGED vars \/ Tick \/ PassEnds
    <3>1. UNCHANGED <<head, touched, applied, pc, rev, at>>
      BY <2>1 DEF vars, outside, locals, Tick, PassEnds
    <3> QED BY <2>0, <3>1 DEF RollInv, Released, R!vars
  <2>2. CASE Spawn
    <3>1. UNCHANGED <<head, touched, applied, rev, at>> /\ \A t \in Stack : pc'[t] \in {pc[t], "begin"}
      BY <2>2 DEF Spawn, Goto, outside, locals, TypeOK
    <3> QED BY <2>0, <3>1 DEF RollInv, Released, R!vars
  <2>3. ASSUME NEW s \in Stack, Step(s) \/ Fault(s) PROVE Inv' /\ [R!Next]_R!vars
    <3>1. [R!Next]_R!vars
      BY <2>0, <2>3, RollRefines
    <3>2. ASSUME NEW t \in Stack, t # s PROVE RollInv(t)'
      <4> /\ pc'[t] = pc[t] /\ rev'[t] = rev[t] /\ at'[t] = at[t] /\ touched'[t] = touched[t]
          /\ head' = head
        BY <2>3, <3>2, StepFrame
      <4> QED BY <2>0 DEF RollInv, Released
    <3> QED BY <2>0, <2>3, <3>1, <3>2, RollStep
  <2>4. ASSUME NEW r \in Repo, NEW b \in Branch, Push(r, b) PROVE Inv' /\ [R!Next]_R!vars
    <3>1. UNCHANGED <<touched, applied, pc, rev, at>>
      BY <2>4 DEF Push, locals
    <3>2. \A s \in Stack : Released(s)' >= Released(s) /\ Released(s)' \in Nat
      <4>1. head \in [Repo -> [Branch -> Nat]] /\ head' = [head EXCEPT ![r][b] = @ + 1]
        BY <2>4 DEF Push, TypeOK, Revision
      <4>2. head[r][b] \in Nat
        BY <4>1
      <4>3. \A q \in Repo, c \in Branch :
              head'[q][c] = (IF q = r /\ c = b THEN head[r][b] + 1 ELSE head[q][c]) /\ head[q][c] \in Nat
        BY <4>1
      <4>4. \A q \in Repo, c \in Branch : head'[q][c] >= head[q][c] /\ head'[q][c] \in Nat
        BY <4>2, <4>3
      <4> QED BY <4>4, ConstantsOK DEF Released
    <3>3. R!Release
      BY <3>1, <3>2 DEF R!Release, Released
    <3>4. ASSUME NEW s \in Stack PROVE RollInv(s)'
      <4>1. \A g \in 1 .. Groups[s] : touched[s][g] \in Nat
        BY RollTypes
      <4> QED BY <2>0, <3>1, <3>2, <4>1, RollTypes DEF RollInv
    <3> QED BY <3>3, <3>4 DEF R!Next
  <2>5. CASE Restart
    <3>1. UNCHANGED <<head, touched, applied>> /\ \A s \in Stack : pc'[s] = "idle" /\ rev'[s] = 0
      BY <2>5 DEF Restart, outside
    <3>2. \A s \in Stack : Released(s)' = Released(s) /\ Released(s) >= 0
      BY <3>1, RollTypes DEF Released
    <3> QED BY <2>0, <3>1, <3>2 DEF RollInv, R!vars
  <2> HIDE DEF Inv
  <2> QED BY <2>1, <2>2, <2>3, <2>4, <2>5 DEF Next
<1> QED
  BY <1>1, <1>2, TypeCorrect, LockAndQueue, PipelineSeesOneRevision, OutcomeSoFar, PTL
  DEF Spec, RollsOutInOrder, R!Spec
===============================================================================
