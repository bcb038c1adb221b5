---------------------------- MODULE AgentRegistry ----------------------------
(***************************************************************************)
(* The agent fleet: each agent samples its node on every tick and posts    *)
(* the report, repeating it while the manager cannot be reached or says it *)
(* cannot answer; the manager's handler checks the node against Swarm and  *)
(* files the report; the registry forgets the nodes that fell silent when  *)
(* the control loop takes its snapshot.  A request its agent has given up  *)
(* may still be served, and after any later one.  The gauges of the fleet  *)
(* are set after the registry's lock is released.                          *)
(*                                                                         *)
(* Times are ages, in ticks of the model's clock; that of a load is counted *)
(* from the Timestamp of its report, which Collect sets when it is done: the *)
(* samples themselves, read one container after the other, may be older by   *)
(* as long as Collect takes.                                                *)
(***************************************************************************)
EXTENDS Integers, FiniteSets

CONSTANTS
  Agent,       \* running agents, each with connections of its own
  AgentNode,   \* nodes
  NodeOf,      \* the node each agent reports for (two for one: a misconfiguration)
  Interval,    \* ReportInterval
  MaxAttempts, \* posts of one report
  Timeout,     \* how long an agent waits for an answer
  Stale,       \* AgentStale: how long a report stays usable
  MaxLinger,   \* bound on how long a request is on its way and in the handler
  MaxRequests, \* bound on the posts under way at once
  MaxStall     \* bound on how long a goroutine stalls between its clock and its last gauge

ASSUME RegistryConstantsOK ==
  /\ NodeOf \in [Agent -> AgentNode]
  /\ {Interval, MaxAttempts, Timeout, Stale, MaxLinger, MaxRequests, MaxStall} \subseteq Nat \ {0}
  /\ 2 * MaxStall <= Stale
  /\ IsFiniteSet(AgentNode)

VARIABLES
  member,    \* Swarm: the nodes it lists
  agent,     \* per agent: the place in its loop and the report it is posting
  requests,  \* the posts that are on their way or being handled
  entries,   \* the registry, None for a node it does not have
  snap,      \* the control loop's Snapshot: place, age of its clock reading, nodes evicted
  connected, \* the gauge agents_connected
  loadShown, \* the nodes with load gauges
  heard      \* history: how long ago the last report of each node was stamped

registry == <<entries, snap>>
gauges == <<connected, loadShown>>
registryVars == <<member, agent, requests, registry, gauges, heard>>

None == [seen |-> -1, measured |-> 0]
Known(n) == entries[n] # None
KnownNodes == {n \in AgentNode : entries[n] # None}
Idle == [place |-> "idle", now |-> 0, evicted |-> {}]

(* The wait after the k-th retry, and the longest from a sample to its k-th  *)
(* retry; from a sample to the last post of it, and to the manager's clock: *)
(* all attempts but the last time out.                                      *)
Backoff[k \in 0 .. MaxAttempts] == IF k = 0 THEN 1 ELSE 2 * Backoff[k - 1]
RetryAge[k \in 0 .. MaxAttempts] == IF k = 0 THEN 0 ELSE RetryAge[k - 1] + Timeout + Backoff[k - 1]
LastPost == RetryAge[MaxAttempts - 1]
MaxTransit == LastPost + MaxLinger
MaxMeasured == Stale + MaxStall + MaxTransit
MaxSeen == Stale + MaxStall + 1

-------------------------------------------------------------------------------
(* The agent: loop and reporter.  It waits for a tick, is about to post, has *)
(* posted and waits for the answer, or backs off.                           *)

Rest(a, tick) ==
  [agent EXCEPT ![a] = [agent[a] EXCEPT !.place = "wait", !.attempt = 0, !.measured = 0,
                                        !.timer = 0, !.wait = 1, !.tick = tick]]

(* A tick: the node is sampled, or cannot be; sampling takes no time here.    *)
(* The ticker keeps one tick for a busy loop and drops the others.          *)
ReportOnce(a) ==
  /\ agent[a].place = "wait" /\ agent[a].tick
  /\ \/ agent' = [agent EXCEPT ![a] = [agent[a] EXCEPT !.place = "post", !.attempt = 1, !.tick = FALSE]]
     \/ agent' = Rest(a, FALSE)
  /\ UNCHANGED <<member, requests, registry, gauges, heard>>

Post(a) ==
  /\ agent[a].place = "post" /\ agent' = [agent EXCEPT ![a].place = "answer"]
  /\ \/ /\ Cardinality(requests) < MaxRequests
        /\ requests' = requests \cup {[agent |-> a, age |-> 0, measured |-> agent[a].measured,
                                       place |-> "sent", stall |-> 0, first |-> FALSE]}
     \/ UNCHANGED requests    \* it never arrives
  /\ UNCHANGED <<member, registry, gauges, heard>>

(* Mutant: a report is posted until it gets through. *)
RetryForever(a) ==
  [agent EXCEPT ![a].place = "backoff", ![a].timer = 1]

(* postOnce failed in a way worth repeating: the wait doubles each time. *)
Retry(a) ==
  IF agent[a].attempt < MaxAttempts
  THEN [agent EXCEPT ![a] = [agent[a] EXCEPT !.place = "backoff", !.attempt = @ + 1,
                                             !.timer = agent[a].wait, !.wait = 2 * @]]
  ELSE Rest(a, agent[a].tick)

(* No answer in time, or the connection breaks.  The manager may still serve *)
(* the request.                                                             *)
PostFails(a) ==
  /\ agent[a].place = "answer" /\ agent' = Retry(a)
  /\ UNCHANGED <<member, requests, registry, gauges, heard>>

BackoffEnds(a) ==
  /\ agent[a].place = "backoff" /\ agent[a].timer = 0
  /\ agent' = [agent EXCEPT ![a].place = "post"]
  /\ UNCHANGED <<member, requests, registry, gauges, heard>>

(* The new process reports at once, the next tick after it died. *)
AgentRestarts(a) ==
  /\ agent' = [Rest(a, FALSE) EXCEPT ![a].due = Interval - 1]
  /\ UNCHANGED <<member, requests, registry, gauges, heard>>

-------------------------------------------------------------------------------
(* The handler.                                                            *)

Awaited(r) == agent[r.agent].place = "answer" /\ agent[r.agent].timer = r.age

(* The answer reaches the agent that waits for it, or it is lost. *)
Answer(r, received) == agent' = IF Awaited(r) THEN received ELSE agent
AnswerOrLose(r, received) == Answer(r, received) \/ UNCHANGED agent

Becomes(r, s) == requests' = (requests \ {r}) \cup {s}

(* isKnownNode finds the node; Ingest reads the clock before it locks. *)
Accept(r) ==
  /\ r.place = "sent" /\ NodeOf[r.agent] \in member
  /\ Becomes(r, [r EXCEPT !.place = "stamped"])
  /\ UNCHANGED <<member, agent, registry, gauges, heard>>

(* 503: the nodes cannot be listed. *)
ValidationFails(r) ==
  /\ r.place = "sent" /\ requests' = requests \ {r}
  /\ AnswerOrLose(r, Retry(r.agent))
  /\ UNCHANGED <<member, registry, gauges, heard>>

(* 403: Swarm does not list the node.  Nothing is repeated. *)
Reject(r) ==
  /\ r.place = "sent" /\ NodeOf[r.agent] \notin member
  /\ requests' = requests \ {r}
  /\ AnswerOrLose(r, Rest(r.agent, agent[r.agent].tick))
  /\ UNCHANGED <<member, registry, gauges, heard>>

(* Mutant: the entry's age is counted from the agent's own timestamp. *)
FileByAgentClock(r) ==
  LET n == NodeOf[r.agent] IN
  /\ r.place = "stamped" /\ Becomes(r, [r EXCEPT !.place = "filed", !.first = ~Known(n)])
  /\ entries' = [entries EXCEPT ![n] = [seen |-> IF r.measured > MaxSeen THEN MaxSeen ELSE r.measured,
                                        measured |-> r.measured]]
  /\ heard' = [heard EXCEPT ![n] = IF r.stall < @ THEN r.stall ELSE @]
  /\ UNCHANGED <<member, agent, snap, gauges>>

(* Ingest under the lock: the last to come stays, older or newer. *)
File(r) ==
  LET n == NodeOf[r.agent] IN
  /\ r.place = "stamped" /\ Becomes(r, [r EXCEPT !.place = "filed", !.first = ~Known(n)])
  /\ entries' = [entries EXCEPT ![n] = [seen |-> r.stall, measured |-> r.measured]]
  /\ heard' = [heard EXCEPT ![n] = IF r.stall < @ THEN r.stall ELSE @]
  /\ UNCHANGED <<member, agent, snap, gauges>>

(* Mutant: every report counts an agent. *)
CountEveryReport(r) ==
  /\ r.place = "filed" /\ Becomes(r, [r EXCEPT !.place = "counted"])
  /\ connected' = connected + 1
  /\ UNCHANGED <<member, agent, registry, loadShown, heard>>

(* After the lock. *)
CountAgent(r) ==
  /\ r.place = "filed" /\ Becomes(r, [r EXCEPT !.place = "counted"])
  /\ connected' = connected + (IF r.first THEN 1 ELSE 0)
  /\ UNCHANGED <<member, agent, registry, loadShown, heard>>

(* NodeLoad, and 204. *)
ShowLoad(r) ==
  /\ r.place = "counted" /\ requests' = requests \ {r}
  /\ loadShown' = loadShown \cup {NodeOf[r.agent]}
  /\ AnswerOrLose(r, Rest(r.agent, agent[r.agent].tick))
  /\ UNCHANGED <<member, registry, connected, heard>>

(* The agent has given it up and the server drops it. *)
Drop(r) ==
  /\ r.place = "sent" /\ requests' = requests \ {r}
  /\ UNCHANGED <<member, agent, registry, gauges, heard>>

-------------------------------------------------------------------------------
(* Snapshot, called by the control loop alone.                             *)

ReadClock ==
  /\ snap.place = "idle" /\ snap' = [place |-> "stamped", now |-> 0, evicted |-> {}]
  /\ UNCHANGED <<member, agent, requests, entries, gauges, heard>>

(* Mutant: an entry is kept one tick longer than it may be. *)
ExpiredLate(n) == Known(n) /\ entries[n].seen - snap.now > Stale + 1 + MaxStall

Expired(n) == Known(n) /\ entries[n].seen - snap.now > Stale

Snapshot ==
  LET silent == {n \in AgentNode : Expired(n)} IN
  /\ snap.place = "stamped"
  /\ snap' = IF silent = {} THEN Idle ELSE [snap EXCEPT !.place = "evicting", !.evicted = silent]
  /\ entries' = [n \in AgentNode |-> IF n \in silent THEN None ELSE entries[n]]
  /\ UNCHANGED <<member, agent, requests, gauges, heard>>

(* After the lock, one node after the other. *)
Disconnect(n) ==
  /\ snap.place = "evicting" /\ n \in snap.evicted
  /\ snap' = IF snap.evicted = {n} THEN Idle ELSE [snap EXCEPT !.evicted = @ \ {n}]
  /\ connected' = connected - 1 /\ loadShown' = loadShown \ {n}
  /\ UNCHANGED <<member, agent, requests, entries, heard>>

-------------------------------------------------------------------------------
(* Swarm, time and the manager's process.                                  *)

NodeLeaves(n) ==
  /\ n \in member /\ member' = member \ {n}
  /\ UNCHANGED <<agent, requests, registry, gauges, heard>>
NodeJoins(n) ==
  /\ n \notin member /\ member' = member \cup {n}
  /\ UNCHANGED <<agent, requests, registry, gauges, heard>>

AgentReady(a) ==
  \/ agent[a].place = "wait" /\ agent[a].tick
  \/ agent[a].place = "post"
  \/ agent[a].place = "answer" /\ agent[a].timer = Timeout
  \/ agent[a].place = "backoff" /\ agent[a].timer = 0
RequestReady(r) ==
  IF r.place = "sent" THEN r.age = MaxLinger ELSE r.stall = MaxStall

AgentOlder(s) ==
  [s EXCEPT !.measured = IF s.place = "wait" THEN 0 ELSE @ + 1,
            !.timer = CASE s.place = "answer" -> @ + 1 [] s.place = "backoff" -> @ - 1 [] OTHER -> @,
            !.due = (@ + 1) % Interval,
            !.tick = @ \/ s.due + 1 = Interval]
RequestOlder(r) ==
  [r EXCEPT !.age = @ + 1, !.measured = @ + 1, !.stall = IF r.place = "sent" THEN @ ELSE @ + 1]
EntryOlder(e) ==
  IF e = None THEN e
  ELSE [seen |-> IF e.seen = MaxSeen THEN e.seen ELSE e.seen + 1,
        measured |-> IF e.measured > MaxMeasured THEN e.measured ELSE e.measured + 1]

Elapse ==
  /\ \A a \in Agent : ~AgentReady(a)
  /\ \A r \in requests : ~RequestReady(r)
  /\ snap.place # "idle" => snap.now < MaxStall
  /\ agent' = [a \in Agent |-> AgentOlder(agent[a])]
  /\ requests' = {RequestOlder(r) : r \in requests}
  /\ entries' = [n \in AgentNode |-> EntryOlder(entries[n])]
  /\ snap' = IF snap.place = "idle" THEN snap ELSE [snap EXCEPT !.now = @ + 1]
  /\ heard' = [n \in AgentNode |-> IF heard[n] = MaxSeen THEN MaxSeen ELSE heard[n] + 1]
  /\ UNCHANGED <<member, gauges>>

(* The registry and its gauges go with the process. *)
ManagerRestarts ==
  /\ requests' = {} /\ entries' = [n \in AgentNode |-> None] /\ snap' = Idle
  /\ connected' = 0 /\ loadShown' = {}
  /\ heard' = [n \in AgentNode |-> MaxSeen]
  /\ UNCHANGED <<member, agent>>

RegistryInit ==
  /\ member = AgentNode
  /\ agent = [a \in Agent |-> [place |-> "wait", attempt |-> 0, measured |-> 0, timer |-> 0,
                               wait |-> 1, tick |-> TRUE, due |-> 0]]
  /\ requests = {} /\ entries = [n \in AgentNode |-> None] /\ snap = Idle
  /\ connected = 0 /\ loadShown = {}
  /\ heard = [n \in AgentNode |-> MaxSeen]

Handle(r) ==
  \/ Accept(r) \/ ValidationFails(r) \/ Reject(r) \/ Drop(r)
  \/ File(r) \/ CountAgent(r) \/ ShowLoad(r)

RegistryNext ==
  \/ \E a \in Agent : ReportOnce(a) \/ Post(a) \/ PostFails(a) \/ BackoffEnds(a) \/ AgentRestarts(a)
  \/ \E r \in requests : Handle(r)
  \/ ReadClock \/ Snapshot
  \/ \E n \in AgentNode : Disconnect(n) \/ NodeLeaves(n) \/ NodeJoins(n)
  \/ Elapse \/ ManagerRestarts

RegistrySpec == RegistryInit /\ [][RegistryNext]_registryVars

-------------------------------------------------------------------------------
(* Properties.                                                             *)

(* Where an agent's loop may be and what it has waited: nothing while it     *)
(* waits for a tick; otherwise the wait before the next post is that of the  *)
(* attempt, and a sample is as old as the attempts before it took at most.   *)
InBounds(s) ==
  /\ s.place = "wait" => s.attempt = 0 /\ s.measured = 0 /\ s.timer = 0 /\ s.wait = 1
  /\ s.place # "wait" => s.attempt \in 1 .. MaxAttempts /\ s.wait = Backoff[s.attempt - 1]
  /\ s.place = "post" => s.timer = 0 /\ s.measured <= RetryAge[s.attempt - 1]
  /\ s.place = "answer" => s.timer <= Timeout /\ s.measured <= RetryAge[s.attempt - 1] + s.timer
  /\ s.place = "backoff" => 2 * s.timer <= s.wait /\ s.measured + s.timer <= RetryAge[s.attempt - 1]
  /\ s.due < Interval

(* No agent has two posts of one age and one sample under way, since it waits *)
(* between attempts and takes a new sample only after a tick.               *)
Distinct ==
  \A r, s \in requests : r.agent = s.agent /\ r.age = s.age /\ r.measured = s.measured => r = s

(* The values of the fleet's state: no report is posted more than MaxAttempts *)
(* times, the wait doubles with each post, the timer never exceeds the        *)
(* timeout or that wait, no sample and no request outlives them together, and *)
(* a set of requests tells every post under way from the others, which a     *)
(* second loop or a post without a wait would blur (Reporter.Report).        *)
RegistryTypeOK ==
  /\ member \subseteq AgentNode
  /\ agent \in [Agent -> [place : {"wait", "post", "answer", "backoff"}, attempt : 0 .. MaxAttempts,
                          measured : 0 .. LastPost + Timeout, timer : Nat, wait : Nat \ {0}, tick : BOOLEAN,
                          due : 0 .. Interval - 1]]
  /\ \A a \in Agent : InBounds(agent[a])
  /\ requests \subseteq [agent : Agent, age : 0 .. MaxLinger + MaxStall, measured : 0 .. MaxTransit + MaxStall,
                         place : {"sent", "stamped", "filed", "counted"}, stall : 0 .. MaxStall, first : BOOLEAN]
  /\ Distinct
  /\ \A n \in AgentNode : Known(n) => entries[n].seen \in 0 .. MaxSeen /\ entries[n].measured \in Nat
  /\ snap \in [place : {"idle", "stamped", "evicting"}, now : 0 .. MaxStall, evicted : SUBSET AgentNode]
  /\ connected \in Int /\ loadShown \subseteq AgentNode /\ heard \in [AgentNode -> 0 .. MaxSeen]

(* Whatever overtakes what on the way to the registry and its lock, a        *)
(* snapshot has every node a report of which was received within the stale   *)
(* limit (but for a goroutine's stall) and none that was silent for longer.  *)
SnapshotHasTheHeard ==
  [][Snapshot => \A n \in AgentNode :
       /\ heard[n] + MaxStall <= Stale => entries'[n] # None
       /\ entries'[n] # None => heard[n] <= Stale + MaxStall]_registryVars

(* The report a snapshot hands to the rebalancer and the autoscaler was       *)
(* stamped by its agent a bounded time ago, although it is repeated unchanged *)
(* and may arrive after its agent gave it up (Collect's own duration, before *)
(* the stamp, comes on top).                                                *)
LoadIsRecent ==
  [][Snapshot => \A n \in AgentNode :
       entries'[n] # None => entries'[n].measured <= MaxMeasured]_registryVars

(* The gauges are set outside the lock and yet never drift: the number of     *)
(* connected agents is that of the registry once the pending updates are in, *)
(* and only a node of the registry, or one being disconnected, shows a load. *)
Arriving == {r \in requests : r.place = "filed" /\ r.first}
GaugesFollowRegistry ==
  /\ connected + Cardinality(Arriving) - Cardinality(snap.evicted) = Cardinality(KnownNodes)
  /\ loadShown \subseteq KnownNodes \cup snap.evicted
===============================================================================
