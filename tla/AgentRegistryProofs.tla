------------------------- MODULE AgentRegistryProofs -------------------------
(***************************************************************************)
(* Proofs about AgentRegistry, for every number of agents, nodes, attempts *)
(* and requests under way, and every timeout, interval and stale limit.    *)
(***************************************************************************)
EXTENDS AgentRegistry, Induction

-------------------------------------------------------------------------------
(* The inductive invariant.                                                *)

Age == 0 .. MaxSeen
AgentState == [place : {"wait", "post", "answer", "backoff"}, attempt : Nat, measured : Nat,
               timer : Nat, wait : Nat \ {0}, tick : BOOLEAN, due : Nat]
Request == [agent : Agent, age : Nat, measured : Nat, place : {"sent", "stamped", "filed", "counted"},
            stall : 0 .. MaxStall, first : BOOLEAN]

(* The values; how old a measurement may be is bounded below, by AgesBounded. *)
Values ==
  /\ member \subseteq AgentNode
  /\ agent \in [Agent -> AgentState]
  /\ requests \subseteq Request /\ IsFiniteSet(requests)
  /\ entries \in [AgentNode -> [seen : Int, measured : Int]]
  /\ \A n \in AgentNode : Known(n) => entries[n].seen \in Age
  /\ snap \in [place : {"idle", "stamped", "evicting"}, now : 0 .. MaxStall, evicted : SUBSET AgentNode]
  /\ snap.place # "evicting" => snap.evicted = {}
  /\ connected \in Int /\ loadShown \subseteq AgentNode /\ heard \in [AgentNode -> Age]

(* An entry is about as old as the last report received of its node; a node  *)
(* without one has not been heard of for a while.                           *)
EntryTellsHeard ==
  \A n \in AgentNode :
    /\ Known(n) => heard[n] <= entries[n].seen /\ entries[n].seen <= heard[n] + MaxStall
    /\ ~Known(n) => heard[n] + MaxStall > Stale

(* A report that is filed and not yet shown keeps its node in the registry.  *)
InHand ==
  \A r \in requests : r.place \in {"filed", "counted"} =>
    Known(NodeOf[r.agent]) /\ entries[NodeOf[r.agent]].seen <= r.stall + MaxStall

(* Why the posts of an agent are distinct: the earlier ones are older, or of *)
(* an older sample.                                                         *)
EarlierPosts(a) ==
  \A r \in requests : r.agent = a =>
    /\ agent[a].place = "wait" /\ agent[a].tick => r.measured >= 1
    /\ agent[a].place # "wait" => r.measured >= agent[a].measured
    /\ agent[a].place = "post" /\ r.measured = agent[a].measured => r.age >= 1
    /\ agent[a].place = "backoff" /\ r.measured = agent[a].measured => r.age + agent[a].timer >= 1
Paced ==
  \A a \in Agent :
    /\ agent[a].place = "wait" => agent[a].measured = 0
    /\ agent[a].place # "wait" /\ agent[a].tick => agent[a].measured >= 1
    /\ EarlierPosts(a)

RegistryInv == Values /\ EntryTellsHeard /\ InHand /\ Distinct /\ Paced

-------------------------------------------------------------------------------
(* The constants and the two ways a step changes a record.                 *)

LEMMA Limits ==
  /\ Interval \in Nat \ {0} /\ MaxAttempts \in Nat /\ Timeout \in Nat /\ Stale \in Nat
  /\ MaxStall \in Nat \ {0} /\ MaxSeen \in Nat /\ MaxSeen = Stale + MaxStall + 1
  /\ 2 * MaxStall <= Stale /\ NodeOf \in [Agent -> AgentNode] /\ IsFiniteSet(AgentNode)
BY RegistryConstantsOK DEF RegistryConstantsOK, MaxSeen

LEMMA AgentOlderType ==
  ASSUME NEW s \in AgentState, s.place = "backoff" => s.timer # 0
  PROVE  /\ AgentOlder(s) \in AgentState
         /\ AgentOlder(s).place = s.place
         /\ AgentOlder(s).measured = IF s.place = "wait" THEN 0 ELSE s.measured + 1
         /\ s.place = "backoff" => AgentOlder(s).timer = s.timer - 1
<1>1. (s.due + 1) % Interval \in Nat
  BY Limits DEF AgentState
<1>2. (CASE s.place = "answer" -> s.timer + 1 [] s.place = "backoff" -> s.timer - 1 [] OTHER -> s.timer) \in Nat
  BY DEF AgentState
<1>3. (s.tick \/ s.due + 1 = Interval) \in BOOLEAN
  BY DEF AgentState
<1>4. (IF s.place = "wait" THEN 0 ELSE s.measured + 1) \in Nat
  BY DEF AgentState
<1> QED BY <1>1, <1>2, <1>3, <1>4 DEF AgentState, AgentOlder

LEMMA RequestOlderType ==
  ASSUME NEW r \in Request, ~RequestReady(r)
  PROVE  /\ RequestOlder(r) \in Request
         /\ RequestOlder(r).age = r.age + 1 /\ RequestOlder(r).measured = r.measured + 1
         /\ RequestOlder(r).agent = r.agent /\ RequestOlder(r).place = r.place
         /\ RequestOlder(r).first = r.first
         /\ r.place # "sent" => RequestOlder(r).stall = r.stall + 1
<1>1. r.place # "sent" => r.stall + 1 \in 0 .. MaxStall
  BY Limits DEF Request, RequestReady
<1> DEFINE q == [r EXCEPT !.age = r.age + 1]
           t == [q EXCEPT !.measured = q.measured + 1]
           stall == IF r.place = "sent" THEN r.stall ELSE r.stall + 1
           u == [t EXCEPT !.stall = stall]
<1>2. q \in Request /\ q.age = r.age + 1 /\ q.measured = r.measured /\ q.agent = r.agent
      /\ q.place = r.place /\ q.first = r.first /\ q.stall = r.stall
  BY DEF Request
<1> HIDE DEF q
<1>3. t \in Request /\ t.age = q.age /\ t.measured = q.measured + 1 /\ t.agent = q.agent
      /\ t.place = q.place /\ t.first = q.first /\ t.stall = q.stall
  BY <1>2 DEF Request
<1> HIDE DEF t
<1>4. stall \in 0 .. MaxStall
  BY <1>1 DEF Request
<1> HIDE DEF stall
<1>5. u \in Request /\ u.age = t.age /\ u.measured = t.measured /\ u.agent = t.agent
      /\ u.place = t.place /\ u.first = t.first /\ u.stall = stall
  BY <1>3, <1>4 DEF Request
<1>6. RequestOlder(r) = u
  BY <1>2, <1>3 DEF RequestOlder, q, t, u, stall
<1> QED BY <1>2, <1>3, <1>5, <1>6 DEF stall

LEMMA Initially == RegistryInit => RegistryInv /\ GaugesFollowRegistry
<1> SUFFICES ASSUME RegistryInit PROVE RegistryInv /\ GaugesFollowRegistry
  OBVIOUS
<1>1. Values
  BY Limits, FS_EmptySet DEF RegistryInit, Values, AgentState, Age, Known, None, Idle
<1>2. EntryTellsHeard /\ InHand /\ Distinct /\ Paced
  BY Limits DEF RegistryInit, EntryTellsHeard, InHand, Distinct, Paced, EarlierPosts, Known
<1>3. KnownNodes = {} /\ Arriving = {} /\ snap.evicted = {}
  BY DEF RegistryInit, KnownNodes, Arriving, Idle
<1>4. GaugesFollowRegistry
  BY <1>3, FS_EmptySet DEF GaugesFollowRegistry, RegistryInit
<1> QED BY <1>1, <1>2, <1>4 DEF RegistryInv

-------------------------------------------------------------------------------
(* The agents.                                                             *)

LEMMA RestState ==
  ASSUME agent \in [Agent -> AgentState], NEW a \in Agent, NEW tick \in BOOLEAN
  PROVE  /\ Rest(a, tick) \in [Agent -> AgentState]
         /\ \A b \in Agent \ {a} : Rest(a, tick)[b] = agent[b]
         /\ Rest(a, tick)[a].place = "wait" /\ Rest(a, tick)[a].measured = 0
         /\ Rest(a, tick)[a].tick = tick
<1> DEFINE q == [agent[a] EXCEPT !.place = "wait", !.attempt = 0, !.measured = 0]
           t == [q EXCEPT !.timer = 0, !.wait = 1]
           s == [t EXCEPT !.tick = tick]
<1>1. agent[a] \in AgentState
  OBVIOUS
<1>2. q \in AgentState /\ q.place = "wait" /\ q.measured = 0
  BY <1>1 DEF AgentState
<1> HIDE DEF q
<1>3. t \in AgentState /\ t.place = "wait" /\ t.measured = 0
  <2>1. 0 \in Nat /\ 1 \in Nat \ {0}
    OBVIOUS
  <2> QED BY <1>2, <2>1 DEF AgentState
<1> HIDE DEF t
<1>4. s \in AgentState /\ s.place = "wait" /\ s.measured = 0 /\ s.tick = tick
  BY <1>3 DEF AgentState
<1>5. Rest(a, tick) = [agent EXCEPT ![a] = s]
  BY DEF Rest, q, t
<1> QED BY <1>4, <1>5

LEMMA RetryState ==
  ASSUME agent \in [Agent -> AgentState], NEW a \in Agent, agent[a].attempt < MaxAttempts
  PROVE  /\ Retry(a) \in [Agent -> AgentState]
         /\ \A b \in Agent \ {a} : Retry(a)[b] = agent[b]
         /\ Retry(a)[a].place = "backoff" /\ Retry(a)[a].timer >= 1
         /\ Retry(a)[a].measured = agent[a].measured /\ Retry(a)[a].tick = agent[a].tick
<1>1. agent[a].wait \in Nat \ {0} /\ 2 * agent[a].wait \in Nat \ {0} /\ agent[a].attempt + 1 \in Nat
  BY DEF AgentState
<1> DEFINE s == [agent[a] EXCEPT !.place = "backoff", !.attempt = @ + 1,
                                 !.timer = agent[a].wait, !.wait = 2 * @]
<1>2. s \in AgentState /\ s.place = "backoff" /\ s.measured = agent[a].measured
      /\ s.tick = agent[a].tick /\ s.timer = agent[a].wait
  BY <1>1 DEF AgentState
<1>3. Retry(a) = [agent EXCEPT ![a] = s]
  BY DEF Retry
<1> QED BY <1>1, <1>2, <1>3

(* What a step does to the agent that takes it, and to the requests that      *)
(* it leaves, when it posts nothing.                                        *)
Ends(a) ==
  /\ agent'[a].place = "wait" /\ agent'[a].measured = 0
  /\ agent'[a].tick => agent[a].place # "wait" /\ agent[a].tick
BacksOff(a) ==
  /\ agent[a].place # "wait" /\ agent'[a].place = "backoff" /\ agent'[a].timer >= 1
  /\ agent'[a].measured = agent[a].measured /\ agent'[a].tick = agent[a].tick
Samples(a) ==
  /\ agent[a].place = "wait" /\ agent[a].tick
  /\ agent'[a].place = "post" /\ agent'[a].measured = agent[a].measured /\ ~agent'[a].tick
Repeats(a) ==
  /\ agent[a].place = "backoff" /\ agent[a].timer = 0
  /\ agent'[a].place = "post" /\ agent'[a].measured = agent[a].measured /\ agent'[a].tick = agent[a].tick
Moves(a) ==
  /\ agent' \in [Agent -> AgentState]
  /\ \A b \in Agent \ {a} : agent'[b] = agent[b]
  /\ Ends(a) \/ BacksOff(a) \/ Samples(a) \/ Repeats(a)
NoneNew ==
  \A s \in requests' : \E r \in requests :
    r.agent = s.agent /\ r.age = s.age /\ r.measured = s.measured

LEMMA MovesArePaced ==
  ASSUME RegistryInv, NEW a \in Agent, Moves(a), NoneNew
  PROVE  Paced'
<1> SUFFICES ASSUME NEW b \in Agent
             PROVE  /\ agent'[b].place = "wait" => agent'[b].measured = 0
                    /\ agent'[b].place # "wait" /\ agent'[b].tick => agent'[b].measured >= 1
                    /\ EarlierPosts(b)'
  BY DEF Paced
<1>1. requests \subseteq Request /\ agent[b] \in AgentState /\ agent'[b] \in AgentState
  BY DEF RegistryInv, Values, Moves
<1>2. /\ agent[b].place = "wait" => agent[b].measured = 0
      /\ agent[b].place # "wait" /\ agent[b].tick => agent[b].measured >= 1
      /\ EarlierPosts(b)
  BY DEF RegistryInv, Paced
<1>3. CASE b # a
  <2>1. agent'[b] = agent[b]
    BY <1>3 DEF Moves
  <2> QED BY <1>1, <1>2, <2>1 DEF NoneNew, EarlierPosts
<1>4. CASE b = a
  <2> HIDE DEF RegistryInv
  <2>1. Ends(b) \/ BacksOff(b) \/ Samples(b) \/ Repeats(b)
    BY <1>4 DEF Moves
  <2>2. /\ agent'[b].place = "wait" => agent'[b].measured = 0
        /\ agent'[b].place # "wait" /\ agent'[b].tick => agent'[b].measured >= 1
    BY <1>1, <1>2, <2>1 DEF Ends, BacksOff, Samples, Repeats
  <2>3. ASSUME NEW s \in requests', s.agent = b
        PROVE  /\ agent'[b].place = "wait" /\ agent'[b].tick => s.measured >= 1
               /\ agent'[b].place # "wait" => s.measured >= agent'[b].measured
               /\ agent'[b].place = "post" /\ s.measured = agent'[b].measured => s.age >= 1
               /\ agent'[b].place = "backoff" /\ s.measured = agent'[b].measured
                    => s.age + agent'[b].timer >= 1
    <3>1. PICK r \in requests : r.agent = s.agent /\ r.age = s.age /\ r.measured = s.measured
      BY DEF NoneNew
    <3>2. s.age \in Nat /\ s.measured \in Nat /\ agent[b].measured \in Nat
          /\ agent[b].timer \in Nat /\ agent'[b].timer \in Nat
      BY <1>1, <3>1 DEF Request, AgentState
    <3>3. /\ agent[b].place = "wait" /\ agent[b].tick => s.measured >= 1
          /\ agent[b].place # "wait" => s.measured >= agent[b].measured
          /\ agent[b].place = "backoff" /\ s.measured = agent[b].measured => s.age + agent[b].timer >= 1
      BY <1>2, <2>3, <3>1 DEF EarlierPosts
    <3> QED BY <1>2, <2>1, <3>2, <3>3 DEF Ends, BacksOff, Samples, Repeats
  <2> QED BY <2>2, <2>3 DEF EarlierPosts
<1> QED BY <1>3, <1>4

LEMMA StaysPaced ==
  ASSUME RegistryInv, UNCHANGED agent, NoneNew
  PROVE  Paced'
<1>1. Paced
  BY DEF RegistryInv
<1> QED BY <1>1 DEF Paced, EarlierPosts, NoneNew

LEMMA ReportOnceMoves == ASSUME RegistryInv, NEW a \in Agent, ReportOnce(a) PROVE Moves(a)
<1>1. agent \in [Agent -> AgentState] /\ agent[a] \in AgentState
  BY DEF RegistryInv, Values
<1> DEFINE s == [agent[a] EXCEPT !.place = "post", !.attempt = 1, !.tick = FALSE]
<1>2. CASE agent' = [agent EXCEPT ![a] = s]
  <2>1. s \in AgentState /\ s.place = "post" /\ s.measured = agent[a].measured /\ ~s.tick
    BY <1>1 DEF AgentState
  <2> HIDE DEF s
  <2>2. agent' \in [Agent -> AgentState] /\ agent'[a] = s /\ \A b \in Agent \ {a} : agent'[b] = agent[b]
    BY <1>1, <1>2, <2>1
  <2> QED BY <2>1, <2>2 DEF ReportOnce, Moves, Samples
<1>3. CASE agent' = Rest(a, FALSE)
  BY <1>1, <1>3, RestState DEF Moves, Ends
<1> QED BY <1>2, <1>3 DEF ReportOnce

LEMMA RetryMoves ==
  ASSUME RegistryInv, NEW a \in Agent, agent[a].place = "answer", agent' = Retry(a)
  PROVE  Moves(a)
<1>1. agent \in [Agent -> AgentState] /\ agent[a].tick \in BOOLEAN
  BY DEF RegistryInv, Values, AgentState
<1>2. CASE agent[a].attempt < MaxAttempts
  BY <1>1, <1>2, RetryState DEF Moves, BacksOff
<1>3. CASE ~(agent[a].attempt < MaxAttempts)
  <2>1. agent' = Rest(a, agent[a].tick)
    BY <1>3 DEF Retry
  <2> QED BY <1>1, <2>1, RestState DEF Moves, Ends
<1> QED BY <1>2, <1>3 DEF Iterates

LEMMA BackoffEndsMoves == ASSUME RegistryInv, NEW a \in Agent, BackoffEnds(a) PROVE Moves(a)
<1>1. agent \in [Agent -> AgentState]
  BY DEF RegistryInv, Values
<1>2. agent' = [agent EXCEPT ![a] = [agent[a] EXCEPT !.place = "post"]]
  BY DEF BackoffEnds
<1>3. [agent[a] EXCEPT !.place = "post"] \in AgentState
  BY <1>1 DEF AgentState
<1>4. agent'[a].measured = agent[a].measured /\ agent'[a].tick = agent[a].tick /\ agent'[a].place = "post"
  BY <1>1, <1>2 DEF AgentState
<1> QED BY <1>1, <1>2, <1>3, <1>4 DEF Moves, BackoffEnds, Repeats

LEMMA AgentRestartsMoves == ASSUME RegistryInv, NEW a \in Agent, AgentRestarts(a) PROVE Moves(a)
<1>1. agent \in [Agent -> AgentState] /\ Interval - 1 \in Nat
  BY Limits DEF RegistryInv, Values
<1> DEFINE g == Rest(a, FALSE)
<1>2. g \in [Agent -> AgentState] /\ g[a].place = "wait" /\ g[a].measured = 0 /\ ~g[a].tick
      /\ \A b \in Agent \ {a} : g[b] = agent[b]
  BY <1>1, RestState
<1> HIDE DEF g
<1>3. agent' = [g EXCEPT ![a] = [g[a] EXCEPT !.due = Interval - 1]]
  BY DEF AgentRestarts, g
<1> DEFINE s == [g[a] EXCEPT !.due = Interval - 1]
<1>4. s \in AgentState /\ s.place = "wait" /\ s.measured = 0 /\ ~s.tick
  BY <1>1, <1>2 DEF AgentState
<1> QED BY <1>2, <1>3, <1>4 DEF Moves, Ends

(* The answer to a request reaches its agent or not. *)
LEMMA AnswersArePaced ==
  ASSUME RegistryInv, NEW r \in requests, NoneNew,
         NEW received, received = Retry(r.agent) \/ received = Rest(r.agent, agent[r.agent].tick),
         AnswerOrLose(r, received)
  PROVE  agent' \in [Agent -> AgentState] /\ Paced'
<1>1. r.agent \in Agent /\ agent \in [Agent -> AgentState]
  BY DEF RegistryInv, Values, Request
<1>2. CASE Awaited(r) /\ agent' = Retry(r.agent)
  BY <1>1, <1>2, RetryMoves, MovesArePaced DEF Awaited, Moves
<1>3. CASE Awaited(r) /\ agent' = Rest(r.agent, agent[r.agent].tick)
  <2>1. agent[r.agent].tick \in BOOLEAN
    BY <1>1 DEF AgentState
  <2>2. Moves(r.agent)
    BY <1>1, <1>3, <2>1, RestState DEF Awaited, Moves, Ends
  <2> QED BY <1>1, <2>2, MovesArePaced DEF Moves
<1>4. CASE agent' = agent
  BY <1>1, <1>4, StaysPaced
<1> QED BY <1>2, <1>3, <1>4 DEF AnswerOrLose, Answer

-------------------------------------------------------------------------------
(* One lemma per action: the invariant and the gauges together.            *)

GaugeInv == RegistryInv /\ GaugesFollowRegistry

LEMMA AgentMovesKeep ==
  ASSUME GaugeInv, NEW a \in Agent, Moves(a), UNCHANGED <<member, requests, registry, gauges, heard>>
  PROVE  GaugeInv'
<1>1. RegistryInv
  BY DEF GaugeInv
<1>2. Values' /\ EntryTellsHeard' /\ InHand' /\ Distinct'
  BY <1>1 DEF RegistryInv, Values, EntryTellsHeard, InHand, Distinct, Moves, registry, gauges, Known
<1>3. NoneNew
  BY DEF NoneNew
<1>4. Paced'
  BY <1>1, <1>3, MovesArePaced
<1>5. GaugesFollowRegistry'
  BY DEF GaugeInv, GaugesFollowRegistry, Arriving, KnownNodes, registry, gauges
<1> QED BY <1>2, <1>4, <1>5 DEF GaugeInv, RegistryInv

LEMMA PostKeeps == ASSUME GaugeInv, NEW a \in Agent, Post(a) PROVE GaugeInv'
<1> DEFINE s == [agent[a] EXCEPT !.place = "answer"]
           r == [agent |-> a, age |-> 0, measured |-> agent[a].measured,
                 place |-> "sent", stall |-> 0, first |-> FALSE]
<1>1. RegistryInv /\ Values /\ agent \in [Agent -> AgentState] /\ agent[a] \in AgentState
      /\ agent[a].place = "post"
  BY DEF GaugeInv, RegistryInv, Values, Post
<1>2. agent' = [agent EXCEPT ![a] = s]
  BY DEF Post
<1>3. s \in AgentState /\ s.place = "answer" /\ s.measured = agent[a].measured /\ s.tick = agent[a].tick
  BY <1>1 DEF AgentState
<1> HIDE DEF s
<1>4. agent' \in [Agent -> AgentState] /\ agent'[a] = s /\ \A b \in Agent \ {a} : agent'[b] = agent[b]
  BY <1>1, <1>2, <1>3
<1>5. r \in Request /\ r.agent = a /\ r.age = 0 /\ r.measured = agent[a].measured /\ r.place = "sent"
  BY <1>1, Limits DEF Request, AgentState
<1> HIDE DEF r
<1>6. requests' = requests \cup {r} \/ requests' = requests
  BY DEF Post, r
<1>7. requests' \subseteq Request /\ IsFiniteSet(requests')
  BY <1>1, <1>5, <1>6, FS_AddElement DEF Values
<1>8. EarlierPosts(a)
  BY <1>1 DEF RegistryInv, Paced
<1>9. \A q \in requests : ~(q.agent = a /\ q.age = 0 /\ q.measured = agent[a].measured)
  BY <1>1, <1>8 DEF EarlierPosts
<1>10. UNCHANGED <<member, registry, gauges, heard>>
  BY DEF Post
<1>11. Values'
  BY <1>1, <1>4, <1>7, <1>10 DEF Values, registry, gauges, Known
<1>12. EntryTellsHeard' /\ InHand' /\ Distinct'
  BY <1>1, <1>5, <1>6, <1>9, <1>10
  DEF RegistryInv, EntryTellsHeard, InHand, Distinct, registry, Known
<1>13. Paced'
  <2> SUFFICES ASSUME NEW b \in Agent
               PROVE  /\ agent'[b].place = "wait" => agent'[b].measured = 0
                      /\ agent'[b].place # "wait" /\ agent'[b].tick => agent'[b].measured >= 1
                      /\ EarlierPosts(b)'
    BY DEF Paced
  <2>1. /\ agent[b].place = "wait" => agent[b].measured = 0
        /\ agent[b].place # "wait" /\ agent[b].tick => agent[b].measured >= 1
        /\ EarlierPosts(b)
    BY <1>1 DEF RegistryInv, Paced
  <2>2. CASE b = a
    BY <1>1, <1>3, <1>4, <1>5, <1>6, <2>1, <2>2 DEF EarlierPosts, AgentState
  <2>3. CASE b # a
    BY <1>4, <1>5, <1>6, <2>1, <2>3 DEF EarlierPosts
  <2> QED BY <2>2, <2>3
<1>14. Arriving' = Arriving /\ KnownNodes' = KnownNodes
  BY <1>5, <1>6, <1>10 DEF Arriving, KnownNodes, registry
<1>15. GaugesFollowRegistry'
  BY <1>10, <1>14 DEF GaugeInv, GaugesFollowRegistry, registry, gauges
<1> QED BY <1>11, <1>12, <1>13, <1>15 DEF GaugeInv, RegistryInv

(* What is left of the requests when one changes or goes. *)
LEMMA BecomesRequests ==
  ASSUME RegistryInv, NEW r \in requests, NEW s \in Request,
         s.agent = r.agent, s.age = r.age, s.measured = r.measured, Becomes(r, s)
  PROVE  /\ requests' \subseteq Request /\ IsFiniteSet(requests') /\ NoneNew /\ Distinct'
         /\ s \in requests' /\ \A q \in requests' : q = s \/ q \in requests
         /\ s # r => s \notin requests
<1>1. requests \subseteq Request /\ IsFiniteSet(requests) /\ Distinct
  BY DEF RegistryInv, Values
<1>2. IsFiniteSet(requests')
  BY <1>1, FS_RemoveElement, FS_AddElement DEF Becomes
<1> QED BY <1>1, <1>2 DEF Becomes, NoneNew, Distinct

LEMMA LeavesRequests ==
  ASSUME RegistryInv, NEW r \in requests, requests' = requests \ {r}
  PROVE  requests' \subseteq Request /\ IsFiniteSet(requests') /\ NoneNew /\ Distinct'
<1>1. requests \subseteq Request /\ IsFiniteSet(requests) /\ Distinct
  BY DEF RegistryInv, Values
<1>2. IsFiniteSet(requests')
  BY <1>1, FS_RemoveElement
<1> QED BY <1>1, <1>2 DEF NoneNew, Distinct

LEMMA AcceptKeeps == ASSUME GaugeInv, NEW r \in requests, Accept(r) PROVE GaugeInv'
<1> DEFINE s == [r EXCEPT !.place = "stamped"]
<1>1. RegistryInv /\ Values /\ r \in Request
  BY DEF GaugeInv, RegistryInv, Values
<1>2. s \in Request /\ s.agent = r.agent /\ s.age = r.age /\ s.measured = r.measured /\ s.place = "stamped"
  BY <1>1 DEF Request
<1>3. Becomes(r, s) /\ r.place = "sent" /\ UNCHANGED <<member, agent, registry, gauges, heard>>
  BY DEF Accept
<1> HIDE DEF s
<1>4. requests' \subseteq Request /\ IsFiniteSet(requests') /\ NoneNew /\ Distinct'
      /\ \A q \in requests' : q = s \/ q \in requests
  BY <1>1, <1>2, <1>3, BecomesRequests
<1>5. Values' /\ EntryTellsHeard' /\ InHand'
  BY <1>1, <1>2, <1>3, <1>4 DEF RegistryInv, Values, EntryTellsHeard, InHand, registry, gauges, Known
<1>6. Paced'
  BY <1>1, <1>3, <1>4, StaysPaced
<1>7. Arriving' = Arriving /\ KnownNodes' = KnownNodes
  BY <1>2, <1>3 DEF Becomes, Arriving, KnownNodes, registry
<1>8. GaugesFollowRegistry'
  BY <1>3, <1>7 DEF GaugeInv, GaugesFollowRegistry, registry, gauges
<1> QED BY <1>4, <1>5, <1>6, <1>8 DEF GaugeInv, RegistryInv

(* A request that is refused, unanswered or dropped before it is filed. *)
LEMMA RefusalKeeps ==
  ASSUME GaugeInv, NEW r \in requests, r.place = "sent", requests' = requests \ {r},
         agent' \in [Agent -> AgentState], Paced', UNCHANGED <<member, registry, gauges, heard>>
  PROVE  GaugeInv'
<1>1. RegistryInv /\ Values
  BY DEF GaugeInv, RegistryInv
<1>2. requests' \subseteq Request /\ IsFiniteSet(requests') /\ Distinct'
  BY <1>1, LeavesRequests
<1>3. Values' /\ EntryTellsHeard' /\ InHand'
  BY <1>1, <1>2 DEF RegistryInv, Values, EntryTellsHeard, InHand, registry, gauges, Known
<1>4. Arriving' = Arriving /\ KnownNodes' = KnownNodes
  BY DEF Arriving, KnownNodes, registry
<1>5. GaugesFollowRegistry'
  BY <1>4 DEF GaugeInv, GaugesFollowRegistry, registry, gauges
<1> QED BY <1>2, <1>3, <1>5 DEF GaugeInv, RegistryInv

LEMMA RefusalsKeep ==
  ASSUME GaugeInv, NEW r \in requests, ValidationFails(r) \/ Reject(r) \/ Drop(r)
  PROVE  GaugeInv'
<1>1. RegistryInv /\ r.place = "sent" /\ requests' = requests \ {r} /\ UNCHANGED <<member, registry, gauges, heard>>
  BY DEF GaugeInv, ValidationFails, Reject, Drop
<1>2. NoneNew /\ agent \in [Agent -> AgentState]
  BY <1>1, LeavesRequests DEF RegistryInv, Values
<1>3. CASE ValidationFails(r)
  <2>1. agent' \in [Agent -> AgentState] /\ Paced'
    BY <1>1, <1>2, <1>3, AnswersArePaced DEF ValidationFails
  <2> QED BY <1>1, <2>1, RefusalKeeps
<1>4. CASE Reject(r)
  <2>1. agent' \in [Agent -> AgentState] /\ Paced'
    BY <1>1, <1>2, <1>4, AnswersArePaced DEF Reject
  <2> QED BY <1>1, <2>1, RefusalKeeps
<1>5. CASE Drop(r)
  <2>1. agent' \in [Agent -> AgentState] /\ Paced'
    BY <1>1, <1>2, <1>5, StaysPaced DEF Drop
  <2> QED BY <1>1, <2>1, RefusalKeeps
<1> QED BY <1>3, <1>4, <1>5

(* The report is filed: a new node is known now, and its request arriving. *)
LEMMA FileKeeps == ASSUME GaugeInv, NEW r \in requests, File(r) PROVE GaugeInv'
<1> DEFINE n == NodeOf[r.agent]
           s == [r EXCEPT !.place = "filed", !.first = ~Known(n)]
           e == [seen |-> r.stall, measured |-> r.measured]
<1>1. RegistryInv /\ Values /\ r \in Request /\ r.place = "stamped"
  BY DEF GaugeInv, RegistryInv, Values, File
<1>2. n \in AgentNode
  BY <1>1, Limits DEF Request
<1>3. s \in Request /\ s.agent = r.agent /\ s.age = r.age /\ s.measured = r.measured
      /\ s.place = "filed" /\ s.stall = r.stall /\ (s.first <=> ~Known(n))
  <2>1. (~Known(n)) \in BOOLEAN
    OBVIOUS
  <2> QED BY <1>1, <2>1 DEF Request
<1>4. e \in [seen : Int, measured : Int] /\ e.seen = r.stall /\ e # None /\ r.stall \in 0 .. MaxStall
  <2>1. r.stall \in 0 .. MaxStall /\ r.measured \in Nat
    BY <1>1 DEF Request
  <2>2. e.seen = r.stall /\ None.seen = -1
    BY DEF None
  <2> QED BY <2>1, <2>2, Limits
<1>5. Becomes(r, s) /\ UNCHANGED <<member, agent, snap, gauges>>
      /\ entries' = [entries EXCEPT ![n] = e]
      /\ heard' = [heard EXCEPT ![n] = IF r.stall < heard[n] THEN r.stall ELSE heard[n]]
  BY DEF File
<1> HIDE DEF s, e, n
<1>6. requests' \subseteq Request /\ IsFiniteSet(requests') /\ NoneNew /\ Distinct'
      /\ s \in requests' /\ (\A q \in requests' : q = s \/ q \in requests) /\ s \notin requests
  BY <1>1, <1>3, <1>5, BecomesRequests
<1>7. entries' \in [AgentNode -> [seen : Int, measured : Int]] /\ entries'[n] = e
      /\ \A m \in AgentNode \ {n} : entries'[m] = entries[m]
  BY <1>1, <1>2, <1>4, <1>5 DEF Values
<1>8. heard' \in [AgentNode -> Age] /\ heard'[n] = (IF r.stall < heard[n] THEN r.stall ELSE heard[n])
      /\ \A m \in AgentNode \ {n} : heard'[m] = heard[m]
  BY <1>1, <1>2, <1>4, <1>5, Limits DEF Values, Age
<1>9. Values'
  BY <1>1, <1>4, <1>5, <1>6, <1>7, <1>8, Limits DEF Values, gauges, Known, Age
<1>10. EntryTellsHeard'
  BY <1>1, <1>2, <1>4, <1>7, <1>8, Limits DEF RegistryInv, Values, EntryTellsHeard, Known, Age
<1>11. InHand'
  <2> SUFFICES ASSUME NEW q \in requests', q.place \in {"filed", "counted"}
               PROVE  Known(NodeOf[q.agent])' /\ entries'[NodeOf[q.agent]].seen <= q.stall + MaxStall
    BY DEF InHand, Known
  <2>1. q.stall \in 0 .. MaxStall /\ q.agent \in Agent
    BY <1>6 DEF Request
  <2>2. CASE NodeOf[q.agent] = n
    BY <1>4, <1>7, <2>1, <2>2, Limits DEF Known
  <2>3. CASE NodeOf[q.agent] # n
    <3>1. q \in requests
      BY <1>3, <1>6, <2>3 DEF n
    <3>2. NodeOf[q.agent] \in AgentNode
      BY <2>1, Limits
    <3> QED BY <1>1, <1>7, <2>3, <3>1, <3>2 DEF RegistryInv, InHand, Known
  <2> QED BY <2>2, <2>3
<1>12. Paced'
  BY <1>1, <1>5, <1>6, StaysPaced
<1>13. GaugesFollowRegistry'
  <2>1. KnownNodes' = KnownNodes \cup {n} /\ (n \in KnownNodes <=> Known(n))
    BY <1>2, <1>4, <1>7 DEF KnownNodes, Known
  <2>2. Arriving' = IF Known(n) THEN Arriving ELSE Arriving \cup {s}
    BY <1>1, <1>3, <1>5 DEF Becomes, Arriving
  <2>3. s \notin Arriving /\ IsFiniteSet(Arriving) /\ IsFiniteSet(KnownNodes)
    BY <1>1, <1>6, FS_Subset, Limits DEF Arriving, KnownNodes, Values
  <2>4. Cardinality(Arriving) \in Nat /\ Cardinality(KnownNodes) \in Nat /\ connected \in Int
    BY <1>1, <2>3, FS_CardinalityType DEF Values
  <2>5. Cardinality(snap.evicted) \in Nat
    BY <1>1, FS_Subset, FS_CardinalityType, Limits DEF Values
  <2>6. CASE Known(n)
    <3>1. Arriving' = Arriving /\ KnownNodes' = KnownNodes
      BY <2>1, <2>2, <2>6
    <3> QED BY <1>5, <3>1 DEF GaugeInv, GaugesFollowRegistry, gauges
  <2>7. CASE ~Known(n)
    <3>1. Arriving' = Arriving \cup {s} /\ KnownNodes' = KnownNodes \cup {n} /\ n \notin KnownNodes
      BY <2>1, <2>2, <2>7
    <3>2. Cardinality(Arriving \cup {s}) = Cardinality(Arriving) + 1
      BY <2>3, FS_AddElement
    <3>3. Cardinality(KnownNodes \cup {n}) = Cardinality(KnownNodes) + 1
      BY <2>3, <3>1, FS_AddElement
    <3> QED BY <1>5, <2>4, <2>5, <3>1, <3>2, <3>3 DEF GaugeInv, GaugesFollowRegistry, gauges
  <2> QED BY <2>6, <2>7
<1> QED BY <1>6, <1>9, <1>10, <1>11, <1>12, <1>13 DEF GaugeInv, RegistryInv

(* The gauge counts the request that was arriving. *)
LEMMA CountAgentKeeps == ASSUME GaugeInv, NEW r \in requests, CountAgent(r) PROVE GaugeInv'
<1> DEFINE s == [r EXCEPT !.place = "counted"]
<1>1. RegistryInv /\ Values /\ r \in Request /\ r.place = "filed"
  BY DEF GaugeInv, RegistryInv, Values, CountAgent
<1>2. s \in Request /\ s.agent = r.agent /\ s.age = r.age /\ s.measured = r.measured /\ s.place = "counted"
      /\ s.stall = r.stall
  BY <1>1 DEF Request
<1>3. Becomes(r, s) /\ connected' = connected + (IF r.first THEN 1 ELSE 0)
      /\ UNCHANGED <<member, agent, registry, loadShown, heard>>
  BY DEF CountAgent
<1> HIDE DEF s
<1>4. requests' \subseteq Request /\ IsFiniteSet(requests') /\ NoneNew /\ Distinct'
      /\ \A q \in requests' : q = s \/ q \in requests
  BY <1>1, <1>2, <1>3, BecomesRequests
<1>5. Values' /\ EntryTellsHeard'
  BY <1>1, <1>3, <1>4 DEF RegistryInv, Values, EntryTellsHeard, registry, Known
<1>6. InHand'
  BY <1>1, <1>2, <1>3, <1>4 DEF RegistryInv, InHand, registry, Known
<1>7. Paced'
  BY <1>1, <1>3, <1>4, StaysPaced
<1>8. GaugesFollowRegistry'
  <2>1. Arriving' = Arriving \ {r} /\ KnownNodes' = KnownNodes
    BY <1>1, <1>2, <1>3 DEF Becomes, Arriving, KnownNodes, registry
  <2>2. IsFiniteSet(Arriving) /\ Cardinality(Arriving) \in Nat /\ connected \in Int
    BY <1>1, FS_Subset, FS_CardinalityType DEF Arriving, Values
  <2>3. Cardinality(KnownNodes) \in Nat /\ Cardinality(snap.evicted) \in Nat
    BY <1>1, FS_Subset, FS_CardinalityType, Limits DEF Values, KnownNodes
  <2>4. CASE r.first
    <3>1. r \in Arriving
      BY <1>1, <2>4 DEF Arriving
    <3>2. Cardinality(Arriving \ {r}) = Cardinality(Arriving) - 1
      BY <2>2, <3>1, FS_RemoveElement
    <3> QED BY <1>3, <2>1, <2>2, <2>3, <2>4, <3>2 DEF GaugeInv, GaugesFollowRegistry, registry
  <2>5. CASE ~r.first
    <3>1. Arriving \ {r} = Arriving
      BY <2>5 DEF Arriving
    <3>2. Arriving' = Arriving /\ connected' = connected
      BY <1>3, <2>1, <2>2, <2>5, <3>1
    <3> QED BY <1>3, <2>1, <3>2 DEF GaugeInv, GaugesFollowRegistry, registry
  <2> QED BY <2>4, <2>5
<1> QED BY <1>4, <1>5, <1>6, <1>7, <1>8 DEF GaugeInv, RegistryInv

(* The load is shown of a node that is still known. *)
LEMMA ShowLoadKeeps == ASSUME GaugeInv, NEW r \in requests, ShowLoad(r) PROVE GaugeInv'
<1>1. RegistryInv /\ Values /\ r.place = "counted" /\ requests' = requests \ {r}
      /\ UNCHANGED <<member, registry, connected, heard>> /\ r.agent \in Agent
  BY DEF GaugeInv, RegistryInv, Values, ShowLoad, Request
<1>2. requests' \subseteq Request /\ IsFiniteSet(requests') /\ NoneNew /\ Distinct'
  BY <1>1, LeavesRequests
<1>3. agent' \in [Agent -> AgentState] /\ Paced'
  BY <1>1, <1>2, AnswersArePaced DEF ShowLoad
<1>4. NodeOf[r.agent] \in KnownNodes
  BY <1>1, Limits DEF RegistryInv, InHand, KnownNodes, Known
<1>5. loadShown' = loadShown \cup {NodeOf[r.agent]}
  BY DEF ShowLoad
<1>6. Values' /\ EntryTellsHeard' /\ InHand'
  BY <1>1, <1>2, <1>3, <1>4, <1>5
  DEF RegistryInv, Values, EntryTellsHeard, InHand, registry, Known, KnownNodes
<1>7. Arriving' = Arriving /\ KnownNodes' = KnownNodes
  BY <1>1 DEF Arriving, KnownNodes, registry
<1>8. GaugesFollowRegistry'
  BY <1>1, <1>4, <1>5, <1>7 DEF GaugeInv, GaugesFollowRegistry, registry
<1> QED BY <1>2, <1>3, <1>6, <1>8 DEF GaugeInv, RegistryInv

LEMMA ReadClockKeeps == ASSUME GaugeInv, ReadClock PROVE GaugeInv'
<1>1. RegistryInv /\ Values /\ snap.place = "idle" /\ snap' = [place |-> "stamped", now |-> 0, evicted |-> {}]
      /\ UNCHANGED <<member, agent, requests, entries, gauges, heard>>
  BY DEF GaugeInv, RegistryInv, ReadClock
<1>2. snap.evicted = {} /\ snap'.evicted = {}
  BY <1>1 DEF Values
<1>3. Values'
  BY <1>1, Limits DEF Values, gauges, Known
<1>4. EntryTellsHeard' /\ InHand' /\ Distinct' /\ Paced'
  BY <1>1 DEF RegistryInv, EntryTellsHeard, InHand, Distinct, Paced, EarlierPosts, Known
<1>5. Arriving' = Arriving /\ KnownNodes' = KnownNodes
  BY <1>1 DEF Arriving, KnownNodes
<1>6. GaugesFollowRegistry'
  BY <1>1, <1>2, <1>5 DEF GaugeInv, GaugesFollowRegistry, gauges
<1> QED BY <1>3, <1>4, <1>6 DEF GaugeInv, RegistryInv

LEMMA MembershipKeeps ==
  ASSUME GaugeInv, NEW n \in AgentNode, NodeLeaves(n) \/ NodeJoins(n)
  PROVE  GaugeInv'
<1>1. RegistryInv /\ Values /\ UNCHANGED <<agent, requests, registry, gauges, heard>> /\ member' \subseteq AgentNode
  BY DEF GaugeInv, RegistryInv, Values, NodeLeaves, NodeJoins
<1>2. RegistryInv'
  BY <1>1 DEF RegistryInv, Values, EntryTellsHeard, InHand, Distinct, Paced, EarlierPosts, Known, registry, gauges
<1>3. GaugesFollowRegistry'
  BY <1>1 DEF GaugeInv, GaugesFollowRegistry, Arriving, KnownNodes, registry, gauges
<1> QED BY <1>2, <1>3 DEF GaugeInv

LEMMA ManagerRestartsKeeps == ASSUME GaugeInv, ManagerRestarts PROVE GaugeInv'
<1>1. RegistryInv /\ Values
  BY DEF GaugeInv, RegistryInv
<1>2. Values'
  BY <1>1, Limits, FS_EmptySet DEF Values, ManagerRestarts, Known, None, Idle, Age
<1>3. EntryTellsHeard' /\ InHand' /\ Distinct'
  BY Limits DEF ManagerRestarts, EntryTellsHeard, InHand, Distinct, Known
<1>4. Paced'
  BY <1>1 DEF RegistryInv, Paced, EarlierPosts, ManagerRestarts
<1>5. KnownNodes' = {} /\ Arriving' = {} /\ snap'.evicted = {}
  BY DEF ManagerRestarts, KnownNodes, Arriving, Idle
<1>6. GaugesFollowRegistry'
  BY <1>5, FS_EmptySet DEF GaugesFollowRegistry, ManagerRestarts
<1> QED BY <1>2, <1>3, <1>4, <1>6 DEF GaugeInv, RegistryInv

(* The snapshot: an expired node has been silent for longer than a report may *)
(* be in hand, and leaves the registry for the nodes being disconnected.    *)
LEMMA SnapshotKeeps == ASSUME GaugeInv, Snapshot PROVE GaugeInv'
<1> DEFINE silent == {n \in AgentNode : Expired(n)}
<1>1. RegistryInv /\ Values /\ snap.place = "stamped" /\ snap.evicted = {} /\ snap.now \in 0 .. MaxStall
  BY DEF GaugeInv, RegistryInv, Values, Snapshot
<1>2. UNCHANGED <<member, agent, requests, gauges, heard>>
      /\ entries' = [n \in AgentNode |-> IF n \in silent THEN None ELSE entries[n]]
      /\ snap' = IF silent = {} THEN Idle ELSE [snap EXCEPT !.place = "evicting", !.evicted = silent]
  BY DEF Snapshot
<1>3. silent \subseteq KnownNodes
  BY DEF Expired, Known, KnownNodes
<1>4. \A n \in silent : entries[n].seen \in Age /\ entries[n].seen - snap.now > Stale
  BY <1>1 DEF Expired, Values
<1> HIDE DEF silent
<1>5. silent \subseteq AgentNode
  BY <1>3 DEF KnownNodes
<1>6. snap'.evicted = silent
      /\ snap' \in [place : {"idle", "stamped", "evicting"}, now : 0 .. MaxStall, evicted : SUBSET AgentNode]
      /\ (snap'.place # "evicting" => snap'.evicted = {})
  <2>1. CASE silent = {}
    <3>1. snap' = Idle
      BY <1>2, <2>1
    <3> QED BY <2>1, <3>1, Limits DEF Idle
  <2>2. CASE silent # {}
    <3>1. snap' = [snap EXCEPT !.place = "evicting", !.evicted = silent]
      BY <1>2, <2>2
    <3> QED BY <1>1, <1>5, <3>1 DEF Values
  <2> QED BY <2>1, <2>2
<1>7. None \in [seen : Int, measured : Int]
  BY DEF None
<1>8. entries' \in [AgentNode -> [seen : Int, measured : Int]]
      /\ \A n \in AgentNode : entries'[n] = IF n \in silent THEN None ELSE entries[n]
  BY <1>1, <1>2, <1>7 DEF Values
<1>9. Values'
  BY <1>1, <1>2, <1>6, <1>8 DEF Values, gauges, Known
<1>10. EntryTellsHeard'
  <2> SUFFICES ASSUME NEW n \in AgentNode
               PROVE  /\ Known(n)' => heard[n] <= entries'[n].seen /\ entries'[n].seen <= heard[n] + MaxStall
                      /\ ~Known(n)' => heard[n] + MaxStall > Stale
    BY <1>2 DEF EntryTellsHeard
  <2>1. /\ Known(n) => heard[n] <= entries[n].seen /\ entries[n].seen <= heard[n] + MaxStall
        /\ ~Known(n) => heard[n] + MaxStall > Stale
    BY <1>1 DEF RegistryInv, EntryTellsHeard
  <2>2. CASE n \in silent
    <3>1. Known(n) /\ ~Known(n)'
      BY <1>3, <1>8, <2>2 DEF Known, KnownNodes
    <3>2. heard[n] \in Nat /\ entries[n].seen \in Nat
      BY <1>1, <1>4, <2>2, Limits DEF Values, Age
    <3> QED BY <1>1, <1>4, <2>1, <2>2, <3>1, <3>2, Limits
  <2>3. CASE n \notin silent
    BY <1>8, <2>1, <2>3 DEF Known
  <2> QED BY <2>2, <2>3
<1>11. InHand'
  <2> SUFFICES ASSUME NEW r \in requests, r.place \in {"filed", "counted"}
               PROVE  Known(NodeOf[r.agent])' /\ entries'[NodeOf[r.agent]].seen <= r.stall + MaxStall
    BY <1>2 DEF InHand
  <2>1. NodeOf[r.agent] \in AgentNode /\ r.stall \in 0 .. MaxStall
    BY <1>1, Limits DEF Values, Request
  <2>2. Known(NodeOf[r.agent]) /\ entries[NodeOf[r.agent]].seen <= r.stall + MaxStall
    BY <1>1 DEF RegistryInv, InHand
  <2>3. NodeOf[r.agent] \notin silent
    <3> SUFFICES ASSUME NodeOf[r.agent] \in silent PROVE FALSE
      OBVIOUS
    <3>1. entries[NodeOf[r.agent]].seen \in Nat /\ entries[NodeOf[r.agent]].seen - snap.now > Stale
      BY <1>4, Limits DEF Age
    <3> QED BY <1>1, <2>1, <2>2, <3>1, Limits
  <2> QED BY <1>8, <2>1, <2>2, <2>3 DEF Known
<1>12. Distinct' /\ Paced'
  BY <1>1, <1>2 DEF RegistryInv, Distinct, Paced, EarlierPosts
<1>13. GaugesFollowRegistry'
  <2>1. KnownNodes' = KnownNodes \ silent
    BY <1>8 DEF KnownNodes
  <2>2. IsFiniteSet(KnownNodes) /\ IsFiniteSet(silent)
    BY <1>3, FS_Subset, Limits DEF KnownNodes
  <2>3. Cardinality(KnownNodes \ silent) = Cardinality(KnownNodes) - Cardinality(silent)
    <3>1. KnownNodes \cap silent = silent
      BY <1>3
    <3> QED BY <2>2, <3>1, FS_Difference
  <2>4. Arriving' = Arriving
    BY <1>2 DEF Arriving
  <2>5. IsFiniteSet(Arriving)
    BY <1>1, FS_Subset DEF Arriving, Values
  <2>6. Cardinality(Arriving) \in Nat /\ Cardinality(KnownNodes) \in Nat /\ Cardinality(silent) \in Nat
        /\ Cardinality(snap.evicted) = 0 /\ connected \in Int
    BY <1>1, <2>2, <2>5, FS_CardinalityType, FS_EmptySet DEF Values
  <2>7. Cardinality(snap'.evicted) = Cardinality(silent) /\ Cardinality(KnownNodes') = Cardinality(KnownNodes \ silent)
        /\ Cardinality(Arriving') = Cardinality(Arriving)
    BY <1>6, <2>1, <2>4
  <2>8. connected + Cardinality(Arriving) - Cardinality(snap.evicted) = Cardinality(KnownNodes)
        /\ loadShown \subseteq KnownNodes
    BY <1>1 DEF GaugeInv, GaugesFollowRegistry
  <2>9. connected' = connected /\ loadShown' = loadShown
    BY <1>2 DEF gauges
  <2>10. connected' + Cardinality(Arriving') - Cardinality(snap'.evicted) = Cardinality(KnownNodes')
    BY <2>3, <2>6, <2>7, <2>8, <2>9
  <2>11. loadShown' \subseteq KnownNodes' \cup snap'.evicted
    BY <1>6, <2>1, <2>8, <2>9
  <2> QED BY <2>10, <2>11 DEF GaugesFollowRegistry
<1> QED BY <1>9, <1>10, <1>11, <1>12, <1>13 DEF GaugeInv, RegistryInv

LEMMA DisconnectKeeps == ASSUME GaugeInv, NEW n \in AgentNode, Disconnect(n) PROVE GaugeInv'
<1>1. RegistryInv /\ Values /\ snap.place = "evicting" /\ n \in snap.evicted
      /\ snap.evicted \subseteq AgentNode
      /\ UNCHANGED <<member, agent, requests, entries, heard>>
  BY DEF GaugeInv, RegistryInv, Values, Disconnect
<1>2. connected' = connected - 1 /\ loadShown' = loadShown \ {n}
      /\ snap' = IF snap.evicted = {n} THEN Idle ELSE [snap EXCEPT !.evicted = snap.evicted \ {n}]
  BY DEF Disconnect
<1>3. snap'.evicted = snap.evicted \ {n}
      /\ snap' \in [place : {"idle", "stamped", "evicting"}, now : 0 .. MaxStall, evicted : SUBSET AgentNode]
      /\ (snap'.place # "evicting" => snap'.evicted = {})
  <2>1. CASE snap.evicted = {n}
    BY <1>2, <2>1, Limits DEF Idle
  <2>2. CASE snap.evicted # {n}
    <3>1. snap.evicted \ {n} \in SUBSET AgentNode
      BY <1>1
    <3>2. snap' = [snap EXCEPT !.evicted = snap.evicted \ {n}]
      BY <1>2, <2>2
    <3> QED BY <1>1, <3>1, <3>2 DEF Values
  <2> QED BY <2>1, <2>2
<1>4. Values'
  BY <1>1, <1>2, <1>3 DEF Values, Known
<1>5. EntryTellsHeard' /\ InHand' /\ Distinct' /\ Paced'
  BY <1>1 DEF RegistryInv, EntryTellsHeard, InHand, Distinct, Paced, EarlierPosts, Known
<1>6. GaugesFollowRegistry'
  <2>1. KnownNodes' = KnownNodes /\ Arriving' = Arriving
    BY <1>1 DEF KnownNodes, Arriving
  <2>2. IsFiniteSet(snap.evicted) /\ IsFiniteSet(Arriving) /\ IsFiniteSet(KnownNodes)
    BY <1>1, FS_Subset, Limits DEF Values, Arriving, KnownNodes
  <2>3. Cardinality(snap.evicted \ {n}) = Cardinality(snap.evicted) - 1
    BY <1>1, <2>2, FS_RemoveElement
  <2>4. Cardinality(snap.evicted) \in Nat /\ Cardinality(Arriving) \in Nat /\ Cardinality(KnownNodes) \in Nat
        /\ connected \in Int
    BY <1>1, <2>2, FS_CardinalityType DEF Values
  <2>5. connected' + Cardinality(Arriving') - Cardinality(snap'.evicted) = Cardinality(KnownNodes')
    <3>1. connected + Cardinality(Arriving) - Cardinality(snap.evicted) = Cardinality(KnownNodes)
      BY DEF GaugeInv, GaugesFollowRegistry
    <3>2. Cardinality(snap'.evicted) = Cardinality(snap.evicted \ {n}) /\ Cardinality(Arriving') = Cardinality(Arriving)
          /\ Cardinality(KnownNodes') = Cardinality(KnownNodes) /\ connected' = connected - 1
      BY <1>2, <1>3, <2>1
    <3> QED BY <2>3, <2>4, <3>1, <3>2
  <2>6. loadShown' \subseteq KnownNodes' \cup snap'.evicted
    BY <1>2, <1>3, <2>1 DEF GaugeInv, GaugesFollowRegistry
  <2> QED BY <2>5, <2>6 DEF GaugesFollowRegistry
<1> QED BY <1>4, <1>5, <1>6 DEF GaugeInv, RegistryInv

(* Time passes: everything is one tick older, and nothing else changes. *)
LEMMA ElapseRequests ==
  ASSUME RegistryInv, Elapse
  PROVE  /\ requests' \subseteq Request /\ IsFiniteSet(requests') /\ Distinct'
         /\ \A s \in requests' : \E r \in requests : s = RequestOlder(r)
         /\ IsFiniteSet(Arriving) /\ Cardinality(Arriving') = Cardinality(Arriving)
<1>1. /\ requests \subseteq Request /\ IsFiniteSet(requests) /\ Distinct
      /\ requests' = {RequestOlder(r) : r \in requests} /\ \A r \in requests : ~RequestReady(r)
  BY DEF RegistryInv, Values, Elapse
<1>2. \A r \in requests :
        /\ RequestOlder(r) \in Request
        /\ RequestOlder(r).age = r.age + 1 /\ RequestOlder(r).measured = r.measured + 1
        /\ RequestOlder(r).agent = r.agent /\ RequestOlder(r).place = r.place
        /\ RequestOlder(r).first = r.first
  BY <1>1, RequestOlderType
<1>3. \A r \in requests : r.age \in Nat /\ r.measured \in Nat
  BY <1>1 DEF Request
<1>4. \A q, r \in requests :
        /\ RequestOlder(q).agent = RequestOlder(r).agent
        /\ RequestOlder(q).age = RequestOlder(r).age
        /\ RequestOlder(q).measured = RequestOlder(r).measured
        => q = r
  BY <1>1, <1>2, <1>3 DEF Distinct
<1>5. Distinct'
  BY <1>1, <1>4 DEF Distinct
<1>6. IsFiniteSet(requests')
  <2> DEFINE f == [r \in requests |-> RequestOlder(r)]
  <2>1. f \in Surjection(requests, requests')
    BY <1>1 DEF Surjection
  <2> QED BY <1>1, <2>1, FS_Surjection
<1>7. IsFiniteSet(Arriving)
  BY <1>1, FS_Subset DEF Arriving
<1>8. Arriving' = {RequestOlder(r) : r \in Arriving}
  BY <1>1, <1>2 DEF Arriving
<1>9. Cardinality(Arriving') = Cardinality(Arriving)
  <2> DEFINE g == [r \in Arriving |-> RequestOlder(r)]
  <2>1. g \in Surjection(Arriving, Arriving')
    BY <1>8 DEF Surjection
  <2>2. \A q, r \in Arriving : RequestOlder(q) = RequestOlder(r) => q = r
    BY <1>4 DEF Arriving
  <2>3. g \in Injection(Arriving, Arriving')
    BY <1>8, <2>2 DEF Injection, IsInjective
  <2> HIDE DEF g
  <2> QED BY <1>7, <2>1, <2>3, FS_Surjection
<1> QED BY <1>1, <1>2, <1>5, <1>6, <1>7, <1>9

LEMMA ElapseEntries ==
  ASSUME RegistryInv, Elapse, NEW n \in AgentNode
  PROVE  /\ Known(n)' <=> Known(n)
         /\ entries'[n] \in [seen : Int, measured : Int]
         /\ heard[n] \in Age /\ heard'[n] = IF heard[n] = MaxSeen THEN MaxSeen ELSE heard[n] + 1
         /\ Known(n) => /\ entries[n].seen \in Age
                        /\ entries'[n].seen = IF entries[n].seen = MaxSeen THEN MaxSeen ELSE entries[n].seen + 1
<1>1. entries[n] \in [seen : Int, measured : Int] /\ (Known(n) => entries[n].seen \in Age) /\ heard[n] \in Age
  BY DEF RegistryInv, Values
<1>2. entries'[n] = EntryOlder(entries[n])
      /\ heard'[n] = IF heard[n] = MaxSeen THEN MaxSeen ELSE heard[n] + 1
  BY DEF Elapse
<1>3. CASE ~Known(n)
  BY <1>1, <1>2, <1>3 DEF EntryOlder, Known
<1>4. CASE Known(n)
  <2>1. entries'[n] = [seen |-> IF entries[n].seen = MaxSeen THEN entries[n].seen ELSE entries[n].seen + 1,
                       measured |-> IF entries[n].measured > MaxMeasured THEN entries[n].measured
                                    ELSE entries[n].measured + 1]
    BY <1>2, <1>4 DEF EntryOlder, Known
  <2>2. entries'[n] \in [seen : Int, measured : Int]
        /\ entries'[n].seen = IF entries[n].seen = MaxSeen THEN MaxSeen ELSE entries[n].seen + 1
    BY <1>1, <2>1, Limits
  <2>3. entries'[n].seen \in Nat /\ None.seen = -1
    BY <1>1, <1>4, <2>2, Limits DEF Age, None
  <2>4. entries'[n] # None
    BY <2>3
  <2> QED BY <1>1, <1>2, <1>4, <2>2, <2>4 DEF Known
<1> QED BY <1>3, <1>4

LEMMA ElapsePaced == ASSUME RegistryInv, Elapse PROVE agent' \in [Agent -> AgentState] /\ Paced'
<1>1. /\ agent \in [Agent -> AgentState] /\ requests \subseteq Request
      /\ agent' = [a \in Agent |-> AgentOlder(agent[a])] /\ \A a \in Agent : ~AgentReady(a)
      /\ requests' = {RequestOlder(r) : r \in requests} /\ \A r \in requests : ~RequestReady(r)
  BY DEF RegistryInv, Values, Elapse
<1>2. ASSUME NEW a \in Agent
      PROVE  /\ agent'[a] = AgentOlder(agent[a]) /\ agent'[a] \in AgentState
             /\ agent'[a].place = agent[a].place
             /\ agent'[a].measured = IF agent[a].place = "wait" THEN 0 ELSE agent[a].measured + 1
             /\ agent[a].place = "backoff" => agent[a].timer # 0 /\ agent'[a].timer = agent[a].timer - 1
             /\ agent[a].place # "post"
  <2>1. agent[a] \in AgentState /\ agent[a].place # "post"
        /\ (agent[a].place = "backoff" => agent[a].timer # 0) /\ agent'[a] = AgentOlder(agent[a])
    BY <1>1 DEF AgentReady
  <2> QED BY <2>1, AgentOlderType
<1>3. agent' \in [Agent -> AgentState]
  BY <1>1, <1>2
<1>4. ASSUME NEW a \in Agent
      PROVE  /\ agent'[a].place = "wait" => agent'[a].measured = 0
             /\ agent'[a].place # "wait" /\ agent'[a].tick => agent'[a].measured >= 1
             /\ EarlierPosts(a)'
  <2>1. agent[a] \in AgentState
    BY <1>1
  <2>2. agent[a].measured \in Nat /\ agent[a].timer \in Nat
    BY <2>1 DEF AgentState
  <2>3. /\ agent'[a].place = "wait" => agent'[a].measured = 0
        /\ agent'[a].place # "wait" => agent'[a].measured >= 1
    BY <1>2, <2>2
  <2>4. ASSUME NEW s \in requests', s.agent = a
        PROVE  /\ s.measured >= 1
               /\ agent'[a].place # "wait" => s.measured >= agent'[a].measured
               /\ agent'[a].place # "post"
               /\ agent'[a].place = "backoff" /\ s.measured = agent'[a].measured
                    => s.age + agent'[a].timer >= 1
    <3>1. PICK r \in requests : s = RequestOlder(r)
      BY <1>1
    <3>2. r \in Request /\ ~RequestReady(r)
      BY <1>1
    <3>3. s.agent = r.agent /\ s.age = r.age + 1 /\ s.measured = r.measured + 1
      BY <3>1, <3>2, RequestOlderType
    <3>4. r.age \in Nat /\ r.measured \in Nat
      BY <3>2 DEF Request
    <3>5. agent[a].place # "wait" => r.measured >= agent[a].measured
      BY <2>4, <3>3 DEF RegistryInv, Paced, EarlierPosts
    <3> QED BY <1>2, <2>2, <3>3, <3>4, <3>5
  <2> QED BY <2>3, <2>4 DEF EarlierPosts
<1> QED BY <1>3, <1>4 DEF Paced

LEMMA ElapseKeeps == ASSUME GaugeInv, Elapse PROVE GaugeInv'
<1>1. RegistryInv /\ Values /\ UNCHANGED <<member, gauges>>
  BY DEF GaugeInv, RegistryInv, Elapse
<1>2. requests' \subseteq Request /\ IsFiniteSet(requests') /\ Distinct'
      /\ Cardinality(Arriving') = Cardinality(Arriving)
  BY <1>1, ElapseRequests
<1>3. agent' \in [Agent -> AgentState] /\ Paced'
  BY <1>1, ElapsePaced
<1>4. \A n \in AgentNode :
        /\ Known(n)' <=> Known(n)
        /\ entries'[n] \in [seen : Int, measured : Int]
        /\ heard[n] \in Age /\ heard'[n] = IF heard[n] = MaxSeen THEN MaxSeen ELSE heard[n] + 1
        /\ Known(n) => /\ entries[n].seen \in Age
                       /\ entries'[n].seen = IF entries[n].seen = MaxSeen THEN MaxSeen ELSE entries[n].seen + 1
  BY <1>1, ElapseEntries
<1>5. snap'.evicted = snap.evicted
      /\ snap' \in [place : {"idle", "stamped", "evicting"}, now : 0 .. MaxStall, evicted : SUBSET AgentNode]
      /\ (snap'.place # "evicting" => snap'.evicted = {})
  <2>1. CASE snap.place = "idle"
    BY <1>1, <2>1 DEF Elapse, Values
  <2>2. CASE snap.place # "idle"
    <3>1. snap' = [snap EXCEPT !.now = snap.now + 1] /\ snap.now < MaxStall
      BY <2>2 DEF Elapse
    <3>2. snap.now + 1 \in 0 .. MaxStall
      BY <1>1, <3>1, Limits DEF Values
    <3> QED BY <1>1, <3>1, <3>2 DEF Values
  <2> QED BY <2>1, <2>2
<1>6. Values'
  <2>1. entries' \in [AgentNode -> [seen : Int, measured : Int]]
        /\ heard' = [n \in AgentNode |-> IF heard[n] = MaxSeen THEN MaxSeen ELSE heard[n] + 1]
    <3>1. entries' = [n \in AgentNode |-> EntryOlder(entries[n])]
          /\ heard' = [n \in AgentNode |-> IF heard[n] = MaxSeen THEN MaxSeen ELSE heard[n] + 1]
      BY DEF Elapse
    <3> QED BY <1>4, <3>1
  <2>2. \A n \in AgentNode : (Known(n)' => entries'[n].seen \in Age) /\ heard'[n] \in Age
    BY <1>4, Limits DEF Age
  <2>3. heard' \in [AgentNode -> Age]
    BY <2>1, <2>2
  <2> QED BY <1>1, <1>2, <1>3, <1>5, <2>1, <2>2, <2>3 DEF Values, gauges
<1>7. EntryTellsHeard'
  <2>1. EntryTellsHeard
    BY <1>1 DEF RegistryInv
  <2> QED BY <1>4, <2>1, Limits DEF EntryTellsHeard, Age
<1>8. InHand'
  <2> SUFFICES ASSUME NEW s \in requests', s.place \in {"filed", "counted"}
               PROVE  Known(NodeOf[s.agent])' /\ entries'[NodeOf[s.agent]].seen <= s.stall + MaxStall
    BY DEF InHand
  <2>1. PICK r \in requests : s = RequestOlder(r)
    BY <1>1, ElapseRequests
  <2>2. r \in Request /\ ~RequestReady(r)
    BY <1>1 DEF Values, Elapse
  <2>3. s.agent = r.agent /\ s.place = r.place /\ s.stall = r.stall + 1 /\ r.stall \in 0 .. MaxStall
    <3>1. s.agent = r.agent /\ s.place = r.place
      BY <2>1, <2>2, RequestOlderType
    <3> QED BY <2>1, <2>2, <3>1, RequestOlderType DEF Request
  <2>4. NodeOf[r.agent] \in AgentNode
    BY <2>2, Limits DEF Request
  <2>5. Known(NodeOf[r.agent]) /\ entries[NodeOf[r.agent]].seen <= r.stall + MaxStall
    BY <1>1, <2>3 DEF RegistryInv, InHand
  <2> QED BY <1>4, <2>3, <2>4, <2>5, Limits DEF Age
<1>9. GaugesFollowRegistry'
  <2>1. KnownNodes' = KnownNodes
    BY <1>4 DEF KnownNodes, Known
  <2> QED BY <1>1, <1>2, <1>5, <2>1 DEF GaugeInv, GaugesFollowRegistry, gauges
<1> QED BY <1>2, <1>3, <1>6, <1>7, <1>8, <1>9 DEF GaugeInv, RegistryInv

-------------------------------------------------------------------------------
(* The theorems.                                                           *)

LEMMA StepKeeps == ASSUME GaugeInv, [RegistryNext]_registryVars PROVE GaugeInv'
<1>0. RegistryInv /\ requests \subseteq Request
  BY DEF GaugeInv, RegistryInv, Values
<1>1. ASSUME NEW a \in Agent, ReportOnce(a) \/ PostFails(a) \/ BackoffEnds(a) \/ AgentRestarts(a)
      PROVE  GaugeInv'
  <2>1. UNCHANGED <<member, requests, registry, gauges, heard>>
    BY <1>1 DEF ReportOnce, PostFails, BackoffEnds, AgentRestarts
  <2>2. Moves(a)
    BY <1>0, <1>1, ReportOnceMoves, RetryMoves, BackoffEndsMoves, AgentRestartsMoves DEF PostFails
  <2> QED BY <2>1, <2>2, AgentMovesKeep
<1>2. ASSUME NEW a \in Agent, Post(a) PROVE GaugeInv'
  BY <1>2, PostKeeps
<1>3. ASSUME NEW r \in requests, Handle(r) PROVE GaugeInv'
  BY <1>3, AcceptKeeps, RefusalsKeep, FileKeeps, CountAgentKeeps, ShowLoadKeeps DEF Handle
<1>4. ASSUME NEW n \in AgentNode, Disconnect(n) \/ NodeLeaves(n) \/ NodeJoins(n) PROVE GaugeInv'
  BY <1>4, DisconnectKeeps, MembershipKeeps
<1>5. CASE ReadClock
  BY <1>5, ReadClockKeeps
<1>6. CASE Snapshot
  BY <1>6, SnapshotKeeps
<1>7. CASE Elapse
  BY <1>7, ElapseKeeps
<1>8. CASE ManagerRestarts
  BY <1>8, ManagerRestartsKeeps
<1>9. CASE UNCHANGED registryVars
  <2>1. RegistryInv'
    BY <1>0, <1>9
    DEF registryVars, registry, gauges, RegistryInv, Values, EntryTellsHeard, InHand, Distinct, Paced,
        EarlierPosts, Known
  <2>2. GaugesFollowRegistry'
    BY <1>9 DEF registryVars, registry, gauges, GaugeInv, GaugesFollowRegistry, Arriving, KnownNodes
  <2> QED BY <2>1, <2>2 DEF GaugeInv
<1> QED
  <2> HIDE DEF GaugeInv
  <2> QED BY <1>1, <1>2, <1>3, <1>4, <1>5, <1>6, <1>7, <1>8, <1>9 DEF RegistryNext

(* The values the registry, its requests and its agents take, that an entry  *)
(* is about as old as the last report of its node, and that no two requests  *)
(* are alike: Registry.Ingest and Snapshot, Reporter.Report and Loop.Run.   *)
THEOREM RegistryIsInductive == RegistrySpec => []GaugeInv
<1>1. RegistryInit => GaugeInv
  BY Initially DEF GaugeInv
<1>2. GaugeInv /\ [RegistryNext]_registryVars => GaugeInv'
  BY StepKeeps
<1> QED BY <1>1, <1>2, PTL DEF RegistrySpec

(* Registry.Ingest and Snapshot set the gauges after they release the lock,  *)
(* and the count of connected agents is still that of the registry once the *)
(* pending updates are in, for any number of agents, nodes and late posts:  *)
(* a goroutine may stall for half the stale limit.                          *)
THEOREM GaugesFollow == RegistrySpec => []GaugesFollowRegistry
<1>1. GaugeInv => GaugesFollowRegistry
  BY DEF GaugeInv
<1> QED BY <1>1, RegistryIsInductive, PTL

(* Registry.Snapshot keeps every node heard of within the stale limit and    *)
(* forgets every other, whatever report overtook which on the way.          *)
THEOREM SnapshotsHaveTheHeard == RegistrySpec => SnapshotHasTheHeard
<1>1. ASSUME GaugeInv, Snapshot, NEW n \in AgentNode
      PROVE  /\ heard[n] + MaxStall <= Stale => entries'[n] # None
             /\ entries'[n] # None => heard[n] <= Stale + MaxStall
  <2>1. /\ snap.now \in 0 .. MaxStall /\ heard[n] \in Nat /\ (Known(n) => entries[n].seen \in Nat)
        /\ Known(n) => heard[n] <= entries[n].seen /\ entries[n].seen <= heard[n] + MaxStall
        /\ ~Known(n) => heard[n] + MaxStall > Stale
    BY <1>1, Limits DEF GaugeInv, RegistryInv, Values, EntryTellsHeard, Age
  <2>2. entries'[n] = IF Expired(n) THEN None ELSE entries[n]
    BY <1>1 DEF Snapshot
  <2>3. CASE Expired(n)
    <3>1. Known(n) /\ entries[n].seen - snap.now > Stale
      BY <2>3 DEF Expired
    <3> QED BY <2>1, <2>2, <2>3, <3>1, Limits
  <2>4. CASE ~Expired(n)
    <3>1. Known(n) => entries[n].seen - snap.now <= Stale
      BY <2>1, <2>4, Limits DEF Expired
    <3> QED BY <2>1, <2>2, <2>4, <3>1, Limits DEF Known
  <2> QED BY <2>3, <2>4
<1>2. GaugeInv /\ [RegistryNext]_registryVars =>
        [Snapshot => \A n \in AgentNode :
           /\ heard[n] + MaxStall <= Stale => entries'[n] # None
           /\ entries'[n] # None => heard[n] <= Stale + MaxStall]_registryVars
  BY <1>1
<1> QED BY <1>2, RegistryIsInductive, PTL DEF RegistrySpec, SnapshotHasTheHeard

-------------------------------------------------------------------------------
(* The bounds on every age.                                                *)

LEMMA BackoffValues ==
  /\ Backoff[0] = 1
  /\ \A k \in 0 .. MaxAttempts : Backoff[k] \in Nat \ {0}
  /\ \A k \in 0 .. MaxAttempts - 1 : Backoff[k + 1] = 2 * Backoff[k]
<1> DEFINE V == Nat \ {0}
           step == [n \in 1 .. MaxAttempts |-> [v \in V |-> 2 * v]]
<1>1. step \in [1 .. MaxAttempts -> [V -> V]] /\ 1 \in V
  OBVIOUS
<1>2. PICK f \in [0 .. MaxAttempts -> V] : Iterates(f, MaxAttempts, 1, step)
  <2>1. MaxAttempts \in Nat
    BY Limits
  <2> HIDE DEF V, step
  <2> QED BY <1>1, <2>1, IterationExists
<1>3. \A n \in 0 .. MaxAttempts : n # 0 => step[n][f[n - 1]] = 2 * f[n - 1]
  BY Limits
<1>4. f = [n \in 0 .. MaxAttempts |-> IF n = 0 THEN 1 ELSE 2 * f[n - 1]]
  BY <1>2, <1>3 DEF Iterates
<1>5. \A n \in 0 .. MaxAttempts : Backoff[n] = IF n = 0 THEN 1 ELSE 2 * Backoff[n - 1]
  <2>1. Backoff = [n \in 0 .. MaxAttempts |-> IF n = 0 THEN 1 ELSE 2 * Backoff[n - 1]]
    BY <1>4 DEF Backoff
  <2> QED BY <2>1
<1>6. \A k \in 0 .. MaxAttempts - 1 : Backoff[k + 1] = 2 * Backoff[k]
  <2> SUFFICES ASSUME NEW k \in 0 .. MaxAttempts - 1
               PROVE  Backoff[k + 1] = 2 * Backoff[k]
    OBVIOUS
  <2>1. k + 1 \in 0 .. MaxAttempts /\ k + 1 # 0 /\ k + 1 - 1 = k
    BY Limits
  <2> QED BY <1>5, <2>1
<1>7. Backoff[0] = 1
  BY <1>5, Limits
<1>8. 0 .. MaxAttempts \subseteq {k \in 0 .. MaxAttempts : Backoff[k] \in V}
  <2> DEFINE S == {k \in 0 .. MaxAttempts : Backoff[k] \in V}
  <2>1. 0 \in S
    BY <1>7, Limits
  <2>2. \A k \in 0 .. MaxAttempts - 1 : k \in S => k + 1 \in S
    BY <1>6, Limits
  <2> HIDE DEF S
  <2> QED BY <2>1, <2>2, Limits, UpToInduction DEF S
<1> QED BY <1>6, <1>7, <1>8

LEMMA RetryAgeValues ==
  /\ RetryAge[0] = 0
  /\ \A k \in 0 .. MaxAttempts : RetryAge[k] \in Nat
  /\ \A k \in 0 .. MaxAttempts - 1 : RetryAge[k + 1] = RetryAge[k] + Timeout + Backoff[k]
<1> DEFINE V == Nat
           step == [n \in 1 .. MaxAttempts |-> [v \in V |-> v + Timeout + Backoff[n - 1]]]
<1>1. step \in [1 .. MaxAttempts -> [V -> V]] /\ 0 \in V
  <2> SUFFICES ASSUME NEW n \in 1 .. MaxAttempts, NEW v \in Nat
               PROVE  v + Timeout + Backoff[n - 1] \in Nat
    OBVIOUS
  <2>1. n - 1 \in 0 .. MaxAttempts
    BY Limits
  <2> QED BY <2>1, BackoffValues, Limits
<1>2. PICK f \in [0 .. MaxAttempts -> V] : Iterates(f, MaxAttempts, 0, step)
  <2>1. MaxAttempts \in Nat
    BY Limits
  <2> HIDE DEF V, step
  <2> QED BY <1>1, <2>1, IterationExists
<1>3. \A n \in 0 .. MaxAttempts : n # 0 => step[n][f[n - 1]] = f[n - 1] + Timeout + Backoff[n - 1]
  BY Limits
<1>4. f = [n \in 0 .. MaxAttempts |-> IF n = 0 THEN 0 ELSE f[n - 1] + Timeout + Backoff[n - 1]]
  BY <1>2, <1>3 DEF Iterates
<1>5. \A n \in 0 .. MaxAttempts : RetryAge[n] = IF n = 0 THEN 0 ELSE RetryAge[n - 1] + Timeout + Backoff[n - 1]
  <2>1. RetryAge = [n \in 0 .. MaxAttempts |-> IF n = 0 THEN 0 ELSE RetryAge[n - 1] + Timeout + Backoff[n - 1]]
    BY <1>4 DEF RetryAge
  <2> QED BY <2>1
<1>6. \A k \in 0 .. MaxAttempts - 1 : RetryAge[k + 1] = RetryAge[k] + Timeout + Backoff[k]
  <2> SUFFICES ASSUME NEW k \in 0 .. MaxAttempts - 1
               PROVE  RetryAge[k + 1] = RetryAge[k] + Timeout + Backoff[k]
    OBVIOUS
  <2>1. k + 1 \in 0 .. MaxAttempts /\ k + 1 # 0 /\ k + 1 - 1 = k
    BY Limits
  <2> QED BY <1>5, <2>1
<1>7. RetryAge[0] = 0
  BY <1>5, Limits
<1>8. 0 .. MaxAttempts \subseteq {k \in 0 .. MaxAttempts : RetryAge[k] \in Nat}
  <2> DEFINE S == {k \in 0 .. MaxAttempts : RetryAge[k] \in Nat}
  <2>1. 0 \in S
    BY <1>7, Limits
  <2>2. ASSUME NEW k \in 0 .. MaxAttempts - 1, k \in S PROVE k + 1 \in S
    <3>1. k \in 0 .. MaxAttempts /\ k + 1 \in 0 .. MaxAttempts
      BY Limits
    <3>2. Backoff[k] \in Nat /\ RetryAge[k] \in Nat
      BY <2>2, <3>1, BackoffValues
    <3> QED BY <1>6, <3>1, <3>2, Limits
  <2> HIDE DEF S
  <2> QED BY <2>1, <2>2, Limits, UpToInduction DEF S
<1> QED BY <1>6, <1>7, <1>8

LEMMA LastPostIsLast ==
  /\ MaxAttempts - 1 \in 0 .. MaxAttempts /\ LastPost \in Nat /\ MaxTransit = LastPost + MaxLinger /\ MaxLinger \in Nat
  /\ \A k \in 0 .. MaxAttempts - 1 : RetryAge[k] <= LastPost
<1>1. MaxAttempts \in Nat \ {0} /\ MaxLinger \in Nat
  BY RegistryConstantsOK DEF RegistryConstantsOK
<1>2. LastPost \in Nat
  BY <1>1, RetryAgeValues DEF LastPost
<1> DEFINE S == {d \in 0 .. MaxAttempts - 1 : RetryAge[MaxAttempts - 1 - d] <= LastPost}
<1>3. 0 \in S
  BY <1>1, <1>2 DEF LastPost
<1>4. ASSUME NEW d \in 0 .. (MaxAttempts - 1) - 1, d \in S
      PROVE  d + 1 \in S
  <2> DEFINE k == MaxAttempts - 1 - (d + 1)
  <2>1. k \in 0 .. MaxAttempts - 1 /\ k \in 0 .. MaxAttempts /\ k + 1 = MaxAttempts - 1 - d /\ d + 1 \in 0 .. MaxAttempts - 1
    BY <1>1
  <2> HIDE DEF k
  <2>2. RetryAge[k + 1] = RetryAge[k] + Timeout + Backoff[k] /\ RetryAge[k] \in Nat /\ Backoff[k] \in Nat
    BY <2>1, BackoffValues, RetryAgeValues
  <2>3. RetryAge[k + 1] <= LastPost
    BY <1>4, <2>1
  <2>4. RetryAge[k] <= LastPost
    BY <1>2, <2>2, <2>3, Limits
  <2> QED BY <2>1, <2>4 DEF k
<1>5. 0 .. MaxAttempts - 1 \subseteq S
  <2>1. MaxAttempts - 1 \in Nat
    BY <1>1
  <2> HIDE DEF S
  <2> QED BY <1>3, <1>4, <2>1, UpToInduction
<1>6. ASSUME NEW k \in 0 .. MaxAttempts - 1
      PROVE  RetryAge[k] <= LastPost
  <2>1. MaxAttempts - 1 - k \in S /\ MaxAttempts - 1 - (MaxAttempts - 1 - k) = k
    BY <1>1, <1>5
  <2> QED BY <2>1
<1> QED BY <1>1, <1>2, <1>6 DEF MaxTransit

(* What a request and an entry may have waited on top of what their agent    *)
(* has: a request lingers and stalls, and an entry ages in the registry.     *)
OnTime(r) ==
  /\ r.measured <= LastPost + r.age
  /\ r.age <= MaxLinger + r.stall /\ (r.place = "sent" => r.stall = 0)
Fresh(n) == Known(n) => entries[n].measured \in Nat /\ entries[n].measured <= MaxTransit + entries[n].seen

AgentsInBounds == \A a \in Agent : InBounds(agent[a])
RequestsOnTime == \A r \in requests : OnTime(r)
EntriesFresh == \A n \in AgentNode : Fresh(n)
AgesBounded == AgentsInBounds /\ RequestsOnTime /\ EntriesFresh

LEMMA RestInBounds ==
  ASSUME agent \in [Agent -> AgentState], AgentsInBounds, NEW a \in Agent, NEW tick \in BOOLEAN
  PROVE  \A b \in Agent : InBounds(Rest(a, tick)[b])
<1> DEFINE q == [agent[a] EXCEPT !.place = "wait", !.attempt = 0, !.measured = 0]
           t == [q EXCEPT !.timer = 0, !.wait = 1]
           s == [t EXCEPT !.tick = tick]
<1>1. agent[a] \in AgentState /\ agent[a].due < Interval
  BY DEF AgentsInBounds, InBounds
<1>2. q \in AgentState /\ q.place = "wait" /\ q.attempt = 0 /\ q.measured = 0 /\ q.due = agent[a].due
  BY <1>1 DEF AgentState
<1> HIDE DEF q
<1>3. t \in AgentState /\ t.place = "wait" /\ t.attempt = 0 /\ t.measured = 0 /\ t.due = q.due
      /\ t.timer = 0 /\ t.wait = 1
  <2>1. 0 \in Nat /\ 1 \in Nat \ {0}
    OBVIOUS
  <2> QED BY <1>2, <2>1 DEF AgentState
<1> HIDE DEF t
<1>4. s \in AgentState /\ s.place = "wait" /\ s.attempt = 0 /\ s.measured = 0 /\ s.due = t.due
      /\ s.timer = 0 /\ s.wait = 1
  BY <1>3 DEF AgentState
<1>5. Rest(a, tick) = [agent EXCEPT ![a] = s]
  BY DEF Rest, q, t
<1> HIDE DEF s
<1>6. InBounds(s)
  BY <1>1, <1>2, <1>3, <1>4 DEF InBounds
<1> QED BY <1>5, <1>6 DEF AgentsInBounds

LEMMA RetryInBounds ==
  ASSUME agent \in [Agent -> AgentState], AgentsInBounds, NEW a \in Agent, agent[a].place = "answer"
  PROVE  \A b \in Agent : InBounds(Retry(a)[b])
<1> DEFINE k == agent[a].attempt
           s == [agent[a] EXCEPT !.place = "backoff", !.attempt = @ + 1,
                                 !.timer = agent[a].wait, !.wait = 2 * @]
<1>1. agent[a] \in AgentState /\ InBounds(agent[a])
  BY DEF AgentsInBounds
<1>2. CASE k < MaxAttempts
  <2>1. k \in 1 .. MaxAttempts /\ k - 1 \in 0 .. MaxAttempts - 1 /\ k - 1 \in 0 .. MaxAttempts /\ (k - 1) + 1 = k
        /\ k \in 0 .. MaxAttempts /\ k + 1 \in 1 .. MaxAttempts /\ (k + 1) - 1 = k
    BY <1>1, <1>2, Limits DEF InBounds
  <2>2. agent[a].wait = Backoff[k - 1] /\ agent[a].timer <= Timeout
        /\ agent[a].measured <= RetryAge[k - 1] + agent[a].timer /\ agent[a].due < Interval
    BY <1>1 DEF InBounds
  <2>3. Backoff[k] = 2 * Backoff[k - 1] /\ RetryAge[k] = RetryAge[k - 1] + Timeout + Backoff[k - 1]
        /\ Backoff[k - 1] \in Nat /\ RetryAge[k - 1] \in Nat
    BY <2>1, BackoffValues, RetryAgeValues
  <2>4. agent[a].measured \in Nat /\ agent[a].timer \in Nat /\ agent[a].wait \in Nat
    BY <1>1 DEF AgentState
  <2>5. s.place = "backoff" /\ s.attempt = k + 1 /\ s.timer = agent[a].wait /\ s.wait = 2 * agent[a].wait
        /\ s.measured = agent[a].measured /\ s.due = agent[a].due
    BY <1>1 DEF AgentState
  <2> HIDE DEF s, k
  <2>6. s.measured + s.timer <= RetryAge[k] /\ s.wait = Backoff[k]
    BY <2>2, <2>3, <2>4, <2>5, Limits
  <2>7. InBounds(s)
    <3>1. 2 * s.timer <= s.wait
      BY <2>2, <2>3, <2>5, <2>6
    <3> QED BY <2>1, <2>2, <2>5, <2>6, <3>1 DEF InBounds
  <2>8. Retry(a) = [agent EXCEPT ![a] = s]
    BY <1>2 DEF Retry, s, k
  <2> QED BY <2>7, <2>8 DEF AgentsInBounds
<1>3. CASE ~(k < MaxAttempts)
  <2>1. Retry(a) = Rest(a, agent[a].tick) /\ agent[a].tick \in BOOLEAN
    BY <1>1, <1>3 DEF Retry, AgentState
  <2> QED BY <2>1, RestInBounds
<1> QED BY <1>2, <1>3

(* One lemma per kind of step. *)
LEMMA AgentStepsInBounds ==
  ASSUME GaugeInv, AgesBounded, NEW a \in Agent,
         ReportOnce(a) \/ PostFails(a) \/ BackoffEnds(a) \/ AgentRestarts(a)
  PROVE  AgesBounded'
<1>1. agent \in [Agent -> AgentState] /\ agent[a] \in AgentState /\ AgentsInBounds /\ InBounds(agent[a])
  BY DEF GaugeInv, RegistryInv, Values, AgesBounded, AgentsInBounds
<1>2. UNCHANGED <<member, requests, registry, gauges, heard>>
  BY DEF ReportOnce, PostFails, BackoffEnds, AgentRestarts
<1>3. RequestsOnTime' /\ EntriesFresh'
  BY <1>2 DEF AgesBounded, RequestsOnTime, EntriesFresh, Fresh, Known, registry
<1>4. CASE ReportOnce(a)
  <2> DEFINE s == [agent[a] EXCEPT !.place = "post", !.attempt = 1, !.tick = FALSE]
  <2>1. CASE agent' = [agent EXCEPT ![a] = s]
    <3>1. agent[a].place = "wait"
      BY <1>4 DEF ReportOnce
    <3>2. s.place = "post" /\ s.attempt = 1 /\ s.measured = 0 /\ s.timer = 0 /\ s.wait = 1 /\ s.due = agent[a].due
      BY <1>1, <3>1 DEF AgentState, InBounds
    <3> HIDE DEF s
    <3>3. 1 \in 1 .. MaxAttempts
      BY LastPostIsLast, Limits
    <3>4. InBounds(s)
      BY <1>1, <3>2, <3>3, BackoffValues, RetryAgeValues DEF InBounds
    <3> QED BY <1>1, <1>3, <2>1, <3>4 DEF AgesBounded, AgentsInBounds
  <2>2. CASE agent' = Rest(a, FALSE)
    BY <1>1, <1>3, <2>2, RestInBounds DEF AgesBounded, AgentsInBounds
  <2> QED BY <1>4, <2>1, <2>2 DEF ReportOnce
<1>5. CASE PostFails(a)
  BY <1>1, <1>3, <1>5, RetryInBounds DEF PostFails, AgesBounded, AgentsInBounds
<1>6. CASE BackoffEnds(a)
  <2> DEFINE s == [agent[a] EXCEPT !.place = "post"]
  <2>1. agent' = [agent EXCEPT ![a] = s] /\ agent[a].place = "backoff" /\ agent[a].timer = 0
    BY <1>6 DEF BackoffEnds
  <2>2. s.place = "post" /\ s.attempt = agent[a].attempt /\ s.measured = agent[a].measured
        /\ s.timer = 0 /\ s.wait = agent[a].wait /\ s.due = agent[a].due /\ agent[a].measured \in Nat
    BY <1>1, <2>1 DEF AgentState
  <2> HIDE DEF s
  <2>3. InBounds(s)
    BY <1>1, <2>1, <2>2 DEF InBounds
  <2> QED BY <1>1, <1>3, <2>1, <2>3 DEF AgesBounded, AgentsInBounds
<1>7. CASE AgentRestarts(a)
  <2> DEFINE g == Rest(a, FALSE)
             s == [g[a] EXCEPT !.due = Interval - 1]
  <2>1. g \in [Agent -> AgentState] /\ g[a].place = "wait" /\ \A b \in Agent : InBounds(g[b])
    BY <1>1, RestState, RestInBounds
  <2>2. agent' = [g EXCEPT ![a] = s]
    BY <1>7 DEF AgentRestarts
  <2> HIDE DEF g
  <2>3. s.place = "wait" /\ s.attempt = g[a].attempt /\ s.measured = g[a].measured
        /\ s.timer = g[a].timer /\ s.wait = g[a].wait /\ s.due = Interval - 1
    BY <2>1 DEF AgentState
  <2> HIDE DEF s
  <2>4. InBounds(s)
    BY <2>1, <2>3, Limits DEF InBounds
  <2> QED BY <1>3, <2>1, <2>2, <2>4 DEF AgesBounded, AgentsInBounds
<1> QED BY <1>4, <1>5, <1>6, <1>7

LEMMA PostInBounds == ASSUME GaugeInv, AgesBounded, NEW a \in Agent, Post(a) PROVE AgesBounded'
<1> DEFINE s == [agent[a] EXCEPT !.place = "answer"]
           r == [agent |-> a, age |-> 0, measured |-> agent[a].measured,
                 place |-> "sent", stall |-> 0, first |-> FALSE]
<1>1. agent \in [Agent -> AgentState] /\ agent[a] \in AgentState /\ InBounds(agent[a]) /\ agent[a].place = "post"
      /\ agent' = [agent EXCEPT ![a] = s] /\ (requests' = requests \cup {r} \/ requests' = requests)
      /\ UNCHANGED registry
  BY DEF GaugeInv, RegistryInv, Values, AgesBounded, AgentsInBounds, Post
<1>2. s.place = "answer" /\ s.attempt = agent[a].attempt /\ s.measured = agent[a].measured
      /\ s.timer = agent[a].timer /\ s.wait = agent[a].wait /\ s.due = agent[a].due /\ agent[a].measured \in Nat
  BY <1>1 DEF AgentState
<1> HIDE DEF s
<1>3. agent[a].attempt \in 1 .. MaxAttempts /\ agent[a].timer = 0 /\ agent[a].measured <= RetryAge[agent[a].attempt - 1]
  BY <1>1 DEF InBounds
<1>4. agent[a].attempt - 1 \in 0 .. MaxAttempts - 1 /\ agent[a].attempt - 1 \in 0 .. MaxAttempts
  BY <1>3, Limits
<1>5. RetryAge[agent[a].attempt - 1] \in Nat /\ RetryAge[agent[a].attempt - 1] <= LastPost
  BY <1>4, RetryAgeValues, LastPostIsLast
<1>6. InBounds(s)
  BY <1>1, <1>2, <1>3, <1>5, Limits DEF InBounds
<1>7. OnTime(r)
  BY <1>2, <1>3, <1>5, LastPostIsLast DEF OnTime
<1> HIDE DEF r
<1>8. AgentsInBounds' /\ RequestsOnTime' /\ EntriesFresh'
  BY <1>1, <1>6, <1>7 DEF AgesBounded, AgentsInBounds, RequestsOnTime, EntriesFresh, Fresh, Known, registry
<1> QED BY <1>8 DEF AgesBounded

LEMMA AnswersInBounds ==
  ASSUME agent \in [Agent -> AgentState], AgentsInBounds, NEW r \in Request,
         NEW received, received = Retry(r.agent) \/ received = Rest(r.agent, agent[r.agent].tick),
         AnswerOrLose(r, received)
  PROVE  AgentsInBounds'
<1>1. r.agent \in Agent /\ agent[r.agent].tick \in BOOLEAN
  BY DEF Request, AgentState
<1>2. CASE Awaited(r) /\ agent' = received
  BY <1>1, <1>2, RestInBounds, RetryInBounds DEF Awaited, AgentsInBounds
<1>3. CASE agent' = agent
  BY <1>3 DEF AgentsInBounds
<1> QED BY <1>2, <1>3 DEF AnswerOrLose, Answer

LEMMA HandleInBounds == ASSUME GaugeInv, AgesBounded, NEW r \in requests, Handle(r) PROVE AgesBounded'
<1>1. agent \in [Agent -> AgentState] /\ AgentsInBounds /\ r \in Request /\ RequestsOnTime /\ EntriesFresh /\ OnTime(r)
      /\ requests \subseteq Request
  BY DEF GaugeInv, RegistryInv, Values, AgesBounded, RequestsOnTime
<1>2. CASE Accept(r) \/ CountAgent(r)
  <2>1. PICK p \in {"stamped", "counted"} : Becomes(r, [r EXCEPT !.place = p])
    BY <1>2 DEF Accept, CountAgent
  <2> DEFINE s == [r EXCEPT !.place = p]
  <2>2. s.age = r.age /\ s.measured = r.measured /\ s.stall = r.stall /\ s.place # "sent"
    BY <1>1 DEF Request
  <2>3. requests' = (requests \ {r}) \cup {s} /\ UNCHANGED <<agent, entries>>
    BY <1>2, <2>1 DEF Becomes, Accept, CountAgent, registry
  <2> HIDE DEF s
  <2>4. OnTime(s)
    BY <1>1, <2>2 DEF OnTime
  <2> QED BY <1>1, <2>3, <2>4 DEF AgesBounded, AgentsInBounds, RequestsOnTime, EntriesFresh, Fresh, Known
<1>3. CASE ValidationFails(r) \/ Reject(r) \/ Drop(r) \/ ShowLoad(r)
  <2>1. requests' = requests \ {r} /\ UNCHANGED entries
    BY <1>3 DEF ValidationFails, Reject, Drop, ShowLoad, registry
  <2>2. AgentsInBounds'
    <3>1. CASE ValidationFails(r)
      BY <1>1, <3>1, AnswersInBounds DEF ValidationFails
    <3>2. CASE Reject(r)
      BY <1>1, <3>2, AnswersInBounds DEF Reject
    <3>3. CASE ShowLoad(r)
      BY <1>1, <3>3, AnswersInBounds DEF ShowLoad
    <3>4. CASE Drop(r)
      BY <1>1, <3>4 DEF Drop, AgentsInBounds
    <3> QED BY <1>3, <3>1, <3>2, <3>3, <3>4
  <2> QED BY <1>1, <2>1, <2>2 DEF AgesBounded, RequestsOnTime, EntriesFresh, Fresh, Known
<1>4. CASE File(r)
  <2> DEFINE n == NodeOf[r.agent]
             s == [r EXCEPT !.place = "filed", !.first = ~Known(n)]
             e == [seen |-> r.stall, measured |-> r.measured]
  <2>1. requests' = (requests \ {r}) \cup {s} /\ UNCHANGED agent /\ r.place = "stamped"
        /\ entries' = [entries EXCEPT ![n] = e]
    BY <1>4 DEF File, Becomes
  <2>2. s.age = r.age /\ s.measured = r.measured /\ s.stall = r.stall /\ s.place = "filed"
    <3>1. (~Known(n)) \in BOOLEAN
      OBVIOUS
    <3> QED BY <1>1, <3>1 DEF Request
  <2>3. r.measured \in Nat /\ r.stall \in Nat /\ r.age \in Nat
    BY <1>1, Limits DEF Request
  <2>4. e.measured \in Nat /\ e.measured <= MaxTransit + e.seen
    BY <1>1, <2>1, <2>3, LastPostIsLast DEF OnTime
  <2> HIDE DEF s, e, n
  <2>5. OnTime(s)
    BY <1>1, <2>1, <2>2 DEF OnTime
  <2>6. EntriesFresh'
    BY <1>1, <2>1, <2>4 DEF EntriesFresh, Fresh, Known, GaugeInv, RegistryInv, Values
  <2> QED BY <1>1, <2>1, <2>5, <2>6 DEF AgesBounded, AgentsInBounds, RequestsOnTime
<1> QED BY <1>2, <1>3, <1>4 DEF Handle

(* Time passes: a request is sent for MaxLinger at most, then stalls. *)
LEMMA ElapseInBounds == ASSUME GaugeInv, AgesBounded, Elapse PROVE AgesBounded'
<1>1. agent \in [Agent -> AgentState] /\ AgentsInBounds /\ requests \subseteq Request /\ RequestsOnTime /\ EntriesFresh
      /\ agent' = [a \in Agent |-> AgentOlder(agent[a])] /\ (\A a \in Agent : ~AgentReady(a))
      /\ requests' = {RequestOlder(r) : r \in requests} /\ (\A r \in requests : ~RequestReady(r))
      /\ entries' = [n \in AgentNode |-> EntryOlder(entries[n])] /\ RegistryInv
  BY DEF GaugeInv, RegistryInv, Values, AgesBounded, Elapse
<1>2. ASSUME NEW a \in Agent PROVE InBounds(agent'[a])
  <2> DEFINE s == agent[a]
             t == AgentOlder(s)
  <2>1. s \in AgentState /\ InBounds(s) /\ ~AgentReady(a) /\ agent'[a] = t
    BY <1>1 DEF AgentsInBounds
  <2>2. t.place = s.place /\ t.attempt = s.attempt /\ t.wait = s.wait /\ t.due = (s.due + 1) % Interval
        /\ t.measured = (IF s.place = "wait" THEN 0 ELSE s.measured + 1)
        /\ t.timer = CASE s.place = "answer" -> s.timer + 1 [] s.place = "backoff" -> s.timer - 1 [] OTHER -> s.timer
    BY <2>1 DEF AgentOlder, AgentState
  <2>3. s.place \in {"wait", "post", "answer", "backoff"} /\ s.timer \in Nat /\ s.measured \in Nat /\ s.due \in Nat
        /\ s.attempt \in Nat
    BY <2>1 DEF AgentState
  <2>4. s.place # "post" /\ (s.place = "answer" => s.timer # Timeout) /\ (s.place = "backoff" => s.timer # 0)
    BY <2>1 DEF AgentReady
  <2>5. t.due < Interval
    BY <2>2, <2>3, Limits
  <2> HIDE DEF s, t
  <2>6. CASE s.place = "wait"
    BY <2>1, <2>2, <2>5, <2>6 DEF InBounds
  <2>7. CASE s.place \in {"answer", "backoff"}
    <3>1. s.attempt \in 1 .. MaxAttempts /\ s.attempt - 1 \in 0 .. MaxAttempts
      BY <2>1, <2>7, Limits DEF InBounds
    <3>2. RetryAge[s.attempt - 1] \in Nat
      BY <3>1, RetryAgeValues
    <3>3. CASE s.place = "answer"
      <4>1. s.timer <= Timeout /\ s.measured <= RetryAge[s.attempt - 1] + s.timer /\ s.wait = Backoff[s.attempt - 1]
        BY <2>1, <3>3 DEF InBounds
      <4>2. t.timer = s.timer + 1 /\ t.measured = s.measured + 1
        BY <2>2, <3>3
      <4>3. t.timer <= Timeout /\ t.measured <= RetryAge[s.attempt - 1] + t.timer
        BY <2>3, <2>4, <3>2, <3>3, <4>1, <4>2, Limits
      <4> QED BY <2>1, <2>2, <2>5, <3>1, <3>3, <4>1, <4>3 DEF InBounds
    <3>4. CASE s.place = "backoff"
      <4>1. s.measured + s.timer <= RetryAge[s.attempt - 1] /\ s.wait = Backoff[s.attempt - 1]
        BY <2>1, <3>4 DEF InBounds
      <4>2. t.timer = s.timer - 1 /\ t.measured = s.measured + 1
        BY <2>2, <3>4
      <4>3. t.measured + t.timer <= RetryAge[s.attempt - 1]
        BY <2>3, <3>2, <4>1, <4>2
      <4>4. 2 * t.timer <= t.wait /\ t.wait = Backoff[s.attempt - 1]
        <5>1. 2 * s.timer <= s.wait /\ t.wait = s.wait /\ s.wait \in Nat
          BY <2>1, <2>2, <3>4 DEF InBounds, AgentState
        <5> QED BY <2>3, <4>1, <4>2, <5>1
      <4> QED BY <2>1, <2>2, <2>5, <3>1, <3>4, <4>1, <4>3, <4>4 DEF InBounds
    <3> QED BY <2>7, <3>3, <3>4
  <2> QED BY <2>1, <2>3, <2>4, <2>6, <2>7
<1>3. ASSUME NEW r \in requests PROVE OnTime(RequestOlder(r))
  <2> DEFINE s == RequestOlder(r)
  <2>1. r \in Request /\ ~RequestReady(r) /\ OnTime(r)
    BY <1>1 DEF RequestsOnTime
  <2>2. s.age = r.age + 1 /\ s.measured = r.measured + 1 /\ s.place = r.place
        /\ s.stall = IF r.place = "sent" THEN r.stall ELSE r.stall + 1
    BY <2>1 DEF RequestOlder, Request
  <2>3. r.age \in Nat /\ r.measured \in Nat /\ r.stall \in Nat
    BY <2>1, Limits DEF Request
  <2>4. r.place = "sent" => r.age # MaxLinger
    BY <2>1 DEF RequestReady
  <2> HIDE DEF s
  <2>5. s.measured <= LastPost + s.age
    BY <2>1, <2>2, <2>3, LastPostIsLast DEF OnTime
  <2>6. s.age <= MaxLinger + s.stall /\ (s.place = "sent" => s.stall = 0)
    BY <2>1, <2>2, <2>3, <2>4, LastPostIsLast DEF OnTime
  <2> QED BY <2>5, <2>6 DEF OnTime, s
<1>4. ASSUME NEW n \in AgentNode PROVE Fresh(n)'
  <2>1. CASE Known(n)
    <3> DEFINE e == entries[n]
               f == entries'[n]
    <3>1. e # None /\ e \in [seen : Int, measured : Int] /\ e.seen \in 0 .. MaxSeen
          /\ e.measured \in Nat /\ e.measured <= MaxTransit + e.seen
      BY <1>1, <2>1 DEF Known, RegistryInv, Values, EntriesFresh, Fresh, Age
    <3>2. f = [seen |-> IF e.seen = MaxSeen THEN e.seen ELSE e.seen + 1,
               measured |-> IF e.measured > MaxMeasured THEN e.measured ELSE e.measured + 1]
      BY <1>1, <3>1 DEF EntryOlder
    <3>3. f.seen = (IF e.seen = MaxSeen THEN e.seen ELSE e.seen + 1)
          /\ f.measured = (IF e.measured > MaxMeasured THEN e.measured ELSE e.measured + 1)
      BY <3>2
    <3>4. MaxMeasured = MaxSeen - 1 + MaxTransit /\ MaxTransit \in Nat /\ MaxSeen \in Nat
      BY Limits, LastPostIsLast DEF MaxMeasured
    <3> HIDE DEF e, f
    <3>5. f.measured \in Nat /\ f.measured <= MaxTransit + f.seen
      BY <3>1, <3>3, <3>4
    <3> QED BY <3>5 DEF Fresh, f
  <2>2. CASE ~Known(n)
    BY <1>1, <2>2 DEF EntryOlder, Known, Fresh
  <2> QED BY <2>1, <2>2
<1> QED BY <1>1, <1>2, <1>3, <1>4 DEF AgesBounded, AgentsInBounds, RequestsOnTime, EntriesFresh

LEMMA AgesStepBounded == ASSUME GaugeInv, AgesBounded, [RegistryNext]_registryVars PROVE AgesBounded'
<1>1. ASSUME NEW a \in Agent, ReportOnce(a) \/ Post(a) \/ PostFails(a) \/ BackoffEnds(a) \/ AgentRestarts(a)
      PROVE  AgesBounded'
  BY <1>1, AgentStepsInBounds, PostInBounds
<1>2. ASSUME NEW r \in requests, Handle(r) PROVE AgesBounded'
  BY <1>2, HandleInBounds
<1>3. CASE Elapse
  BY <1>3, ElapseInBounds
<1>4. CASE Snapshot
  <2>1. UNCHANGED <<agent, requests>>
        /\ \A n \in AgentNode : entries'[n] = None \/ entries'[n] = entries[n]
    BY <1>4 DEF Snapshot
  <2> QED BY <2>1 DEF AgesBounded, AgentsInBounds, RequestsOnTime, EntriesFresh, Fresh, Known
<1>5. CASE ManagerRestarts
  BY <1>5 DEF ManagerRestarts, AgesBounded, AgentsInBounds, RequestsOnTime, EntriesFresh, Fresh, Known
<1>6. CASE UNCHANGED <<agent, requests, entries>>
  BY <1>6 DEF AgesBounded, AgentsInBounds, RequestsOnTime, EntriesFresh, Fresh, Known
<1>7. CASE ReadClock \/ \E n \in AgentNode : Disconnect(n) \/ NodeLeaves(n) \/ NodeJoins(n)
  BY <1>6, <1>7 DEF ReadClock, Disconnect, NodeLeaves, NodeJoins, registry
<1> QED
  <2>1. UNCHANGED registryVars => UNCHANGED <<agent, requests, entries>>
    BY DEF registryVars, registry
  <2> HIDE DEF GaugeInv, AgesBounded
  <2> QED BY <1>1, <1>2, <1>3, <1>4, <1>5, <1>6, <1>7, <2>1 DEF RegistryNext

(* Retry with a doubled wait and a timeout, a late request and a stalled      *)
(* handler: whatever overtakes what, no age outgrows the sum of the attempts *)
(* (Reporter.Report, Registry.Ingest and Snapshot).                         *)
THEOREM AgesAreBounded == RegistrySpec => []AgesBounded
<1>1. RegistryInit => AgesBounded
  BY Limits DEF RegistryInit, AgesBounded, AgentsInBounds, InBounds, RequestsOnTime, EntriesFresh, Fresh, Known
<1>2. GaugeInv /\ AgesBounded /\ [RegistryNext]_registryVars => AgesBounded'
  BY AgesStepBounded
<1> QED BY <1>1, <1>2, RegistryIsInductive, PTL DEF RegistrySpec

(* The values of the fleet's state, for any number of agents, attempts,       *)
(* timeouts and requests under way: the waits of Reporter.Report double, its *)
(* timer stays within the timeout or the wait, and no two posts of an agent  *)
(* are alike.                                                               *)
THEOREM RegistryTyped == RegistrySpec => []RegistryTypeOK
<1> SUFFICES ASSUME GaugeInv, AgesBounded PROVE RegistryTypeOK
  BY RegistryIsInductive, AgesAreBounded, PTL
<1>1. /\ agent \in [Agent -> AgentState] /\ requests \subseteq Request /\ AgentsInBounds /\ RequestsOnTime
      /\ EntriesFresh /\ Values
  BY DEF GaugeInv, RegistryInv, Values, AgesBounded
<1> DEFINE S == [place : {"wait", "post", "answer", "backoff"}, attempt : 0 .. MaxAttempts,
                 measured : 0 .. LastPost + Timeout, timer : Nat, wait : Nat \ {0}, tick : BOOLEAN,
                 due : 0 .. Interval - 1]
           R == [agent : Agent, age : 0 .. MaxLinger + MaxStall, measured : 0 .. MaxTransit + MaxStall,
                 place : {"sent", "stamped", "filed", "counted"}, stall : 0 .. MaxStall, first : BOOLEAN]
<1>2. ASSUME NEW a \in Agent PROVE agent[a] \in S
  <2> DEFINE s == agent[a]
  <2>1. s \in AgentState /\ InBounds(s)
    BY <1>1 DEF AgentsInBounds
  <2>2. s.due \in 0 .. Interval - 1
    BY <2>1, Limits DEF AgentState, InBounds
  <2>3. s.attempt \in 0 .. MaxAttempts
    BY <2>1, Limits DEF InBounds
  <2>4. s.measured \in Nat /\ s.timer \in Nat
    BY <2>1 DEF AgentState
  <2>5. s.place # "wait" => s.attempt - 1 \in 0 .. MaxAttempts - 1 /\ s.attempt - 1 \in 0 .. MaxAttempts
    BY <2>1, Limits DEF InBounds
  <2>6. s.place # "wait" => RetryAge[s.attempt - 1] \in Nat /\ RetryAge[s.attempt - 1] <= LastPost
    BY <2>5, RetryAgeValues, LastPostIsLast
  <2>7. s.measured <= LastPost + Timeout
    <3>1. CASE s.place = "wait"
      BY <2>1, <3>1, LastPostIsLast, Limits DEF InBounds
    <3>2. CASE s.place = "post"
      BY <2>1, <2>4, <2>6, <3>2, LastPostIsLast, Limits DEF InBounds
    <3>3. CASE s.place = "answer"
      <4>1. s.timer <= Timeout /\ s.measured <= RetryAge[s.attempt - 1] + s.timer
        BY <2>1, <3>3 DEF InBounds
      <4> QED BY <2>4, <2>6, <3>3, <4>1, LastPostIsLast, Limits
    <3>4. CASE s.place = "backoff"
      <4>1. s.measured + s.timer <= RetryAge[s.attempt - 1]
        BY <2>1, <3>4 DEF InBounds
      <4> QED BY <2>4, <2>6, <3>4, <4>1, LastPostIsLast, Limits
    <3> QED BY <2>1, <3>1, <3>2, <3>3, <3>4 DEF AgentState
  <2>8. s.measured \in 0 .. LastPost + Timeout
    BY <2>4, <2>7, LastPostIsLast, Limits
  <2> HIDE DEF s
  <2>9. s \in S
    BY <2>1, <2>2, <2>3, <2>8 DEF AgentState
  <2> QED BY <2>9 DEF s
<1>3. ASSUME NEW r \in requests PROVE r \in R
  <2>1. r \in Request /\ OnTime(r)
    BY <1>1 DEF RequestsOnTime
  <2>2. r.age \in Nat /\ r.measured \in Nat /\ r.stall \in 0 .. MaxStall
    BY <2>1 DEF Request
  <2>3. r.age \in 0 .. MaxLinger + MaxStall /\ r.measured \in 0 .. MaxTransit + MaxStall
    BY <2>1, <2>2, LastPostIsLast, Limits DEF OnTime
  <2> QED BY <2>1, <2>3 DEF Request
<1>4. agent \in [Agent -> S] /\ requests \subseteq R
  <2> HIDE DEF S, R
  <2> QED BY <1>1, <1>2, <1>3
<1>5. \A n \in AgentNode : Known(n) => entries[n].seen \in 0 .. MaxSeen /\ entries[n].measured \in Nat
  BY <1>1 DEF Values, EntriesFresh, Fresh, Age
<1>6. Distinct /\ \A a \in Agent : InBounds(agent[a])
  BY <1>1 DEF GaugeInv, RegistryInv, AgentsInBounds
<1> QED BY <1>1, <1>4, <1>5, <1>6 DEF RegistryTypeOK, Values, Age

(* What Registry.Snapshot hands to the rebalancer was measured a bounded time *)
(* ago, however often its report was repeated and however late it came.     *)
THEOREM LoadsAreRecent == RegistrySpec => LoadIsRecent
<1>1. ASSUME GaugeInv, AgesBounded, Snapshot, NEW n \in AgentNode, entries'[n] # None
      PROVE  entries'[n].measured <= MaxMeasured
  <2>1. entries'[n] = (IF Expired(n) THEN None ELSE entries[n])
    BY <1>1 DEF Snapshot
  <2>2. ~Expired(n) /\ entries'[n] = entries[n] /\ Known(n)
    BY <1>1, <2>1 DEF Known
  <2>3. entries[n].seen \in Nat /\ snap.now \in 0 .. MaxStall
        /\ entries[n].measured \in Nat /\ entries[n].measured <= MaxTransit + entries[n].seen
    BY <1>1, <2>2, Limits DEF GaugeInv, RegistryInv, Values, AgesBounded, EntriesFresh, Fresh, Age
  <2>4. entries[n].seen - snap.now <= Stale
    BY <2>2, <2>3, Limits DEF Expired
  <2> QED BY <2>2, <2>3, <2>4, LastPostIsLast, Limits DEF MaxMeasured
<1>2. GaugeInv /\ AgesBounded /\ [RegistryNext]_registryVars =>
        [Snapshot => \A n \in AgentNode :
           entries'[n] # None => entries'[n].measured <= MaxMeasured]_registryVars
  BY <1>1
<1> QED BY <1>2, RegistryIsInductive, AgesAreBounded, PTL DEF RegistrySpec, LoadIsRecent
===============================================================================
