----------------------------- MODULE MetricSources -----------------------------
(***************************************************************************)
(* The two built-in sources of a service's metric over the containers of   *)
(* one node: the tasks an agent reports, averaged by the manager, and the  *)
(* manager's own reading of its local daemon; and the router between them. *)
(*                                                                         *)
(* A container is [service, wanted : its task is to run, frames : the      *)
(* stats the daemon streams]; a frame                                      *)
(*                                                                         *)
(*   [total, preTotal, system, preSystem, online, percpu : CPU,            *)
(*    usage, inactive, limit : memory, inactive None if not reported]      *)
(***************************************************************************)
EXTENDS Integers, Sequences, FiniteSets, FiniteSetsExt

CONSTANTS
  Container,    \* the containers that may run on the node
  MetricName,   \* values of the metric label
  Cores,        \* the node: its cores
  MemTotal      \* and its memory

NoFile == -1
Services == {c.service : c \in Container}

Stats == [total : Nat, preTotal : Nat, system : Nat, preSystem : Nat, online : Nat, percpu : Nat,
          usage : Nat, inactive : Nat \cup {NoFile}, limit : Nat]

ASSUME MetricsConstantsOK ==
  /\ Cores \in Nat /\ MemTotal \in Nat
  /\ IsFiniteSet(Container) /\ \A c \in Container : c.frames \in Seq(Stats)

VARIABLES containers   \* those running now

metricVars == <<containers>>

-------------------------------------------------------------------------------
(* statsutil.  Samples divide evenly: quotients stand for the floats.      *)

NotComputable == [value |-> 0, ok |-> FALSE]
Computed(v) == [value |-> v, ok |-> TRUE]

(* The second frame if there is one. *)
Readable(c) == c.frames # <<>>
ReadStats(c) == c.frames[IF Len(c.frames) >= 2 THEN 2 ELSE 1]

OnlineCPUs(s) == IF s.online # 0 THEN s.online ELSE IF s.percpu # 0 THEN s.percpu ELSE 1
CPUPercent(s) ==
  LET cpuDelta == s.total - s.preTotal
      sysDelta == s.system - s.preSystem
  IN  IF cpuDelta <= 0 \/ sysDelta <= 0 THEN NotComputable
      ELSE Computed((cpuDelta * OnlineCPUs(s) * 100) \div sysDelta)

MemUsageBytes(s) == s.usage - (IF s.inactive # NoFile /\ s.inactive < s.usage THEN s.inactive ELSE 0)
MemPercent(s) ==
  IF s.limit <= 0 THEN NotComputable ELSE Computed((MemUsageBytes(s) * 100) \div s.limit)

IsCPU(metric) == metric \in {"cpu", ""}
IsMemory(metric) == metric \in {"memory", "mem"}
ComputeFor(metric, s) == IF IsCPU(metric) THEN CPUPercent(s) ELSE MemPercent(s)

-------------------------------------------------------------------------------
(* The agents' way: a report, then the average over the reports.           *)

(* Mutant: only tasks whose CPU share can be computed are reported. *)
ReportedBusy == {c \in containers : Readable(c) /\ CPUPercent(ReadStats(c)).ok}

(* The report has a task for every container whose stats can be read, *)
Reported == {c \in containers : Readable(c)}
(* with 0 for what cannot be computed, *)
TaskMetric(c) ==
  [service |-> c.service,
   cpu |-> CPUPercent(ReadStats(c)).value, mem |-> MemPercent(ReadStats(c)).value]
(* and the load of the node. *)
NodeLoad ==
  [tasks |-> Cardinality(Reported),
   cpu |-> IF Cores > 0 THEN SumFunction([c \in Reported |-> TaskMetric(c).cpu]) \div Cores ELSE 0,
   mem |-> IF MemTotal > 0
           THEN (100 * SumFunction([c \in {r \in Reported : MemPercent(ReadStats(r)).ok} |->
                                      MemUsageBytes(ReadStats(c))])) \div MemTotal
           ELSE 0]

Answered(values) ==
  IF DOMAIN values = {} THEN [kind |-> "no data", sum |-> 0, n |-> 0]
  ELSE [kind |-> "value", sum |-> SumFunction(values), n |-> Cardinality(DOMAIN values)]
Unsupported == [kind |-> "error", sum |-> 0, n |-> 0]

Selected(metric, c) == IF IsCPU(metric) THEN TaskMetric(c).cpu ELSE TaskMetric(c).mem
DistributedValue(service, metric) ==
  IF ~IsCPU(metric) /\ ~IsMemory(metric) THEN Unsupported
  ELSE Answered([c \in {r \in Reported : r.service = service} |-> Selected(metric, c)])

-------------------------------------------------------------------------------
(* The local daemon's way: the tasks that are to run; what cannot be         *)
(* computed is left out.                                                   *)

DockerstatsValue(service, metric) ==
  IF ~IsCPU(metric) /\ ~IsMemory(metric) THEN Unsupported
  ELSE Answered([c \in {r \in containers : /\ r.service = service /\ r.wanted /\ Readable(r)
                                           /\ ComputeFor(metric, ReadStats(r)).ok} |->
                   ComputeFor(metric, ReadStats(c)).value])

(* The router: the label's source, or the default one.  built: the providers *)
(* there are.                                                              *)
Route(label, default, built) ==
  LET source == IF label = "" THEN default ELSE label
  IN  IF source \in built THEN source ELSE "unavailable"

-------------------------------------------------------------------------------
ContainerStarts(c) == c \notin containers /\ containers' = containers \cup {c}
ContainerStops(c) == c \in containers /\ containers' = containers \ {c}

MetricsInit == containers = {}
MetricsNext == \E c \in Container : ContainerStarts(c) \/ ContainerStops(c)
MetricsSpec == MetricsInit /\ [][MetricsNext]_metricVars

(* The sources can be exchanged: for the same containers they know the same  *)
(* metrics and add up the same load; a service without data for the agents   *)
(* has none for dockerstats.  They differ in what they divide by: the agents *)
(* count a task whose share cannot be computed as idle (and one that is being *)
(* stopped), so their average is the lower one.  And the shares of the       *)
(* services add up to the load of the node the rebalancer sees.              *)
SourcesAgree ==
  containers # {} =>
    /\ \A s \in Services, m \in MetricName :
         LET agents == DistributedValue(s, m)
             docker == DockerstatsValue(s, m)
         IN  /\ agents.kind = "error" <=> docker.kind = "error"
             /\ agents.kind = "no data" => docker.kind = "no data"
             /\ (\A c \in containers : c.service = s => c.wanted) =>
                  /\ agents.sum = docker.sum /\ agents.n >= docker.n
                  /\ docker.kind = "no data" => agents.sum = 0
    /\ Cores > 0 =>
         NodeLoad.cpu = SumFunction([s \in Services |-> DistributedValue(s, "cpu").sum]) \div Cores
===============================================================================
