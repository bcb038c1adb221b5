------------------------------- MODULE MC_Parts -------------------------------
(***************************************************************************)
(* The parts of the manager that share no state with each other, checked   *)
(* in one run: it picks a part and runs it, the others at rest.            *)
(***************************************************************************)
EXTENDS StackStatus, TaskErrors, AgentRegistry, Startup, TLC

VARIABLE part

partVars == <<part, stackVars, errorVars, registryVars, metricVars, startupVars>>

-------------------------------------------------------------------------------
(* StackStatus: declarations of one service over one to three documents.   *)

Empty == <<>>
Enabled == <<[key |-> "enabled", value |-> "true"]>>
Disabled == <<[key |-> "enabled", value |-> "false"]>>
Bare == <<[key |-> "enabled", value |-> ""]>>
AtLeastTwo == <<[key |-> "min", value |-> "2"]>>
OnAtOne == Enabled \o <<[key |-> "min", value |-> "1"], [key |-> "max", value |-> "1"]>>

Declared(deployLabels, deployReplicas) ==
  [labels |-> Empty, deployLabels |-> deployLabels, mode |-> "", deployMode |-> "",
   replicas |-> Unset, deployReplicas |-> deployReplicas]
Paths == {<<"f">>, <<".", "s", "f">>, <<"..", "f">>, <<"..", "..", "s", "f">>, <<"/", "f">>}
Web(path, decl) == [path |-> path, files |-> Paths, hasServices |-> TRUE, services |-> "web" :> decl]
Configs(path) == [path |-> path, files |-> Paths, hasServices |-> FALSE, services |-> NoLabels]
Top == <<"c">>
InA == <<"a", "c">>
InAB == <<"a", "b", "c">>
InB == <<"b", "c">>
Outside == <<"..", "x", "c">>

MCMergeGroup == {
  <<Web(Top, Declared(Enabled, 1)), Web(InA, Declared(Empty, 2))>>,
  <<Web(InA, Declared(Empty, 1)), Web(InAB, Declared(OnAtOne, 2)), Configs(InB)>>,
  <<Web(InAB, [Declared(Disabled, Unset) EXCEPT !.labels = AtLeastTwo]),
    Web(Outside, [Declared(Bare, 1) EXCEPT !.labels = Disabled])>>,
  <<Web(InB, [Declared(Disabled, Unset) EXCEPT !.labels = Enabled \o AtLeastTwo, !.replicas = 2])>>,
  <<Web(Outside, Declared(Enabled, 1)), Web(InA, [Declared(Empty, Unset) EXCEPT !.deployMode = "global"])>>,
  <<Web(InA, Declared(Disabled, Unset))>>}

MCWorktree == {<<"repos", "r">>, <<"/", "repos", "r">>, <<"..", "repos", "r">>}

-------------------------------------------------------------------------------
(* TaskErrors: two tasks of the one service of a stack.                    *)

MCServiceOf == [t \in Task |-> "api"]
MCNameOf == [id \in ServiceId |-> <<"app", id>>]
MCStackName == {<<"app">>}
MCNamesIn == [s \in StackName |-> {<<"app", "api">>}]
(* The two tasks are alike in every definition and property of the run. *)
TasksAlike == Permutations(Task)
MCText == {{"vxlan file exists", "sandbox join failed"}, {}}

(* The series of the gauge only grow; the properties are about other state,  *)
(* but for the values a series may have.                                    *)
FewSeries == Cardinality(DOMAIN gauge) <= 2

-------------------------------------------------------------------------------
(* AgentRegistry: one agent, its own late requests.                        *)

MCNodeOf == [a \in Agent |-> "n"]

-------------------------------------------------------------------------------
(* MetricSources: idle, busy, restarted and unreadable containers.         *)

Frame(total, online, percpu) ==
  [total |-> total, preTotal |-> 2, system |-> 12, preSystem |-> 2, online |-> online, percpu |-> percpu,
   usage |-> 4, inactive |-> NoFile, limit |-> 10]
Busy == Frame(4, 2, 0)
OldDaemon == [Frame(3, 0, 2) EXCEPT !.inactive = 2, !.limit = 0]
IdleFrame == [Frame(2, 1, 0) EXCEPT !.inactive = 4]
Reset == [Frame(1, 0, 0) EXCEPT !.inactive = 1, !.limit = 0]
MCContainer ==
  {[service |-> "web", wanted |-> TRUE, frames |-> <<IdleFrame, Busy>>],
   [service |-> "web", wanted |-> TRUE, frames |-> <<Busy, IdleFrame>>],
   [service |-> "web", wanted |-> TRUE, frames |-> <<OldDaemon>>],
   [service |-> "web", wanted |-> FALSE, frames |-> <<Busy>>],
   [service |-> "db", wanted |-> TRUE, frames |-> <<Reset>>],
   [service |-> "db", wanted |-> TRUE, frames |-> <<>>],
   [service |-> "db", wanted |-> TRUE, frames |-> <<Busy, OldDaemon>>]}

-------------------------------------------------------------------------------
(* Startup: one setting and what it needs in the environment, at most one  *)
(* on the command line.                                                    *)

Given(n) ==
  CASE n \in Duration -> {"-1", "0", "1", "soon"}
    [] n \in Switch -> {"true", "false", "maybe"}
    [] n = "max_scale_step" -> {"-1", "1"}
    [] n = "gitops_concurrency" -> {"0", "1", "many"}
    [] n = "rebalance_threshold" -> {"0", "1", "2", "NaN", "half"}
    [] n = "log_level" -> {"warn", "loud"}
    [] n = "log_format" -> {"json", "xml"}
    [] n = "metrics_provider" -> {"agents", "prometheus", "guess"}
    [] n = "prometheus_url" -> {" ", "not a url", "http://p"}
    [] n = "mode" -> {"agent", "both"}
    [] n = "manager_url" -> {"not a url", "http://m"}
    [] n = "gitops_pull_policy" -> {"", "changed", "never"}
    [] OTHER -> {"", "x"}
Nothing == [n \in {} |-> ""]
Ones == UNION {{n :> v : v \in Given(n)} : n \in Setting}
Bases == {Nothing, "gitops_enabled" :> "true", ("mode" :> "agent") @@ ("manager_url" :> "http://m")}
MCEnv == {o @@ b : o \in Ones \cup {Nothing}, b \in Bases}
MCArgs == {Nothing} \cup UNION {{n :> v : v \in Given(n)} :
  n \in {"mode", "metrics_provider", "gitops_interval", "gitops_concurrency", "dry_run"}}

Plain(f) == [form |-> "text", file |-> f, policy |-> "", overrides |-> [form |-> "nothing", paths |-> <<>>]]
Object(f, policy, form, paths) ==
  [form |-> "object", file |-> f, policy |-> policy, overrides |-> [form |-> form, paths |-> paths]]
Files(repo, branch, policy, form, items) ==
  [readable |-> TRUE, repos |-> "r" :> "url",
   stacks |-> "app" :> [repo |-> repo, branch |-> branch, policy |-> policy,
                        composeFile |-> [form |-> form, items |-> items]]]
Two == Files("r", "dev", "changed", "list", <<Plain("a"), Object("b", "always", "list", <<"c", "d">>)>>)
Missing == [readable |-> FALSE, repos |-> Nothing, stacks |-> Nothing]
MCGitOpsFiles == {
  Two, Missing, [Two EXCEPT !.repos["r"] = ""],
  Files("r", "", "", "text", <<Plain("a")>>),
  Files("s", "", "", "text", <<Plain("a")>>),
  Files("r", "", "never", "text", <<Plain("a")>>),
  Files("r", "", "", "nothing", <<>>),
  Files("r", "", "", "list", <<Plain("")>>),
  Files("r", "", "", "list", <<Object("b", "never", "nothing", <<>>)>>),
  Files("r", "", "", "list", <<Object("b", "", "text", <<>>)>>),
  Files("r", "", "", "list", <<Object("b", "", "list", <<"c", "c">>)>>),
  Files("r", "", "", "list", <<Object("b", "", "list", <<"b">>)>>)}

-------------------------------------------------------------------------------
Part == {"stack", "errors", "registry", "metrics", "startup"}

MCInit ==
  /\ StackInit /\ ErrorsInit /\ RegistryInit /\ MetricsInit
  /\ \/ part = "startup" /\ StartupInit /\ files = Missing
     \/ part \in Part \ {"startup"} /\ env = Nothing /\ args = Nothing /\ files = Missing /\ NotStarted

MCNext ==
  \/ /\ part = "stack" /\ StackNext
     /\ UNCHANGED <<part, errorVars, registryVars, metricVars, startupVars>>
  \/ /\ part = "errors" /\ ErrorsNext
     /\ UNCHANGED <<part, stackVars, registryVars, metricVars, startupVars>>
  \/ /\ part = "registry" /\ RegistryNext
     /\ UNCHANGED <<part, stackVars, errorVars, metricVars, startupVars>>
  \/ /\ part = "metrics" /\ MetricsNext
     /\ UNCHANGED <<part, stackVars, errorVars, registryVars, startupVars>>
  \/ /\ part = "startup" /\ StartupNext
     /\ UNCHANGED <<part, stackVars, errorVars, registryVars, metricVars>>

MCSpec == MCInit /\ [][MCNext]_partVars
===============================================================================
