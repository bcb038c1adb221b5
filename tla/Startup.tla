------------------------------- MODULE Startup -------------------------------
(***************************************************************************)
(* How a process starts: the settings from their defaults, the environment *)
(* and the flags, their validation, repos.yaml and stacks.yaml, and the    *)
(* components the role wires together one by one.                          *)
(*                                                                         *)
(* A setting is the text it is given.  Number is what a text that is a     *)
(* number means, in halves, for comparison with 0 and 1 only.              *)
(***************************************************************************)
EXTENDS MetricSources, SequencesExt, Overlay

CONSTANTS
  Env,        \* environments: the settings a process is given there
  Args,       \* and on its command line
  GitOpsFiles \* contents of repos.yaml and stacks.yaml

VARIABLES
  env, args,  \* what the process is given
  files,      \* what the two files hold; they can be edited at any time
  place,      \* how far it has come
  config,     \* its settings
  providers,  \* the metric providers built
  scanned,    \* the stack names the orphan scan knows
  stacks,     \* the stacks the GitOps loop syncs
  started     \* the loops and servers that run

startupVars == <<env, args, files, place, config, providers, scanned, stacks, started>>

-------------------------------------------------------------------------------
(* Settings.                                                               *)

Number ==
  [v \in {"-1", "0", "0.5", "1", "2"} |->
     CASE v = "-1" -> -2 [] v = "0" -> 0 [] v = "0.5" -> 1 [] v = "1" -> 2 [] v = "2" -> 4]
Duration == {"poll_interval", "cooldown", "scale_up_cooldown", "scale_down_cooldown",
             "scale_down_stabilization", "heal_threshold", "prometheus_timeout",
             "agent_stale_timeout", "rebalance_cooldown", "report_interval", "gitops_interval",
             "task_errors_window", "deploy_check_delay"}
Switch == {"dry_run", "gitops_enabled", "gitops_auto_rotate", "orphans_scan"}
Wording == {"log_level", "log_format", "metrics_provider", "prometheus_url", "metrics_addr", "mode",
         "ingest_addr", "ingest_token", "manager_url", "node_id", "gitops_configs_path",
         "gitops_repos_path", "gitops_pull_policy"}
Setting == Duration \cup Switch \cup Wording \cup {"max_scale_step", "rebalance_threshold", "gitops_concurrency"}

Default ==
  Over([scale_down_stabilization |-> "0", max_scale_step |-> "0", gitops_concurrency |-> "2",
        rebalance_threshold |-> "0.5", gitops_enabled |-> "false",
        log_level |-> "info", log_format |-> "text", metrics_provider |-> "dockerstats",
        mode |-> "manager", gitops_pull_policy |-> "always", metrics_addr |-> "metrics_addr",
        ingest_addr |-> "ingest_addr", gitops_configs_path |-> "gitops_configs_path",
        gitops_repos_path |-> "gitops_repos_path"],
    Over([n \in Duration |-> "2"], Over([n \in Switch |-> "true"], [n \in Wording |-> ""])))

(* No other variable or flag is read; lists are sequences. *)
ASSUME StartupConstantsOK ==
  /\ \A given \in Env \cup Args : DOMAIN given \subseteq Setting
  /\ \A f \in GitOpsFiles : \A s \in DOMAIN f.stacks : LET items == f.stacks[s].composeFile.items IN
       /\ items \in Seq(Range(items))
       /\ \A i \in DOMAIN items : LET paths == items[i].overrides.paths IN paths \in Seq(Range(paths))

(* Whether a text can be read as a setting of its type. *)
Parses(n, v) ==
  /\ n \in Duration => v \in DOMAIN Number
  /\ n \in Switch => v \in {"true", "false"}
  /\ n = "max_scale_step" => v \in {"0", "1", "2"}
  /\ n = "gitops_concurrency" => v \in {"-1", "0", "1", "2"}
  /\ n = "rebalance_threshold" => v \in DOMAIN Number \cup {"NaN"}

(* Mutant: a switch that cannot be read counts as off. *)
AllParseButSwitches(given) == \A n \in DOMAIN given \ Switch : Parses(n, given[n])

AllParse(given) == \A n \in DOMAIN given : Parses(n, given[n])

(* A flag beats the environment, which beats the default; and yet nothing     *)
(* that cannot be read may be in either.                                    *)
FromEnv == Over(env, Default)
FromFlags == Over(args, FromEnv)

(* No comparison holds of NaN. *)
AtMost(v, bound) == v # "NaN" /\ Number[v] <= 2 * bound
Below(v, bound) == v # "NaN" /\ Number[v] < 2 * bound
Above(v, bound) == v # "NaN" /\ Number[v] > 2 * bound
Blank(v) == v \in {"", " "}

(* Mutant: the interval of the GitOps loop is not looked at. *)
ValidateManagerNoInterval(c) ==
  /\ c.metrics_provider \in {"dockerstats", "agents", "prometheus"}
  /\ c.metrics_provider = "prometheus" => ~Blank(c.prometheus_url)
  /\ ~Blank(c.ingest_addr) /\ ~AtMost(c.agent_stale_timeout, 0)

ValidateManager(c) ==
  /\ c.metrics_provider \in {"dockerstats", "agents", "prometheus"}
  /\ c.metrics_provider = "prometheus" => ~Blank(c.prometheus_url)
  /\ ~Blank(c.ingest_addr) /\ ~AtMost(c.agent_stale_timeout, 0)
  /\ ~AtMost(c.rebalance_threshold, 0) /\ ~Above(c.rebalance_threshold, 1)
  /\ ~Below(c.rebalance_cooldown, 0)
  /\ c.gitops_enabled = "true" =>
       /\ ~AtMost(c.gitops_interval, 0) /\ ~Below(c.gitops_concurrency, 1)
       /\ ~Blank(c.gitops_configs_path) /\ c.gitops_pull_policy \in {"always", "changed"}

ValidateAgent(c) ==
  ~Blank(c.manager_url) /\ c.manager_url # "not a url" /\ ~AtMost(c.report_interval, 0)

Validate(c) ==
  /\ ~AtMost(c.poll_interval, 0) /\ ~AtMost(c.prometheus_timeout, 0)
  /\ \A n \in {"cooldown", "scale_up_cooldown", "scale_down_cooldown", "scale_down_stabilization",
               "heal_threshold", "task_errors_window", "deploy_check_delay"} : ~Below(c[n], 0)
  /\ \/ c.mode = "manager" /\ ValidateManager(c)
     \/ c.mode = "agent" /\ ValidateAgent(c)
  /\ c.log_level \in {"debug", "info", "warn", "warning", "error"} /\ c.log_format \in {"text", "json"}

-------------------------------------------------------------------------------
(* repos.yaml and stacks.yaml.  compose_file is [form, items], an item       *)
(* [form, file, policy, overrides], its overrides [form, paths]: a form is   *)
(* nothing, text, list, object or other.                                   *)

Policies == {"", "always", "changed"}

(* Mutant: an override may repeat the base. *)
OverridesAcceptedTwice(o, base) ==
  /\ o.form \in {"nothing", "list"}
  /\ \A i \in DOMAIN o.paths : o.paths[i] # "" /\ \A j \in 1 .. i - 1 : o.paths[j] # o.paths[i]

OverridesAccepted(o, base) ==
  /\ o.form \in {"nothing", "list"}
  /\ \A i \in DOMAIN o.paths : /\ o.paths[i] \notin {"", base}
                               /\ \A j \in 1 .. i - 1 : o.paths[j] # o.paths[i]

ComposeFileItem(item) ==
  [file |-> item.file,
   overrides |-> IF item.form = "object" THEN item.overrides.paths ELSE <<>>,
   policy |-> IF item.form = "object" THEN item.policy ELSE ""]
ItemAccepted(item) ==
  /\ item.form \in {"text", "object"} /\ item.file # ""
  /\ item.form = "object" => item.policy \in Policies /\ OverridesAccepted(item.overrides, item.file)

ComposeFilesAccepted(v) ==
  /\ v.form \in {"text", "list"} /\ v.items # <<>>
  /\ \A i \in DOMAIN v.items : ItemAccepted(v.items[i])
ComposeFiles(v) == [i \in DOMAIN v.items |-> ComposeFileItem(v.items[i])]

ReposAccepted(repos) == \A r \in DOMAIN repos : repos[r] # ""
StacksAccepted(f) ==
  \A s \in DOMAIN f.stacks :
    /\ f.stacks[s].repo # "" /\ f.stacks[s].repo \in DOMAIN f.repos
    /\ ComposeFilesAccepted(f.stacks[s].composeFile) /\ f.stacks[s].policy \in Policies
LoadGitOpsFails(f) == ~f.readable \/ ~ReposAccepted(f.repos) \/ ~StacksAccepted(f)

(* What the loop is given. *)
LoadGitOps(f) ==
  [s \in DOMAIN f.stacks |->
     [repo |-> f.stacks[s].repo, policy |-> f.stacks[s].policy,
      branch |-> IF f.stacks[s].branch = "" THEN "main" ELSE f.stacks[s].branch,
      groups |-> ComposeFiles(f.stacks[s].composeFile)]]

(* The policy of one deploy: the group's, the stack's, the setting. *)
EffectivePullPolicy(group, stack) ==
  IF group.policy # "" THEN group.policy
  ELSE IF stack.policy # "" THEN stack.policy ELSE config.gitops_pull_policy
AllFiles(group) == <<group.file>> \o group.overrides

-------------------------------------------------------------------------------
(* The process.                                                            *)

NoStacks == [s \in {} |-> ""]
NoSettings == [n \in {} |-> ""]
On(n) == config[n] = "true"
Exit == place' = "exit" /\ started' = {}
Enter(p) == place' = p /\ UNCHANGED started

(* LoadArgs: unreadable or invalid settings end it; no Docker client does, too. *)
Load ==
  /\ place = "start"
  /\ IF AllParse(env) /\ AllParse(args) /\ Validate(FromFlags)
     THEN config' = FromFlags /\ (Enter(FromFlags.mode) \/ Exit)
     ELSE UNCHANGED config /\ Exit
  /\ UNCHANGED <<env, args, files, providers, scanned, stacks>>

(* runAgent. *)
StartAgent ==
  /\ place = "agent" /\ place' = "running" /\ started' = {"metrics", "agent"}
  /\ UNCHANGED <<env, args, files, config, providers, scanned, stacks>>

(* runManager: the metric providers, *)
BuildMetrics ==
  /\ place = "manager"
  /\ providers' = {"dockerstats", "agents"} \cup (IF Blank(config.prometheus_url) THEN {} ELSE {"prometheus"})
  /\ IF config.metrics_provider \in providers' /\ config.prometheus_url # "not a url"
     THEN Enter("stackapi") ELSE Exit
  /\ UNCHANGED <<env, args, files, config, scanned, stacks>>

(* the stack names of the orphan scan (none if the files cannot be read), *)
WireStackAPI ==
  /\ place = "stackapi" /\ Enter("ingest")
  /\ scanned' = IF On("gitops_enabled") /\ On("orphans_scan") /\ ~LoadGitOpsFails(files)
                THEN DOMAIN files.stacks ELSE {}
  /\ UNCHANGED <<env, args, files, config, providers, stacks>>

(* the endpoint for reports, *)
StartIngest ==
  /\ place = "ingest" /\ place' = "gitops" /\ started' = {"ingest"}
  /\ UNCHANGED <<env, args, files, config, providers, scanned, stacks>>

(* the GitOps loop, from the files as they are by now (unless they or        *)
(* docker/cli fail),                                                        *)
StartGitOps ==
  /\ place = "gitops" /\ On("gitops_enabled")
  /\ \/ ~LoadGitOpsFails(files) /\ stacks' = LoadGitOps(files)
        /\ place' = "app" /\ started' = started \cup {"gitops"}
     \/ Exit /\ UNCHANGED stacks
  /\ UNCHANGED <<env, args, files, config, providers, scanned>>
SkipGitOps ==
  /\ place = "gitops" /\ ~On("gitops_enabled") /\ Enter("app")
  /\ UNCHANGED <<env, args, files, config, providers, scanned, stacks>>

(* the metrics server and the control loop.                                *)
RunApp ==
  /\ place = "app" /\ place' = "running" /\ started' = started \cup {"metrics", "reconcile"}
  /\ UNCHANGED <<env, args, files, config, providers, scanned, stacks>>

(* A signal.  The GitOps loop is not waited for. *)
Terminate ==
  /\ place = "running" /\ Exit
  /\ UNCHANGED <<env, args, files, config, providers, scanned, stacks>>

(* While they are still to be read. *)
EditFiles(f) ==
  /\ place \in {"stackapi", "ingest", "gitops"} /\ On("gitops_enabled") /\ files' = f
  /\ UNCHANGED <<env, args, place, config, providers, scanned, stacks, started>>

NotStarted ==
  /\ place = "start" /\ config = NoSettings /\ providers = {} /\ scanned = {}
  /\ stacks = NoStacks /\ started = {}
StartupInit == env \in Env /\ args \in Args /\ files \in GitOpsFiles /\ NotStarted

StartupNext ==
  \/ Load \/ StartAgent \/ BuildMetrics \/ WireStackAPI \/ StartIngest
  \/ StartGitOps \/ SkipGitOps \/ RunApp \/ Terminate
  \/ \E f \in GitOpsFiles : EditFiles(f)

StartupSpec == StartupInit /\ [][StartupNext]_startupVars

-------------------------------------------------------------------------------
(* Properties.                                                             *)

(* Every setting in use can be read as its type, and only stacks that the     *)
(* loop runs are known.                                                     *)
StartupTypeOK ==
  /\ config # NoSettings => DOMAIN config = Setting /\ \A n \in Setting : Parses(n, config[n])
  /\ place \in {"start", "agent", "manager", "stackapi", "ingest", "gitops", "app", "running", "exit"}
  /\ providers \subseteq {"dockerstats", "agents", "prometheus"}
  /\ started \subseteq {"ingest", "gitops", "metrics", "reconcile", "agent"}
  /\ "gitops" \notin started /\ place # "exit" => stacks = NoStacks

(* No accepted combination of the three layers starts a loop that cannot run: *)
(* every ticker has a positive interval (a ticker panics otherwise), the      *)
(* worker pool has the size set, reports are usable for a while and sent      *)
(* somewhere, and a service without a source label gets its metric.          *)
AcceptedSettingsRun ==
  /\ "reconcile" \in started =>
       /\ Above(config.poll_interval, 0) /\ Above(config.agent_stale_timeout, 0)
       /\ Route("", config.metrics_provider, providers) # "unavailable"
  /\ "gitops" \in started => Above(config.gitops_interval, 0) /\ Above(config.gitops_concurrency, 0)
  /\ "agent" \in started => Above(config.report_interval, 0) /\ ~Blank(config.manager_url)
  /\ "gitops" \in started /\ "reconcile" \in started => {"ingest", "metrics"} \subseteq started

(* Every stack the loop is started with can be deployed: it has a repository, *)
(* a branch and a group, no deploy is given a document twice or an empty      *)
(* path, and each resolves to a policy docker knows, whichever level sets it. *)
AcceptedStacksDeploy ==
  "gitops" \in started => \A s \in DOMAIN stacks :
    /\ stacks[s].repo # "" /\ stacks[s].branch # "" /\ stacks[s].groups # <<>>
    /\ \A i \in DOMAIN stacks[s].groups : LET g == stacks[s].groups[i] IN
         /\ IsInjective(AllFiles(g)) /\ "" \notin Range(AllFiles(g))
         /\ EffectivePullPolicy(g, stacks[s]) \in {"always", "changed"}
===============================================================================
