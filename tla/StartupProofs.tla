---------------------------- MODULE StartupProofs ----------------------------
(***************************************************************************)
(* Proofs about Startup, for every environment, command line and pair of   *)
(* GitOps files.                                                           *)
(***************************************************************************)
EXTENDS Startup, Induction

-------------------------------------------------------------------------------
(* Settings.                                                               *)

(* The settings that have a default of their own. *)
Named == {"scale_down_stabilization", "max_scale_step", "gitops_concurrency", "rebalance_threshold",
          "gitops_enabled", "log_level", "log_format", "metrics_provider", "mode", "gitops_pull_policy",
          "metrics_addr", "ingest_addr", "gitops_configs_path", "gitops_repos_path"}

LEMMA Defaults ==
  /\ DOMAIN Default = Setting
  /\ \A n \in Setting \ Named :
       Default[n] = IF n \in Duration THEN "2" ELSE IF n \in Switch THEN "true" ELSE ""
  /\ Default["scale_down_stabilization"] = "0" /\ Default["max_scale_step"] = "0"
  /\ Default["gitops_concurrency"] = "2" /\ Default["rebalance_threshold"] = "0.5"
  /\ Default["gitops_enabled"] = "false"
<1> DEFINE own == [scale_down_stabilization |-> "0", max_scale_step |-> "0", gitops_concurrency |-> "2",
        rebalance_threshold |-> "0.5", gitops_enabled |-> "false",
        log_level |-> "info", log_format |-> "text", metrics_provider |-> "dockerstats",
        mode |-> "manager", gitops_pull_policy |-> "always", metrics_addr |-> "metrics_addr",
        ingest_addr |-> "ingest_addr", gitops_configs_path |-> "gitops_configs_path",
        gitops_repos_path |-> "gitops_repos_path"]
           rest == Over([n \in Duration |-> "2"], Over([n \in Switch |-> "true"], [n \in Wording |-> ""]))
<1>1. Default = Over(own, rest)
  BY DEF Default
<1>2. DOMAIN own = Named
  BY DEF Named
<1>3. /\ own["scale_down_stabilization"] = "0" /\ own["max_scale_step"] = "0"
      /\ own["gitops_concurrency"] = "2" /\ own["rebalance_threshold"] = "0.5"
      /\ own["gitops_enabled"] = "false"
  OBVIOUS
<1> HIDE DEF own
<1>4. DOMAIN rest = Duration \cup Switch \cup Wording
      /\ \A n \in DOMAIN rest : rest[n] = IF n \in Duration THEN "2" ELSE IF n \in Switch THEN "true" ELSE ""
  BY DEF Over
<1> HIDE DEF rest
<1>5. Named \cup (Duration \cup Switch \cup Wording) = Setting
  BY DEF Named, Setting, Duration, Switch, Wording
<1>6. DOMAIN Default = Setting
      /\ \A n \in Setting : Default[n] = IF n \in Named THEN own[n] ELSE rest[n]
  BY <1>1, <1>2, <1>4, <1>5 DEF Over
<1>7. \A n \in Setting \ Named : n \in DOMAIN rest
  BY <1>4, <1>5
<1>8. {"scale_down_stabilization", "max_scale_step", "gitops_concurrency", "rebalance_threshold",
       "gitops_enabled"} \subseteq Named /\ Named \subseteq Setting
  BY <1>5 DEF Named
<1> QED
  BY <1>3, <1>4, <1>6, <1>7, <1>8

LEMMA DefaultsParse == \A n \in Setting : Parses(n, Default[n])
<1> SUFFICES ASSUME NEW n \in Setting
             PROVE  Parses(n, Default[n])
  OBVIOUS
<1>1. "0" \in DOMAIN Number /\ "2" \in DOMAIN Number /\ "0.5" \in DOMAIN Number
  BY DEF Number
<1>2. CASE n \in Duration
  <2>1. n \notin {"max_scale_step", "gitops_concurrency", "rebalance_threshold"} /\ n \notin Switch
        /\ (n \in Named => n = "scale_down_stabilization")
    BY <1>2 DEF Switch, Duration, Named
  <2> QED
    BY <1>1, <1>2, <2>1, Defaults DEF Parses
<1>3. CASE n \in Switch
  <2>1. n \notin {"max_scale_step", "gitops_concurrency", "rebalance_threshold"} /\ n \notin Duration
        /\ (n \in Named => n = "gitops_enabled")
    BY <1>3 DEF Switch, Duration, Named
  <2> QED
    BY <1>3, <2>1, Defaults DEF Parses
<1>4. CASE n \notin Duration \cup Switch
  BY <1>1, <1>4, Defaults DEF Parses
<1> QED
  BY <1>2, <1>3, <1>4

(* What is read from the three layers is one setting each, of its type. *)
LEMMA LayersParse ==
  ASSUME DOMAIN env \subseteq Setting, DOMAIN args \subseteq Setting, AllParse(env), AllParse(args)
  PROVE  DOMAIN FromFlags = Setting /\ \A n \in Setting : Parses(n, FromFlags[n])
<1>1. DOMAIN Default = Setting
  BY Defaults
<1>2. DOMAIN FromEnv = Setting
      /\ \A n \in Setting : FromEnv[n] = IF n \in DOMAIN env THEN env[n] ELSE Default[n]
  <2> HIDE DEF Default, Setting
  <2> QED
    BY <1>1 DEF FromEnv, Over
<1>3. DOMAIN FromFlags = Setting
      /\ \A n \in Setting : FromFlags[n] = IF n \in DOMAIN args THEN args[n] ELSE FromEnv[n]
  BY <1>2 DEF FromFlags, Over
<1> QED
  BY <1>2, <1>3, DefaultsParse DEF AllParse

(* A duration is a number, and a number of workers is one. *)
LEMMA NumbersCompare ==
  ASSUME NEW v
  PROVE  /\ v \in DOMAIN Number /\ ~AtMost(v, 0) => Above(v, 0)
         /\ v \in DOMAIN Number /\ ~Below(v, 1) => Above(v, 0)
<1>1. \A w \in DOMAIN Number : w # "NaN" /\ Number[w] \in Int
  BY DEF Number
<1>2. Number["0"] = 0 /\ Number["1"] = 2
  BY DEF Number
<1> QED
  BY <1>1, <1>2 DEF AtMost, Below, Above

-------------------------------------------------------------------------------
(* The inductive invariant.                                                *)

(* What is given is given in settings, and the files are as they may be. *)
Givens == DOMAIN env \subseteq Setting /\ DOMAIN args \subseteq Setting /\ files \in GitOpsFiles

(* The settings in use were read and validated. *)
Accepted ==
  config # NoSettings =>
    DOMAIN config = Setting /\ (\A n \in Setting : Parses(n, config[n])) /\ Validate(config)

(* How far each role has come tells what it has started, and with what. *)
Wired ==
  /\ place \in {"start", "agent", "manager", "stackapi", "ingest", "gitops", "app", "running", "exit"}
  /\ place \in {"start", "agent", "manager", "stackapi", "ingest", "exit"} => started = {}
  /\ place = "gitops" => started = {"ingest"}
  /\ place = "app" => started \in {{"ingest"}, {"ingest", "gitops"}}
  /\ place = "running" => started \in {{"metrics", "agent"}, {"ingest", "metrics", "reconcile"},
                                      {"ingest", "gitops", "metrics", "reconcile"}}
  /\ place = "agent" \/ "agent" \in started => config # NoSettings /\ config.mode = "agent"
  /\ place \in {"manager", "stackapi", "ingest", "gitops", "app"} \/ "reconcile" \in started =>
       config # NoSettings /\ config.mode = "manager"
  /\ place \in {"stackapi", "ingest", "gitops", "app"} \/ "reconcile" \in started =>
       config.metrics_provider \in providers
  /\ "gitops" \in started => config.gitops_enabled = "true"

(* The stacks of a loop are those of accepted files. *)
FromFiles ==
  /\ "gitops" \in started => \E f \in GitOpsFiles : ~LoadGitOpsFails(f) /\ stacks = LoadGitOps(f)
  /\ "gitops" \notin started /\ place # "exit" => stacks = NoStacks

ProvidersOK == providers \subseteq {"dockerstats", "agents", "prometheus"}

StartupInv == Givens /\ Accepted /\ Wired /\ FromFiles /\ ProvidersOK

-------------------------------------------------------------------------------
(* The steps.                                                              *)

LEMMA StartupInitInv == StartupInit => StartupInv
<1> SUFFICES ASSUME StartupInit
             PROVE  StartupInv
  OBVIOUS
<1>1. Givens
  BY StartupConstantsOK DEF StartupConstantsOK, StartupInit, Givens
<1>2. Wired /\ FromFiles /\ ProvidersOK /\ Accepted
  BY DEF StartupInit, NotStarted, Wired, FromFiles, ProvidersOK, Accepted
<1> QED
  BY <1>1, <1>2 DEF StartupInv

LEMMA LoadKeepsInv ==
  ASSUME StartupInv, Load
  PROVE  StartupInv'
<1>1. /\ place = "start" /\ started = {} /\ stacks = NoStacks
      /\ UNCHANGED <<env, args, files, providers, scanned, stacks>>
  BY DEF Load, StartupInv, Wired, FromFiles
<1>2. Givens' /\ ProvidersOK'
  BY <1>1 DEF StartupInv, Givens, ProvidersOK
<1>3. CASE AllParse(env) /\ AllParse(args) /\ Validate(FromFlags)
  <2> DEFINE c == FromFlags
  <2>1. DOMAIN c = Setting /\ \A n \in Setting : Parses(n, c[n])
    BY <1>3, LayersParse DEF StartupInv, Givens
  <2>2. c.mode \in {"manager", "agent"}
    BY <1>3 DEF Validate
  <2>3. c # NoSettings
    BY <2>1 DEF NoSettings, Setting, Duration
  <2>4. config' = c /\ ((place' = c.mode /\ started' = started) \/ (place' = "exit" /\ started' = {}))
    <3>1. config' = FromFlags /\ (Enter(FromFlags.mode) \/ Exit)
      BY <1>3 DEF Load
    <3> QED
      BY <3>1 DEF Enter, Exit
  <2> HIDE DEF c
  <2>5. Accepted'
    BY <2>1, <2>4, <1>3 DEF Accepted, c
  <2>6. Wired' /\ FromFiles'
    BY <2>2, <2>3, <2>4, <1>1 DEF Wired, FromFiles
  <2> QED
    BY <1>2, <2>5, <2>6 DEF StartupInv
<1>4. CASE ~(AllParse(env) /\ AllParse(args) /\ Validate(FromFlags))
  <2>1. config' = config /\ place' = "exit" /\ started' = {}
    BY <1>4 DEF Load, Exit
  <2>2. Accepted' /\ Wired' /\ FromFiles'
    BY <2>1, <1>1 DEF StartupInv, Accepted, Validate, ValidateManager, ValidateAgent, Wired, FromFiles
  <2> QED
    BY <1>2, <2>2 DEF StartupInv
<1> QED
  BY <1>3, <1>4

(* The later steps leave the settings. *)
LEMMA SettingsKept ==
  ASSUME StartupInv, UNCHANGED <<env, args, config>>, files' \in GitOpsFiles
  PROVE  Givens' /\ Accepted'
<1>1. config' = config
  OBVIOUS
<1>2. Accepted'
  BY <1>1 DEF StartupInv, Accepted, Validate, ValidateManager, ValidateAgent
<1> QED
  BY <1>2 DEF StartupInv, Givens

LEMMA WiringKeepsInv ==
  ASSUME StartupInv,
         StartAgent \/ BuildMetrics \/ WireStackAPI \/ StartIngest \/ SkipGitOps \/ RunApp
  PROVE  StartupInv'
<1>1. UNCHANGED <<env, args, files, config, stacks>>
  BY DEF StartAgent, BuildMetrics, WireStackAPI, StartIngest, SkipGitOps, RunApp
<1>2. Givens' /\ Accepted'
  BY <1>1, SettingsKept DEF StartupInv, Givens
<1>3. ASSUME StartAgent
      PROVE  Wired' /\ FromFiles' /\ ProvidersOK'
  BY <1>3 DEF StartAgent, StartupInv, Wired, FromFiles, ProvidersOK
<1>4. ASSUME BuildMetrics
      PROVE  Wired' /\ FromFiles' /\ ProvidersOK'
  BY <1>4 DEF BuildMetrics, Enter, Exit, StartupInv, Wired, FromFiles, ProvidersOK
<1>5. ASSUME WireStackAPI
      PROVE  Wired' /\ FromFiles' /\ ProvidersOK'
  BY <1>5 DEF WireStackAPI, Enter, StartupInv, Wired, FromFiles, ProvidersOK
<1>6. ASSUME StartIngest
      PROVE  Wired' /\ FromFiles' /\ ProvidersOK'
  BY <1>6 DEF StartIngest, StartupInv, Wired, FromFiles, ProvidersOK
<1>7. ASSUME SkipGitOps
      PROVE  Wired' /\ FromFiles' /\ ProvidersOK'
  BY <1>7 DEF SkipGitOps, Enter, StartupInv, Wired, FromFiles, ProvidersOK
<1>8. ASSUME RunApp
      PROVE  Wired' /\ FromFiles' /\ ProvidersOK'
  BY <1>8 DEF RunApp, StartupInv, Wired, FromFiles, ProvidersOK
<1> QED
  BY <1>2, <1>3, <1>4, <1>5, <1>6, <1>7, <1>8 DEF StartupInv

LEMMA StartGitOpsKeepsInv ==
  ASSUME StartupInv, StartGitOps
  PROVE  StartupInv'
<1>1. /\ place = "gitops" /\ started = {"ingest"} /\ On("gitops_enabled") /\ stacks = NoStacks
      /\ UNCHANGED <<env, args, files, config, providers, scanned>> /\ files \in GitOpsFiles
  BY DEF StartGitOps, StartupInv, Givens, Wired, FromFiles
<1>2. Givens' /\ Accepted' /\ ProvidersOK'
  BY <1>1, SettingsKept DEF StartupInv, ProvidersOK
<1>3. CASE ~LoadGitOpsFails(files) /\ stacks' = LoadGitOps(files)
           /\ place' = "app" /\ started' = started \cup {"gitops"}
  <2>1. started' = {"ingest", "gitops"}
    BY <1>1, <1>3
  <2>2. FromFiles'
    BY <1>1, <1>3, <2>1 DEF FromFiles
  <2>3. Wired'
    BY <1>1, <1>3, <2>1 DEF StartupInv, Wired, On
  <2> QED
    BY <1>2, <2>2, <2>3 DEF StartupInv
<1>4. CASE Exit /\ UNCHANGED stacks
  BY <1>1, <1>2, <1>4 DEF Exit, StartupInv, Wired, FromFiles
<1> QED
  BY <1>3, <1>4 DEF StartGitOps

LEMMA StartupNextInv == StartupInv /\ [StartupNext]_startupVars => StartupInv'
<1> SUFFICES ASSUME StartupInv, [StartupNext]_startupVars
             PROVE  StartupInv'
  OBVIOUS
<1>1. ASSUME NEW f \in GitOpsFiles, EditFiles(f)
      PROVE  StartupInv'
  <2>1. UNCHANGED <<env, args, config, place, providers, stacks, started>> /\ files' \in GitOpsFiles
    BY <1>1 DEF EditFiles
  <2>2. Givens' /\ Accepted'
    BY <2>1, SettingsKept
  <2> QED
    BY <2>1, <2>2 DEF StartupInv, Wired, FromFiles, ProvidersOK
<1>2. CASE Terminate
  <2>1. UNCHANGED <<env, args, files, config, providers, stacks>> /\ place' = "exit" /\ started' = {}
    BY <1>2 DEF Terminate, Exit
  <2>2. Givens' /\ Accepted'
    BY <2>1, SettingsKept DEF StartupInv, Givens
  <2> QED
    BY <2>1, <2>2 DEF StartupInv, Wired, FromFiles, ProvidersOK
<1>3. CASE UNCHANGED startupVars
  <2>1. UNCHANGED <<env, args, files, config, place, providers, stacks, started>>
    BY <1>3 DEF startupVars
  <2>2. Givens' /\ Accepted'
    BY <2>1, SettingsKept DEF StartupInv, Givens
  <2> QED
    BY <2>1, <2>2 DEF StartupInv, Wired, FromFiles, ProvidersOK
<1> QED
  BY <1>1, <1>2, <1>3, LoadKeepsInv, WiringKeepsInv, StartGitOpsKeepsInv DEF StartupNext

LEMMA StartupSpecInv == StartupSpec => []StartupInv
BY StartupInitInv, StartupNextInv, PTL DEF StartupSpec

-------------------------------------------------------------------------------
(* The theorems.                                                           *)

(* Every setting in use was read as its type, from whichever layer, and no   *)
(* stacks are known to a process that runs no GitOps loop.                   *)
THEOREM StartupTyped == StartupSpec => []StartupTypeOK
<1>1. StartupInv => StartupTypeOK
  BY DEF StartupInv, Accepted, Wired, FromFiles, ProvidersOK, StartupTypeOK
<1> QED
  BY <1>1, StartupSpecInv, PTL

LEMMA LoopsCanRun ==
  ASSUME StartupInv
  PROVE  AcceptedSettingsRun
<1>1. CASE "reconcile" \in started
  <2>1. config # NoSettings /\ config.mode = "manager" /\ config.metrics_provider \in providers
    BY <1>1 DEF StartupInv, Wired
  <2>2. (\A n \in Setting : Parses(n, config[n])) /\ Validate(config)
    BY <2>1 DEF StartupInv, Accepted
  <2>3. ~AtMost(config.poll_interval, 0) /\ ValidateManager(config)
    BY <2>1, <2>2 DEF Validate
  <2>4. /\ ~AtMost(config.agent_stale_timeout, 0)
        /\ config.metrics_provider \in {"dockerstats", "agents", "prometheus"}
    BY <2>3 DEF ValidateManager
  <2>5. {"poll_interval", "agent_stale_timeout"} \subseteq Setting \cap Duration
    BY DEF Setting, Duration
  <2>6. config.poll_interval \in DOMAIN Number /\ config.agent_stale_timeout \in DOMAIN Number
    BY <2>2, <2>5 DEF Parses
  <2>7. Above(config.poll_interval, 0) /\ Above(config.agent_stale_timeout, 0)
    BY <2>3, <2>4, <2>6, NumbersCompare
  <2>8. Route("", config.metrics_provider, providers) # "unavailable"
    BY <2>1, <2>4 DEF Route
  <2>9. "gitops" \in started => {"ingest", "metrics"} \subseteq started
    BY <1>1 DEF StartupInv, Wired
  <2>10. "agent" \notin started
    BY <1>1 DEF StartupInv, Wired
  <2>11. "gitops" \in started =>
           Above(config.gitops_interval, 0) /\ Above(config.gitops_concurrency, 0)
    <3> SUFFICES ASSUME "gitops" \in started
                 PROVE  Above(config.gitops_interval, 0) /\ Above(config.gitops_concurrency, 0)
      OBVIOUS
    <3>1. ~AtMost(config.gitops_interval, 0) /\ ~Below(config.gitops_concurrency, 1)
      BY <2>3 DEF StartupInv, Wired, ValidateManager
    <3>2. "gitops_interval" \in Setting \cap Duration /\ "gitops_concurrency" \in Setting
      BY DEF Setting, Duration
    <3>3. config.gitops_interval \in DOMAIN Number /\ config.gitops_concurrency \in {"-1", "0", "1", "2"}
      BY <2>2, <3>2 DEF Parses
    <3>4. {"-1", "0", "1", "2"} \subseteq DOMAIN Number
      BY DEF Number
    <3> QED
      BY <3>1, <3>3, <3>4, NumbersCompare
  <2> QED
    BY <2>7, <2>8, <2>9, <2>10, <2>11 DEF AcceptedSettingsRun
<1>2. CASE "reconcile" \notin started /\ "gitops" \in started
  <2>1. config # NoSettings /\ config.mode = "manager" /\ config.gitops_enabled = "true"
    BY <1>2 DEF StartupInv, Wired
  <2>2. (\A n \in Setting : Parses(n, config[n])) /\ Validate(config)
    BY <2>1 DEF StartupInv, Accepted
  <2>3. ValidateManager(config)
    BY <2>1, <2>2 DEF Validate
  <2>4. ~AtMost(config.gitops_interval, 0) /\ ~Below(config.gitops_concurrency, 1)
    BY <2>1, <2>3 DEF ValidateManager
  <2>5. "gitops_interval" \in Setting \cap Duration /\ "gitops_concurrency" \in Setting
    BY DEF Setting, Duration
  <2>6. config.gitops_interval \in DOMAIN Number /\ config.gitops_concurrency \in {"-1", "0", "1", "2"}
    BY <2>2, <2>5 DEF Parses
  <2>7. {"-1", "0", "1", "2"} \subseteq DOMAIN Number
    BY DEF Number
  <2>8. "agent" \notin started
    BY <1>2 DEF StartupInv, Wired
  <2> QED
    BY <1>2, <2>4, <2>6, <2>7, <2>8, NumbersCompare DEF AcceptedSettingsRun
<1>3. CASE "agent" \in started
  <2>1. config # NoSettings /\ config.mode = "agent" /\ "reconcile" \notin started /\ "gitops" \notin started
    BY <1>3 DEF StartupInv, Wired
  <2>2. (\A n \in Setting : Parses(n, config[n])) /\ Validate(config)
    BY <2>1 DEF StartupInv, Accepted
  <2>3. ValidateAgent(config)
    BY <2>1, <2>2 DEF Validate
  <2>4. "report_interval" \in Setting \cap Duration
    BY DEF Setting, Duration
  <2>5. config.report_interval \in DOMAIN Number
    BY <2>2, <2>4 DEF Parses
  <2> QED
    BY <2>1, <2>3, <2>5, NumbersCompare DEF AcceptedSettingsRun, ValidateAgent
<1>4. CASE "reconcile" \notin started /\ "gitops" \notin started /\ "agent" \notin started
  BY <1>4 DEF AcceptedSettingsRun
<1> QED
  BY <1>1, <1>2, <1>3, <1>4

(* No accepted combination of defaults, environment and flags starts a loop  *)
(* that cannot run.                                                        *)
THEOREM AcceptedCanRun == StartupSpec => []AcceptedSettingsRun
BY LoopsCanRun, StartupSpecInv, PTL

(* The files of an accepted group are different and none is empty. *)
LEMMA GroupFiles ==
  ASSUME NEW item, ItemAccepted(item), item.overrides.paths \in Seq(Range(item.overrides.paths))
  PROVE  LET g == ComposeFileItem(item) IN
         /\ IsInjective(AllFiles(g)) /\ "" \notin Range(AllFiles(g)) /\ g.policy \in Policies
<1> DEFINE g == ComposeFileItem(item)
           paths == g.overrides
           all == AllFiles(g)
           n == Len(paths)
<1>1. g.file # "" /\ g.policy \in Policies /\ g.file = item.file
  BY DEF ComposeFileItem, ItemAccepted, Policies
<1>0. \/ paths = <<>>
      \/ item.form = "object" /\ paths = item.overrides.paths
  BY DEF ComposeFileItem
<1>2. paths \in Seq(Range(item.overrides.paths))
  <2>1. \A S : <<>> \in Seq(S)
    OBVIOUS
  <2>2. CASE paths = <<>>
    <3> HIDE DEF paths
    <3> QED
      BY <2>1, <2>2
  <2>3. CASE paths = item.overrides.paths
    <3> HIDE DEF paths
    <3> QED
      BY <2>3
  <2> QED
    BY <1>0, <2>2, <2>3
<1>3. \A i \in DOMAIN paths : paths[i] \notin {"", g.file} /\ \A j \in 1 .. i - 1 : paths[j] # paths[i]
  <2>1. CASE paths = <<>>
    <3>1. DOMAIN paths = {}
      <4>1. DOMAIN <<>> = {}
        OBVIOUS
      <4> HIDE DEF paths
      <4> QED
        BY <2>1, <4>1
    <3> HIDE DEF paths
    <3> QED
      BY <3>1
  <2>2. CASE item.form = "object" /\ paths = item.overrides.paths
    <3>1. OverridesAccepted(item.overrides, item.file)
      BY <2>2 DEF ItemAccepted
    <3> HIDE DEF g, paths
    <3> QED
      BY <2>2, <3>1, <1>1 DEF OverridesAccepted
  <2> QED
    BY <1>0, <2>1, <2>2
<1>4. all = <<g.file>> \o paths
  BY DEF AllFiles
<1> HIDE DEF g, paths, all
<1>5. DOMAIN paths = 1 .. n /\ n \in Nat
  BY <1>2
<1>6. /\ DOMAIN all = 1 .. n + 1 /\ all[1] = g.file
      /\ \A i \in 2 .. n + 1 : i - 1 \in 1 .. n /\ all[i] = paths[i - 1]
  <2> DEFINE R == Range(item.overrides.paths) \cup {g.file}
  <2>1. <<g.file>> \in Seq(R) /\ paths \in Seq(R) /\ Len(<<g.file>>) = 1
    <3>1. g.file \in R /\ Range(item.overrides.paths) \subseteq R
      OBVIOUS
    <3> HIDE DEF R
    <3>2. paths \in [1 .. n -> R]
      BY <1>2, <1>5, <3>1
    <3> QED
      BY <3>1, <3>2, <1>5
  <2> HIDE DEF R
  <2> QED
    BY <2>1, <1>4, <1>5
<1>7. \A i, j \in 1 .. n : i # j => paths[i] # paths[j]
  <2> SUFFICES ASSUME NEW i \in 1 .. n, NEW j \in 1 .. n, j < i
               PROVE  paths[j] # paths[i]
    BY <1>5
  <2>1. i \in DOMAIN paths /\ j \in 1 .. i - 1
    BY <1>5
  <2> QED
    BY <2>1, <1>3
<1>8. IsInjective(all)
  <2> SUFFICES ASSUME NEW i \in 1 .. n + 1, NEW j \in 1 .. n + 1, i < j
               PROVE  all[i] # all[j]
    BY <1>5, <1>6 DEF IsInjective
  <2>1. j \in 2 .. n + 1 /\ all[j] = paths[j - 1] /\ j - 1 \in 1 .. n
    BY <1>6, <1>5
  <2>2. CASE i = 1
    BY <2>1, <2>2, <1>3, <1>5, <1>6
  <2>3. CASE i # 1
    <3>1. i \in 2 .. n + 1
      BY <2>3, <1>5
    <3>2. all[i] = paths[i - 1] /\ i - 1 \in 1 .. n /\ i - 1 # j - 1
      BY <3>1, <1>6, <1>5
    <3> QED
      BY <2>1, <3>2, <1>7
  <2> QED
    BY <2>2, <2>3
<1>9. "" \notin Range(all)
  <2> SUFFICES ASSUME NEW i \in 1 .. n + 1
               PROVE  all[i] # ""
    BY <1>6 DEF Range
  <2>1. CASE i = 1
    BY <2>1, <1>1, <1>6
  <2>2. CASE i # 1
    <3>1. i \in 2 .. n + 1
      BY <2>2, <1>5
    <3> QED
      BY <3>1, <1>3, <1>5, <1>6
  <2> QED
    BY <2>1, <2>2
<1> QED
  BY <1>1, <1>8, <1>9 DEF g, all

LEMMA StacksCanBeDeployed ==
  ASSUME StartupInv
  PROVE  AcceptedStacksDeploy
<1> SUFFICES ASSUME "gitops" \in started, NEW s \in DOMAIN stacks
             PROVE  /\ stacks[s].repo # "" /\ stacks[s].branch # "" /\ stacks[s].groups # <<>>
                    /\ \A i \in DOMAIN stacks[s].groups : LET g == stacks[s].groups[i] IN
                         /\ IsInjective(AllFiles(g)) /\ "" \notin Range(AllFiles(g))
                         /\ EffectivePullPolicy(g, stacks[s]) \in {"always", "changed"}
  BY DEF AcceptedStacksDeploy
<1>1. config.gitops_pull_policy \in {"always", "changed"}
  <2>1. place # "exit" /\ place # "start" /\ "agent" \notin started
    BY DEF StartupInv, Wired
  <2>2. config # NoSettings /\ config.mode = "manager" /\ config.gitops_enabled = "true"
    BY DEF StartupInv, Wired
  <2>3. ValidateManager(config)
    BY <2>2 DEF StartupInv, Accepted, Validate
  <2> QED
    BY <2>2, <2>3 DEF ValidateManager
<1>2. PICK f \in GitOpsFiles : ~LoadGitOpsFails(f) /\ stacks = LoadGitOps(f)
  BY DEF StartupInv, FromFiles
<1> DEFINE stack == f.stacks[s]
           items == stack.composeFile.items
<1>3. s \in DOMAIN f.stacks
  BY <1>2 DEF LoadGitOps
<1>4. /\ stack.repo # "" /\ ComposeFilesAccepted(stack.composeFile) /\ stack.policy \in Policies
  BY <1>2, <1>3 DEF LoadGitOpsFails, StacksAccepted
<1>5. /\ stacks[s].repo = stack.repo /\ stacks[s].policy = stack.policy
      /\ stacks[s].branch = IF stack.branch = "" THEN "main" ELSE stack.branch
      /\ stacks[s].groups = [i \in DOMAIN items |-> ComposeFileItem(items[i])]
  BY <1>2, <1>3 DEF LoadGitOps, ComposeFiles
<1>6. items # <<>> /\ \A i \in DOMAIN items : ItemAccepted(items[i])
  BY <1>4 DEF ComposeFilesAccepted
<1>7. /\ items \in Seq(Range(items))
      /\ \A i \in DOMAIN items : items[i].overrides.paths \in Seq(Range(items[i].overrides.paths))
  BY <1>3, StartupConstantsOK DEF StartupConstantsOK
<1> HIDE DEF stack, items
<1>8. stacks[s].groups # <<>>
  <2>1. 1 \in DOMAIN items
    BY <1>6, <1>7
  <2>2. DOMAIN stacks[s].groups = DOMAIN items
    BY <1>5
  <2>3. DOMAIN <<>> = {}
    OBVIOUS
  <2> QED
    BY <2>1, <2>2, <2>3
<1>9. ASSUME NEW i \in DOMAIN stacks[s].groups
      PROVE  LET g == stacks[s].groups[i] IN
             /\ IsInjective(AllFiles(g)) /\ "" \notin Range(AllFiles(g))
             /\ EffectivePullPolicy(g, stacks[s]) \in {"always", "changed"}
  <2> DEFINE g == ComposeFileItem(items[i])
  <2>1. i \in DOMAIN items /\ stacks[s].groups[i] = g
    BY <1>5
  <2>2. IsInjective(AllFiles(g)) /\ "" \notin Range(AllFiles(g)) /\ g.policy \in Policies
    BY <2>1, <1>6, <1>7, GroupFiles
  <2>3. EffectivePullPolicy(g, stacks[s]) \in {"always", "changed"}
    <3> HIDE DEF g
    <3> QED
      BY <2>2, <1>1, <1>4, <1>5 DEF EffectivePullPolicy, Policies
  <2> QED
    BY <2>1, <2>2, <2>3
<1> QED
  BY <1>4, <1>5, <1>8, <1>9

(* Every stack the loop is started with can be deployed, whatever the two    *)
(* files hold and however they are edited while the manager starts.         *)
THEOREM AcceptedAreDeployable == StartupSpec => []AcceptedStacksDeploy
BY StacksCanBeDeployed, StartupSpecInv, PTL

-------------------------------------------------------------------------------
(* The metric sources.                                                     *)

LEMMA SharesAreNumbers ==
  ASSUME NEW c \in Container, Readable(c)
  PROVE  /\ CPUPercent(ReadStats(c)).value \in Int /\ MemPercent(ReadStats(c)).value \in Int
         /\ ~CPUPercent(ReadStats(c)).ok => CPUPercent(ReadStats(c)).value = 0
         /\ ~MemPercent(ReadStats(c)).ok => MemPercent(ReadStats(c)).value = 0
<1> DEFINE s == ReadStats(c)
<1>1. s \in Stats
  <2>1. c.frames \in Seq(Stats) /\ c.frames # <<>>
    BY MetricsConstantsOK DEF MetricsConstantsOK, Readable
  <2> DEFINE i == IF Len(c.frames) >= 2 THEN 2 ELSE 1
             frames == c.frames
  <2> HIDE DEF frames
  <2>2. Len(frames) \in Nat /\ Len(frames) # 0
    BY <2>1 DEF frames
  <2>3. i \in 1 .. Len(frames)
    BY <2>2 DEF frames
  <2> HIDE DEF i
  <2>4. frames[i] \in Stats
    BY <2>1, <2>3 DEF frames
  <2> QED
    BY <2>4 DEF ReadStats, i, frames
<1>2. /\ s.total \in Nat /\ s.preTotal \in Nat /\ s.system \in Nat /\ s.preSystem \in Nat
      /\ s.online \in Nat /\ s.percpu \in Nat /\ s.usage \in Nat /\ s.limit \in Nat
      /\ s.inactive \in Nat \cup {NoFile}
  BY <1>1 DEF Stats
<1> HIDE DEF s
<1>3. NotComputable.value = 0 /\ NotComputable.ok = FALSE /\ \A v : Computed(v).value = v /\ Computed(v).ok = TRUE
  BY DEF NotComputable, Computed
<1>4. CPUPercent(s).value \in Int /\ (~CPUPercent(s).ok => CPUPercent(s).value = 0)
  <2> DEFINE cpuDelta == s.total - s.preTotal
             sysDelta == s.system - s.preSystem
             quotient == (cpuDelta * OnlineCPUs(s) * 100) \div sysDelta
  <2>1. CASE cpuDelta <= 0 \/ sysDelta <= 0
    <3>1. CPUPercent(s) = NotComputable
      BY <2>1 DEF CPUPercent
    <3> QED
      BY <3>1, <1>3
  <2>2. CASE ~(cpuDelta <= 0 \/ sysDelta <= 0)
    <3>1. CPUPercent(s) = Computed(quotient)
      BY <2>2 DEF CPUPercent
    <3>2. cpuDelta \in Nat /\ sysDelta \in Nat /\ sysDelta > 0
      BY <2>2, <1>2
    <3>3. OnlineCPUs(s) \in Nat
      BY <1>2 DEF OnlineCPUs
    <3>4. quotient \in Int
      <4> HIDE DEF cpuDelta, sysDelta
      <4>1. cpuDelta * OnlineCPUs(s) * 100 \in Nat
        BY <3>2, <3>3
      <4> QED
        BY <4>1, <3>2
    <3> HIDE DEF quotient
    <3> QED
      BY <3>1, <3>4, <1>3
  <2> QED
    BY <2>1, <2>2
<1>5. MemPercent(s).value \in Int /\ (~MemPercent(s).ok => MemPercent(s).value = 0)
  <2> DEFINE quotient == (MemUsageBytes(s) * 100) \div s.limit
  <2>1. CASE s.limit <= 0
    <3>1. MemPercent(s) = NotComputable
      BY <2>1 DEF MemPercent
    <3> QED
      BY <3>1, <1>3
  <2>2. CASE ~(s.limit <= 0)
    <3>1. MemPercent(s) = Computed(quotient)
      BY <2>2 DEF MemPercent
    <3>2. MemUsageBytes(s) \in Int
      BY <1>2 DEF MemUsageBytes, NoFile
    <3>3. quotient \in Int
      BY <3>2, <2>2, <1>2
    <3> HIDE DEF quotient
    <3> QED
      BY <3>1, <3>3, <1>3
  <2> QED
    BY <2>1, <2>2
<1> QED
  BY <1>4, <1>5 DEF s

(* The answer of the sum over A: *)
Answers(answer, A, sum) ==
  /\ answer.sum = sum /\ answer.n = Cardinality(A)
  /\ answer.kind = IF A = {} THEN "no data" ELSE "value"

(* What a source answers of the values, put as one sum over the containers. *)
LEMMA AnsweredIs ==
  ASSUME NEW f \in [Container -> Int], NEW h, Sums(h, f, Container),
         NEW A \in SUBSET Container, NEW g \in [A -> Int], \A c \in A : g[c] = f[c]
  PROVE  Answers(Answered(g), A, h[A])
<1>1. IsFiniteSet(Container)
  BY MetricsConstantsOK DEF MetricsConstantsOK
<1>2. DOMAIN g = A
  OBVIOUS
<1>3. CASE A = {}
  <2> DEFINE none == [kind |-> "no data", sum |-> 0, n |-> 0]
  <2>1. Answered(g) = none
    BY <1>2, <1>3 DEF Answered
  <2>2. none.sum = 0 /\ none.n = 0
    OBVIOUS
  <2>3. none.kind = "no data"
    OBVIOUS
  <2>4. h[A] = 0
    BY <1>3 DEF Sums
  <2>5. Cardinality(A) = 0
    BY <1>3, FS_EmptySet
  <2> HIDE DEF none
  <2> QED
    BY <2>1, <2>2, <2>3, <2>4, <2>5, <1>3 DEF Answers
<1>4. CASE A # {}
  <2>1. Answered(g) = [kind |-> "value", sum |-> SumFunction(g), n |-> Cardinality(A)]
    BY <1>2, <1>4 DEF Answered
  <2>2. SumFunction(g) = h[A]
    BY <1>1, SumOfPart
  <2> QED
    BY <2>1, <2>2, <1>4 DEF Answers
<1> QED
  BY <1>3, <1>4

(* Both sources are of one supported metric. *)
LEMMA SourcesOfAService ==
  ASSUME containers \in SUBSET Container, NEW s \in Services, NEW m
  PROVE  LET agents == DistributedValue(s, m)
             docker == DockerstatsValue(s, m)
         IN  /\ agents.kind = "error" <=> docker.kind = "error"
             /\ agents.kind = "no data" => docker.kind = "no data"
             /\ (\A c \in containers : c.service = s => c.wanted) =>
                  /\ agents.sum = docker.sum /\ agents.n >= docker.n
                  /\ docker.kind = "no data" => agents.sum = 0
<1>1. CASE ~IsCPU(m) /\ ~IsMemory(m)
  <2>1. DistributedValue(s, m) = Unsupported /\ DockerstatsValue(s, m) = Unsupported
    BY <1>1 DEF DistributedValue, DockerstatsValue
  <2>2. Unsupported.kind = "error" /\ Unsupported.sum = 0 /\ Unsupported.n = 0
    BY DEF Unsupported
  <2> QED
    BY <2>1, <2>2
<1>2. CASE IsCPU(m) \/ IsMemory(m)
  <2> DEFINE A == {r \in Reported : r.service = s}
             D == {r \in containers : /\ r.service = s /\ r.wanted /\ Readable(r)
                                      /\ ComputeFor(m, ReadStats(r)).ok}
             f == [c \in Container |-> IF Readable(c) THEN Selected(m, c) ELSE 0]
             a == [c \in A |-> Selected(m, c)]
             d == [c \in D |-> ComputeFor(m, ReadStats(c)).value]
  <2>1. DistributedValue(s, m) = Answered(a) /\ DockerstatsValue(s, m) = Answered(d)
    BY <1>2 DEF DistributedValue, DockerstatsValue
  <2>2. IsFiniteSet(Container)
    BY MetricsConstantsOK DEF MetricsConstantsOK
  <2>3. \A c \in Container : Readable(c) =>
          /\ Selected(m, c) \in Int /\ Selected(m, c) = ComputeFor(m, ReadStats(c)).value
          /\ ~ComputeFor(m, ReadStats(c)).ok => Selected(m, c) = 0
    BY SharesAreNumbers DEF Selected, TaskMetric, ComputeFor
  <2>4. A \in SUBSET Container /\ D \in SUBSET A /\ \A c \in A : Readable(c)
    BY DEF Reported
  <2>5. f \in [Container -> Int]
    BY <2>3
  <2>6. \A c \in Container : Readable(c) => f[c] = Selected(m, c)
    OBVIOUS
  <2>7. a \in [A -> Int] /\ \A c \in A : a[c] = f[c]
    BY <2>3, <2>4
  <2>8. d \in [D -> Int] /\ \A c \in D : d[c] = f[c]
    BY <2>3, <2>4
  <2>9. (\A c \in containers : c.service = s => c.wanted) => \A c \in A \ D : f[c] = 0
    <3> SUFFICES ASSUME \A c \in containers : c.service = s => c.wanted, NEW c \in A \ D
                 PROVE  f[c] = 0
      OBVIOUS
    <3>1. c \in containers /\ c.service = s /\ c.wanted /\ Readable(c) /\ c \in Container
      BY DEF Reported
    <3>2. ~ComputeFor(m, ReadStats(c)).ok
      BY <3>1
    <3> QED
      BY <3>1, <3>2, <2>3, <2>6
  <2> HIDE DEF A, D, f, a, d
  <2>10. PICK h : Sums(h, f, Container)
    BY <2>2, <2>5, SumIs
  <2>11. A \in SUBSET Container
    BY <2>4
  <2>12. D \in SUBSET Container
    BY <2>4
  <2>13. Answers(Answered(a), A, h[A])
    <3>1. a \in [A -> Int]
      BY <2>7
    <3>2. \A c \in A : a[c] = f[c]
      BY <2>7
    <3> QED
      BY <3>1, <3>2, <2>5, <2>10, <2>11, AnsweredIs
  <2>14. Answers(Answered(d), D, h[D])
    <3>1. d \in [D -> Int]
      BY <2>8
    <3>2. \A c \in D : d[c] = f[c]
      BY <2>8
    <3> QED
      BY <3>1, <3>2, <2>5, <2>10, <2>12, AnsweredIs
  <2>15. (\A c \in A \ D : f[c] = 0) => h[A] = h[D]
    <3>1. D \in SUBSET A
      BY <2>4
    <3> QED
      BY <3>1, <2>2, <2>5, <2>10, <2>11, SumWithoutZeros
  <2>16. Cardinality(A) >= Cardinality(D)
    <3>1. IsFiniteSet(A)
      BY <2>2, <2>11, FS_Subset
    <3>2. D \in SUBSET A
      BY <2>4
    <3>3. Cardinality(D) <= Cardinality(A) /\ IsFiniteSet(D)
      BY <3>1, <3>2, FS_Subset
    <3>4. Cardinality(D) \in Nat /\ Cardinality(A) \in Nat
      BY <3>1, <3>3, FS_CardinalityType
    <3> QED
      BY <3>3, <3>4
  <2>17. D = {} => h[D] = 0
    BY <2>10 DEF Sums
  <2>18. A = {} => D = {}
    BY <2>4
  <2> QED
    BY <2>1, <2>9, <2>13, <2>14, <2>15, <2>16, <2>17, <2>18 DEF Answers
<1> QED
  BY <1>1, <1>2

LEMMA LoadIsTheSum ==
  ASSUME containers \in SUBSET Container, Cores > 0
  PROVE  NodeLoad.cpu = SumFunction([s \in Services |-> DistributedValue(s, "cpu").sum]) \div Cores
<1> DEFINE f == [c \in Container |-> IF Readable(c) THEN TaskMetric(c).cpu ELSE 0]
           all == [c \in Reported |-> TaskMetric(c).cpu]
           kind == [c \in Container |-> c.service]
           group == [s \in Services |-> DistributedValue(s, "cpu").sum]
<1>1. IsFiniteSet(Container)
  BY MetricsConstantsOK DEF MetricsConstantsOK
<1>2. Reported \in SUBSET Container /\ \A c \in Reported : Readable(c)
  BY DEF Reported
<1>3. \A c \in Container : Readable(c) => TaskMetric(c).cpu \in Int
  BY SharesAreNumbers DEF TaskMetric
<1>4. f \in [Container -> Int]
  BY <1>3
<1>5. all \in [Reported -> Int]
  BY <1>2, <1>3
<1>6. \A c \in Reported : all[c] = f[c]
  BY <1>2
<1>7. kind \in [Container -> Services]
  BY DEF Services
<1>8. IsFiniteSet(Services)
  <2>1. kind \in Surjection(Container, Services)
    BY <1>7 DEF Surjection, Services
  <2> HIDE DEF kind
  <2> QED
    BY <2>1, <1>1, FS_Surjection
<1>9. NodeLoad.cpu = SumFunction(all) \div Cores
  BY DEF NodeLoad
<1>10. PICK h : Sums(h, f, Container)
  <2> HIDE DEF f
  <2> QED
    BY <1>1, <1>4, SumIs
<1>11. SumFunction(all) = h[Reported]
  <2> HIDE DEF f, all
  <2>1. Reported \in SUBSET Container
    BY <1>2
  <2> QED
    BY <2>1, <1>1, <1>5, <1>6, <1>10, SumOfPart
<1>12. ASSUME NEW s \in Services
       PROVE  group[s] = h[{c \in Reported : kind[c] = s}] /\ group[s] \in Int
  <2> DEFINE A == {r \in Reported : r.service = s}
             a == [c \in A |-> Selected("cpu", c)]
  <2>1. DistributedValue(s, "cpu") = Answered(a)
    BY DEF DistributedValue, IsCPU
  <2>2. A = {c \in Reported : kind[c] = s}
    BY <1>2
  <2>3. \A c \in A : a[c] = f[c] /\ a[c] \in Int
    BY <1>2, <1>3 DEF Selected, IsCPU
  <2>4. a \in [A -> Int]
    BY <2>3
  <2>5. A \in SUBSET Container
    BY <1>2
  <2>6. group[s] = Answered(a).sum
    BY <2>1
  <2> HIDE DEF A, a, f, kind, group
  <2>7. Answered(a).sum = h[A]
    <3>1. \A c \in A : a[c] = f[c]
      BY <2>3
    <3>2. Answers(Answered(a), A, h[A])
      BY <3>1, <2>4, <2>5, <1>4, <1>10, AnsweredIs
    <3> QED
      BY <3>2 DEF Answers
  <2>8. h[A] \in Int
    BY <2>5, <1>10 DEF Sums
  <2> QED
    BY <2>2, <2>6, <2>7, <2>8
<1>13. group \in [Services -> Int]
  BY <1>12
<1>14. SumFunction(group) = h[Reported]
  <2> HIDE DEF f, kind, group
  <2>1. Reported \in SUBSET Container
    BY <1>2
  <2>2. \A s \in Services : group[s] = h[{c \in Reported : kind[c] = s}]
    BY <1>12
  <2> QED
    BY <2>1, <2>2, <1>1, <1>4, <1>7, <1>8, <1>10, <1>13, SumByGroups
<1> QED
  BY <1>9, <1>11, <1>14

(* Exchanging the agents (distributed.go) for the local daemon                *)
(* (dockerstats.go) changes what a service's load is divided by and nothing   *)
(* else, and the node's load (collector.go) is that of its services, for any  *)
(* containers with any samples.                                             *)
THEOREM SourcesAlwaysAgree == MetricsSpec => []SourcesAgree
<1> DEFINE Inv == containers \in SUBSET Container
<1>1. MetricsInit => Inv
  BY DEF MetricsInit
<1>2. Inv /\ [MetricsNext]_metricVars => Inv'
  BY DEF MetricsNext, ContainerStarts, ContainerStops, metricVars
<1>3. Inv => SourcesAgree
  BY SourcesOfAService, LoadIsTheSum DEF SourcesAgree
<1> QED
  BY <1>1, <1>2, <1>3, PTL DEF MetricsSpec
===============================================================================
