------------------------------- MODULE MCCommands -------------------------------
(***************************************************************************)
(* What a user may call: maestro validate (the loader), run and cleanup,   *)
(* run with several plans, watch and replan.  One of them is chosen.       *)
(***************************************************************************)
EXTENDS MCPlanLoader, WatchLoop, Replan, MultiPlan, CommandLine

VARIABLE command

Watch == [mode |-> "custom", onRegression |-> "rollback", direction |-> "higher",
          maxIterations |-> 3, plateauThreshold |-> 2, warmup |-> 1, maxCost |-> 9,
          maxSteps |-> 9, target |-> 0, stones |-> FALSE, frozen |-> FALSE, ignored |-> TRUE]
Improve == [Watch EXCEPT !.mode = "improve", !.warmup = 0]
MCSpecs ==
  {Watch,
   [Watch EXCEPT !.warmup = 0, !.plateauThreshold = 1, !.ignored = FALSE],
   [Watch EXCEPT !.onRegression = "keep", !.warmup = 0, !.plateauThreshold = 1, !.target = 2],
   [Improve EXCEPT !.frozen = TRUE, !.target = 2, !.maxCost = 5],
   [Improve EXCEPT !.stones = TRUE, !.direction = "lower", !.maxIterations = 2, !.ignored = FALSE]}
  \cup {[Watch EXCEPT !.onRegression = "revert", !.maxSteps = 2, !.ignored = i] : i \in BOOLEAN}
MCResults == [metric : 0 .. 2, cost : {1}, steps : {1}]

OnePlan == [search |-> FALSE, maxAttempts |-> 3, variants |-> 1, autoApprove |-> FALSE,
            tournament |-> FALSE,
            original |-> [findings |-> {}, firewall |-> TRUE, home |-> "project"]]
MCConfigs ==
  {OnePlan,
   [OnePlan EXCEPT !.autoApprove = TRUE, !.original.findings = {"SEC1"},
                   !.original.firewall = FALSE],
   [OnePlan EXCEPT !.search = TRUE, !.maxAttempts = 2, !.tournament = TRUE],
   [OnePlan EXCEPT !.search = TRUE, !.maxAttempts = 3, !.autoApprove = TRUE,
                   !.original.firewall = FALSE],
   [OnePlan EXCEPT !.search = TRUE, !.maxAttempts = 1, !.variants = 2]}
MCFailedSets == {{1}, {1, 2}}

Several == [parallel |-> FALSE, cap |-> 2, period |-> "weekly", limit |-> 2, loads |-> {1, 2}]
MCMultiConfigs ==
  {Several,
   [Several EXCEPT !.parallel = TRUE],
   [Several EXCEPT !.parallel = TRUE, !.cap = 3, !.limit = 0, !.loads = {1, 2, 3}],
   [Several EXCEPT !.loads = {1, 3}, !.period = "daily"],
   [Several EXCEPT !.period = "monthly", !.cap = 0, !.loads = {1, 2, 3}]}

\* The plans' tasks and the lines typed; no name ends in another's.
MCTaskNeeds == [deps |-> {}, tags |-> {}, context |-> {}, wild |-> FALSE, untrusted |-> FALSE, guarded |-> FALSE,
                when |-> FALSE, broken |-> FALSE, capped |-> FALSE]
MCPlanFiles ==
  [name \in {"app", "my_app", "wide"} |->
     IF name = "app"
       THEN <<[MCTaskNeeds EXCEPT !.capped = TRUE], [MCTaskNeeds EXCEPT !.deps = {1}]>>
     ELSE IF name = "my_app"
       THEN <<MCTaskNeeds, [MCTaskNeeds EXCEPT !.deps = {1}, !.when = TRUE, !.broken = TRUE]>>
     ELSE <<[MCTaskNeeds EXCEPT !.untrusted = TRUE, !.tags = {"base"}],
            [MCTaskNeeds EXCEPT !.deps = {1}, !.wild = TRUE],
            [MCTaskNeeds EXCEPT !.deps = {2}, !.context = {2}, !.tags = {"top"}],
            [MCTaskNeeds EXCEPT !.deps = {3}, !.wild = TRUE, !.guarded = TRUE]>>]
MCApart == {<<p, p>> : p \in {"app", "my_app", "wide"}}

Run(name) == [cmd |-> "run", plan |-> name, only |-> {}, skip |-> {}, tags |-> {}, skipTags |-> {},
              resume |-> "none", dry |-> FALSE, tui |-> FALSE, cache |-> TRUE]
MCCommandLines ==
  {Run("app"), [Run("app") EXCEPT !.only = {2}, !.cache = FALSE, !.tui = TRUE], [Run("app") EXCEPT !.dry = TRUE],
   [Run("app") EXCEPT !.skip = {2}, !.resume = "path"], [Run("app") EXCEPT !.resume = "last"],
   Run("my_app"), [Run("my_app") EXCEPT !.only = {1}]}
  \cup {[l EXCEPT !.dry = TRUE] :
          l \in {[Run("wide") EXCEPT !.only = {3}], [Run("wide") EXCEPT !.tags = {"top"}, !.skip = {2}],
                 [Run("wide") EXCEPT !.skipTags = {"base"}, !.skip = {4}], [Run("wide") EXCEPT !.only = {4}, !.skip = {2}],
                 [Run("wide") EXCEPT !.only = {4}, !.tags = {"base"}], [Run("wide") EXCEPT !.only = {5}]}}
  \cup {[cmd |-> "check", strict |-> TRUE], [cmd |-> "cleanup", keep |-> 1, older |-> FALSE, dry |-> FALSE],
        [cmd |-> "cleanup", keep |-> 0, older |-> TRUE, dry |-> FALSE],
        [cmd |-> "cleanup", keep |-> 0, older |-> FALSE, dry |-> TRUE]}

NoWatch  == WatchInit /\ wspec = CHOOSE s \in Specs : TRUE
NoReplan == ReplanInit /\ cfg = CHOOSE c \in Configs : TRUE
NoMulti  == MultiInit /\ mcfg = (CHOOSE c \in MultiConfigs : TRUE) /\ ledger = <<>>
NoLoad   == Init /\ raw = RawPlan(<<"list", <<>>>>)

CommandsInit ==
  \/ command = "load" /\ Init /\ CommandInit /\ NoWatch /\ NoReplan /\ NoMulti
  \/ command = "run" /\ NoLoad /\ CommandInit /\ NoWatch /\ NoReplan /\ NoMulti
  \/ command = "watch" /\ NoLoad /\ CommandInit /\ WatchInit /\ NoReplan /\ NoMulti
  \/ command = "replan" /\ NoLoad /\ CommandInit /\ NoWatch /\ ReplanInit /\ NoMulti
  \/ command = "multi" /\ NoLoad /\ CommandInit /\ NoWatch /\ NoReplan /\ MultiInit

cmdVars == <<command, vars, commandVars, watchVars, replanVars, multiVars>>

InLoad(Act)   == command = "load" /\ Act /\ UNCHANGED <<command, commandVars, watchVars, replanVars, multiVars>>
InRun(Act)    == command = "run" /\ Act /\ UNCHANGED <<command, vars, watchVars, replanVars, multiVars>>
InWatch(Act)  == command = "watch" /\ Act /\ UNCHANGED <<command, vars, commandVars, replanVars, multiVars>>
InReplan(Act) == command = "replan" /\ Act /\ UNCHANGED <<command, vars, commandVars, watchVars, multiVars>>
InMulti(Act)  == command = "multi" /\ Act /\ UNCHANGED <<command, vars, commandVars, watchVars, replanVars>>

CommandsNext ==
  InLoad(Next) \/ InRun(CommandNext) \/ InWatch(WatchNext) \/ InReplan(ReplanNext) \/ InMulti(MultiNext)

CommandsSpec ==
  /\ CommandsInit /\ [][CommandsNext]_cmdVars
  /\ WF_cmdVars(InWatch(WatchStep)) /\ WF_cmdVars(InReplan(ReplanNext))
  /\ WF_cmdVars(InMulti(MultiStep))

\* Every one of the three commands that go on by themselves ends (max_iterations,
\* max_attempts, the plans given), whatever the runs return.
DriverEnds ==
  /\ command = "watch" => WatchEnds
  /\ command = "replan" => ReplanEnds
  /\ command = "multi" => MultiEnds
=============================================================================
