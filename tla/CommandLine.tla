------------------------------ MODULE CommandLine ------------------------------
(***************************************************************************)
(* maestro run and maestro cleanup, called again and again from several    *)
(* terminals over the same run directory: cli.py _cmd_run, _cmd_check,     *)
(* _find_latest_run, _cmd_cleanup and main, and what run_plan does before  *)
(* its first task and after its last (scheduler.py _select_tasks,          *)
(* _preflight_checks, _compute_tainted_tasks, _load_prior_results).        *)
(*                                                                         *)
(* What the tasks do is open: Scheduler has the run itself.  "success" is  *)
(* soft_failed too, "skipped" a skip that is taken over by --resume and    *)
(* "starved" one that is not (dependency failed, fail_fast).               *)
(***************************************************************************)
EXTENDS Integers, FiniteSets, SequencesExt

CONSTANTS
  PlanFiles,   \* functions from tasks to what they need, by the name of the plan: [deps, tags,
               \* context, wild (its "*"), untrusted, guarded, when, broken (no engine or no workdir), capped (budget_period)]
  Suffix,      \* <<a, b>>: the name of a run directory of b ends as that of a does
  CommandLines,   \* the command lines typed: [cmd, plan, only, skip, tags, skipTags, resume, dry, tui,
               \* cache] for run, [cmd, strict] for check, [cmd, keep, older, dry] for cleanup
  Terminals,
  MaxRuns      \* bound on the number of run directories

\* A loaded plan depends on its own tasks only (PlanLoader has the rules).
ASSUME CommandAssumption ==
  /\ MaxRuns \in Nat \ {0} /\ \A p \in DOMAIN PlanFiles : <<p, p>> \in Suffix
  /\ \A p \in DOMAIN PlanFiles :
       /\ IsFiniteSet(DOMAIN PlanFiles[p])
       /\ \A t \in DOMAIN PlanFiles[p] : PlanFiles[p][t].deps \subseteq DOMAIN PlanFiles[p]
  /\ \A l \in CommandLines : /\ l.cmd \in {"run", "check", "cleanup"}
                             /\ l.cmd = "run" => l.plan \in DOMAIN PlanFiles

VARIABLES
  runs,     \* every run directory ever made, in the order of their names: [plan, manifest, from],
            \* from being history: this directory and those it was resumed from, whatever their number
  shelf,    \* the directories there are, the last modified first; 0 is .cache
  call,     \* per terminal: [step, line, source, run, selected, tainted, prior, exit]
  hasRun    \* history: <<run, task>> of every task that succeeded, in which run

commandVars == <<runs, shelf, call, hasRun>>

NoLine == [cmd |-> "none"]
Idle == [step |-> "prompt", line |-> NoLine, source |-> 0, run |-> 0, selected |-> {},
         tainted |-> {}, prior |-> <<>>, exit |-> 0]

CommandInit ==
  /\ runs = <<>> /\ shelf = <<>> /\ hasRun = {}
  /\ call = [w \in Terminals |-> Idle]

-----------------------------------------------------------------------------
Line(w) == call[w].line
File(w) == PlanFiles[Line(w).plan]
To(w, c) == call' = [call EXCEPT ![w] = c]
Ends(w, code) == To(w, [Idle EXCEPT !.step = "ended", !.exit = code])

\* A directory is modified by every file that is new in it.
TouchDir(d) == shelf' = <<d>> \o SelectSeq(shelf, LAMBDA e : e # d)
Written(d) == d \in ToSet(shelf) /\ runs[d].manifest # <<>>

Upwards(S, file) ==
  LET up[k \in Nat] == IF k = 0 THEN S ELSE up[k - 1] \cup UNION {file[t].deps : t \in up[k - 1]} IN
  up[Cardinality(DOMAIN file)]

Tagged(line, file, t) ==
  /\ line.tags # {} => file[t].tags \cap line.tags # {}
  /\ file[t].tags \cap line.skipTags = {}

\* mutant: what the tags filtered out stays out.
SelectTagged(line, file) ==
  {t \in (IF line.only # {} THEN Upwards(line.only, file) ELSE DOMAIN file) \ line.skip :
     Tagged(line, file, t)}

\* _select_tasks: what the tags filter out comes back when a selected task
\* depends on it, and so does what --skip named.
SelectTasks(line, file) ==
  LET asked  == (IF line.only # {} THEN Upwards(line.only, file) ELSE DOMAIN file) \ line.skip
      tagged == {t \in asked : Tagged(line, file, t)} IN
  IF line.tags \cup line.skipTags = {} THEN asked ELSE Upwards(tagged, file)

\* _compute_tainted_tasks: rounds until nothing is added.
ContextOf(t, file, selected) ==
  file[t].context \cup IF file[t].wild THEN file[t].deps \cap selected ELSE {}

ComputeTainted(file, selected) ==
  LET round[k \in Nat] ==
        IF k = 0 THEN {t \in selected : file[t].untrusted}
        ELSE round[k - 1] \cup {t \in selected : /\ ~file[t].guarded
                                                 /\ ContextOf(t, file, selected) \cap round[k - 1] # {}} IN
  round[Cardinality(selected)]

\* _load_prior_results.
SuccessOf == {"success", "dry_run", "skipped"}
PriorAsSuccess(manifest) ==   \* mutant: whatever it was, it is a success now
  [t \in {t \in DOMAIN manifest : manifest[t] \in SuccessOf} |-> "success"]
PriorResults(manifest) ==
  [t \in {t \in DOMAIN manifest : manifest[t] \in SuccessOf} |-> manifest[t]]

-----------------------------------------------------------------------------
\* The command line is parsed and the plan loaded: main answers 1 for
\* whatever is raised.  check looks at what validation and audit found.
TypeCommand(w) ==
  /\ call[w].step \in {"prompt", "ended"} /\ Len(runs) < MaxRuns
  /\ \E line \in CommandLines :
       To(w, [Idle EXCEPT !.step = line.cmd, !.line = line])
  /\ UNCHANGED <<runs, shelf, hasRun>>

Check(w) ==
  /\ call[w].step = "check"
  /\ \E valid \in BOOLEAN, errors, warnings \in 0 .. 1 :
       Ends(w, IF ~valid \/ errors > 0 \/ (Line(w).strict /\ warnings > 0) THEN 1 ELSE 0)
  /\ UNCHANGED <<runs, shelf, hasRun>>

\* _find_latest_run: by the end of its name, the last that has a manifest.
LatestRun(plan) ==
  LET found == {d \in DOMAIN runs : Written(d) /\ <<plan, runs[d].plan>> \in Suffix} IN
  IF found = {} THEN 0 ELSE CHOOSE d \in found : \A e \in found : e <= d

\* --resume takes any directory that is there.
FindSource(w) ==
  /\ call[w].step = "run"
  /\ LET line == Line(w) IN
     \/ /\ line.resume = "none" /\ To(w, [call[w] EXCEPT !.step = "open"])
     \/ /\ line.resume = "last"
        /\ IF LatestRun(line.plan) = 0 THEN Ends(w, 1)
           ELSE To(w, [call[w] EXCEPT !.step = "open", !.source = LatestRun(line.plan)])
     \/ /\ line.resume = "path"
        /\ \/ Ends(w, 1)
           \/ \E d \in DOMAIN runs : /\ d \in ToSet(shelf)
                                      /\ To(w, [call[w] EXCEPT !.step = "open", !.source = d])
  /\ UNCHANGED <<runs, shelf, hasRun>>

\* run_plan makes its directory before anything can be refused.
OpenRun(w) ==
  /\ call[w].step = "open" /\ Len(runs) < MaxRuns
  /\ LET d == Len(runs) + 1  source == call[w].source IN
     /\ runs' = Append(runs, [plan |-> Line(w).plan, manifest |-> <<>>,
                              from |-> {d} \cup IF source = 0 THEN {} ELSE runs[source].from])
     /\ TouchDir(d)
     /\ To(w, [call[w] EXCEPT !.step = "select", !.run = d])
  /\ UNCHANGED hasRun

\* An id nobody has is refused; so is a run over the budget of its period,
\* one whose tasks lack an engine or a workdir, and a source that has no
\* manifest.
Refused(w, selected) ==
  LET line == Line(w) IN
  \/ ~(line.only \cup line.skip) \subseteq DOMAIN File(w)
  \/ ~line.dry /\ \E t \in selected : File(w)[t].broken
  \/ call[w].source # 0 /\ ~Written(call[w].source)

Prepare(w) ==
  /\ call[w].step = "select"
  /\ LET known == (Line(w).only \cup Line(w).skip) \subseteq DOMAIN File(w)
         selected == IF known THEN SelectTasks(Line(w), File(w)) ELSE {}
         prior == IF call[w].source = 0 THEN <<>> ELSE PriorResults(runs[call[w].source].manifest) IN
     \/ Refused(w, selected) /\ Ends(w, 1)
     \/ ~Line(w).dry /\ (\E t \in DOMAIN File(w) : File(w)[t].capped) /\ Ends(w, 1)
     \/ /\ ~Refused(w, selected)
        /\ To(w, [call[w] EXCEPT !.step = "work", !.selected = selected,
                                 !.tainted = ComputeTainted(File(w), selected),
                                 !.prior = [t \in DOMAIN prior \cap selected |-> prior[t]]])
  /\ UNCHANGED <<runs, shelf, hasRun>>

-----------------------------------------------------------------------------
\* What a run may leave of its tasks.  What was taken over stays; a dry run
\* runs nothing; a task with a condition does not mind failures; one behind
\* a starved one may be forgotten.  Ctrl+C and fail_fast skip what waits.
Outcomes(w, r, t) ==
  LET ran  == IF Line(w).dry THEN {"dry_run"} ELSE {"success", "failed"}
      deps == {r[d] : d \in File(w)[t].deps \cap call[w].selected} IN
  IF t \in DOMAIN call[w].prior THEN {call[w].prior[t]}
  ELSE IF deps \cap {"starved", "forgotten"} # {} THEN ran \cup {"forgotten"}
  ELSE IF File(w)[t].when THEN ran \cup {"skipped"}
  ELSE IF "failed" \in deps THEN {"starved"}
  ELSE ran

RunResults(w) ==
  {r \in [call[w].selected -> IF Line(w).dry THEN SuccessOf \cup {"forgotten"}
                              ELSE SuccessOf \cup {"failed", "starved", "forgotten"}] :
     \E stop \in {"none", "skipped", "starved"} :
       /\ stop = "starved" => \E t \in DOMAIN r : r[t] = "failed"
       /\ \A t \in DOMAIN r : r[t] \in Outcomes(w, r, t) \/ (r[t] = stop /\ t \notin DOMAIN call[w].prior)}

NowRun(w, r) == {<<call[w].run, t>> : t \in {t \in DOMAIN r \ DOMAIN call[w].prior : r[t] = "success"}}
WithManifest(d, m) == [d EXCEPT !.manifest = m]

\* The manifest is written whatever the results are, and results that are
\* not there do not count.  The TUI may be left before there is a result.
FinishRun(w) ==
  /\ call[w].step = "work" /\ call[w].run \in ToSet(shelf)
  /\ \E r \in RunResults(w) :
       LET kept == {t \in DOMAIN r : r[t] # "forgotten"}
           cached == Line(w).cache /\ NowRun(w, r) # {}
           aside == IF cached THEN {0, call[w].run} ELSE {call[w].run} IN
       /\ hasRun' = hasRun \cup NowRun(w, r)
       /\ runs' = [runs EXCEPT ![call[w].run] = WithManifest(@, [t \in kept |-> r[t]])]
       /\ shelf' = <<call[w].run>> \o (IF cached THEN <<0>> ELSE <<>>) \o SelectSeq(shelf, LAMBDA e : e \notin aside)
       /\ \/ Ends(w, IF \A t \in kept : r[t] # "failed" THEN 0 ELSE 1)
          \/ Line(w).tui /\ Ends(w, 1)

\* A worker that raises ends the run without a manifest; so does a file
\* that cannot be written because the directory is gone.
BreakRun(w) ==
  /\ call[w].step = "work" /\ Ends(w, 1)
  /\ \E some \in SUBSET (call[w].selected \ DOMAIN call[w].prior) :
       hasRun' = hasRun \cup {<<call[w].run, t>> : t \in IF Line(w).dry THEN {} ELSE some}
  /\ UNCHANGED <<runs, shelf>>

\* cleanup keeps the directories that were modified last, whatever they
\* hold, and with --older-than those that are younger.
CleanupRuns(w) ==
  /\ call[w].step = "cleanup" /\ Ends(w, 0)
  /\ \E keep \in 0 .. Len(shelf) :
       /\ keep >= Line(w).keep \/ keep = Len(shelf)
       /\ ~Line(w).older => keep <= Line(w).keep
       /\ shelf' = IF Line(w).dry THEN shelf ELSE SubSeq(shelf, 1, keep)
  /\ UNCHANGED <<runs, hasRun>>

CommandNext ==
  \E w \in Terminals : \/ TypeCommand(w) \/ Check(w) \/ FindSource(w) \/ OpenRun(w) \/ Prepare(w)
                       \/ FinishRun(w) \/ BreakRun(w) \/ CleanupRuns(w)

CommandSpec == CommandInit /\ [][CommandNext]_commandVars
-----------------------------------------------------------------------------
\* _select_tasks and _compute_tainted_tasks, on whatever graph, tags and
\* options.  A run has every task that was asked for and not excluded, has
\* no other but for one that needs it (and that is there, was skipped, or was
\* needed by --only and filtered out by a tag), and lacks a dependency only
\* where --skip named it and no tag was given.  A task is tainted if and only
\* if it is untrusted, or unguarded and reads from one that is tainted.
Asked(line, file, t) ==
  (line.only # {} => t \in line.only) /\ t \notin line.skip /\ Tagged(line, file, t)

PreludeExact ==
  \A w \in Terminals : call[w].step = "work" =>
    LET line == Line(w)  file == File(w)  selected == call[w].selected  tainted == call[w].tainted IN
    \A t \in DOMAIN file :
      /\ Asked(line, file, t) => t \in selected
      /\ t \in selected =>
           /\ \/ Asked(line, file, t)
              \/ \E s \in DOMAIN file :
                   /\ t \in file[s].deps
                   /\ s \in selected \cup line.skip \/ (line.only # {} /\ ~Tagged(line, file, s))
           /\ \A d \in file[t].deps \ selected : d \in line.skip /\ line.tags \cup line.skipTags = {}
      /\ t \in tainted <=>
           /\ t \in selected
           /\ \/ file[t].untrusted
              \/ ~file[t].guarded /\ ContextOf(t, file, selected) \cap tainted # {}

\* A success in a manifest is one that its own run has had or one that it was
\* resumed from, however many have taken it over since, from whichever terminal
\* and out of whichever plan's directory --resume was given.
SuccessWasRun ==
  \A d \in DOMAIN runs : \A t \in DOMAIN runs[d].manifest :
    runs[d].manifest[t] = "success" => \E e \in runs[d].from : <<e, t>> \in hasRun

\* CLI_REFERENCE.md of --resume: "Resume from a prior run directory (skip
\* succeeded tasks)": what a run takes over as done has been run before.
TakenOverWasRun ==
  \A w \in Terminals : call[w].step = "work" =>
    \A t \in DOMAIN call[w].prior :
      call[w].prior[t] # "skipped" => \E e \in runs[call[w].run].from : <<e, t>> \in hasRun
=============================================================================
