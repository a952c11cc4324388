------------------------------- MODULE Worktrees -------------------------------
(***************************************************************************)
(* Git worktrees of concurrent tasks on one workspace (worktree.py): each  *)
(* works on a branch of its own; merges go through _merge_lock, and the    *)
(* ledger of merged files tells overlapping merges.  The process may die   *)
(* and the plan be run again.                                              *)
(***************************************************************************)
EXTENDS Integers, SequencesExt

CONSTANTS
  Task,
  Namings,      \* _branch_name: functions from Task to branches, two ids may have the same
  File,
  MaxSessions   \* bound on the runs of the plan

ASSUME WorktreesAssumption == MaxSessions \in Nat \ {0} /\ \A f \in Namings : DOMAIN f = Task

VARIABLES
  Branch,    \* the naming at hand
  base,      \* merge commits of the base branch
  branches,  \* branch name -> the branch: at most one
  staged,    \* merge preview in the workspace (MERGE_HEAD): at most one
  merging,   \* _merge_lock: the set of its holders
  ledger,    \* _merge_ledger: the merged files
  wpc,       \* per task: next step
  overlap,   \* per task: overlapping files found by _merge_worktree_locked
  outcome,   \* per task: status of its WorktreeMergeResult
  made,      \* history: what the agent of the task committed
  session,   \* runs of the plan so far, and the commits there were when the last began
  nested     \* history: a nested run_plan has begun in this session

treeVars == <<Branch, base, branches, staged, merging, ledger, wpc, overlap, outcome, made,
              session, nested>>

TreeInit ==
  /\ Branch \in Namings
  /\ base = <<>> /\ branches = [b \in {Branch[t] : t \in Task} |-> <<>>]
  /\ staged = <<>> /\ merging = {} /\ ledger = {}
  /\ wpc = [t \in Task |-> "create"] /\ overlap = [t \in Task |-> {}]
  /\ outcome = [t \in Task |-> "none"] /\ made = [t \in Task |-> {}]
  /\ session = [n |-> 1, from |-> 0] /\ nested = FALSE

Goto(t, step) == wpc' = [wpc EXCEPT ![t] = step]

CreateReset(t) ==   \* mutant: "-B": an existing branch is taken over
  /\ wpc[t] = "create"
  /\ branches' = [branches EXCEPT ![Branch[t]] = <<[from |-> Len(base), files |-> {}]>>]
  /\ Goto(t, "agent")
  /\ UNCHANGED <<Branch, base, staged, merging, ledger, overlap, outcome, made, session, nested>>

\* git worktree add -b refuses a branch that exists; the task fails then.
CreateWorktree(t) ==
  /\ wpc[t] = "create"
  /\ \/ /\ branches[Branch[t]] = <<>>
        /\ branches' = [branches EXCEPT ![Branch[t]] = <<[from |-> Len(base), files |-> {}]>>]
        /\ Goto(t, "agent")
     \/ branches[Branch[t]] # <<>> /\ Goto(t, "done") /\ UNCHANGED branches
  /\ UNCHANGED <<Branch, base, staged, merging, ledger, overlap, outcome, made, session, nested>>

\* The agent's commits on a branch.
AddFiles(branch, files) == [i \in DOMAIN branch |-> [branch[i] EXCEPT !.files = @ \cup files]]

\* The agent commits to its branch; a task that fails goes to the cleanup, and one
\* that returns before its first attempt leaves worktree and branch behind.
RunAgent(t) ==
  /\ wpc[t] = "agent"
  /\ \E files \in SUBSET File :
       /\ made' = [made EXCEPT ![t] = files]
       /\ branches' = [branches EXCEPT ![Branch[t]] = AddFiles(@, files)]
  /\ \E next \in {"merge", "cleanup", "done"} : Goto(t, next)
  /\ UNCHANGED <<Branch, base, staged, merging, ledger, overlap, outcome, session, nested>>

\* The base has changed a file of the branch since the branch was made.
MayConflict(b) ==
  \E i \in b.from + 1 .. Len(base) : base[i].files \cap b.files # {}

\* Under the lock: the changed files, the overlaps, checkout and the merge
\* preview, which git refuses when there is one already.
Preview(t) ==
  /\ wpc[t] = "merge" /\ merging = {}
  /\ \E b \in ToSet(branches[Branch[t]]) :
       \/ /\ b.files = {} /\ outcome' = [outcome EXCEPT ![t] = "empty"]
          /\ Goto(t, "cleanup") /\ UNCHANGED <<staged, merging, overlap>>
       \/ /\ b.files # {} /\ merging' = {t} /\ UNCHANGED outcome
          /\ overlap' = [overlap EXCEPT ![t] = b.files \cap ledger]
          /\ \/ /\ staged = <<>> /\ staged' = <<b>> /\ Goto(t, "commit")
             \/ /\ staged # <<>> \/ MayConflict(b)
                /\ Goto(t, "abort") /\ UNCHANGED staged
  /\ UNCHANGED <<Branch, base, branches, ledger, made, session, nested>>

\* Commit the preview and record its files; a commit that fails is aborted.
Commit(t) ==
  /\ wpc[t] = "commit"
  /\ \/ /\ staged # <<>>
        /\ base' = Append(base, [by |-> t, files |-> staged[1].files, own |-> made[t],
                                 verdict |-> IF overlap[t] = {} THEN "safe" ELSE "resolvable"])
        /\ ledger' = ledger \cup staged[1].files
        /\ outcome' = [outcome EXCEPT ![t] = "merged"]
     \/ outcome' = [outcome EXCEPT ![t] = "error"] /\ UNCHANGED <<base, ledger>>
  /\ staged' = <<>> /\ merging' = {} /\ Goto(t, "cleanup")
  /\ UNCHANGED <<Branch, branches, overlap, made, session, nested>>

\* A preview that fails is aborted, whatever made it fail, and is a conflict.
Abort(t) ==
  /\ wpc[t] = "abort"
  /\ staged' = <<>> /\ merging' = {}
  /\ outcome' = [outcome EXCEPT ![t] = "conflict"] /\ Goto(t, "cleanup")
  /\ UNCHANGED <<Branch, base, branches, ledger, overlap, made, session, nested>>

CleanupWorktree(t) ==
  /\ wpc[t] = "cleanup"
  /\ branches' = [branches EXCEPT ![Branch[t]] = <<>>] /\ Goto(t, "done")
  /\ UNCHANGED <<Branch, base, staged, merging, ledger, overlap, outcome, made, session, nested>>

\* run_plan of a dynamic group, in the same process, starts with reset_merge_ledger.
NestedRun ==
  /\ ~ nested /\ nested' = TRUE /\ ledger' = {}
  /\ UNCHANGED <<Branch, base, branches, staged, merging, wpc, overlap, outcome, made, session>>

\* The process dies; what git keeps on disk stays, and the plan is run again.
Crash ==
  /\ session.n < MaxSessions
  /\ session' = [n |-> session.n + 1, from |-> Len(base)]
  /\ merging' = {} /\ ledger' = {} /\ nested' = FALSE
  /\ wpc' = [t \in Task |-> "create"] /\ overlap' = [t \in Task |-> {}]
  /\ outcome' = [t \in Task |-> "none"] /\ made' = [t \in Task |-> {}]
  /\ UNCHANGED <<Branch, base, branches, staged>>

TreeStep(t) ==
  CreateWorktree(t) \/ RunAgent(t) \/ Preview(t) \/ Commit(t) \/ Abort(t) \/ CleanupWorktree(t)
TreeNext == (\E t \in Task : TreeStep(t)) \/ NestedRun \/ Crash

TreeSpec == TreeInit /\ [][TreeNext]_treeVars

-----------------------------------------------------------------------------
(* Properties.                                                             *)

TreeTypeOK ==
  /\ \A b \in DOMAIN branches : Len(branches[b]) <= 1
  /\ Len(staged) <= 1 /\ merging \subseteq Task /\ ledger \subseteq File
  /\ outcome \in [Task -> {"none", "empty", "merged", "conflict", "error"}]

\* A merge commit brings what its task's own agent committed in this run: not
\* the work of a task whose id maps to the same branch, nor what an earlier run
\* left on the branch, nor another task's preview.  And of two merges of one
\* run that touch the same file the second is reviewed "resolvable", never
\* "safe", as long as no nested run has emptied the ledger.
MergesAccounted ==
  /\ \A i \in DOMAIN base : base[i].files = base[i].own
  /\ \A i, j \in session.from + 1 .. Len(base) :
       /\ ~ nested /\ i < j /\ base[i].files \cap base[j].files # {}
       => base[j].verdict = "resolvable"
=============================================================================
