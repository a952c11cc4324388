-------------------------------- MODULE WebRuns --------------------------------
(***************************************************************************)
(* The runs of the web server (web/state.py, web/routes_api.py): handlers  *)
(* on the event loop, one at a time, and a thread per run.  A run is known *)
(* by the name of its directory, which start_run has to guess when the run *)
(* is not over within the two seconds it waits, the loop blocked.          *)
(***************************************************************************)
EXTENDS Integers, SequencesExt

CONSTANT Started    \* runs that may be started; also the names of their directories

ASSUME WebAssumption == {"unknown", "none"} \cap Started = {}

VARIABLES
  joining,    \* the start_run in thread.join(timeout=2), or "none"
  thread,     \* per run: none, preparing, running, finishing, ended, failed
  dirs,       \* run directories, the last modified first
  registry,   \* _active_runs: id to [thread, result, error]
  answers,    \* history: the id start_run answered
  deleted     \* history: runs whose directory was deleted while they went on

webVars == <<joining, thread, dirs, registry, answers, deleted>>
Ids == Started \cup {"unknown"}
Nobody == [thread |-> "none", result |-> "none", error |-> FALSE]

WebInit ==
  /\ joining = "none" /\ thread = [r \in Started |-> "none"] /\ dirs = <<>>
  /\ registry = [i \in Ids |-> Nobody] /\ answers = [r \in Started |-> "none"] /\ deleted = {}

Known(i) == registry[i].thread # "none"
Alive(r) == thread[r] \in {"preparing", "running", "finishing"}
Touch(r) == <<r>> \o SelectSeq(dirs, LAMBDA d : d # r)

-----------------------------------------------------------------------------
\* The thread of a run.  A directory is modified by every file that is new
\* in it, and at last by the manifest; one that was deleted takes no more
\* files, and run_plan raises.
MakeDir(r) ==
  /\ thread[r] = "preparing" /\ thread' = [thread EXCEPT ![r] = "running"] /\ dirs' = Touch(r)
  /\ UNCHANGED <<joining, registry, answers, deleted>>

WriteFile(r) ==
  /\ thread[r] = "running" /\ r \in ToSet(dirs) /\ dirs' = Touch(r)
  /\ thread' = thread \/ thread' = [thread EXCEPT ![r] = "finishing"]
  /\ UNCHANGED <<joining, registry, answers, deleted>>

\* _run: the result goes to the entry of the directory's name, else to the
\* one of this thread, else nowhere.
EntryOfLatest(r) == IF dirs = <<>> THEN {} ELSE {dirs[1]}   \* mutant: looked up as start_run does
Entry(r) == IF Known(r) THEN {r} ELSE {i \in Ids : registry[i].thread = r}

EndRun(r) ==
  /\ thread[r] = "finishing" /\ thread' = [thread EXCEPT ![r] = "ended"]
  /\ registry' = [i \in Ids |-> IF i \in Entry(r) THEN [registry[i] EXCEPT !.result = r] ELSE registry[i]]
  /\ UNCHANGED <<joining, dirs, answers, deleted>>

FailRun(r) ==
  /\ thread[r] \in {"preparing", "running"} /\ thread' = [thread EXCEPT ![r] = "failed"]
  /\ registry' = [i \in Ids |-> IF registry[i].thread = r THEN [registry[i] EXCEPT !.error = TRUE] ELSE registry[i]]
  /\ UNCHANGED <<joining, dirs, answers, deleted>>

-----------------------------------------------------------------------------
StartRun(r) ==
  /\ joining = "none" /\ thread[r] = "none" /\ joining' = r
  /\ thread' = [thread EXCEPT ![r] = "preparing"]
  /\ UNCHANGED <<dirs, registry, answers, deleted>>

\* The join is over when the thread is, or after two seconds.  A run whose
\* result is there is registered by its name; of any other it is taken that
\* the directory modified last is its own.
RegisterRun(r, done) ==
  LET id == IF done THEN r ELSE IF dirs # <<>> THEN dirs[1] ELSE "unknown" IN
  /\ (done => thread[r] \in {"finishing", "ended"}) /\ (thread[r] = "ended" => done)
  /\ joining = r /\ joining' = "none" /\ answers' = [answers EXCEPT ![r] = id]
  /\ registry' = [registry EXCEPT ![id] = [thread |-> r, result |-> IF done THEN r ELSE "none", error |-> FALSE]]
  /\ UNCHANGED <<thread, dirs, deleted>>

\* An id that is registered may go when its thread has ended, any other at
\* once; the path of "unknown" is the working directory.
DeleteRun(i) ==
  LET gone == IF i = "unknown" THEN ToSet(dirs) ELSE {i} IN
  /\ joining = "none"
  /\ IF Known(i) THEN ~Alive(registry[i].thread) ELSE i \in ToSet(dirs)
  /\ registry' = [registry EXCEPT ![i] = Nobody]
  /\ dirs' = SelectSeq(dirs, LAMBDA d : d \notin gone)
  /\ deleted' = deleted \cup {r \in gone \cap ToSet(dirs) : Alive(r)}
  /\ UNCHANGED <<joining, thread, answers>>

\* POST /cleanup keeps the directories modified last.
Cleanup(keep) ==
  /\ joining = "none" /\ Len(dirs) > keep
  /\ dirs' = SubSeq(dirs, 1, keep)
  /\ UNCHANGED <<joining, thread, registry, answers, deleted>>

WebNext ==
  \/ \E r \in Started : MakeDir(r) \/ WriteFile(r) \/ EndRun(r) \/ FailRun(r) \/ StartRun(r)
  \/ \E r \in Started, done \in BOOLEAN : RegisterRun(r, done)
  \/ \E i \in Ids : DeleteRun(i)
  \/ \E keep \in 0 .. 1 : Cleanup(keep)

WebSpec == WebInit /\ [][WebNext]_webVars

-----------------------------------------------------------------------------
\* A result is shown where its run can be asked for: under the name of its
\* directory, or under the id the client that started it was answered,
\* wherever start_run guessed wrong and whichever runs ended meanwhile.
ResultWhereAsked ==
  \A i \in Ids : registry[i].result # "none" => i = registry[i].result \/ answers[registry[i].result] = i

\* routes_api.py:1244: "Don't allow deleting active runs".
ActiveRunKept == deleted = {}
=============================================================================
