------------------------------ MODULE TaskCache ------------------------------
(***************************************************************************)
(* The result cache (cache.py) as concurrent runs of one project use it:   *)
(* two tasks, "up" and "down" that depends on it; the user edits up's      *)
(* prompt between the runs and during them.                                *)
(***************************************************************************)
EXTENDS Integers, SequencesExt

CONSTANTS
  Process,         \* concurrent maestro processes on one cache directory
  UpstreamCached,  \* cache: true on the upstream task
  TTL,             \* negative_cache_ttl_sec
  MaxVersion,      \* bound on the edits of the upstream prompt
  MaxNow           \* bound on the clock

ASSUME CacheAssumption ==
  UpstreamCached \in BOOLEAN /\ {TTL, MaxNow} \subseteq Nat /\ MaxVersion \in Nat \ {0}

VARIABLES
  version,   \* version of the upstream prompt
  now,       \* the clock
  entries,   \* cache directory: task hash -> result.json or NoEntry; time of failures,
             \* the versions of the prompt that was hashed and that was run
  cpc,       \* per process: next step
  work,      \* per process: task at hand, its hash, the version its plan has, what it read
  hit        \* history: the cache hit of the last step, if it was one

cacheVars == <<version, now, entries, cpc, work, hit>>

Versions == 1 .. MaxVersion
NoEntry == [status |-> "none", made |-> 0, at |-> 0, hashed |-> 0]
NoHash == 0

TaskHashOwnInputs(task, v, upHash) ==   \* mutant: the hash leaves the upstream hashes out
  [task |-> task, input |-> IF task = "up" THEN v ELSE 1, up |-> NoHash]

\* The Merkle hash of a task: its own inputs and the hashes of its dependencies
\* in this run.  A dependency with no hash counts as the empty string.
TaskHash(task, v, upHash) ==
  IF task = "up" THEN [task |-> "up", input |-> v, up |-> NoHash]
  ELSE [task |-> "down", input |-> 1, up |-> upHash]

UpHash(v) == IF UpstreamCached THEN v ELSE NoHash

Hashes == [task : {"up", "down"}, input : Versions, up : {NoHash} \cup Versions]

Idle == [task |-> "up", v |-> 1, hash |-> TaskHash("up", 1, NoHash), entry |-> NoEntry]

CacheInit ==
  /\ version = 1 /\ now = 0 /\ entries = [h \in Hashes |-> NoEntry]
  /\ cpc = [p \in Process |-> "idle"] /\ work = [p \in Process |-> Idle] /\ hit = <<>>

EditPrompt ==
  /\ version < MaxVersion /\ version' = version + 1
  /\ hit' = <<>> /\ UNCHANGED <<now, entries, cpc, work>>

Tick ==
  /\ now < MaxNow /\ now' = now + 1
  /\ hit' = <<>> /\ UNCHANGED <<version, entries, cpc, work>>

Rest(p) == cpc' = [cpc EXCEPT ![p] = "idle"] /\ work' = [work EXCEPT ![p] = Idle]

\* A run loads its plan and comes to one of the two tasks.
Begin(p) ==
  /\ cpc[p] = "idle"
  /\ \E task \in {"up", "down"} :
       /\ task = "up" => UpstreamCached
       /\ work' = [work EXCEPT ![p] =
                     [task |-> task, v |-> version, entry |-> NoEntry,
                      hash |-> TaskHash(task, version, UpHash(version))]]
  /\ cpc' = [cpc EXCEPT ![p] = "read"]
  /\ hit' = <<>> /\ UNCHANGED <<version, now, entries>>

\* cache_lookup reads result.json ...
Read(p) ==
  /\ cpc[p] = "read"
  /\ work' = [work EXCEPT ![p].entry = entries[work[p].hash]]
  /\ cpc' = [cpc EXCEPT ![p] = "judge"]
  /\ hit' = <<>> /\ UNCHANGED <<version, now, entries>>

Expired(e) == e.status = "failed" /\ e.at + TTL <= now

\* ... and takes it, or removes the entry's directory when it has expired.
Judge(p) ==
  /\ cpc[p] = "judge"
  /\ LET e == work[p].entry IN
     \/ /\ e.status # "none" /\ ~ Expired(e)
        /\ hit' = <<[v |-> work[p].v, made |-> e.made, hashed |-> e.hashed, status |-> e.status,
                      age |-> IF e.status = "failed" THEN now - e.at ELSE 0]>>
        /\ Rest(p) /\ UNCHANGED entries
     \/ /\ Expired(e)
        /\ entries' = [entries EXCEPT ![work[p].hash] = NoEntry]
        /\ cpc' = [cpc EXCEPT ![p] = "run"] /\ UNCHANGED work /\ hit' = <<>>
     \/ /\ e.status = "none"
        /\ cpc' = [cpc EXCEPT ![p] = "run"] /\ UNCHANGED <<entries, work>> /\ hit' = <<>>
  /\ UNCHANGED <<version, now>>

\* A result that is tainted, partial or had tool failures is not stored, nor is a
\* failure when the TTL is zero.
Storable(status, clean) == clean /\ (status = "failed" => TTL > 0)

\* The task runs, and its result replaces the entry (result.json.tmp, replace).
\* The runner reads a prompt's file again, after the hash has been computed.
RunAndStore(p) ==
  /\ cpc[p] = "run"
  /\ \E status \in {"success", "failed"}, clean \in BOOLEAN, used \in work[p].v .. version :
       entries' = IF Storable(status, clean)
                    THEN [entries EXCEPT ![work[p].hash] =
                            [status |-> status, made |-> used, hashed |-> work[p].v,
                             at |-> IF status = "failed" THEN now ELSE 0]]
                    ELSE entries
  /\ Rest(p) /\ hit' = <<>> /\ UNCHANGED <<version, now>>

ClearCache ==
  /\ entries' = [h \in Hashes |-> NoEntry] /\ entries # entries'
  /\ hit' = <<>> /\ UNCHANGED <<version, now, cpc, work>>

CacheNext ==
  \/ EditPrompt \/ Tick \/ ClearCache
  \/ \E p \in Process : Begin(p) \/ Read(p) \/ Judge(p) \/ RunAndStore(p)

CacheSpec == CacheInit /\ [][CacheNext]_cacheVars

-----------------------------------------------------------------------------
(* Properties.                                                             *)

CacheTypeOK ==
  /\ version \in Versions /\ now \in 0 .. MaxNow
  /\ \A h \in Hashes : entries[h].status \in {"none", "success", "failed"}

\* A hit was made with the upstream prompt of the run that takes it ("SHA-256
\* hash of task inputs for caching (Merkle DAG)", _compute_task_hash), unless the
\* run that made it had the prompt's file edited between the hash and the use.
\* And a failure is served for less than its time to live, whatever other
\* processes store, expire or clear meanwhile.
HitIsCurrent ==
  \A h \in ToSet(hit) : /\ h.made = h.v \/ h.made # h.hashed
                        /\ h.status = "failed" => h.age < TTL
=============================================================================
