------------------------------ MODULE EventChain ------------------------------
(***************************************************************************)
(* The hash chain of events.jsonl (eventsource.py): threads of a run emit  *)
(* events under _print_lock, replan goes on with the chain of a finished   *)
(* run, and verify_chain walks what replay_events reads from the file.     *)
(***************************************************************************)
EXTENDS Integers, SequencesExt

CONSTANTS
  Thread,      \* the main thread and the workers' event callbacks
  Payload,     \* contents of events
  MaxEvents    \* bound on the number of events

ASSUME ChainAssumption == MaxEvents \in Nat \ {0}

VARIABLES
  chain,    \* ChainState: sequence and prev_hash
  lines,    \* events.jsonl
  lock,     \* _print_lock: the set of its holders
  record,   \* per thread: the records it has computed and not yet written, one at most
  trail     \* replan has taken the chain up

chainVars == <<chain, lines, lock, record, trail>>

\* The hash of an event and its predecessor's: an ideal one, no two are equal.
Hash(payload, prev) == <<payload, prev>>
Genesis == <<>>      \* "0" * 16

\* A line without a hash is a legacy event.
Legacy(line) == line.hash = <<>>

-----------------------------------------------------------------------------

ChainInit ==
  /\ chain = [sequence |-> 0, prev |-> Genesis] /\ lines = <<>>
  /\ lock = {} /\ record = [t \in Thread |-> <<>>] /\ trail = FALSE

EmitUnlocked(t, p) ==   \* mutant: the chain advances outside the lock
  /\ ~ trail /\ record[t] = <<>> /\ Len(lines) < MaxEvents
  /\ record' = [record EXCEPT ![t] = <<[seq |-> chain.sequence, payload |-> p,
                                        hash |-> Hash(p, chain.prev)]>>]
  /\ chain' = [sequence |-> chain.sequence + 1, prev |-> Hash(p, chain.prev)]
  /\ UNCHANGED <<lines, lock, trail>>

\* emit_hashed_event: the record is computed and the state advances.
EmitHashed(t, p) ==
  /\ ~ trail /\ lock = {} /\ Len(lines) < MaxEvents
  /\ lock' = {t}
  /\ record' = [record EXCEPT ![t] = <<[seq |-> chain.sequence, payload |-> p,
                                        hash |-> Hash(p, chain.prev)]>>]
  /\ chain' = [sequence |-> chain.sequence + 1, prev |-> Hash(p, chain.prev)]
  /\ UNCHANGED <<lines, trail>>

WriteLine(t) ==
  /\ record[t] # <<>>
  /\ lines' = lines \o record[t]
  /\ record' = [record EXCEPT ![t] = <<>>]
  /\ lock' = {}
  /\ UNCHANGED <<chain, trail>>

-----------------------------------------------------------------------------
(* Reading it back.                                                        *)

\* replay_events on the flat lines that _emit writes: prev_hash is not taken
\* from the line, it is the last hash read.
ReplayPrev(file, i) ==
  LET hashed == {j \in 1 .. i - 1 : ~ Legacy(file[j])}
  IN IF hashed = {} THEN Genesis
     ELSE file[CHOOSE j \in hashed : \A k \in hashed : k <= j].hash

VerifyChain(file) ==
  IF \A i \in DOMAIN file : Legacy(file[i]) THEN "incomplete"
  ELSE IF \A i \in DOMAIN file :
            Legacy(file[i]) \/ file[i].hash = Hash(file[i].payload, ReplayPrev(file, i))
         THEN "valid" ELSE "tampered"

\* _open_replan_audit_trail: sequence and hash of the last record on disk.
OpenTrail ==
  /\ ~ trail /\ lock = {}
  /\ chain' = IF lines = <<>> THEN [sequence |-> 0, prev |-> Genesis]
              ELSE [sequence |-> Last(lines).seq + 1, prev |-> Last(lines).hash]
  /\ trail' = TRUE
  /\ UNCHANGED <<lines, lock, record>>

AppendAudit(p) ==
  /\ trail /\ Len(lines) < MaxEvents
  /\ lines' = Append(lines, [seq |-> chain.sequence, payload |-> p,
                             hash |-> Hash(p, chain.prev)])
  /\ chain' = [sequence |-> chain.sequence + 1, prev |-> Hash(p, chain.prev)]
  /\ UNCHANGED <<lock, record, trail>>

ChainNext ==
  \/ \E t \in Thread, p \in Payload : EmitHashed(t, p)
  \/ \E t \in Thread : WriteLine(t)
  \/ OpenTrail
  \/ \E p \in Payload : AppendAudit(p)

ChainSpec == ChainInit /\ [][ChainNext]_chainVars

-----------------------------------------------------------------------------
(* Properties.                                                             *)

\* verify_chain's verdict is exact.  Whatever the interleaving of the threads,
\* and with what replan appends, the file on disk verifies and its sequence
\* numbers count its lines; one line changed, or one lost or moved before the
\* end, is noticed.  Only a lost tail is not.
VerdictExact ==
  /\ lines # <<>> => VerifyChain(lines) = "valid"
  /\ \A i \in DOMAIN lines :
       /\ lines[i].seq = i - 1
       /\ \A p \in Payload :
            p # lines[i].payload => VerifyChain([lines EXCEPT ![i].payload = p]) = "tampered"
  /\ \A i \in 1 .. Len(lines) - 1 :
       /\ VerifyChain(RemoveAt(lines, i)) = "tampered"
       /\ VerifyChain([lines EXCEPT ![i] = lines[i + 1], ![i + 1] = lines[i]]) = "tampered"
=============================================================================
