--------------------------- MODULE SharedStateProofs ---------------------------
(***************************************************************************)
(* Theorems about what threads and processes share: the event log          *)
(* (EventChain), the result cache (TaskCache), the git workspace           *)
(* (Worktrees), the web server's registry of runs (WebRuns) and its        *)
(* streams and approvals (AgUiRuns), for every set of threads, processes,  *)
(* tasks, runs and requests.                                               *)
(***************************************************************************)
EXTENDS EventChain, TaskCache, Worktrees, WebRuns, AgUiRuns, DataLemmas

-----------------------------------------------------------------------------
(* EventChain.                                                             *)

PrevHash(file, i) == IF i = 1 THEN Genesis ELSE file[i - 1].hash

LineAt(file, i, p) ==
  [seq |-> i - 1, payload |-> p, hash |-> Hash(p, PrevHash(file, i))]

\* A file of hashed lines, each linked to the one before it.
Linked(file) ==
  /\ IsSeq(file)
  /\ \A i \in DOMAIN file : file[i] = LineAt(file, i, file[i].payload)

\* No two lines have the same hash, although two may have the same payload.
HashesApart(file) ==
  \A i, j \in DOMAIN file : file[i].hash = file[j].hash => i = j

\* What the next line will be made of, when nobody is between computing a
\* record and writing it, and when somebody is.
AtRest ==
  /\ record = [t \in Thread |-> <<>>]
  /\ chain = [sequence |-> Len(lines), prev |-> PrevHash(lines, Len(lines) + 1)]

InHand ==
  \E t \in Thread, p \in Payload :
    LET line == LineAt(lines, Len(lines) + 1, p) IN
    /\ lock = {t}
    /\ record = [u \in Thread |-> IF u = t THEN <<line>> ELSE <<>>]
    /\ chain = [sequence |-> Len(lines) + 1, prev |-> line.hash]

\* The inductive invariant: the file is linked, and the state of the chain is
\* that of its end or of the one record on its way to it.
ChainInv ==
  /\ Linked(lines) /\ HashesApart(lines)
  /\ lock = {} => AtRest
  /\ lock # {} => InHand
  /\ trail => lock = {}

LEMMA HashInjective ==
  \A p, q, a, b : /\ Hash(p, a) = Hash(q, b) => p = q /\ a = b
                  /\ Hash(p, a) # Genesis /\ Hash(p, a) # <<>>
BY DEF Hash, Genesis

\* A line that is linked to the end keeps the file linked and its hashes apart.
LEMMA LinkLine ==
  \A file, p, longer :
    /\ Linked(file) /\ HashesApart(file)
    /\ longer = Append(file, LineAt(file, Len(file) + 1, p))
    => /\ Linked(longer) /\ HashesApart(longer)
       /\ Len(longer) = Len(file) + 1
       /\ PrevHash(longer, Len(longer) + 1) = LineAt(file, Len(file) + 1, p).hash
<1> SUFFICES ASSUME NEW file, NEW p, NEW longer, Linked(file), HashesApart(file),
                    longer = Append(file, LineAt(file, Len(file) + 1, p))
             PROVE  /\ Linked(longer) /\ HashesApart(longer)
                    /\ Len(longer) = Len(file) + 1
                    /\ PrevHash(longer, Len(longer) + 1) = LineAt(file, Len(file) + 1, p).hash
  OBVIOUS
<1> DEFINE n == Len(file)
           line == LineAt(file, n + 1, p)
<1>1. /\ n \in Nat /\ DOMAIN file = 1 .. n
      /\ IsSeq(longer) /\ Len(longer) = n + 1 /\ DOMAIN longer = 1 .. n + 1
      /\ \A i \in 1 .. n : longer[i] = file[i]
      /\ longer[n + 1] = line
  BY SeqDomain, AppendSeq DEF Linked
<1>2. /\ line.hash = Hash(p, PrevHash(file, n + 1)) /\ line.payload = p
      /\ line.seq = n
  BY <1>1 DEF LineAt
<1>3. \A i \in 1 .. n + 1 : PrevHash(longer, i) = PrevHash(file, i)
  BY <1>1 DEF PrevHash
<1>4. \A i \in 1 .. n + 1 : longer[i] = LineAt(longer, i, longer[i].payload)
  <2> SUFFICES ASSUME NEW i \in 1 .. n + 1
               PROVE  longer[i] = LineAt(longer, i, longer[i].payload)
    OBVIOUS
  <2>1. CASE i \in 1 .. n
    <3>1. file[i] = LineAt(file, i, file[i].payload)
      BY <2>1, <1>1 DEF Linked
    <3> QED
      BY <3>1, <2>1, <1>1, <1>3 DEF LineAt
  <2>2. CASE i = n + 1
    BY <2>2, <1>1, <1>2, <1>3 DEF LineAt
  <2> QED
    BY <2>1, <2>2, <1>1
<1>5. \A i \in 1 .. n : file[i].hash = Hash(file[i].payload, PrevHash(file, i))
  <2>1. \A i \in 1 .. n : file[i] = LineAt(file, i, file[i].payload)
    BY <1>1 DEF Linked
  <2>2. \A i, q : LineAt(file, i, q).hash = Hash(q, PrevHash(file, i))
    BY DEF LineAt
  <2> QED
    BY <2>1, <2>2
<1>6. \A i \in 1 .. n : file[i].hash # line.hash
  <2> SUFFICES ASSUME NEW i \in 1 .. n, file[i].hash = line.hash
               PROVE  FALSE
    OBVIOUS
  <2>1. PrevHash(file, i) = PrevHash(file, n + 1)
    BY <1>2, <1>5, HashInjective
  <2>2. n \in 1 .. n /\ PrevHash(file, n + 1) = file[n].hash /\ file[n].hash # Genesis
    BY <1>1, <1>5, HashInjective DEF PrevHash
  <2>3. i # 1
    BY <2>1, <2>2 DEF PrevHash
  <2>4. i - 1 \in 1 .. n /\ i - 1 # n /\ file[i - 1].hash = file[n].hash
    BY <2>1, <2>2, <2>3, <1>1 DEF PrevHash
  <2> QED
    BY <2>2, <2>4, <1>1 DEF HashesApart
<1>7. HashesApart(longer)
  <2> SUFFICES ASSUME NEW i \in 1 .. n + 1, NEW j \in 1 .. n + 1,
                      longer[i].hash = longer[j].hash
               PROVE  i = j
    BY <1>1 DEF HashesApart
  <2>1. CASE i \in 1 .. n /\ j \in 1 .. n
    BY <2>1, <1>1 DEF HashesApart
  <2>2. CASE i = n + 1 \/ j = n + 1
    BY <2>2, <1>1, <1>6
  <2> QED
    BY <2>1, <2>2, <1>1
<1> QED
  BY <1>1, <1>2, <1>4, <1>7 DEF Linked, PrevHash

LEMMA NextChain == ChainInv /\ [ChainNext]_chainVars => ChainInv'
<1> SUFFICES ASSUME ChainInv, [ChainNext]_chainVars PROVE ChainInv'
  OBVIOUS
<1> DEFINE n == Len(lines)
<1>0. n \in Nat /\ DOMAIN lines = 1 .. n
  BY SeqDomain DEF ChainInv, Linked
<1>1. ASSUME NEW t \in Thread, NEW p \in Payload, EmitHashed(t, p)
      PROVE  ChainInv'
  <2> DEFINE line == LineAt(lines, n + 1, p)
  <2>1. /\ lock = {} /\ ~ trail /\ lock' = {t} /\ lines' = lines /\ trail' = trail
        /\ record' = [record EXCEPT ![t] = <<[seq |-> chain.sequence, payload |-> p,
                                              hash |-> Hash(p, chain.prev)]>>]
        /\ chain' = [sequence |-> chain.sequence + 1, prev |-> Hash(p, chain.prev)]
    BY <1>1 DEF EmitHashed
  <2>2. /\ record = [u \in Thread |-> <<>>]
        /\ chain.sequence = n /\ chain.prev = PrevHash(lines, n + 1)
    BY <2>1 DEF ChainInv, AtRest
  <2>3. line = [seq |-> n, payload |-> p, hash |-> Hash(p, PrevHash(lines, n + 1))]
    BY <1>0 DEF LineAt
  <2>4. record' = [u \in Thread |-> IF u = t THEN <<line>> ELSE <<>>]
    BY <2>1, <2>2, <2>3
  <2>5. chain' = [sequence |-> n + 1, prev |-> line.hash]
    BY <2>1, <2>2, <2>3
  <2>6. InHand'
    BY <2>1, <2>4, <2>5 DEF InHand
  <2> QED
    BY <2>1, <2>6 DEF ChainInv
<1>2. ASSUME NEW t \in Thread, WriteLine(t)
      PROVE  ChainInv'
  <2>1. /\ record[t] # <<>> /\ lines' = lines \o record[t]
        /\ record' = [record EXCEPT ![t] = <<>>] /\ lock' = {}
        /\ chain' = chain /\ trail' = trail
    BY <1>2 DEF WriteLine
  <2>2. lock # {}
    BY <2>1 DEF ChainInv, AtRest
  <2>3. PICK u \in Thread, p \in Payload :
          LET line == LineAt(lines, n + 1, p) IN
          /\ lock = {u}
          /\ record = [v \in Thread |-> IF v = u THEN <<line>> ELSE <<>>]
          /\ chain = [sequence |-> n + 1, prev |-> line.hash]
    BY <2>2 DEF ChainInv, InHand
  <2> DEFINE line == LineAt(lines, n + 1, p)
  <2>4. t = u /\ record[t] = <<line>>
    BY <2>1, <2>3
  <2>5. lines' = Append(lines, line)
    BY <2>1, <2>4, AppendSeq DEF ChainInv, Linked
  <2>6. /\ Linked(lines') /\ HashesApart(lines') /\ Len(lines') = n + 1
        /\ PrevHash(lines', Len(lines') + 1) = line.hash
    <3>1. Linked(lines) /\ HashesApart(lines)
      BY DEF ChainInv
    <3>2. \A b : b = Append(lines, line) =>
                  /\ Linked(b) /\ HashesApart(b) /\ Len(b) = n + 1
                  /\ PrevHash(b, Len(b) + 1) = line.hash
      BY <3>1, LinkLine
    <3> QED
      BY <2>5, <3>2
  <2>7. record' = [v \in Thread |-> <<>>]
    BY <2>1, <2>3, <2>4
  <2>8. AtRest'
    BY <2>1, <2>3, <2>6, <2>7 DEF AtRest
  <2> QED
    BY <2>1, <2>6, <2>8 DEF ChainInv
<1>3. CASE OpenTrail
  <2>1. /\ lock = {} /\ trail' /\ lines' = lines /\ lock' = lock /\ record' = record
        /\ chain' = IF lines = <<>> THEN [sequence |-> 0, prev |-> Genesis]
                    ELSE [sequence |-> Last(lines).seq + 1, prev |-> Last(lines).hash]
    BY <1>3 DEF OpenTrail
  <2>2. CASE lines = <<>>
    BY <2>1, <2>2, EmptyIsSeq DEF ChainInv, AtRest, PrevHash
  <2>3. CASE lines # <<>>
    <3>1. n \in 1 .. n
      BY <1>0, <2>3, EmptyDomain DEF ChainInv, Linked
    <3>2. Last(lines) = lines[n]
      BY DEF Last
    <3>3. lines[n] = LineAt(lines, n, lines[n].payload)
      BY <3>1, <1>0 DEF ChainInv, Linked
    <3>4. lines[n].seq = n - 1
      BY <3>3 DEF LineAt
    <3>5. PrevHash(lines, n + 1) = lines[n].hash
      BY <3>1, <1>0 DEF PrevHash
    <3> QED
      BY <2>1, <2>3, <3>1, <3>2, <3>4, <3>5 DEF ChainInv, AtRest
  <2> QED
    BY <2>2, <2>3
<1>4. ASSUME NEW p \in Payload, AppendAudit(p)
      PROVE  ChainInv'
  <2> DEFINE line == LineAt(lines, n + 1, p)
  <2>1. /\ trail /\ trail' = trail /\ lock' = lock /\ record' = record
        /\ lines' = Append(lines, [seq |-> chain.sequence, payload |-> p,
                                   hash |-> Hash(p, chain.prev)])
        /\ chain' = [sequence |-> chain.sequence + 1, prev |-> Hash(p, chain.prev)]
    BY <1>4 DEF AppendAudit
  <2>2. /\ lock = {} /\ record = [u \in Thread |-> <<>>]
        /\ chain.sequence = n /\ chain.prev = PrevHash(lines, n + 1)
    BY <2>1 DEF ChainInv, AtRest
  <2>3. line = [seq |-> n, payload |-> p, hash |-> Hash(p, PrevHash(lines, n + 1))]
    BY <1>0 DEF LineAt
  <2>4. lines' = Append(lines, line) /\ chain' = [sequence |-> n + 1, prev |-> line.hash]
    BY <2>1, <2>2, <2>3
  <2>5. /\ Linked(lines') /\ HashesApart(lines') /\ Len(lines') = n + 1
        /\ PrevHash(lines', Len(lines') + 1) = line.hash
    <3>1. Linked(lines) /\ HashesApart(lines)
      BY DEF ChainInv
    <3>2. \A b : b = Append(lines, line) =>
                  /\ Linked(b) /\ HashesApart(b) /\ Len(b) = n + 1
                  /\ PrevHash(b, Len(b) + 1) = line.hash
      BY <3>1, LinkLine
    <3> QED
      BY <2>4, <3>2
  <2>6. AtRest'
    BY <2>1, <2>2, <2>4, <2>5 DEF AtRest
  <2> QED
    BY <2>1, <2>2, <2>5, <2>6 DEF ChainInv
<1>5. CASE UNCHANGED chainVars
  BY <1>5 DEF chainVars, ChainInv, AtRest, InHand
<1> QED
  BY <1>1, <1>2, <1>3, <1>4, <1>5 DEF ChainNext

LEMMA ChainInvariant == ChainSpec => []ChainInv
<1>1. ChainInit => ChainInv
  <2> SUFFICES ASSUME ChainInit PROVE ChainInv
    OBVIOUS
  <2>1. lines = <<>> /\ DOMAIN lines = {} /\ Len(lines) = 0 /\ IsSeq(lines)
    BY EmptyIsSeq, SeqDomain DEF ChainInit
  <2> QED
    BY <2>1 DEF ChainInit, ChainInv, Linked, HashesApart, AtRest, PrevHash
<1> QED
  BY <1>1, NextChain, PTL DEF ChainSpec

\* Reading a file whose lines are all hashed, replay_events goes by the line before.
LEMMA ReplayIsPrev ==
  \A file, n, i : /\ n \in Nat /\ DOMAIN file = 1 .. n /\ i \in 1 .. n
                  /\ \A j \in 1 .. n : file[j].hash # <<>>
                  => ReplayPrev(file, i) = PrevHash(file, i)
<1> SUFFICES ASSUME NEW file, NEW n \in Nat, DOMAIN file = 1 .. n, NEW i \in 1 .. n,
                    \A j \in 1 .. n : file[j].hash # <<>>
             PROVE  ReplayPrev(file, i) = PrevHash(file, i)
  OBVIOUS
<1> DEFINE hashed == {j \in 1 .. i - 1 : ~ Legacy(file[j])}
<1>1. hashed = 1 .. i - 1
  BY DEF Legacy
<1>2. CASE i = 1
  <2>1. hashed = {}
    BY <1>1, <1>2
  <2> QED
    BY <2>1, <1>2 DEF ReplayPrev, PrevHash
<1>3. CASE i # 1
  <2>1. i - 1 \in hashed /\ \A k \in hashed : k <= i - 1
    BY <1>1, <1>3
  <2>2. \A j \in hashed : (\A k \in hashed : k <= j) => j = i - 1
    BY <2>1, <1>1
  <2>3. (CHOOSE j \in hashed : \A k \in hashed : k <= j) = i - 1
    <3> HIDE DEF hashed
    <3> QED
      BY <2>1, <2>2
  <2> QED
    BY <2>1, <2>3, <1>3 DEF ReplayPrev, PrevHash
<1> QED
  BY <1>2, <1>3

\* One line whose hash is not that of its contents and the line before is enough.
LEMMA BrokenLinkNoticed ==
  \A file, n, i : /\ n \in Nat /\ DOMAIN file = 1 .. n /\ i \in 1 .. n
                  /\ \A j \in 1 .. n : file[j].hash # <<>>
                  /\ file[i].hash # Hash(file[i].payload, PrevHash(file, i))
                  => VerifyChain(file) = "tampered"
<1> SUFFICES ASSUME NEW file, NEW n \in Nat, DOMAIN file = 1 .. n, NEW i \in 1 .. n,
                    \A j \in 1 .. n : file[j].hash # <<>>,
                    file[i].hash # Hash(file[i].payload, PrevHash(file, i))
             PROVE  VerifyChain(file) = "tampered"
  OBVIOUS
<1>1. ReplayPrev(file, i) = PrevHash(file, i)
  BY ReplayIsPrev
<1>2. \A j \in DOMAIN file : ~ Legacy(file[j])
  BY DEF Legacy
<1> QED
  BY <1>1, <1>2 DEF VerifyChain

\* What a linked file with its hashes apart says of each of its lines.
LEMMA LinesLinked ==
  ASSUME ChainInv
  PROVE  /\ Len(lines) \in Nat /\ DOMAIN lines = 1 .. Len(lines)
         /\ \A i \in 1 .. Len(lines) :
              /\ lines[i] = [seq |-> i - 1, payload |-> lines[i].payload,
                             hash |-> Hash(lines[i].payload, PrevHash(lines, i))]
              /\ lines[i].hash = Hash(lines[i].payload, PrevHash(lines, i))
              /\ lines[i].seq = i - 1
              /\ lines[i].hash # <<>>
              /\ lines[i].hash # PrevHash(lines, i)
<1> DEFINE n == Len(lines)
<1>0. n \in Nat /\ DOMAIN lines = 1 .. n
  BY SeqDomain DEF ChainInv, Linked
<1>1. \A i \in 1 .. n : lines[i] = LineAt(lines, i, lines[i].payload)
  BY <1>0 DEF ChainInv, Linked
<1>2. \A i, q : /\ LineAt(lines, i, q).hash = Hash(q, PrevHash(lines, i))
                /\ LineAt(lines, i, q).seq = i - 1
  BY DEF LineAt
<1>3. \A i \in 1 .. n : /\ lines[i].hash = Hash(lines[i].payload, PrevHash(lines, i))
                        /\ lines[i].seq = i - 1
                        /\ lines[i].hash # <<>>
  BY <1>1, <1>2, HashInjective
<1>4. ASSUME NEW i \in 1 .. n PROVE lines[i].hash # PrevHash(lines, i)
  <2>1. CASE i = 1
    BY <2>1, <1>3, HashInjective DEF PrevHash
  <2>2. CASE i # 1
    <3>1. i - 1 \in 1 .. n /\ i - 1 # i
      BY <2>2, <1>0
    <3>2. lines[i - 1].hash # lines[i].hash
      BY <3>1, <1>0 DEF ChainInv, HashesApart
    <3> QED
      BY <3>2, <2>2 DEF PrevHash
  <2> QED
    BY <2>1, <2>2
<1> QED
  BY <1>0, <1>1, <1>3, <1>4 DEF LineAt

LEMMA RemovedLine ==
  \A s, i : IsSeq(s) /\ i \in 1 .. Len(s) =>
    /\ DOMAIN RemoveAt(s, i) = 1 .. Len(s) - 1
    /\ \A j \in 1 .. Len(s) - 1 : RemoveAt(s, i)[j] = IF j < i THEN s[j] ELSE s[j + 1]
<1> SUFFICES ASSUME NEW s, IsSeq(s), NEW i \in 1 .. Len(s)
             PROVE  /\ DOMAIN RemoveAt(s, i) = 1 .. Len(s) - 1
                    /\ \A j \in 1 .. Len(s) - 1 :
                         RemoveAt(s, i)[j] = IF j < i THEN s[j] ELSE s[j + 1]
  OBVIOUS
<1>1. PICK S : s \in Seq(S)
  BY DEF IsSeq
<1> DEFINE n == Len(s)
           front == SubSeq(s, 1, i - 1)
           back == SubSeq(s, i + 1, n)
<1>2. n \in Nat /\ i \in Nat /\ 1 <= i /\ i <= n
  BY <1>1
<1>3. /\ front \in Seq(S) /\ Len(front) = i - 1
      /\ \A j \in 1 .. i - 1 : front[j] = s[j]
  BY <1>1, <1>2, SubSeqProperties
<1>4. /\ back \in Seq(S) /\ Len(back) = n - i
      /\ \A j \in 1 .. n - i : back[j] = s[i + j]
  BY <1>1, <1>2, SubSeqProperties
<1>5. RemoveAt(s, i) = front \o back
  BY DEF RemoveAt
<1> HIDE DEF front, back
<1>6. /\ Len(front \o back) = n - 1 /\ front \o back \in Seq(S)
      /\ \A j \in 1 .. n - 1 : (front \o back)[j] = IF j <= i - 1 THEN front[j] ELSE back[j - (i - 1)]
  <2>1. /\ front \o back \in Seq(S) /\ Len(front \o back) = Len(front) + Len(back)
        /\ \A j \in 1 .. Len(front) + Len(back) :
             (front \o back)[j] = IF j <= Len(front) THEN front[j] ELSE back[j - Len(front)]
    BY <1>3, <1>4, ConcatProperties
  <2>2. Len(front) + Len(back) = n - 1
    BY <1>2, <1>3, <1>4
  <2> QED
    BY <1>3, <2>1, <2>2
<1>7. DOMAIN (front \o back) = 1 .. n - 1
  BY <1>6, LenProperties
<1>8. ASSUME NEW j \in 1 .. n - 1
      PROVE  (front \o back)[j] = IF j < i THEN s[j] ELSE s[j + 1]
  <2>1. CASE j < i
    BY <2>1, <1>2, <1>3, <1>6
  <2>2. CASE ~ (j < i)
    <3>1. j - (i - 1) \in 1 .. n - i /\ i + (j - (i - 1)) = j + 1
      BY <2>2, <1>2
    <3> QED
      BY <3>1, <2>2, <1>2, <1>4, <1>6
  <2> QED
    BY <2>1, <2>2
<1> QED
  BY <1>5, <1>7, <1>8

LEMMA InvVerdictExact == ChainInv => VerdictExact
<1> SUFFICES ASSUME ChainInv PROVE VerdictExact
  OBVIOUS
<1> DEFINE n == Len(lines)
<1>0. /\ n \in Nat /\ DOMAIN lines = 1 .. n
      /\ \A i \in 1 .. n :
           /\ lines[i] = [seq |-> i - 1, payload |-> lines[i].payload,
                          hash |-> Hash(lines[i].payload, PrevHash(lines, i))]
           /\ lines[i].hash = Hash(lines[i].payload, PrevHash(lines, i))
           /\ lines[i].seq = i - 1
           /\ lines[i].hash # <<>>
           /\ lines[i].hash # PrevHash(lines, i)
  BY LinesLinked
<1>1. ASSUME lines # <<>> PROVE VerifyChain(lines) = "valid"
  <2>1. 1 \in DOMAIN lines
    BY <1>0, <1>1, EmptyDomain DEF ChainInv, Linked
  <2>2. \A i \in DOMAIN lines : ~ Legacy(lines[i])
    BY <1>0 DEF Legacy
  <2>3. \A i \in DOMAIN lines : lines[i].hash = Hash(lines[i].payload, ReplayPrev(lines, i))
    BY <1>0, ReplayIsPrev
  <2> QED
    BY <2>1, <2>2, <2>3 DEF VerifyChain
<1>2. ASSUME NEW i \in DOMAIN lines, NEW p \in Payload, p # lines[i].payload
      PROVE  VerifyChain([lines EXCEPT ![i].payload = p]) = "tampered"
  <2> DEFINE file == [lines EXCEPT ![i].payload = p]
  <2>1. DOMAIN file = 1 .. n /\ i \in 1 .. n
    BY <1>0
  <2>2. \A j \in 1 .. n : file[j].hash = lines[j].hash
    BY <1>0
  <2>3. file[i].payload = p
    BY <1>0
  <2>4. file[i].hash # Hash(p, PrevHash(file, i))
    BY <2>1, <2>2, <1>0, <1>2, HashInjective
  <2> HIDE DEF file
  <2>5. VerifyChain(file) = "tampered"
    BY <2>1, <2>2, <2>3, <2>4, <1>0, BrokenLinkNoticed
  <2> QED
    BY <2>5 DEF file
<1>3. ASSUME NEW i \in 1 .. n - 1
      PROVE  VerifyChain(RemoveAt(lines, i)) = "tampered"
  <2> DEFINE file == RemoveAt(lines, i)
  <2>0. i \in 1 .. n /\ i + 1 \in 1 .. n /\ n - 1 \in Nat
    BY <1>0
  <2>1. /\ DOMAIN file = 1 .. n - 1
        /\ \A j \in 1 .. n - 1 : file[j] = IF j < i THEN lines[j] ELSE lines[j + 1]
    BY <2>0, RemovedLine DEF ChainInv, Linked
  <2> HIDE DEF file
  <2>2. \A j \in 1 .. n - 1 : file[j].hash # <<>>
    BY <2>0, <2>1, <1>0
  <2>3. file[i] = lines[i + 1] /\ PrevHash(file, i) = PrevHash(lines, i)
    <3>1. CASE i = 1
      BY <3>1, <2>0, <2>1 DEF PrevHash
    <3>2. CASE i # 1
      <4>1. i - 1 \in 1 .. n - 1 /\ i - 1 < i
        BY <3>2, <2>0
      <4> QED
        BY <4>1, <3>2, <2>0, <2>1 DEF PrevHash
    <3> QED
      BY <3>1, <3>2
  <2>4. PrevHash(lines, i + 1) = lines[i].hash
    BY <2>0 DEF PrevHash
  <2>5. file[i].hash # Hash(file[i].payload, PrevHash(file, i))
    BY <2>0, <2>3, <2>4, <1>0, HashInjective
  <2>6. VerifyChain(file) = "tampered"
    BY <2>0, <2>1, <2>2, <2>5, BrokenLinkNoticed
  <2> QED
    BY <2>6 DEF file
<1>4. ASSUME NEW i \in 1 .. n - 1
      PROVE  VerifyChain([lines EXCEPT ![i] = lines[i + 1], ![i + 1] = lines[i]]) = "tampered"
  <2> DEFINE file == [lines EXCEPT ![i] = lines[i + 1], ![i + 1] = lines[i]]
  <2>0. i \in 1 .. n /\ i + 1 \in 1 .. n /\ i # i + 1
    BY <1>0
  <2>1. /\ DOMAIN file = 1 .. n
        /\ file[i] = lines[i + 1] /\ file[i + 1] = lines[i]
        /\ \A j \in 1 .. n \ {i, i + 1} : file[j] = lines[j]
    BY <2>0, <1>0
  <2> HIDE DEF file
  <2>2. \A j \in 1 .. n : file[j].hash # <<>>
    BY <2>0, <2>1, <1>0
  <2>3. PrevHash(file, i) = PrevHash(lines, i)
    <3>1. CASE i = 1
      BY <3>1 DEF PrevHash
    <3>2. CASE i # 1
      <4>1. i - 1 \in 1 .. n \ {i, i + 1}
        BY <3>2, <2>0
      <4> QED
        BY <4>1, <3>2, <2>1 DEF PrevHash
    <3> QED
      BY <3>1, <3>2
  <2>4. PrevHash(lines, i + 1) = lines[i].hash
    BY <2>0 DEF PrevHash
  <2>5. file[i].hash # Hash(file[i].payload, PrevHash(file, i))
    BY <2>0, <2>1, <2>3, <2>4, <1>0, HashInjective
  <2>6. VerifyChain(file) = "tampered"
    BY <2>0, <2>1, <2>2, <2>5, <1>0, BrokenLinkNoticed
  <2> QED
    BY <2>6 DEF file
<1> QED
  BY <1>0, <1>1, <1>2, <1>3, <1>4 DEF VerdictExact

\* The chain that the threads of a run and replan write between them always
\* verifies, and verify_chain notices every change of one line and every line
\* lost or moved before the end, for any number of threads and events.
THEOREM ChainVerdictExact == ChainSpec => []VerdictExact
BY ChainInvariant, InvVerdictExact, PTL

-----------------------------------------------------------------------------
(* TaskCache.                                                              *)

Entries == [status : {"none", "success", "failed"}, made : Nat, at : Nat, hashed : Nat]
Work == [task : {"up", "down"}, v : Versions, hash : Hashes, entry : Entries]

CacheTyped ==
  /\ version \in Versions /\ now \in Nat
  /\ entries \in [Hashes -> Entries]
  /\ cpc \in [Process -> {"idle", "read", "judge", "run"}]
  /\ work \in [Process -> Work]

\* The entry is none, or made with a version that has this hash, or with a prompt
\* that was edited after the hash.
MadeFor(h, e) ==
  e.status # "none" =>
    /\ e.made \in Versions
    /\ h = TaskHash(h.task, e.made, UpHash(e.made)) \/ e.made # e.hashed

HashAtHand(w) == w.hash = TaskHash(w.task, w.v, UpHash(w.v))

\* The inductive invariant: every entry, on disk or in the hands of a process that
\* has read it, is filed under the hash of the version it was made with, or its
\* prompt was edited meanwhile.
CacheInv ==
  /\ CacheTyped
  /\ \A h \in Hashes : MadeFor(h, entries[h])
  /\ \A p \in Process : /\ MadeFor(work[p].hash, work[p].entry)
                        /\ cpc[p] # "idle" => HashAtHand(work[p])
  /\ HitIsCurrent

LEMMA NoEntryTyped == NoEntry \in Entries /\ \A h : MadeFor(h, NoEntry)
BY DEF NoEntry, Entries, MadeFor

LEMMA HashTyped ==
  ASSUME NEW task \in {"up", "down"}, NEW v \in Versions
  PROVE  /\ TaskHash(task, v, UpHash(v)) \in Hashes
         /\ TaskHash(task, v, UpHash(v)).task = task
<1>1. 1 \in Versions
  BY CacheAssumption DEF Versions
<1>2. UpHash(v) \in {NoHash} \cup Versions
  BY DEF UpHash
<1>3. CASE task = "up"
  BY <1>3 DEF TaskHash, Hashes
<1>4. CASE task = "down"
  BY <1>1, <1>2, <1>4 DEF TaskHash, Hashes
<1> QED
  BY <1>3, <1>4

LEMMA IdleTyped == Idle \in Work /\ Idle.entry = NoEntry
<1>1. 1 \in Versions
  BY CacheAssumption DEF Versions
<1>2. TaskHash("up", 1, NoHash) \in Hashes
  BY <1>1 DEF TaskHash, Hashes, NoHash
<1> QED
  BY <1>1, <1>2, NoEntryTyped DEF Idle, Work

\* Where the upstream task is cached, its version is part of both tasks' hashes.
LEMMA HashTellsVersion ==
  ASSUME UpstreamCached, NEW task \in {"up", "down"}, NEW v \in Versions, NEW w \in Versions,
         TaskHash(task, v, UpHash(v)) = TaskHash(task, w, UpHash(w))
  PROVE  v = w
BY DEF TaskHash, UpHash, NoHash, Versions

LEMMA HitsOf ==
  /\ HitIsCurrent' <=> \A i \in DOMAIN hit' :
                          /\ hit'[i].made = hit'[i].v \/ hit'[i].made # hit'[i].hashed
                          /\ hit'[i].status = "failed" => hit'[i].age < TTL
  /\ hit' = <<>> => HitIsCurrent'
  /\ \A h : /\ hit' = <<h>> /\ (h.made = h.v \/ h.made # h.hashed)
            /\ h.status = "failed" => h.age < TTL
            => HitIsCurrent'
BY DEF HitIsCurrent, ToSet

LEMMA NextCache ==
  ASSUME UpstreamCached, CacheInv, [CacheNext]_cacheVars
  PROVE  CacheInv'
<1> USE DEF CacheInv, CacheTyped
<1>1. CASE EditPrompt
  <2>1. version' \in Versions
    BY <1>1, CacheAssumption DEF EditPrompt, Versions
  <2> QED
    BY <1>1, <2>1, HitsOf DEF EditPrompt
<1>2. CASE Tick
  BY <1>2, HitsOf DEF Tick
<1>3. CASE ClearCache
  BY <1>3, HitsOf, NoEntryTyped DEF ClearCache
<1>4. ASSUME NEW p \in Process, Begin(p)
      PROVE  CacheInv'
  <2>1. PICK task \in {"up", "down"} :
          work' = [work EXCEPT ![p] = [task |-> task, v |-> version, entry |-> NoEntry,
                                       hash |-> TaskHash(task, version, UpHash(version))]]
    BY <1>4 DEF Begin
  <2> DEFINE w == [task |-> task, v |-> version, entry |-> NoEntry,
                   hash |-> TaskHash(task, version, UpHash(version))]
  <2>2. w \in Work /\ MadeFor(w.hash, w.entry) /\ HashAtHand(w)
    BY HashTyped, NoEntryTyped DEF Work, HashAtHand
  <2>3. /\ cpc' = [cpc EXCEPT ![p] = "read"]
        /\ hit' = <<>> /\ version' = version /\ now' = now /\ entries' = entries
    BY <1>4 DEF Begin
  <2> HIDE DEF w
  <2>4. work' = [work EXCEPT ![p] = w]
    BY <2>1 DEF w
  <2> QED
    BY <2>2, <2>3, <2>4, HitsOf
<1>5. ASSUME NEW p \in Process, Read(p)
      PROVE  CacheInv'
  <2> DEFINE w == [work[p] EXCEPT !.entry = entries[work[p].hash]]
  <2>1. /\ w \in Work /\ w.hash = work[p].hash /\ w.entry = entries[work[p].hash]
        /\ w.task = work[p].task /\ w.v = work[p].v
    BY DEF Work
  <2>2. MadeFor(w.hash, w.entry) /\ (cpc[p] # "idle" => HashAtHand(w))
    BY <2>1 DEF HashAtHand, Work
  <2>3. /\ cpc[p] = "read" /\ cpc' = [cpc EXCEPT ![p] = "judge"]
        /\ hit' = <<>> /\ version' = version /\ now' = now /\ entries' = entries
        /\ work' = [work EXCEPT ![p] = w]
    BY <1>5 DEF Read
  <2> HIDE DEF w
  <2> QED
    BY <2>1, <2>2, <2>3, HitsOf
<1>6. ASSUME NEW p \in Process, Judge(p)
      PROVE  CacheInv'
  <2> DEFINE e == work[p].entry
  <2>0. cpc[p] = "judge" /\ version' = version /\ now' = now /\ e \in Entries
    BY <1>6 DEF Judge, Work
  <2>1. CASE /\ e.status # "none" /\ ~ Expired(e)
             /\ hit' = <<[v |-> work[p].v, made |-> e.made, hashed |-> e.hashed, status |-> e.status,
                           age |-> IF e.status = "failed" THEN now - e.at ELSE 0]>>
             /\ Rest(p) /\ UNCHANGED entries
    <3>1. MadeFor(work[p].hash, e) /\ HashAtHand(work[p]) /\ work[p].v \in Versions
          /\ work[p].task \in {"up", "down"}
      BY <2>0 DEF Work
    <3>2. /\ e.made \in Versions
          /\ \/ TaskHash(work[p].hash.task, e.made, UpHash(e.made))
                  = TaskHash(work[p].task, work[p].v, UpHash(work[p].v))
             \/ e.made # e.hashed
      BY <2>1, <3>1 DEF MadeFor, HashAtHand
    <3>3. work[p].hash.task = work[p].task
      BY <3>1, HashTyped DEF HashAtHand
    <3>4. e.made = work[p].v \/ e.made # e.hashed
      BY <3>1, <3>2, <3>3, HashTellsVersion
    <3>5. e.status = "failed" => now - e.at < TTL
      BY <2>0, <2>1, CacheAssumption DEF Expired, Entries
    <3>6. HitIsCurrent'
      BY <2>1, <3>4, <3>5, HitsOf
    <3> QED
      BY <2>0, <2>1, <3>6, IdleTyped, NoEntryTyped DEF Rest
  <2>2. CASE /\ Expired(e)
             /\ entries' = [entries EXCEPT ![work[p].hash] = NoEntry]
             /\ cpc' = [cpc EXCEPT ![p] = "run"] /\ UNCHANGED work /\ hit' = <<>>
    BY <2>0, <2>2, HitsOf, NoEntryTyped
  <2>3. CASE /\ e.status = "none"
             /\ cpc' = [cpc EXCEPT ![p] = "run"] /\ UNCHANGED <<entries, work>> /\ hit' = <<>>
    BY <2>0, <2>3, HitsOf
  <2> QED
    BY <1>6, <2>1, <2>2, <2>3 DEF Judge
<1>7. ASSUME NEW p \in Process, RunAndStore(p)
      PROVE  CacheInv'
  <2>1. PICK how \in {"success", "failed"}, clean \in BOOLEAN, used \in work[p].v .. version :
          entries' = IF Storable(how, clean)
                       THEN [entries EXCEPT ![work[p].hash] =
                               [status |-> how, made |-> used, hashed |-> work[p].v,
                                at |-> IF how = "failed" THEN now ELSE 0]]
                       ELSE entries
    BY <1>7 DEF RunAndStore
  <2>2. cpc[p] = "run" /\ Rest(p) /\ hit' = <<>> /\ version' = version /\ now' = now
    BY <1>7 DEF RunAndStore
  <2> DEFINE e == [status |-> how, made |-> used, hashed |-> work[p].v,
                   at |-> IF how = "failed" THEN now ELSE 0]
  <2>3. /\ work[p].v \in Versions /\ work[p].task \in {"up", "down"} /\ work[p].hash \in Hashes
        /\ HashAtHand(work[p])
    BY <2>2 DEF Work
  <2>4. e \in Entries /\ e.made \in Versions /\ (e.made = work[p].v \/ e.made # e.hashed)
    <3>1. used \in Versions /\ (IF how = "failed" THEN now ELSE 0) \in Nat
      BY <2>3, CacheAssumption DEF Versions
    <3>2. used \in Nat
      BY <3>1 DEF Versions
    <3>3. work[p].v \in Nat
      BY <2>3 DEF Versions
    <3> QED
      BY <3>1, <3>2, <3>3 DEF Entries
  <2>5. MadeFor(work[p].hash, e)
    BY <2>3, <2>4, HashTyped DEF MadeFor, HashAtHand
  <2>6. entries' \in [Hashes -> Entries] /\ \A h \in Hashes : MadeFor(h, entries'[h])
    <3> HIDE DEF e
    <3>1. entries' = IF Storable(how, clean) THEN [entries EXCEPT ![work[p].hash] = e]
                     ELSE entries
      BY <2>1 DEF e
    <3> QED
      BY <3>1, <2>3, <2>4, <2>5
  <2> QED
    BY <2>2, <2>6, HitsOf, IdleTyped, NoEntryTyped DEF Rest
<1>8. CASE UNCHANGED cacheVars
  BY <1>8 DEF cacheVars, HitIsCurrent
<1> QED
  BY <1>1, <1>2, <1>3, <1>4, <1>5, <1>6, <1>7, <1>8 DEF CacheNext

\* A hit is a result made with the upstream prompt that the plan has, unless its
\* file was edited between its hash and its use, and a failure is served for less
\* than its time to live, for any number of processes, prompts and ticks, if the
\* upstream task is cached too; if it is not, its hash is the empty string
\* whatever its prompt.
THEOREM HitsCurrent ==
  ASSUME UpstreamCached
  PROVE  CacheSpec => []HitIsCurrent
<1>1. CacheInit => CacheInv
  <2> SUFFICES ASSUME CacheInit PROVE CacheInv
    OBVIOUS
  <2>1. 1 \in Versions
    BY CacheAssumption DEF Versions
  <2>2. HitIsCurrent
    BY DEF CacheInit, HitIsCurrent, ToSet
  <2> QED
    BY <2>1, <2>2, IdleTyped, NoEntryTyped DEF CacheInit, CacheInv, CacheTyped
<1>2. CacheInv /\ [CacheNext]_cacheVars => CacheInv'
  BY NextCache
<1>3. CacheInv => HitIsCurrent
  BY DEF CacheInv
<1> QED
  BY <1>1, <1>2, <1>3, PTL DEF CacheSpec

-----------------------------------------------------------------------------
(* Worktrees.                                                              *)

AtMostOne(S) == {<<>>} \cup {<<x>> : x \in S}
Branches == [from : Nat, files : SUBSET File]
Merges == [by : Task, files : SUBSET File, own : SUBSET File, verdict : {"safe", "resolvable"}]
BranchNames == {Branch[t] : t \in Task}

TreeTyped ==
  /\ Branch \in Namings /\ branches \in [BranchNames -> AtMostOne(Branches)]
  /\ base \in Seq(Merges) /\ staged \in AtMostOne(Branches)
  /\ session \in [n : Nat, from : Nat] /\ session.from <= Len(base)
  /\ merging \subseteq Task /\ ledger \subseteq File /\ nested \in BOOLEAN
  /\ wpc \in [Task -> {"create", "agent", "merge", "commit", "abort", "cleanup", "done"}]
  /\ overlap \in [Task -> SUBSET File] /\ made \in [Task -> SUBSET File]
  /\ outcome \in [Task -> {"none", "empty", "merged", "conflict", "error"}]

\* The lock: who previews, commits or aborts a merge is its one holder.
LockHeld ==
  /\ \A t \in Task : t \in merging <=> wpc[t] \in {"commit", "abort"}
  /\ \A t, u \in merging : t = u

\* A task that has created its branch and not cleaned up owns it: the branch is
\* there, it has what the task's agent committed and nothing else, and no other
\* task works on it.
Owning == {"agent", "merge", "commit", "abort", "cleanup"}

BranchesOwned ==
  /\ \A t \in Task :
       /\ wpc[t] \in Owning => branches[Branch[t]] # <<>>
       /\ wpc[t] = "agent" => branches[Branch[t]][1].files = {}
       /\ wpc[t] = "merge" => branches[Branch[t]][1].files = made[t]
  /\ \A t, u \in Task : wpc[t] \in Owning /\ wpc[u] \in Owning /\ Branch[t] = Branch[u] => t = u

\* The preview about to be committed is that of its task, reviewed against the
\* files merged since the run began.
PreviewReviewed ==
  \A t \in Task : wpc[t] = "commit" =>
    /\ staged # <<>> => staged[1].files = made[t]
    /\ ~ nested => made[t] \cap ledger \subseteq overlap[t]

LedgerComplete ==
  ~ nested => \A i \in session.from + 1 .. Len(base) : base[i].files \subseteq ledger

\* The inductive invariant.
TreeInv ==
  TreeTyped /\ LockHeld /\ BranchesOwned /\ PreviewReviewed /\ LedgerComplete /\ MergesAccounted

LEMMA NoneOrOne ==
  \A S, s : s \in AtMostOne(S) =>
    /\ s # <<>> => s[1] \in S /\ s = <<s[1]>> /\ ToSet(s) = {s[1]} /\ Len(s) = 1
    /\ s = <<>> => Len(s) = 0 /\ ToSet(s) = {}
BY DEF AtMostOne, ToSet

LEMMA OneOfMany == \A S : <<>> \in AtMostOne(S) /\ \A x \in S : <<x>> \in AtMostOne(S)
BY DEF AtMostOne

\* A step that leaves the branches and the agents' commits alone, and gives no
\* task a branch.
LEMMA KeepOwned ==
  ASSUME BranchesOwned, Branch' = Branch, branches' = branches, made' = made,
         \A t \in Task : wpc'[t] = wpc[t] \/ (wpc'[t] \notin {"agent", "merge"}
                                              /\ (wpc'[t] \in Owning => wpc[t] \in Owning))
  PROVE  BranchesOwned'
<1>1. \A t \in Task : /\ wpc'[t] = "agent" => wpc[t] = "agent"
                      /\ wpc'[t] = "merge" => wpc[t] = "merge"
                      /\ wpc'[t] \in Owning => wpc[t] \in Owning
  <2> TAKE t \in Task
  <2> QED
    OBVIOUS
<1>2. \A t, u \in Task : wpc'[t] \in Owning /\ wpc'[u] \in Owning /\ Branch'[t] = Branch'[u] => t = u
  <2> TAKE t, u \in Task
  <2> HAVE wpc'[t] \in Owning /\ wpc'[u] \in Owning /\ Branch'[t] = Branch'[u]
  <2> QED
    BY <1>1 DEF BranchesOwned
<1>3. \A t \in Task : /\ wpc'[t] \in Owning => branches'[Branch'[t]] # <<>>
                      /\ wpc'[t] = "agent" => branches'[Branch'[t]][1].files = {}
                      /\ wpc'[t] = "merge" => branches'[Branch'[t]][1].files = made'[t]
  <2> TAKE t \in Task
  <2> QED
    BY <1>1 DEF BranchesOwned
<1> QED
  BY <1>2, <1>3 DEF BranchesOwned

LEMMA StepOf ==
  ASSUME TreeTyped, NEW t \in Task, NEW next, wpc' = [wpc EXCEPT ![t] = next]
  PROVE  \A u \in Task : wpc'[u] = IF u = t THEN next ELSE wpc[u]
BY DEF TreeTyped

LEMMA InitTree == TreeInit => TreeInv
<1> SUFFICES ASSUME TreeInit PROVE TreeInv
  OBVIOUS
<1>1. TreeTyped
  <2>1. branches \in [BranchNames -> AtMostOne(Branches)] /\ staged \in AtMostOne(Branches)
    BY OneOfMany DEF TreeInit, BranchNames
  <2>2. base \in Seq(Merges) /\ Len(base) = 0
    BY DEF TreeInit
  <2>3. session \in [n : Nat, from : Nat] /\ session.from <= Len(base)
    BY <2>2 DEF TreeInit
  <2> QED
    BY <2>1, <2>2, <2>3 DEF TreeInit, TreeTyped
<1>2. LockHeld /\ BranchesOwned /\ PreviewReviewed
  BY DEF TreeInit, LockHeld, BranchesOwned, PreviewReviewed, Owning
<1>3. LedgerComplete /\ MergesAccounted
  BY DEF TreeInit, LedgerComplete, MergesAccounted
<1> QED
  BY <1>1, <1>2, <1>3 DEF TreeInv

LEMMA NextTree ==
  ASSUME TreeInv, [TreeNext]_treeVars
  PROVE  TreeInv'
<1>0. /\ TreeTyped /\ LockHeld /\ BranchesOwned /\ PreviewReviewed /\ LedgerComplete
      /\ MergesAccounted
  BY DEF TreeInv
<1>1. ASSUME NEW t \in Task, CreateWorktree(t)
      PROVE  TreeInv'
  <2> USE <1>0, <1>1 DEF Goto
  <2>1. /\ wpc[t] = "create" /\ merging' = merging /\ Branch' = Branch /\ made' = made
        /\ base' = base /\ staged' = staged /\ ledger' = ledger /\ overlap' = overlap
        /\ outcome' = outcome /\ session' = session /\ nested' = nested
    BY DEF CreateWorktree
  <2>2. LedgerComplete' /\ MergesAccounted'
    BY <2>1 DEF LedgerComplete, MergesAccounted
  <2>3. CASE /\ branches[Branch[t]] = <<>>
             /\ branches' = [branches EXCEPT ![Branch[t]] = <<[from |-> Len(base), files |-> {}]>>]
             /\ wpc' = [wpc EXCEPT ![t] = "agent"]
    <3> DEFINE b == [from |-> Len(base), files |-> {}]
    <3>1. b \in Branches /\ b.files = {}
      BY DEF TreeTyped, Branches
    <3>2. <<b>> # <<>> /\ <<b>>[1] = b /\ <<b>> \in AtMostOne(Branches)
      BY <3>1, OneOfMany
    <3>3. Branch[t] \in BranchNames
      BY DEF BranchNames
    <3> DEFINE one == <<b>>
    <3>4. branches' = [branches EXCEPT ![Branch[t]] = one]
      BY <2>3
    <3>5. one # <<>> /\ one[1].files = {} /\ one \in AtMostOne(Branches)
      BY <3>1, <3>2
    <3> HIDE DEF b, one
    <3>6. TreeTyped'
      <4>1. branches' \in [BranchNames -> AtMostOne(Branches)] /\ BranchNames' = BranchNames
        BY <2>1, <3>4, <3>5, <3>3 DEF TreeTyped, BranchNames
      <4> QED
        BY <4>1, <2>1, <2>3 DEF TreeTyped
    <3>7. \A u \in Task : wpc[u] \in Owning => Branch[u] # Branch[t]
      BY <2>1, <2>3 DEF BranchesOwned
    <3>8. BranchesOwned'
      BY <2>1, <2>3, <3>3, <3>4, <3>5, <3>7 DEF BranchesOwned, Owning, TreeTyped, BranchNames
    <3>9. LockHeld' /\ PreviewReviewed'
      BY <2>1, <2>3 DEF LockHeld, PreviewReviewed, TreeTyped
    <3> QED
      BY <2>2, <3>6, <3>8, <3>9 DEF TreeInv
  <2>4. CASE branches' = branches /\ wpc' = [wpc EXCEPT ![t] = "done"]
    <3>1. TreeTyped'
      BY <2>1, <2>4 DEF TreeTyped, BranchNames
    <3>2. BranchesOwned'
      BY <2>1, <2>4 DEF BranchesOwned, Owning, TreeTyped
    <3>3. LockHeld' /\ PreviewReviewed'
      BY <2>1, <2>4 DEF LockHeld, PreviewReviewed, TreeTyped
    <3> QED
      BY <2>2, <3>1, <3>2, <3>3 DEF TreeInv
  <2> QED
    BY <2>3, <2>4 DEF CreateWorktree
<1>2. ASSUME NEW t \in Task, RunAgent(t)
      PROVE  TreeInv'
  <2> USE <1>0
  <2>1. /\ wpc[t] = "agent" /\ merging' = merging /\ Branch' = Branch
        /\ base' = base /\ staged' = staged /\ ledger' = ledger /\ overlap' = overlap
        /\ outcome' = outcome /\ session' = session /\ nested' = nested
    BY <1>2 DEF RunAgent
  <2>2. PICK files \in SUBSET File :
          /\ made' = [made EXCEPT ![t] = files]
          /\ branches' = [branches EXCEPT ![Branch[t]] = AddFiles(@, files)]
    BY <1>2 DEF RunAgent
  <2>3. PICK next \in {"merge", "cleanup", "done"} : wpc' = [wpc EXCEPT ![t] = next]
    BY <1>2 DEF RunAgent, Goto
  <2>4. Branch[t] \in BranchNames
    BY DEF BranchNames
  <2> DEFINE b == branches[Branch[t]][1]
             worked == [b EXCEPT !.files = @ \cup files]
  <2>5. /\ branches[Branch[t]] = <<b>> /\ b \in Branches /\ b.files = {}
    BY <2>1, <2>4, NoneOrOne DEF TreeTyped, BranchesOwned, Owning
  <2>6. worked \in Branches /\ worked.files = files
    BY <2>5 DEF Branches
  <2> DEFINE one == <<worked>>
  <2>7. AddFiles(<<b>>, files) = one
    BY DEF AddFiles
  <2>8. branches' = [branches EXCEPT ![Branch[t]] = one]
    <3> HIDE DEF b, one
    <3> QED
      BY <2>2, <2>5, <2>7
  <2>9. one # <<>> /\ one[1].files = files /\ one \in AtMostOne(Branches)
    BY <2>6, OneOfMany
  <2> HIDE DEF b, worked, one
  <2>10. TreeTyped'
    <3>1. branches' \in [BranchNames -> AtMostOne(Branches)] /\ BranchNames' = BranchNames
      BY <2>1, <2>4, <2>8, <2>9 DEF TreeTyped, BranchNames
    <3> QED
      BY <3>1, <2>1, <2>2, <2>3 DEF TreeTyped
  <2>11. BranchesOwned'
    <3>1. \A u \in Task : u # t /\ wpc[u] \in Owning => Branch[u] # Branch[t]
      BY <2>1 DEF BranchesOwned, Owning
    <3>2. \A u \in Task : Branch[u] \in BranchNames
      BY DEF BranchNames
    <3>3. \A u \in Task : branches'[Branch[u]] = IF Branch[u] = Branch[t] THEN one
                                                ELSE branches[Branch[u]]
      BY <2>8, <3>2 DEF TreeTyped
    <3>4. \A u \in Task : wpc'[u] = IF u = t THEN next ELSE wpc[u]
      BY <2>3, StepOf
    <3>5. \A u \in Task : made'[u] = IF u = t THEN files ELSE made[u]
      BY <2>2 DEF TreeTyped
    <3>6. \A u \in Task : wpc'[u] \in Owning => wpc[u] \in Owning /\ branches'[Branch[u]] # <<>>
      BY <2>1, <2>9, <3>3, <3>4 DEF BranchesOwned, Owning
    <3>7. \A u, v \in Task : wpc'[u] \in Owning /\ wpc'[v] \in Owning /\ Branch'[u] = Branch'[v] => u = v
      BY <2>1, <3>6 DEF BranchesOwned
    <3>8. \A u \in Task : wpc'[u] = "agent" => branches'[Branch'[u]][1].files = {}
      BY <2>1, <3>1, <3>3, <3>4 DEF BranchesOwned, Owning
    <3>9. \A u \in Task : wpc'[u] = "merge" => branches'[Branch'[u]][1].files = made'[u]
      BY <2>1, <2>9, <3>1, <3>3, <3>4, <3>5 DEF BranchesOwned, Owning
    <3> QED
      BY <2>1, <3>6, <3>7, <3>8, <3>9 DEF BranchesOwned
  <2>12. LockHeld' /\ PreviewReviewed'
    BY <2>1, <2>2, <2>3 DEF LockHeld, PreviewReviewed, TreeTyped
  <2>13. LedgerComplete' /\ MergesAccounted'
    BY <2>1 DEF LedgerComplete, MergesAccounted
  <2> QED
    BY <2>10, <2>11, <2>12, <2>13 DEF TreeInv
<1>3. ASSUME NEW t \in Task, Preview(t)
      PROVE  TreeInv'
  <2> USE <1>0
  <2>1. /\ wpc[t] = "merge" /\ merging = {} /\ Branch' = Branch /\ base' = base
        /\ branches' = branches /\ ledger' = ledger /\ made' = made
        /\ session' = session /\ nested' = nested
    BY <1>3 DEF Preview
  <2> DEFINE b == branches[Branch[t]][1]
  <2>2. ToSet(branches[Branch[t]]) = {b} /\ b \in Branches /\ b.files = made[t]
    <3>1. branches[Branch[t]] \in AtMostOne(Branches) /\ branches[Branch[t]] # <<>>
      BY <2>1 DEF TreeTyped, BranchesOwned, Owning, BranchNames
    <3> QED
      BY <3>1, <2>1, NoneOrOne DEF BranchesOwned
  <2> HIDE DEF b
  <2>3. LedgerComplete' /\ MergesAccounted'
    BY <2>1 DEF LedgerComplete, MergesAccounted
  <2>4. ASSUME outcome' = [outcome EXCEPT ![t] = "empty"], Goto(t, "cleanup"),
               UNCHANGED <<staged, merging, overlap>>
        PROVE  TreeInv'
    <3> USE <2>4 DEF Goto
    <3>1. TreeTyped'
      BY <2>1 DEF TreeTyped, BranchNames
    <3>2. BranchesOwned'
      BY <2>1, StepOf, KeepOwned DEF Owning
    <3>3. LockHeld' /\ PreviewReviewed'
      BY <2>1 DEF LockHeld, PreviewReviewed, TreeTyped
    <3> QED
      BY <2>3, <3>1, <3>2, <3>3 DEF TreeInv
  <2>5. ASSUME merging' = {t}, outcome' = outcome,
               overlap' = [overlap EXCEPT ![t] = b.files \cap ledger],
               NEW next \in {"commit", "abort"}, Goto(t, next),
               staged' \in AtMostOne(Branches),
               next = "commit" => staged'[1] = b
        PROVE  TreeInv'
    <3> USE <2>5 DEF Goto
    <3>1. TreeTyped'
      BY <2>1, <2>2 DEF TreeTyped, BranchNames
    <3>2. BranchesOwned'
      BY <2>1, StepOf, KeepOwned DEF Owning
    <3>3. LockHeld'
      BY <2>1 DEF LockHeld, TreeTyped
    <3>4. \A u \in Task : wpc[u] # "commit"
      BY <2>1 DEF LockHeld
    <3>5. PreviewReviewed'
      BY <2>1, <2>2, <3>4 DEF PreviewReviewed, TreeTyped
    <3> QED
      BY <2>3, <3>1, <3>2, <3>3, <3>5 DEF TreeInv
  <2>6. \/ /\ outcome' = [outcome EXCEPT ![t] = "empty"]
           /\ Goto(t, "cleanup") /\ UNCHANGED <<staged, merging, overlap>>
        \/ /\ merging' = {t} /\ UNCHANGED outcome
           /\ overlap' = [overlap EXCEPT ![t] = b.files \cap ledger]
           /\ \/ /\ staged = <<>> /\ staged' = <<b>> /\ Goto(t, "commit")
              \/ Goto(t, "abort") /\ UNCHANGED staged
    BY <1>3, <2>2 DEF Preview
  <2>7. <<b>> \in AtMostOne(Branches) /\ <<b>>[1] = b /\ staged \in AtMostOne(Branches)
    BY <2>2, OneOfMany DEF TreeTyped
  <2> QED
    BY <2>4, <2>5, <2>6, <2>7
<1>4. ASSUME NEW t \in Task, Commit(t)
      PROVE  TreeInv'
  <2> USE <1>0
  <2>1. /\ wpc[t] = "commit" /\ Branch' = Branch /\ branches' = branches
        /\ overlap' = overlap /\ made' = made /\ session' = session /\ nested' = nested
        /\ staged' = <<>> /\ merging' = {} /\ wpc' = [wpc EXCEPT ![t] = "cleanup"]
    BY <1>4 DEF Commit, Goto
  <2>2. t \in merging /\ \A u \in Task \ {t} : wpc[u] \notin {"commit", "abort"}
    BY <2>1 DEF LockHeld
  <2>3. BranchesOwned'
    BY <2>1, StepOf, KeepOwned DEF Owning
  <2>4. LockHeld' /\ PreviewReviewed'
    BY <2>1, <2>2 DEF LockHeld, PreviewReviewed, TreeTyped
  <2>5. staged' \in AtMostOne(Branches)
    BY <2>1, OneOfMany
  <2>6. CASE outcome' = [outcome EXCEPT ![t] = "error"] /\ UNCHANGED <<base, ledger>>
    <3>1. TreeTyped'
      BY <2>1, <2>5, <2>6 DEF TreeTyped, BranchNames
    <3>2. LedgerComplete' /\ MergesAccounted'
      BY <2>1, <2>6 DEF LedgerComplete, MergesAccounted
    <3> QED
      BY <2>3, <2>4, <3>1, <3>2 DEF TreeInv
  <2>7. CASE /\ staged # <<>>
             /\ base' = Append(base, [by |-> t, files |-> staged[1].files, own |-> made[t],
                                      verdict |-> IF overlap[t] = {} THEN "safe" ELSE "resolvable"])
             /\ ledger' = ledger \cup staged[1].files
             /\ outcome' = [outcome EXCEPT ![t] = "merged"]
    <3> DEFINE m == [by |-> t, files |-> staged[1].files, own |-> made[t],
                     verdict |-> IF overlap[t] = {} THEN "safe" ELSE "resolvable"]
    <3>1. staged[1].files = made[t] /\ staged[1].files \subseteq File
      BY <2>1, <2>7 DEF PreviewReviewed, TreeTyped
    <3>2. /\ m \in Merges /\ m.files = made[t] /\ m.own = made[t]
          /\ m.verdict # "resolvable" => overlap[t] = {}
      BY <3>1 DEF Merges
    <3>3. base' = Append(base, m) /\ ledger' = ledger \cup made[t]
      BY <2>7, <3>1
    <3> HIDE DEF m
    <3>4. /\ Len(base') = Len(base) + 1 /\ base' \in Seq(Merges)
          /\ \A i \in 1 .. Len(base) : base'[i] = base[i]
          /\ base'[Len(base) + 1] = m
      BY <3>2, <3>3, AppendProperties DEF TreeTyped
    <3>5. Len(base) \in Nat /\ session.from \in Nat /\ session.from <= Len(base)
      BY DEF TreeTyped
    <3>6. session'.from <= Len(base')
      BY <2>1, <3>4, <3>5
    <3>7. TreeTyped'
      BY <2>1, <2>5, <2>7, <3>1, <3>3, <3>4, <3>6 DEF TreeTyped, BranchNames
    <3>8. \A i \in 1 .. Len(base) + 1 : i \in 1 .. Len(base) \/ i = Len(base) + 1
      BY <3>5
    <3>9. LedgerComplete'
      <4> SUFFICES ASSUME ~ nested, NEW i \in session.from + 1 .. Len(base) + 1
                   PROVE  base'[i].files \subseteq ledger \cup made[t]
        BY <2>1, <3>3, <3>4 DEF LedgerComplete
      <4>1. CASE i = Len(base) + 1
        BY <4>1, <3>2, <3>4
      <4>2. CASE i # Len(base) + 1
        BY <4>2, <3>4, <3>5 DEF LedgerComplete
      <4> QED
        BY <4>1, <4>2
    <3>10. \A i \in DOMAIN base' : base'[i].files = base'[i].own
      <4>1. DOMAIN base' = 1 .. Len(base) + 1 /\ DOMAIN base = 1 .. Len(base)
        BY <3>4 DEF TreeTyped
      <4> QED
        BY <4>1, <3>2, <3>4, <3>8 DEF MergesAccounted
    <3>11. \A i, j \in session.from + 1 .. Len(base) + 1 :
             ~ nested /\ i < j /\ base'[i].files \cap base'[j].files # {}
             => base'[j].verdict = "resolvable"
      <4> SUFFICES ASSUME ~ nested, NEW i \in session.from + 1 .. Len(base) + 1,
                          NEW j \in session.from + 1 .. Len(base) + 1, i < j,
                          base'[i].files \cap base'[j].files # {}
                   PROVE  base'[j].verdict = "resolvable"
        OBVIOUS
      <4>1. i \in session.from + 1 .. Len(base) /\ base'[i] = base[i]
        BY <3>4, <3>5
      <4>2. CASE j # Len(base) + 1
        <5>1. j \in session.from + 1 .. Len(base) /\ base'[j] = base[j]
          BY <4>2, <3>4, <3>5
        <5> QED
          BY <4>1, <5>1 DEF MergesAccounted
      <4>3. CASE j = Len(base) + 1
        <5>1. base'[j] = m /\ base[i].files \cap made[t] # {}
          BY <4>1, <4>3, <3>2, <3>4
        <5>2. base[i].files \subseteq ledger
          BY <4>1 DEF LedgerComplete
        <5>3. overlap[t] # {}
          BY <5>1, <5>2, <2>1 DEF PreviewReviewed
        <5> QED
          BY <5>1, <5>3, <3>2
      <4> QED
        BY <4>2, <4>3
    <3>12. MergesAccounted'
      BY <2>1, <3>4, <3>10, <3>11 DEF MergesAccounted
    <3> QED
      BY <2>3, <2>4, <3>7, <3>9, <3>12 DEF TreeInv
  <2> QED
    BY <1>4, <2>6, <2>7 DEF Commit
<1>5. ASSUME NEW t \in Task, Abort(t)
      PROVE  TreeInv'
  <2> USE <1>0
  <2>1. /\ wpc[t] = "abort" /\ Branch' = Branch /\ branches' = branches /\ base' = base
        /\ overlap' = overlap /\ made' = made /\ session' = session /\ nested' = nested
        /\ staged' = <<>> /\ merging' = {} /\ wpc' = [wpc EXCEPT ![t] = "cleanup"]
        /\ outcome' = [outcome EXCEPT ![t] = "conflict"] /\ ledger' = ledger
    BY <1>5 DEF Abort, Goto
  <2>2. t \in merging /\ \A u \in Task \ {t} : wpc[u] \notin {"commit", "abort"}
    BY <2>1 DEF LockHeld
  <2>3. TreeTyped'
    BY <2>1, OneOfMany DEF TreeTyped, BranchNames
  <2>4. BranchesOwned'
    BY <2>1, StepOf, KeepOwned DEF Owning
  <2>5. LockHeld' /\ PreviewReviewed'
    BY <2>1, <2>2 DEF LockHeld, PreviewReviewed, TreeTyped
  <2>6. LedgerComplete' /\ MergesAccounted'
    BY <2>1 DEF LedgerComplete, MergesAccounted
  <2> QED
    BY <2>3, <2>4, <2>5, <2>6 DEF TreeInv
<1>6. ASSUME NEW t \in Task, CleanupWorktree(t)
      PROVE  TreeInv'
  <2> USE <1>0
  <2>1. /\ wpc[t] = "cleanup" /\ Branch' = Branch /\ base' = base /\ staged' = staged
        /\ overlap' = overlap /\ made' = made /\ session' = session /\ nested' = nested
        /\ merging' = merging /\ ledger' = ledger /\ outcome' = outcome
        /\ branches' = [branches EXCEPT ![Branch[t]] = <<>>]
        /\ wpc' = [wpc EXCEPT ![t] = "done"]
    BY <1>6 DEF CleanupWorktree, Goto
  <2>2. TreeTyped'
    BY <2>1, OneOfMany DEF TreeTyped, BranchNames
  <2>3. \A u \in Task \ {t} : wpc[u] \in Owning => Branch[u] # Branch[t]
    BY <2>1 DEF BranchesOwned, Owning
  <2>4. BranchesOwned'
    BY <2>1, <2>3 DEF BranchesOwned, Owning, TreeTyped, BranchNames
  <2>5. LockHeld' /\ PreviewReviewed'
    BY <2>1 DEF LockHeld, PreviewReviewed, TreeTyped
  <2>6. LedgerComplete' /\ MergesAccounted'
    BY <2>1 DEF LedgerComplete, MergesAccounted
  <2> QED
    BY <2>2, <2>4, <2>5, <2>6 DEF TreeInv
<1>7. CASE NestedRun
  BY <1>0, <1>7 DEF NestedRun, TreeInv, TreeTyped, LockHeld, BranchesOwned, PreviewReviewed,
                    LedgerComplete, MergesAccounted, Owning, BranchNames
<1>8. CASE Crash
  <2> USE <1>0, <1>8
  <2>1. TreeTyped'
    <3>1. /\ Branch' \in Namings /\ base' \in Seq(Merges) /\ staged' \in AtMostOne(Branches)
          /\ branches' \in [BranchNames' -> AtMostOne(Branches)]
      BY DEF Crash, TreeTyped, BranchNames
    <3>2. session' \in [n : Nat, from : Nat] /\ session'.from <= Len(base')
      BY DEF Crash, TreeTyped
    <3>3. /\ merging' \subseteq Task /\ ledger' \subseteq File /\ nested' \in BOOLEAN
          /\ overlap' \in [Task -> SUBSET File] /\ made' \in [Task -> SUBSET File]
      BY DEF Crash
    <3>4. /\ wpc' \in [Task -> {"create", "agent", "merge", "commit", "abort", "cleanup", "done"}]
          /\ outcome' \in [Task -> {"none", "empty", "merged", "conflict", "error"}]
      BY DEF Crash
    <3> QED
      BY <3>1, <3>2, <3>3, <3>4 DEF TreeTyped
  <2>2. LockHeld' /\ BranchesOwned' /\ PreviewReviewed'
    BY DEF Crash, LockHeld, BranchesOwned, PreviewReviewed, Owning
  <2>3. session'.from = Len(base) /\ base' = base /\ Len(base) \in Nat
    BY DEF Crash, TreeTyped
  <2>4. LedgerComplete' /\ MergesAccounted'
    BY <2>3 DEF LedgerComplete, MergesAccounted
  <2> QED
    BY <2>1, <2>2, <2>4 DEF TreeInv
<1>9. CASE UNCHANGED treeVars
  BY <1>0, <1>9 DEF treeVars, TreeInv, TreeTyped, LockHeld, BranchesOwned, PreviewReviewed,
                    LedgerComplete, MergesAccounted, Owning, BranchNames
<1> QED
  BY <1>1, <1>2, <1>3, <1>4, <1>5, <1>6, <1>7, <1>8, <1>9 DEF TreeNext, TreeStep

\* Tasks merge one at a time, and no branch is worked on by two of them, even
\* where the ids of tasks map to one branch name.
THEOREM TasksApart == TreeSpec => [](LockHeld /\ BranchesOwned)
<1>1. TreeInv => LockHeld /\ BranchesOwned
  BY DEF TreeInv
<1> QED
  BY <1>1, InitTree, NextTree, PTL DEF TreeSpec

\* A merge commit brings exactly what the agent of its task committed in this
\* run, and overlapping merges of a run are reviewed as such, for any number of
\* tasks, any mapping of their ids to branches and any crashes between.
THEOREM MergesAreAccounted == TreeSpec => []MergesAccounted
<1>1. TreeInv => MergesAccounted
  BY DEF TreeInv
<1> QED
  BY <1>1, InitTree, NextTree, PTL DEF TreeSpec

-----------------------------------------------------------------------------
(* WebRuns.                                                                *)

RegistryEntries ==
  [thread : Started \cup {"none"}, result : Started \cup {"none"}, error : BOOLEAN]

RunSteps == {"none", "preparing", "running", "finishing", "ended", "failed"}

\* The inductive invariant: an entry belongs to the run that was answered its
\* id, and a run that start_run has not answered yet has no entry, although its
\* result may be in the entry of its directory's name already.
WebInv ==
  /\ registry \in [Ids -> RegistryEntries]
  /\ answers = [r \in Started |-> answers[r]]
  /\ thread \in [Started -> RunSteps]
  /\ \A r \in Started : joining = r => thread[r] # "none"
  /\ \A r \in Started, i \in Ids :
       /\ thread[r] = "none" \/ joining = r =>
            registry[i].thread # r /\ (registry[i].result = r => i = r)
       /\ registry[i].thread = r => answers[r] = i
  /\ ResultWhereAsked

LEMMA NamesOfRuns == "none" \notin Started /\ "none" \notin Ids /\ Started \subseteq Ids
BY WebAssumption DEF Ids

LEMMA WithError ==
  \A e \in RegistryEntries :
    LET failed == [e EXCEPT !.error = TRUE] IN
    failed \in RegistryEntries /\ failed.thread = e.thread /\ failed.result = e.result
BY DEF RegistryEntries

LEMMA NextWeb ==
  ASSUME WebInv, [WebNext]_webVars
  PROVE  WebInv'
<1> USE NamesOfRuns DEF WebInv
<1>1. ASSUME NEW r \in Started, MakeDir(r) PROVE WebInv'
  BY <1>1 DEF MakeDir, RunSteps, ResultWhereAsked
<1>2. ASSUME NEW r \in Started, WriteFile(r) PROVE WebInv'
  BY <1>2 DEF WriteFile, RunSteps, ResultWhereAsked
<1>3. ASSUME NEW r \in Started, EndRun(r) PROVE WebInv'
  <2>1. /\ thread[r] = "finishing" /\ thread' = [thread EXCEPT ![r] = "ended"]
        /\ joining' = joining /\ answers' = answers
    BY <1>3 DEF EndRun
  <2>2. \A i \in Entry(r) : i = r \/ answers[r] = i
    BY DEF Entry
  <2>3. registry' = [i \in Ids |-> IF i \in Entry(r) THEN [registry[i] EXCEPT !.result = r]
                                                     ELSE registry[i]]
    BY <1>3 DEF EndRun
  <2>4. \A i \in Ids : /\ registry'[i] \in RegistryEntries
                       /\ registry'[i].thread = registry[i].thread
                       /\ registry'[i].result = IF i \in Entry(r) THEN r ELSE registry[i].result
    BY <2>3 DEF RegistryEntries
  <2>5. joining = r => \A i \in Entry(r) : i = r
    BY DEF Entry
  <2>6. registry' \in [Ids -> RegistryEntries]
    BY <2>3, <2>4
  <2>7. ResultWhereAsked'
    BY <2>1, <2>2, <2>4 DEF ResultWhereAsked
  <2>8. thread' \in [Started -> RunSteps]
    BY <2>1 DEF RunSteps
  <2>9. \A q \in Started, i \in Ids :
          /\ thread'[q] = "none" \/ joining' = q =>
               registry'[i].thread # q /\ (registry'[i].result = q => i = q)
          /\ registry'[i].thread = q => answers'[q] = i
    BY <2>1, <2>4, <2>5
  <2> QED
    BY <2>1, <2>6, <2>7, <2>8, <2>9
<1>4. ASSUME NEW r \in Started, FailRun(r) PROVE WebInv'
  <2>1. /\ thread[r] \in {"preparing", "running"} /\ thread' = [thread EXCEPT ![r] = "failed"]
        /\ joining' = joining /\ answers' = answers
        /\ registry' = [i \in Ids |-> IF registry[i].thread = r
                                      THEN [registry[i] EXCEPT !.error = TRUE] ELSE registry[i]]
    BY <1>4 DEF FailRun
  <2>2. \A i \in Ids : /\ registry'[i] \in RegistryEntries
                       /\ registry'[i].thread = registry[i].thread
                       /\ registry'[i].result = registry[i].result
    <3> TAKE i \in Ids
    <3>1. CASE registry[i].thread = r
      BY <3>1, <2>1, WithError
    <3>2. CASE registry[i].thread # r
      BY <3>2, <2>1
    <3> QED
      BY <3>1, <3>2
  <2>3. registry' \in [Ids -> RegistryEntries] /\ thread' \in [Started -> RunSteps]
    BY <2>1, <2>2 DEF RunSteps
  <2> QED
    BY <2>1, <2>2, <2>3 DEF ResultWhereAsked
<1>5. ASSUME NEW r \in Started, StartRun(r) PROVE WebInv'
  BY <1>5 DEF StartRun, RunSteps, ResultWhereAsked
<1>6. ASSUME NEW r \in Started, NEW done \in BOOLEAN, RegisterRun(r, done) PROVE WebInv'
  <2> DEFINE id == IF done THEN r ELSE IF dirs # <<>> THEN dirs[1] ELSE "unknown"
             e == [thread |-> r, result |-> IF done THEN r ELSE "none", error |-> FALSE]
  <2>1. /\ joining = r /\ joining' = "none" /\ answers' = [answers EXCEPT ![r] = id]
        /\ registry' = [registry EXCEPT ![id] = e]
        /\ thread' = thread
    BY <1>6 DEF RegisterRun
  <2>2. /\ e \in RegistryEntries /\ e.thread = r /\ e.result \in {r, "none"}
        /\ e.result = r => id = r
    BY DEF RegistryEntries
  <2>3. thread[r] # "none"
    BY <1>6 DEF RegisterRun
  <2> HIDE DEF id, e
  <2>4. \A i \in Ids : registry'[i] = IF i = id THEN e ELSE registry[i]
    BY <2>1
  <2>5. \A q \in Started : answers'[q] = IF q = r THEN id ELSE answers[q]
    BY <2>1
  <2>6. registry' \in [Ids -> RegistryEntries] /\ answers' = [q \in Started |-> answers'[q]]
    BY <2>1, <2>2
  <2>7. \A i \in Ids : registry[i].thread # r /\ (registry[i].result = r => i = r)
    BY <2>1
  <2>8. ResultWhereAsked'
    <3> SUFFICES ASSUME NEW i \in Ids, registry'[i].result # "none"
                 PROVE  i = registry'[i].result \/ answers'[registry'[i].result] = i
      BY DEF ResultWhereAsked
    <3>1. CASE i = id
      BY <3>1, <2>2, <2>4
    <3>2. CASE i # id
      <4>1. registry'[i] = registry[i] /\ registry[i].result \in Started
        BY <3>2, <2>4 DEF RegistryEntries
      <4> QED
        BY <4>1, <2>5, <2>7 DEF ResultWhereAsked
    <3> QED
      BY <3>1, <3>2
  <2>9. \A q \in Started, i \in Ids :
          /\ thread'[q] = "none" \/ joining' = q =>
               registry'[i].thread # q /\ (registry'[i].result = q => i = q)
          /\ registry'[i].thread = q => answers'[q] = i
    BY <2>1, <2>2, <2>3, <2>4, <2>5, <2>7
  <2> QED
    BY <2>1, <2>6, <2>8, <2>9
<1>7. ASSUME NEW i \in Ids, DeleteRun(i) PROVE WebInv'
  <2>1. /\ registry' = [registry EXCEPT ![i] = Nobody] /\ joining' = joining
        /\ thread' = thread /\ answers' = answers
    BY <1>7 DEF DeleteRun
  <2>2. Nobody \in RegistryEntries /\ Nobody.thread = "none" /\ Nobody.result = "none"
    BY DEF Nobody, RegistryEntries
  <2>3. \A j \in Ids : registry'[j] = IF j = i THEN Nobody ELSE registry[j]
    BY <2>1
  <2>4. registry' \in [Ids -> RegistryEntries]
    BY <2>1, <2>2
  <2> QED
    BY <2>1, <2>2, <2>3, <2>4 DEF ResultWhereAsked
<1>8. ASSUME NEW keep \in 0 .. 1, Cleanup(keep) PROVE WebInv'
  BY <1>8 DEF Cleanup, ResultWhereAsked
<1>9. CASE UNCHANGED webVars
  BY <1>9 DEF webVars, ResultWhereAsked
<1> QED
  BY <1>1, <1>2, <1>3, <1>4, <1>5, <1>6, <1>7, <1>8, <1>9 DEF WebNext

\* A result is only ever shown under the name of its run's directory or under
\* the id that start_run answered for it, for any number of runs.
THEOREM ResultsWhereAsked == WebSpec => []ResultWhereAsked
<1>1. WebInit => WebInv
  BY NamesOfRuns DEF WebInit, WebInv, Nobody, RegistryEntries, RunSteps, ResultWhereAsked
<1>2. WebInv => ResultWhereAsked
  BY DEF WebInv
<1> QED
  BY <1>1, <1>2, NextWeb, PTL DEF WebSpec

-----------------------------------------------------------------------------
(* AgUiRuns: approvals.                                                    *)

Answers == {"none", "yes", "no"}
InHandler == {"waiting", "woken", "late"}

RequestTable == [known : BOOLEAN, of : [Steps -> Streams \cup {"none"}]]

ThreadsTyped ==
  /\ key \in [Streams -> RunIds \cup {"none"}]
  /\ worker \in [Streams -> {"none", "running", "over", "raised"} \cup InHandler]
  /\ asking \in [Streams -> Steps \cup {"none"}]
  /\ request \in [Streams -> Answers] /\ verdict \in [Streams -> Answers]
  /\ told \in [Streams -> SUBSET {"yes", "no"}]
  /\ approvals \in [RunIds -> RequestTable]

\* A stream has an id and a thread from its request on; a handler is about one
\* task, and outside of handlers nobody is asked.
HandlersInStep ==
  \A s \in Streams :
    /\ worker[s] # "none" <=> key[s] # "none"
    /\ worker[s] \in InHandler => asking[s] # "none" /\ verdict[s] = "none"
    /\ worker[s] \notin InHandler => request[s] = "none"
    /\ asking[s] = "none" => verdict[s] = "none"

\* Who is registered for a task of a run id waits for it under that id, although
\* somebody else of the same id may have been registered before.
RegisteredWaits ==
  \A k \in RunIds, t \in Steps :
    approvals[k].of[t] # "none" =>
      LET s == approvals[k].of[t] IN key[s] = k /\ asking[s] = t /\ worker[s] \in InHandler

\* The inductive invariant of the approvals: what a request or a verdict says is
\* what the client has been told about.
GrantsTold ==
  \A s \in Streams : /\ request[s] = "yes" => "yes" \in told[s]
                     /\ verdict[s] = "yes" => "yes" \in told[s]

ApprovalInv == ThreadsTyped /\ HandlersInStep /\ RegisteredWaits /\ GrantsTold

LEMMA NoRequests ==
  \A known \in BOOLEAN :
    /\ Requests(known) \in RequestTable
    /\ Requests(known).known = known
    /\ \A t \in Steps : Requests(known).of[t] = "none"
BY DEF Requests, RequestTable

EnteredAt(entered, table, k, t, s) ==
  /\ entered \in [RunIds -> RequestTable]
  /\ entered[k].of[t] = s
  /\ \A j \in RunIds, u \in Steps : j # k \/ u # t => entered[j].of[u] = table[j].of[u]
LEMMA RequestEntered ==
  \A entered : \A table \in [RunIds -> RequestTable], k \in RunIds, t \in Steps,
                  s \in Streams \cup {"none"} :
    entered = Enter(table, k, t, s) => EnteredAt(entered, table, k, t, s)
<1> SUFFICES ASSUME NEW table \in [RunIds -> RequestTable], NEW k \in RunIds, NEW t \in Steps,
                    NEW s \in Streams \cup {"none"}, NEW entered,
                    entered = Enter(table, k, t, s)
             PROVE  EnteredAt(entered, table, k, t, s)
  OBVIOUS
<1> DEFINE entry == [table[k] EXCEPT !.of[t] = s]
<1>1. /\ entry \in RequestTable /\ entry.of[t] = s
      /\ \A u \in Steps : u # t => entry.of[u] = table[k].of[u]
  BY DEF RequestTable
<1>2. entered = [table EXCEPT ![k] = entry]
  BY DEF Enter
<1> HIDE DEF entry
<1>3. entered \in [RunIds -> RequestTable] /\ entered[k] = entry
  BY <1>1, <1>2
<1>4. \A j \in RunIds : j # k => entered[j] = table[j]
  BY <1>2
<1> QED
  BY <1>1, <1>3, <1>4 DEF EnteredAt

LEMMA NextApprovals ==
  ASSUME ApprovalInv, [AgUiNext]_aguiVars
  PROVE  ApprovalInv'
<1> USE AgUiAssumption DEF ApprovalInv
<1>1. ASSUME NEW s \in Streams, NEW k \in RunIds, OpenRun(s, k)
      PROVE  ApprovalInv'
  <2>1. /\ key[s] = "none" /\ key' = [key EXCEPT ![s] = k]
        /\ worker' = [worker EXCEPT ![s] = "running"]
        /\ approvals' = [approvals EXCEPT ![k] = Requests(TRUE)]
        /\ asking' = asking /\ request' = request /\ verdict' = verdict /\ told' = told
    BY <1>1 DEF OpenRun
  <2>2. ThreadsTyped'
    BY <2>1, NoRequests DEF ThreadsTyped
  <2>3. HandlersInStep'
    BY <2>1 DEF HandlersInStep, ThreadsTyped, InHandler
  <2>4. \A j \in RunIds, u \in Steps : approvals[j].of[u] # s
    BY <2>1 DEF RegisteredWaits
  <2>5. \A j \in RunIds, u \in Steps :
          approvals'[j].of[u] = IF j = k THEN "none" ELSE approvals[j].of[u]
    BY <2>1, NoRequests DEF ThreadsTyped
  <2>6. \A u \in Streams : u # s => key'[u] = key[u] /\ worker'[u] = worker[u]
    BY <2>1 DEF ThreadsTyped
  <2>7. \A j \in RunIds, u \in Steps : approvals[j].of[u] \in Streams \cup {"none"}
    BY DEF ThreadsTyped, RequestTable
  <2>8. RegisteredWaits'
    <3> SUFFICES ASSUME NEW j \in RunIds, NEW u \in Steps, NEW who,
                        who = approvals'[j].of[u], who # "none"
                 PROVE  key'[who] = j /\ asking'[who] = u /\ worker'[who] \in InHandler
      BY DEF RegisteredWaits
    <3>1. approvals[j].of[u] = who /\ who \in Streams /\ who # s
      BY <2>4, <2>5, <2>7
    <3>2. key[who] = j /\ asking[who] = u /\ worker[who] \in InHandler
      BY <3>1 DEF RegisteredWaits
    <3> QED
      BY <3>1, <3>2, <2>1, <2>6
  <2> QED
    BY <2>1, <2>2, <2>3, <2>8 DEF GrantsTold
<1>2. ASSUME NEW s \in Streams, NEW t \in Steps, Ask(s, t)
      PROVE  ApprovalInv'
  <2>1. /\ worker[s] = "running" /\ asking[s] = "none" /\ key' = key
        /\ asking' = [asking EXCEPT ![s] = t] /\ told' = [told EXCEPT ![s] = {}]
    BY <1>2 DEF Ask, threadVars
  <2>2. key[s] \in RunIds /\ verdict[s] = "none" /\ request[s] = "none" /\ key[s] # "none"
    BY <2>1 DEF ThreadsTyped, HandlersInStep, InHandler
  <2>3. \A k \in RunIds, u \in Steps : approvals[k].of[u] # s
    BY <2>1 DEF RegisteredWaits, InHandler
  <2>4. CASE /\ verdict' = [verdict EXCEPT ![s] = "no"]
             /\ UNCHANGED <<worker, request, approvals>>
    <3>1. ThreadsTyped'
      BY <2>1, <2>4 DEF ThreadsTyped, Answers
    <3>2. HandlersInStep'
      BY <2>1, <2>2, <2>4 DEF HandlersInStep, ThreadsTyped, InHandler
    <3>3. RegisteredWaits'
      BY <2>1, <2>3, <2>4 DEF RegisteredWaits, ThreadsTyped
    <3>4. GrantsTold'
      BY <2>1, <2>2, <2>4 DEF GrantsTold, ThreadsTyped
    <3> QED
      BY <3>1, <3>2, <3>3, <3>4
  <2>5. CASE /\ worker' = [worker EXCEPT ![s] = "waiting"]
             /\ request' = [request EXCEPT ![s] = FreshRequest(s, t)]
             /\ approvals' = Enter(approvals, key[s], t, s)
             /\ UNCHANGED verdict
    <3>0. /\ approvals' \in [RunIds -> RequestTable]
          /\ approvals'[key[s]].of[t] = s
          /\ \A k \in RunIds, u \in Steps :
               k # key[s] \/ u # t => approvals'[k].of[u] = approvals[k].of[u]
      <4>1. /\ approvals \in [RunIds -> RequestTable] /\ key[s] \in RunIds /\ s \in Streams \cup {"none"}
            /\ approvals' = Enter(approvals, key[s], t, s)
        BY <2>2, <2>5 DEF ThreadsTyped
      <4>2. EnteredAt(approvals', approvals, key[s], t, s)
        BY <4>1, RequestEntered
      <4> QED
        BY <4>2 DEF EnteredAt
    <3>1. ThreadsTyped'
      BY <2>1, <2>2, <2>5, <3>0 DEF ThreadsTyped, Answers, InHandler, FreshRequest
    <3>2. HandlersInStep'
      BY <2>1, <2>2, <2>5 DEF HandlersInStep, ThreadsTyped, InHandler, FreshRequest
    <3>3. \A k \in RunIds, u \in Steps :
            approvals'[k].of[u] = IF k = key[s] /\ u = t THEN s ELSE approvals[k].of[u]
      BY <3>0
    <3>4. RegisteredWaits'
      BY <2>1, <2>2, <2>3, <2>5, <3>3 DEF RegisteredWaits, ThreadsTyped, InHandler
    <3>5. GrantsTold'
      BY <2>1, <2>2, <2>5 DEF GrantsTold, ThreadsTyped, FreshRequest
    <3> QED
      BY <3>1, <3>2, <3>4, <3>5
  <2> QED
    BY <1>2, <2>4, <2>5 DEF Ask
<1>3. ASSUME NEW s \in Streams, NEW t \in Steps, NEW new \in {"running", "success", "skipped"},
             Emit(s, t, new)
      PROVE  ApprovalInv'
  BY <1>3 DEF Emit, ThreadsTyped, HandlersInStep, RegisteredWaits, GrantsTold
<1>4. ASSUME NEW s \in Streams, WaitReturns(s)
      PROVE  ApprovalInv'
  <2>1. PICK to \in {"woken", "late"} :
          /\ worker[s] = "waiting" /\ worker' = [worker EXCEPT ![s] = to]
          /\ key' = key /\ asking' = asking /\ request' = request /\ verdict' = verdict
          /\ approvals' = approvals /\ told' = told
    BY <1>4 DEF WaitReturns, threadVars
  <2>2. ThreadsTyped'
    BY <2>1 DEF ThreadsTyped, InHandler
  <2>3. HandlersInStep'
    BY <2>1 DEF HandlersInStep, ThreadsTyped, InHandler
  <2>4. RegisteredWaits'
    BY <2>1 DEF RegisteredWaits, ThreadsTyped, InHandler
  <2> QED
    BY <2>1, <2>2, <2>3, <2>4 DEF GrantsTold
<1>5. ASSUME NEW s \in Streams, HandlerReturns(s)
      PROVE  ApprovalInv'
  <2>1. /\ worker[s] \in {"woken", "late"} /\ worker' = [worker EXCEPT ![s] = "running"]
        /\ verdict' = [verdict EXCEPT ![s] = IF worker[s] = "woken" THEN request[s] ELSE "no"]
        /\ approvals' = Enter(approvals, key[s], asking[s], "none")
        /\ request' = [request EXCEPT ![s] = "none"]
        /\ key' = key /\ asking' = asking /\ told' = told
    BY <1>5 DEF HandlerReturns, threadVars
  <2>2. key[s] \in RunIds /\ key[s] # "none" /\ asking[s] \in Steps
    BY <2>1 DEF ThreadsTyped, HandlersInStep, InHandler
  <2>0. /\ approvals' \in [RunIds -> RequestTable]
        /\ approvals'[key[s]].of[asking[s]] = "none"
        /\ \A k \in RunIds, u \in Steps :
             k # key[s] \/ u # asking[s] => approvals'[k].of[u] = approvals[k].of[u]
    <3>1. /\ approvals \in [RunIds -> RequestTable] /\ "none" \in Streams \cup {"none"}
          /\ approvals' = Enter(approvals, key[s], asking[s], "none")
      BY <2>1 DEF ThreadsTyped
    <3>2. EnteredAt(approvals', approvals, key[s], asking[s], "none")
      BY <2>2, <3>1, RequestEntered
    <3> QED
      BY <3>2 DEF EnteredAt
  <2>3. ThreadsTyped'
    BY <2>0, <2>1, <2>2 DEF ThreadsTyped, Answers
  <2>4. HandlersInStep'
    BY <2>1, <2>2 DEF HandlersInStep, ThreadsTyped, InHandler
  <2>5. \A k \in RunIds, u \in Steps :
          approvals'[k].of[u] = IF k = key[s] /\ u = asking[s] THEN "none" ELSE approvals[k].of[u]
    BY <2>0
  <2>6. \A k \in RunIds, u \in Steps : approvals'[k].of[u] # s
    BY <2>2, <2>5 DEF RegisteredWaits
  <2>7. RegisteredWaits'
    BY <2>1, <2>5, <2>6 DEF RegisteredWaits, ThreadsTyped
  <2>8. GrantsTold'
    BY <2>1 DEF GrantsTold, ThreadsTyped
  <2> QED
    BY <2>3, <2>4, <2>7, <2>8
<1>6. ASSUME NEW s \in Streams, GoOn(s)
      PROVE  ApprovalInv'
  <2>1. /\ worker[s] = "running" /\ asking[s] # "none" /\ verdict[s] # "none"
        /\ asking' = [asking EXCEPT ![s] = "none"] /\ verdict' = [verdict EXCEPT ![s] = "none"]
        /\ told' = [told EXCEPT ![s] = {}]
        /\ key' = key /\ worker' = worker /\ request' = request /\ approvals' = approvals
    BY <1>6 DEF GoOn
  <2>2. ThreadsTyped'
    BY <2>1 DEF ThreadsTyped, Answers
  <2>3. HandlersInStep'
    BY <2>1 DEF HandlersInStep, ThreadsTyped, InHandler
  <2>4. RegisteredWaits'
    BY <2>1 DEF RegisteredWaits, ThreadsTyped, InHandler
  <2>5. GrantsTold'
    BY <2>1 DEF GrantsTold, ThreadsTyped, HandlersInStep, InHandler
  <2> QED
    BY <2>2, <2>3, <2>4, <2>5
<1>7. ASSUME NEW s \in Streams, NEW how \in {"over", "raised"}, EndThread(s, how)
      PROVE  ApprovalInv'
  <2>1. /\ worker[s] = "running" /\ asking[s] = "none" /\ worker' = [worker EXCEPT ![s] = how]
        /\ approvals' = [approvals EXCEPT ![key[s]] = Requests(FALSE)]
        /\ key' = key /\ asking' = asking /\ request' = request /\ verdict' = verdict
        /\ told' = told
    BY <1>7 DEF EndThread, threadVars
  <2>2. key[s] \in RunIds /\ key[s] # "none"
    BY <2>1 DEF ThreadsTyped, HandlersInStep, InHandler
  <2>3. ThreadsTyped'
    BY <2>1, <2>2, NoRequests DEF ThreadsTyped
  <2>4. HandlersInStep'
    BY <2>1, <2>2 DEF HandlersInStep, ThreadsTyped, InHandler
  <2>5. RegisteredWaits'
    <3> SUFFICES ASSUME NEW j \in RunIds, NEW u \in Steps, NEW who,
                        who = approvals'[j].of[u], who # "none"
                 PROVE  key'[who] = j /\ asking'[who] = u /\ worker'[who] \in InHandler
      BY DEF RegisteredWaits
    <3>0. Requests(FALSE).of[u] = "none"
      BY NoRequests
    <3>1. CASE j = key[s]
      BY <3>0, <3>1, <2>1, <2>2 DEF ThreadsTyped
    <3>2. CASE j # key[s]
      <4>1. approvals'[j] = approvals[j]
        BY <3>2, <2>1 DEF ThreadsTyped
      <4>2. approvals[j].of[u] \in Streams \cup {"none"}
        BY DEF ThreadsTyped, RequestTable
      <4>3. approvals[j].of[u] = who /\ who \in Streams
        BY <4>1, <4>2
      <4>4. key[who] = j /\ asking[who] = u /\ worker[who] \in InHandler
        BY <4>3 DEF RegisteredWaits
      <4>5. worker'[who] = worker[who]
        BY <4>3, <4>4, <2>1 DEF ThreadsTyped, InHandler
      <4> QED
        BY <4>4, <4>5, <2>1
    <3> QED
      BY <3>1, <3>2
  <2> QED
    BY <2>1, <2>3, <2>4, <2>5 DEF GrantsTold
<1>8. ASSUME NEW s \in Streams, Put(s) \/ SendNext(s) \/ StreamTimesOut(s)
      PROVE  ApprovalInv'
  <2>1. UNCHANGED streamVars
    BY <1>8 DEF Put, SendNext, StreamTimesOut
  <2> QED
    BY <2>1 DEF streamVars, ThreadsTyped, HandlersInStep, RegisteredWaits, GrantsTold
<1>9. ASSUME NEW k \in RunIds, NEW t \in Steps, NEW yes \in {"yes", "no"}, Approve(k, t, yes)
      PROVE  ApprovalInv'
  <2> DEFINE s == approvals[k].of[t]
  <2>1. /\ s # "none" /\ request' = [request EXCEPT ![s] = yes]
        /\ key' = key /\ worker' = worker /\ asking' = asking /\ verdict' = verdict
        /\ approvals' = approvals
        /\ told' = [u \in Streams |->
             IF key[u] = k /\ asking[u] = t /\ worker[u] \in InHandler
             THEN told[u] \cup {yes} ELSE told[u]]
    BY <1>9 DEF Approve, Registered, threadVars, InHandler
  <2>2. s \in Streams /\ key[s] = k /\ asking[s] = t /\ worker[s] \in InHandler
    BY <2>1 DEF ThreadsTyped, RegisteredWaits, RequestTable
  <2> HIDE DEF s
  <2>3. \A u \in Streams : told[u] \subseteq told'[u]
    BY <2>1
  <2>4. yes \in told'[s]
    BY <2>1, <2>2
  <2>5. told' \in [Streams -> SUBSET {"yes", "no"}]
    BY <2>1 DEF ThreadsTyped
  <2>6. ThreadsTyped'
    BY <2>1, <2>2, <2>5 DEF ThreadsTyped, Answers
  <2>7. HandlersInStep'
    BY <2>1, <2>2 DEF HandlersInStep, ThreadsTyped
  <2>8. RegisteredWaits'
    BY <2>1 DEF RegisteredWaits
  <2>9. \A u \in Streams : request'[u] = IF u = s THEN yes ELSE request[u]
    BY <2>1 DEF ThreadsTyped
  <2>10. GrantsTold'
    BY <2>1, <2>3, <2>4, <2>9 DEF GrantsTold
  <2> QED
    BY <2>6, <2>7, <2>8, <2>10
<1>10. CASE UNCHANGED aguiVars
  BY <1>10 DEF aguiVars, ThreadsTyped, HandlersInStep, RegisteredWaits, GrantsTold
<1> QED
  BY <1>1, <1>2, <1>3, <1>4, <1>5, <1>6, <1>7, <1>8, <1>9, <1>10 DEF AgUiNext

-----------------------------------------------------------------------------
(* AgUiRuns: the events of a stream.                                       *)

Statuses == {"pending", "running", "success", "skipped"}
End == <<"end">>
Ev(t, x) == <<t, x>>
Events == {End} \cup {Ev(t, x) : t \in Steps, x \in Statuses}

\* An event is in positions i to the end of a sequence.
Ahead(q, i, e) == \E j \in i .. Len(q) : q[j] = e

\* What is known of the events of a task of one stream: its status is cur, the
\* client has been shown was, q is the queue and w the callbacks behind it.  Its
\* last event has been shown or is on its way, and no earlier one is behind it.
TaskTold(t, cur, was, q, w) ==
  LET last == Ev(t, cur) IN
  /\ was = cur \/ Ahead(q, 1, last) \/ Ahead(w, 1, last)
  /\ \A i \in 1 .. Len(q), x \in Statuses :
       q[i] = Ev(t, x) /\ x # cur => Ahead(q, i, last) \/ Ahead(w, 1, last)
  /\ \A i \in 1 .. Len(w), x \in Statuses :
       w[i] = Ev(t, x) /\ x # cur => Ahead(w, i, last)

\* The sentinel is the last of all.
EndIsLast(q, w) ==
  /\ \A i \in 1 .. Len(w) : w[i] = End => i = Len(w)
  /\ \A i \in 1 .. Len(q) : q[i] = End => i = Len(q) /\ Len(w) = 0

\* One stream: wk is where its thread is, stm where the generator is, st and sh
\* are the statuses of the tasks and what the client has been shown of them.
StreamOK(s, wk, stm, st, sh, ref, q, w) ==
  /\ EndIsLast(q, w)
  /\ Ahead(q, 1, End) \/ Ahead(w, 1, End) => wk \in {"over", "raised"}
  /\ stm = "finished" => wk = "over" /\ Len(q) = 0 /\ Len(w) = 0
  /\ \A t \in Steps : <<s, Ev(t, st[t])>> \in ref \/ TaskTold(t, st[t], sh[t], q, w)

LEMMA EventsApart ==
  /\ \A t, x : Ev(t, x) # End
  /\ \A t, x, u, y : Ev(t, x) = Ev(u, y) => t = u /\ x = y
  /\ \A t, x : Ev(t, x)[1] = t /\ Ev(t, x)[2] = x
<1>1. \A t, x : Ev(t, x) # End
  <2> SUFFICES ASSUME NEW t, NEW x, <<t, x>> = <<"end">> PROVE FALSE
    BY DEF Ev, End
  <2>1. Len(<<t, x>>) = 2 /\ Len(<<"end">>) = 1
    OBVIOUS
  <2> QED
    BY <2>1
<1>2. \A t, x, u, y : Ev(t, x) = Ev(u, y) => t = u /\ x = y
  BY DEF Ev
<1>3. \A t, x : Ev(t, x)[1] = t /\ Ev(t, x)[2] = x
  BY DEF Ev
<1> QED
  BY <1>1, <1>2, <1>3

\* The two ends of a sequence: what Append and Tail do, by position.
IsAppend(r, q, e) ==
  /\ Len(q) \in Nat /\ Len(r) = Len(q) + 1 /\ r[Len(q) + 1] = e
  /\ \A i \in 1 .. Len(q) : r[i] = q[i]

IsTail(r, q) ==
  Len(q) \in Nat \ {0} /\ Len(r) = Len(q) - 1 /\ \A i \in 1 .. Len(q) - 1 : r[i] = q[i + 1]

LEMMA AheadAppend ==
  \A r, q, e, f : IsAppend(r, q, e) =>
    /\ \A i \in 1 .. Len(q) : Ahead(q, i, f) => Ahead(r, i, f)
    /\ \A i \in 1 .. Len(q) + 1 : Ahead(r, i, e)
    /\ Ahead(q, 1, f) => Ahead(r, 1, f)
BY DEF Ahead, IsAppend

LEMMA AheadTail ==
  \A r, q, f : IsTail(r, q) =>
    /\ \A i \in 1 .. Len(r) : Ahead(q, i + 1, f) => Ahead(r, i, f)
    /\ Ahead(q, 1, f) /\ q[1] # f => Ahead(r, 1, f)
<1> SUFFICES ASSUME NEW r, NEW q, NEW f, IsTail(r, q)
             PROVE  /\ \A i \in 1 .. Len(r) : Ahead(q, i + 1, f) => Ahead(r, i, f)
                    /\ Ahead(q, 1, f) /\ q[1] # f => Ahead(r, 1, f)
  OBVIOUS
<1>0. Len(q) \in Nat /\ Len(r) = Len(q) - 1 /\ \A i \in 1 .. Len(q) - 1 : r[i] = q[i + 1]
  BY DEF IsTail
<1>1. \A j \in 2 .. Len(q) : j - 1 \in 1 .. Len(r) /\ r[j - 1] = q[j]
  BY <1>0
<1>2. ASSUME NEW i \in 1 .. Len(r), Ahead(q, i + 1, f) PROVE Ahead(r, i, f)
  <2>1. PICK j \in i + 1 .. Len(q) : q[j] = f
    BY <1>2 DEF Ahead
  <2>2. j - 1 \in i .. Len(r) /\ r[j - 1] = f
    BY <2>1, <1>0, <1>1
  <2> QED
    BY <2>2 DEF Ahead
<1>3. ASSUME Ahead(q, 1, f), q[1] # f PROVE Ahead(r, 1, f)
  <2>1. PICK j \in 1 .. Len(q) : q[j] = f
    BY <1>3 DEF Ahead
  <2>2. j - 1 \in 1 .. Len(r) /\ r[j - 1] = f
    BY <2>1, <1>0, <1>1, <1>3
  <2> QED
    BY <2>2 DEF Ahead
<1> QED
  BY <1>2, <1>3

\* An event of the task itself, or of another one or the sentinel, goes to the end.
LEMMA ToldEmit ==
  \A t, was, q, w, longer : \A new \in Statuses :
    IsAppend(longer, w, Ev(t, new)) => TaskTold(t, new, was, q, longer)
<1> SUFFICES ASSUME NEW t, NEW new \in Statuses, NEW was, NEW q, NEW w, NEW longer,
                    IsAppend(longer, w, Ev(t, new))
             PROVE  TaskTold(t, new, was, q, longer)
  OBVIOUS
<1>1. \A i \in 1 .. Len(longer) : Ahead(longer, i, Ev(t, new))
  BY AheadAppend DEF IsAppend
<1>2. 1 \in 1 .. Len(longer)
  BY DEF IsAppend
<1> QED
  BY <1>1, <1>2 DEF TaskTold

LEMMA ToldOther ==
  \A t, cur, was, q, w, longer, e :
    /\ TaskTold(t, cur, was, q, w) /\ IsAppend(longer, w, e)
    /\ \A x \in Statuses : e # Ev(t, x)
    => TaskTold(t, cur, was, q, longer)
<1> SUFFICES ASSUME NEW t, NEW cur, NEW was, NEW q, NEW w, NEW longer, NEW e,
                    TaskTold(t, cur, was, q, w), IsAppend(longer, w, e),
                    \A x \in Statuses : e # Ev(t, x)
             PROVE  TaskTold(t, cur, was, q, longer)
  OBVIOUS
<1> DEFINE last == Ev(t, cur)
<1>1. /\ Ahead(w, 1, last) => Ahead(longer, 1, last)
      /\ \A i \in 1 .. Len(w) : Ahead(w, i, last) => Ahead(longer, i, last)
  BY AheadAppend
<1>2. \A i \in 1 .. Len(longer), x \in Statuses :
        longer[i] = Ev(t, x) => i \in 1 .. Len(w) /\ w[i] = Ev(t, x)
  BY DEF IsAppend
<1> QED
  BY <1>1, <1>2 DEF TaskTold

\* The loop puts a callback's event into the queue, or the queue refuses it.
LEMMA ToldPut ==
  \A t, cur, was, q, w, longer, shorter :
    /\ TaskTold(t, cur, was, q, w) /\ IsAppend(longer, q, w[1]) /\ IsTail(shorter, w)
    => TaskTold(t, cur, was, longer, shorter)
<1> SUFFICES ASSUME NEW t, NEW cur, NEW was, NEW q, NEW w, NEW longer, NEW shorter,
                    TaskTold(t, cur, was, q, w), IsAppend(longer, q, w[1]), IsTail(shorter, w)
             PROVE  TaskTold(t, cur, was, longer, shorter)
  OBVIOUS
<1> DEFINE last == Ev(t, cur)
<1>0. /\ Len(q) \in Nat /\ Len(longer) = Len(q) + 1 /\ longer[Len(q) + 1] = w[1]
      /\ \A i \in 1 .. Len(q) : longer[i] = q[i]
      /\ Len(w) \in Nat \ {0} /\ Len(shorter) = Len(w) - 1
      /\ \A i \in 1 .. Len(w) - 1 : shorter[i] = w[i + 1]
  BY DEF IsAppend, IsTail
<1>1. /\ Ahead(q, 1, last) => Ahead(longer, 1, last)
      /\ \A i \in 1 .. Len(q) : Ahead(q, i, last) => Ahead(longer, i, last)
      /\ w[1] = last => \A i \in 1 .. Len(q) + 1 : Ahead(longer, i, last)
  BY AheadAppend
<1>2. /\ Ahead(w, 1, last) /\ w[1] # last => Ahead(shorter, 1, last)
      /\ \A i \in 1 .. Len(shorter) : Ahead(w, i + 1, last) => Ahead(shorter, i, last)
  BY AheadTail
<1> HIDE DEF last
<1>3. TaskTold(t, cur, was, q, w) <=>
        /\ was = cur \/ Ahead(q, 1, last) \/ Ahead(w, 1, last)
        /\ \A i \in 1 .. Len(q), x \in Statuses :
             q[i] = Ev(t, x) /\ x # cur => Ahead(q, i, last) \/ Ahead(w, 1, last)
        /\ \A i \in 1 .. Len(w), x \in Statuses :
             w[i] = Ev(t, x) /\ x # cur => Ahead(w, i, last)
  BY DEF TaskTold, last
<1>4. Ahead(w, 1, last) => \/ Ahead(shorter, 1, last)
                           \/ \A i \in 1 .. Len(longer) : Ahead(longer, i, last)
  BY <1>0, <1>1, <1>2
<1>5. was = cur \/ Ahead(longer, 1, last) \/ Ahead(shorter, 1, last)
  BY <1>0, <1>1, <1>3, <1>4
<1>6. \A i \in 1 .. Len(shorter), x \in Statuses :
        shorter[i] = Ev(t, x) /\ x # cur => Ahead(shorter, i, last)
  <2> TAKE i \in 1 .. Len(shorter), x \in Statuses
  <2> HAVE shorter[i] = Ev(t, x) /\ x # cur
  <2>1. i + 1 \in 1 .. Len(w) /\ w[i + 1] = Ev(t, x)
    BY <1>0
  <2> QED
    BY <2>1, <1>2, <1>3
<1>7. \A i \in 1 .. Len(longer), x \in Statuses :
        longer[i] = Ev(t, x) /\ x # cur => Ahead(longer, i, last) \/ Ahead(shorter, 1, last)
  <2> TAKE i \in 1 .. Len(longer), x \in Statuses
  <2> HAVE longer[i] = Ev(t, x) /\ x # cur
  <2>1. CASE i \in 1 .. Len(q)
    BY <2>1, <1>0, <1>1, <1>3, <1>4
  <2>2. CASE i = Len(q) + 1
    <3>1. w[1] = Ev(t, x) /\ 1 \in 1 .. Len(w)
      BY <2>2, <1>0
    <3>2. Ahead(w, 1, last)
      BY <3>1, <1>3
    <3> QED
      BY <3>2, <1>4
  <2> QED
    BY <2>1, <2>2, <1>0
<1> QED
  BY <1>5, <1>6, <1>7 DEF TaskTold, last

LEMMA ToldRefused ==
  \A t, cur, was, q, w, shorter :
    /\ TaskTold(t, cur, was, q, w) /\ IsTail(shorter, w) /\ w[1] # Ev(t, cur)
    => TaskTold(t, cur, was, q, shorter)
<1> SUFFICES ASSUME NEW t, NEW cur, NEW was, NEW q, NEW w, NEW shorter,
                    TaskTold(t, cur, was, q, w), IsTail(shorter, w), w[1] # Ev(t, cur)
             PROVE  TaskTold(t, cur, was, q, shorter)
  OBVIOUS
<1> DEFINE last == Ev(t, cur)
<1>1. /\ Ahead(w, 1, last) => Ahead(shorter, 1, last)
      /\ \A i \in 1 .. Len(shorter) : Ahead(w, i + 1, last) => Ahead(shorter, i, last)
  BY AheadTail
<1>2. \A i \in 1 .. Len(shorter) : i + 1 \in 1 .. Len(w) /\ shorter[i] = w[i + 1]
  BY DEF IsTail
<1> QED
  BY <1>1, <1>2 DEF TaskTold

\* The generator sends the first event: one of the task, or another one.
LEMMA ToldSent ==
  \A t, cur, was, q, w, shorter : \A x \in Statuses :
    /\ TaskTold(t, cur, was, q, w) /\ IsTail(shorter, q) /\ q[1] = Ev(t, x)
    => TaskTold(t, cur, x, shorter, w)
<1> SUFFICES ASSUME NEW t, NEW cur, NEW was, NEW q, NEW w, NEW shorter, NEW x \in Statuses,
                    TaskTold(t, cur, was, q, w), IsTail(shorter, q), q[1] = Ev(t, x)
             PROVE  TaskTold(t, cur, x, shorter, w)
  OBVIOUS
<1> DEFINE last == Ev(t, cur)
<1>1. /\ Ahead(q, 1, last) /\ q[1] # last => Ahead(shorter, 1, last)
      /\ \A i \in 1 .. Len(shorter) : Ahead(q, i + 1, last) => Ahead(shorter, i, last)
  BY AheadTail
<1>2. \A i \in 1 .. Len(shorter) : i + 1 \in 1 .. Len(q) /\ shorter[i] = q[i + 1]
  BY DEF IsTail
<1>3. x # cur => Ahead(q, 1, last) \/ Ahead(w, 1, last)
  BY DEF TaskTold, IsTail
<1>4. x # cur => q[1] # last
  BY EventsApart
<1>5. x = cur \/ Ahead(shorter, 1, last) \/ Ahead(w, 1, last)
  BY <1>1, <1>3, <1>4
<1> QED
  BY <1>1, <1>2, <1>5 DEF TaskTold

LEMMA ToldSentOther ==
  \A t, cur, was, q, w, shorter :
    /\ TaskTold(t, cur, was, q, w) /\ IsTail(shorter, q) /\ q[1] # Ev(t, cur)
    => TaskTold(t, cur, was, shorter, w)
<1> SUFFICES ASSUME NEW t, NEW cur, NEW was, NEW q, NEW w, NEW shorter,
                    TaskTold(t, cur, was, q, w), IsTail(shorter, q), q[1] # Ev(t, cur)
             PROVE  TaskTold(t, cur, was, shorter, w)
  OBVIOUS
<1> DEFINE last == Ev(t, cur)
<1>1. /\ Ahead(q, 1, last) => Ahead(shorter, 1, last)
      /\ \A i \in 1 .. Len(shorter) : Ahead(q, i + 1, last) => Ahead(shorter, i, last)
  BY AheadTail
<1>2. \A i \in 1 .. Len(shorter) : i + 1 \in 1 .. Len(q) /\ shorter[i] = q[i + 1]
  BY DEF IsTail
<1> QED
  BY <1>1, <1>2 DEF TaskTold

\* What a step may do to a stream that it does not act on.
LEMMA StreamLeft ==
  \A s, wk, stm, st, sh, ref, q, w, wk2, ref2, stm2 :
    /\ StreamOK(s, wk, stm, st, sh, ref, q, w) /\ ref \subseteq ref2
    /\ wk \in {"over", "raised"} => wk2 = wk
    /\ stm2 = stm \/ stm2 # "finished"
    => StreamOK(s, wk2, stm2, st, sh, ref2, q, w)
BY DEF StreamOK

LEMMA StreamEmits ==
  \A s, wk, stm, st, sh, ref, q, w, st2, longer : \A t \in Steps, new \in Statuses :
    /\ StreamOK(s, wk, stm, st, sh, ref, q, w) /\ wk \notin {"over", "raised"}
    /\ \A u \in Steps : st2[u] = IF u = t THEN new ELSE st[u]
    /\ IsAppend(longer, w, Ev(t, new))
    => StreamOK(s, wk, stm, st2, sh, ref, q, longer)
<1> SUFFICES ASSUME NEW s, NEW wk, NEW stm, NEW st, NEW sh, NEW ref,
                    NEW q, NEW w, NEW t \in Steps, NEW new \in Statuses, NEW st2, NEW longer,
                    StreamOK(s, wk, stm, st, sh, ref, q, w), wk \notin {"over", "raised"},
                    \A u \in Steps : st2[u] = IF u = t THEN new ELSE st[u],
                    IsAppend(longer, w, Ev(t, new))
             PROVE  StreamOK(s, wk, stm, st2, sh, ref, q, longer)
  OBVIOUS
<1>1. ~ Ahead(q, 1, End) /\ ~ Ahead(w, 1, End) /\ stm # "finished"
  BY DEF StreamOK
<1>2. (\A i \in 1 .. Len(q) : q[i] # End) /\ (\A i \in 1 .. Len(w) : w[i] # End)
  BY <1>1 DEF Ahead
<1>3. \A i \in 1 .. Len(longer) : longer[i] # End
  BY <1>2, EventsApart DEF IsAppend
<1>4. EndIsLast(q, longer) /\ ~ Ahead(longer, 1, End)
  BY <1>2, <1>3 DEF EndIsLast, Ahead
<1>5. ASSUME NEW u \in Steps
      PROVE  <<s, Ev(u, st2[u])>> \in ref \/ TaskTold(u, st2[u], sh[u], q, longer)
  <2>1. CASE u = t
    BY <2>1, ToldEmit
  <2>2. CASE u # t
    <3>1. st2[u] = st[u] /\ \A x \in Statuses : Ev(t, new) # Ev(u, x)
      BY <2>2, EventsApart
    <3> QED
      BY <3>1, ToldOther DEF StreamOK
  <2> QED
    BY <2>1, <2>2
<1> QED
  BY <1>1, <1>4, <1>5 DEF StreamOK

LEMMA StreamEnds ==
  \A s, wk, stm, st, sh, ref, q, w, longer : \A how \in {"over", "raised"} :
    /\ StreamOK(s, wk, stm, st, sh, ref, q, w) /\ wk \notin {"over", "raised"}
    /\ IsAppend(longer, w, End)
    => StreamOK(s, how, stm, st, sh, ref, q, longer)
<1> SUFFICES ASSUME NEW s, NEW wk, NEW stm, NEW st, NEW sh, NEW ref, NEW q, NEW w,
                    NEW how \in {"over", "raised"}, NEW longer,
                    StreamOK(s, wk, stm, st, sh, ref, q, w), wk \notin {"over", "raised"},
                    IsAppend(longer, w, End)
             PROVE  StreamOK(s, how, stm, st, sh, ref, q, longer)
  OBVIOUS
<1>1. ~ Ahead(q, 1, End) /\ ~ Ahead(w, 1, End) /\ stm # "finished"
  BY DEF StreamOK
<1>2. (\A i \in 1 .. Len(q) : q[i] # End) /\ (\A i \in 1 .. Len(w) : w[i] # End)
  BY <1>1 DEF Ahead
<1>3. EndIsLast(q, longer)
  BY <1>2 DEF IsAppend, EndIsLast
<1>4. \A u \in Steps : <<s, Ev(u, st[u])>> \in ref \/ TaskTold(u, st[u], sh[u], q, longer)
  BY ToldOther, EventsApart DEF StreamOK
<1> QED
  BY <1>1, <1>3, <1>4 DEF StreamOK

LEMMA StreamPuts ==
  \A s, wk, stm, st, sh, ref, q, w, longer, shorter :
    /\ StreamOK(s, wk, stm, st, sh, ref, q, w)
    /\ IsAppend(longer, q, w[1]) /\ IsTail(shorter, w)
    => StreamOK(s, wk, stm, st, sh, ref, longer, shorter)
<1> SUFFICES ASSUME NEW s, NEW wk, NEW stm, NEW st, NEW sh, NEW ref, NEW q, NEW w,
                    NEW longer, NEW shorter, StreamOK(s, wk, stm, st, sh, ref, q, w),
                    IsAppend(longer, q, w[1]), IsTail(shorter, w)
             PROVE  StreamOK(s, wk, stm, st, sh, ref, longer, shorter)
  OBVIOUS
<1>0. /\ Len(q) \in Nat /\ Len(longer) = Len(q) + 1 /\ longer[Len(q) + 1] = w[1]
      /\ \A i \in 1 .. Len(q) : longer[i] = q[i]
      /\ Len(w) \in Nat \ {0} /\ Len(shorter) = Len(w) - 1
      /\ \A i \in 1 .. Len(w) - 1 : shorter[i] = w[i + 1]
  BY DEF IsAppend, IsTail
<1>1. EndIsLast(q, w) /\ stm # "finished"
  BY <1>0 DEF StreamOK
<1>2. \A i \in 1 .. Len(shorter) : shorter[i] = End => i = Len(shorter) /\ Ahead(w, 1, End)
  <2> TAKE i \in 1 .. Len(shorter)
  <2> HAVE shorter[i] = End
  <2>1. i + 1 \in 1 .. Len(w) /\ w[i + 1] = End
    BY <1>0
  <2>2. i + 1 = Len(w)
    BY <2>1, <1>1 DEF EndIsLast
  <2> QED
    BY <2>1, <2>2, <1>0 DEF Ahead
<1>3. \A i \in 1 .. Len(longer) :
        longer[i] = End => /\ i = Len(longer) /\ Len(shorter) = 0 /\ Ahead(w, 1, End)
  <2> TAKE i \in 1 .. Len(longer)
  <2> HAVE longer[i] = End
  <2>1. i \notin 1 .. Len(q)
    BY <1>0, <1>1 DEF EndIsLast
  <2>2. i = Len(q) + 1 /\ w[1] = End /\ 1 \in 1 .. Len(w)
    BY <2>1, <1>0
  <2>3. 1 = Len(w)
    BY <2>2, <1>1 DEF EndIsLast
  <2> QED
    BY <2>2, <2>3, <1>0 DEF Ahead
<1>4. EndIsLast(longer, shorter)
  BY <1>2, <1>3 DEF EndIsLast
<1>5. Ahead(longer, 1, End) \/ Ahead(shorter, 1, End) => wk \in {"over", "raised"}
  BY <1>2, <1>3 DEF StreamOK, Ahead
<1>6. \A u \in Steps : <<s, Ev(u, st[u])>> \in ref \/ TaskTold(u, st[u], sh[u], longer, shorter)
  BY ToldPut DEF StreamOK
<1> QED
  BY <1>1, <1>4, <1>5, <1>6 DEF StreamOK

LEMMA StreamRefuses ==
  \A s, wk, stm, st, sh, ref, q, w, shorter :
    /\ StreamOK(s, wk, stm, st, sh, ref, q, w) /\ IsTail(shorter, w)
    => StreamOK(s, wk, stm, st, sh, ref \cup {<<s, w[1]>>}, q, shorter)
<1> SUFFICES ASSUME NEW s, NEW wk, NEW stm, NEW st, NEW sh, NEW ref, NEW q, NEW w, NEW shorter,
                    StreamOK(s, wk, stm, st, sh, ref, q, w), IsTail(shorter, w)
             PROVE  StreamOK(s, wk, stm, st, sh, ref \cup {<<s, w[1]>>}, q, shorter)
  OBVIOUS
<1>0. /\ Len(w) \in Nat \ {0} /\ Len(shorter) = Len(w) - 1
      /\ \A i \in 1 .. Len(w) - 1 : shorter[i] = w[i + 1]
  BY DEF IsTail
<1>1. EndIsLast(q, w) /\ stm # "finished"
  BY <1>0 DEF StreamOK
<1>2. \A i \in 1 .. Len(shorter) : shorter[i] = End => i = Len(shorter) /\ Ahead(w, 1, End)
  <2> TAKE i \in 1 .. Len(shorter)
  <2> HAVE shorter[i] = End
  <2>1. i + 1 \in 1 .. Len(w) /\ w[i + 1] = End
    BY <1>0
  <2>2. i + 1 = Len(w)
    BY <2>1, <1>1 DEF EndIsLast
  <2> QED
    BY <2>1, <2>2, <1>0 DEF Ahead
<1>3. EndIsLast(q, shorter)
  BY <1>0, <1>1, <1>2 DEF EndIsLast
<1>4. Ahead(q, 1, End) \/ Ahead(shorter, 1, End) => wk \in {"over", "raised"}
  BY <1>2 DEF StreamOK, Ahead
<1>5. ASSUME NEW u \in Steps
      PROVE  \/ <<s, Ev(u, st[u])>> \in ref \cup {<<s, w[1]>>}
             \/ TaskTold(u, st[u], sh[u], q, shorter)
  <2>1. CASE w[1] = Ev(u, st[u])
    BY <2>1
  <2>2. CASE w[1] # Ev(u, st[u])
    BY <2>2, ToldRefused DEF StreamOK
  <2> QED
    BY <2>1, <2>2
<1> QED
  BY <1>1, <1>3, <1>4, <1>5 DEF StreamOK

LEMMA StreamSends ==
  \A s, wk, stm, st, sh, ref, q, w, shorter, sh2 : \A t \in Steps, x \in Statuses :
    /\ StreamOK(s, wk, stm, st, sh, ref, q, w) /\ IsTail(shorter, q) /\ q[1] = Ev(t, x)
    /\ \A u \in Steps : sh2[u] = IF u = t THEN x ELSE sh[u]
    => StreamOK(s, wk, stm, st, sh2, ref, shorter, w)
<1> SUFFICES ASSUME NEW s, NEW wk, NEW stm, NEW st, NEW sh, NEW ref,
                    NEW q, NEW w, NEW shorter, NEW t \in Steps, NEW x \in Statuses, NEW sh2,
                    StreamOK(s, wk, stm, st, sh, ref, q, w), IsTail(shorter, q),
                    q[1] = Ev(t, x), \A u \in Steps : sh2[u] = IF u = t THEN x ELSE sh[u]
             PROVE  StreamOK(s, wk, stm, st, sh2, ref, shorter, w)
  OBVIOUS
<1>0. /\ Len(q) \in Nat \ {0} /\ Len(shorter) = Len(q) - 1
      /\ \A i \in 1 .. Len(q) - 1 : shorter[i] = q[i + 1]
  BY DEF IsTail
<1>1. EndIsLast(q, w) /\ stm # "finished"
  BY <1>0 DEF StreamOK
<1>2. \A i \in 1 .. Len(shorter) :
        shorter[i] = End => i = Len(shorter) /\ Len(w) = 0 /\ Ahead(q, 1, End)
  <2> TAKE i \in 1 .. Len(shorter)
  <2> HAVE shorter[i] = End
  <2>1. i + 1 \in 1 .. Len(q) /\ q[i + 1] = End
    BY <1>0
  <2>2. i + 1 = Len(q) /\ Len(w) = 0
    BY <2>1, <1>1 DEF EndIsLast
  <2> QED
    BY <2>1, <2>2, <1>0 DEF Ahead
<1>3. EndIsLast(shorter, w)
  BY <1>1, <1>2 DEF EndIsLast
<1>4. Ahead(shorter, 1, End) \/ Ahead(w, 1, End) => wk \in {"over", "raised"}
  BY <1>2 DEF StreamOK, Ahead
<1>5. ASSUME NEW u \in Steps
      PROVE  \/ <<s, Ev(u, st[u])>> \in ref \/ TaskTold(u, st[u], sh2[u], shorter, w)
  <2>1. CASE u = t
    BY <2>1, ToldSent DEF StreamOK
  <2>2. CASE u # t
    <3>1. sh2[u] = sh[u] /\ q[1] # Ev(u, st[u])
      BY <2>2, EventsApart
    <3> QED
      BY <3>1, ToldSentOther DEF StreamOK
  <2> QED
    BY <2>1, <2>2
<1> QED
  BY <1>1, <1>3, <1>4, <1>5 DEF StreamOK

LEMMA StreamCloses ==
  \A s, wk, stm, st, sh, ref, q, w, shorter, stm2 :
    /\ StreamOK(s, wk, stm, st, sh, ref, q, w) /\ IsTail(shorter, q) /\ q[1] = End
    /\ stm2 = IF wk = "raised" THEN "error" ELSE "finished"
    => StreamOK(s, wk, stm2, st, sh, ref, shorter, w)
<1> SUFFICES ASSUME NEW s, NEW wk, NEW stm, NEW st, NEW sh, NEW ref, NEW q, NEW w, NEW shorter,
                    NEW stm2, StreamOK(s, wk, stm, st, sh, ref, q, w), IsTail(shorter, q),
                    q[1] = End, stm2 = IF wk = "raised" THEN "error" ELSE "finished"
             PROVE  StreamOK(s, wk, stm2, st, sh, ref, shorter, w)
  OBVIOUS
<1>1. Len(q) \in Nat /\ 1 \in 1 .. Len(q) /\ Len(shorter) = Len(q) - 1
  BY DEF IsTail
<1>2. Len(q) = 1 /\ Len(w) = 0
  BY <1>1 DEF StreamOK, EndIsLast
<1>3. wk \in {"over", "raised"}
  BY <1>1 DEF StreamOK, Ahead
<1>4. Len(shorter) = 0
  <2> DEFINE n == Len(q)
             m == Len(shorter)
  <2>1. n = 1 /\ m = n - 1
    BY <1>1, <1>2
  <2> HIDE DEF n, m
  <2>2. m = 0
    BY <2>1
  <2> QED
    BY <2>2 DEF m
<1>5. EndIsLast(shorter, w) /\ ~ Ahead(shorter, 1, End) /\ ~ Ahead(w, 1, End)
  BY <1>2, <1>4 DEF EndIsLast, Ahead
<1>6. \A u \in Steps : <<s, Ev(u, st[u])>> \in ref \/ TaskTold(u, st[u], sh[u], shorter, w)
  BY ToldSentOther, EventsApart DEF StreamOK
<1> QED
  BY <1>2, <1>3, <1>4, <1>5, <1>6 DEF StreamOK

EventsTyped ==
  /\ status \in [Streams -> [Steps -> Statuses]] /\ shown \in [Streams -> [Steps -> Statuses]]
  /\ eventQueue \in [Streams -> Seq(Events)] /\ scheduled \in [Streams -> Seq(Events)]
  /\ stream \in [Streams -> {"off", "on", "finished", "error", "timeout"}]

\* The inductive invariant of the streams.
PipeInv ==
  /\ EventsTyped
  /\ \A s \in Streams : StreamOK(s, worker[s], stream[s], status[s], shown[s], refused,
                                 eventQueue[s], scheduled[s])

LEMMA EventTyped == End \in Events /\ \A t \in Steps, x \in Statuses : Ev(t, x) \in Events
BY DEF Events

LEMMA EventIs == \A e \in Events : e = End \/ \E t \in Steps, x \in Statuses : e = Ev(t, x)
BY DEF Events

LEMMA AppendIs ==
  \A r : \A q \in Seq(Events), e \in Events :
    r = Append(q, e) => r \in Seq(Events) /\ IsAppend(r, q, e)
<1> SUFFICES ASSUME NEW q \in Seq(Events), NEW e \in Events
             PROVE  Append(q, e) \in Seq(Events) /\ IsAppend(Append(q, e), q, e)
  OBVIOUS
<1> QED
  BY AppendProperties, LenProperties DEF IsAppend

LEMMA TailIs ==
  \A q \in Seq(Events) : q # <<>> =>
    /\ Tail(q) \in Seq(Events) /\ IsTail(Tail(q), q)
    /\ RestOf(q) = Tail(q) /\ Head(q) = q[1] /\ q[1] \in Events
<1> SUFFICES ASSUME NEW q \in Seq(Events), q # <<>>
             PROVE  /\ Tail(q) \in Seq(Events) /\ IsTail(Tail(q), q)
                    /\ RestOf(q) = Tail(q) /\ Head(q) = q[1] /\ q[1] \in Events
  OBVIOUS
<1>1. Len(q) \in Nat \ {0}
  BY EmptySeq
<1>2. Tail(q) \in Seq(Events) /\ IsTail(Tail(q), q)
  BY <1>1, HeadTailProperties DEF IsTail
<1>3. SubSeq(q, 1, 0) = <<>>
  BY SubSeqEmpty
<1>4. Tail(q) = SubSeq(q, 2, Len(q))
  BY TailIsSubSeq
<1>5. <<>> \o Tail(q) = Tail(q)
  BY <1>2, ConcatEmptySeq
<1>6. RestOf(q) = Tail(q)
  BY <1>3, <1>4, <1>5 DEF RestOf, RemoveAt, NextPlace
<1>7. Head(q) = q[1] /\ q[1] \in Events
  BY <1>1, ElementOfSeq
<1> QED
  BY <1>2, <1>6, <1>7

LEMMA InitStreams == AgUiInit => PipeInv
<1> SUFFICES ASSUME AgUiInit PROVE PipeInv
  OBVIOUS
<1>1. EventsTyped
  BY EmptySeq DEF AgUiInit, EventsTyped, PerStream, Pending, Statuses
<1>2. ASSUME NEW s \in Streams
      PROVE  StreamOK(s, worker[s], stream[s], status[s], shown[s], refused, eventQueue[s], scheduled[s])
  <2>1. /\ eventQueue[s] = <<>> /\ scheduled[s] = <<>> /\ stream[s] = "off"
        /\ \A t \in Steps : shown[s][t] = status[s][t]
    BY <1>2 DEF AgUiInit, PerStream, Pending
  <2>2. Len(eventQueue[s]) = 0 /\ Len(scheduled[s]) = 0
    BY <2>1
  <2> QED
    BY <2>1, <2>2 DEF StreamOK, EndIsLast, Ahead, TaskTold
<1> QED
  BY <1>1, <1>2 DEF PipeInv

\* Every step but those on the pipe itself leaves every stream as it is, or moves
\* its thread while it has not ended.
LEMMA PipesLeft ==
  ASSUME PipeInv, status' = status, shown' = shown, eventQueue' = eventQueue,
         scheduled' = scheduled, refused' = refused, stream' = stream,
         \A s \in Streams : worker[s] \in {"over", "raised"} => worker'[s] = worker[s]
  PROVE  PipeInv'
<1>1. EventsTyped'
  BY DEF PipeInv, EventsTyped
<1>2. ASSUME NEW s \in Streams
      PROVE  StreamOK(s, worker'[s], stream[s], status[s], shown[s], refused,
                      eventQueue[s], scheduled[s])
  BY StreamLeft DEF PipeInv
<1> QED
  BY <1>1, <1>2 DEF PipeInv

\* A thread that has not ended schedules an event of a task.
LEMMA ThreadEmits ==
  ASSUME PipeInv, NEW s \in Streams, NEW t \in Steps, NEW new \in Statuses,
         worker[s] \notin {"over", "raised"},
         status' = [status EXCEPT ![s][t] = new],
         scheduled' = [scheduled EXCEPT ![s] = Append(@, Ev(t, new))],
         worker' = worker, shown' = shown, eventQueue' = eventQueue, refused' = refused,
         stream' = stream
  PROVE  PipeInv'
<1> DEFINE st2 == [status[s] EXCEPT ![t] = new]
           longer == Append(scheduled[s], Ev(t, new))
<1>1. /\ st2 \in [Steps -> Statuses]
      /\ \A u \in Steps : st2[u] = IF u = t THEN new ELSE status[s][u]
  BY DEF PipeInv, EventsTyped
<1>2. longer \in Seq(Events) /\ IsAppend(longer, scheduled[s], Ev(t, new))
  BY AppendIs, EventTyped DEF PipeInv, EventsTyped
<1>3. status' = [status EXCEPT ![s] = st2] /\ scheduled' = [scheduled EXCEPT ![s] = longer]
  OBVIOUS
<1> HIDE DEF st2, longer
<1>4. EventsTyped'
  BY <1>1, <1>2, <1>3 DEF PipeInv, EventsTyped
<1>5. StreamOK(s, worker[s], stream[s], st2, shown[s], refused, eventQueue[s], longer)
  BY <1>1, <1>2, StreamEmits DEF PipeInv
<1>6. ASSUME NEW u \in Streams
      PROVE  StreamOK(u, worker'[u], stream'[u], status'[u], shown'[u], refused',
                      eventQueue'[u], scheduled'[u])
  <2>1. CASE u = s
    <3>1. status'[u] = st2 /\ scheduled'[u] = longer
      BY <1>3, <2>1 DEF PipeInv, EventsTyped
    <3> QED
      BY <3>1, <2>1, <1>5
  <2>2. CASE u # s
    <3>1. status'[u] = status[u] /\ scheduled'[u] = scheduled[u]
      BY <1>3, <2>2 DEF PipeInv, EventsTyped
    <3> QED
      BY <3>1 DEF PipeInv
  <2> QED
    BY <2>1, <2>2
<1> QED
  BY <1>4, <1>6 DEF PipeInv

LEMMA NextStreams ==
  ASSUME PipeInv, ApprovalInv, [AgUiNext]_aguiVars
  PROVE  PipeInv'
<1>0. EventsTyped /\ ThreadsTyped /\ HandlersInStep
  BY DEF PipeInv, ApprovalInv
<1> USE AgUiAssumption
<1>1. ASSUME NEW s \in Streams, NEW k \in RunIds, OpenRun(s, k)
      PROVE  PipeInv'
  <2>1. /\ worker[s] = "none" /\ worker' = [worker EXCEPT ![s] = "running"]
        /\ stream' = [stream EXCEPT ![s] = "on"]
        /\ status' = status /\ shown' = shown /\ eventQueue' = eventQueue
        /\ scheduled' = scheduled /\ refused' = refused
    BY <1>0, <1>1 DEF OpenRun, HandlersInStep
  <2>2. EventsTyped'
    BY <1>0, <2>1 DEF EventsTyped
  <2>3. ASSUME NEW u \in Streams
        PROVE  StreamOK(u, worker'[u], stream'[u], status[u], shown[u], refused,
                        eventQueue[u], scheduled[u])
    <3>1. /\ worker[u] \in {"over", "raised"} => worker'[u] = worker[u]
          /\ stream'[u] = stream[u] \/ stream'[u] # "finished"
      BY <1>0, <2>1 DEF ThreadsTyped, EventsTyped
    <3> QED
      BY <3>1, StreamLeft DEF PipeInv
  <2> QED
    BY <2>1, <2>2, <2>3 DEF PipeInv
<1>2. ASSUME NEW s \in Streams, NEW t \in Steps, Ask(s, t)
      PROVE  PipeInv'
  <2>1. /\ worker[s] = "running" /\ UNCHANGED threadVars /\ scheduled' = scheduled
        /\ worker' = worker \/ worker' = [worker EXCEPT ![s] = "waiting"]
    BY <1>2 DEF Ask
  <2>2. \A u \in Streams : worker[u] \in {"over", "raised"} => worker'[u] = worker[u]
    BY <1>0, <2>1 DEF ThreadsTyped
  <2> QED
    BY <2>1, <2>2, PipesLeft DEF threadVars
<1>3. ASSUME NEW s \in Streams, NEW t \in Steps, NEW new \in {"running", "success", "skipped"},
             Emit(s, t, new)
      PROVE  PipeInv'
  <2>1. new \in Statuses
    BY DEF Statuses
  <2>2. scheduled' = [scheduled EXCEPT ![s] = Append(@, Ev(t, new))]
    BY <1>3 DEF Emit, Ev
  <2>3. /\ worker[s] \notin {"over", "raised"} /\ status' = [status EXCEPT ![s][t] = new]
        /\ worker' = worker /\ shown' = shown /\ eventQueue' = eventQueue
        /\ refused' = refused /\ stream' = stream
    BY <1>3 DEF Emit
  <2> QED
    BY <2>1, <2>2, <2>3, ThreadEmits
<1>4. ASSUME NEW s \in Streams, WaitReturns(s) \/ HandlerReturns(s)
      PROVE  PipeInv'
  <2>1. /\ worker[s] \in {"waiting", "woken", "late"} /\ UNCHANGED threadVars
        /\ scheduled' = scheduled /\ \E to : worker' = [worker EXCEPT ![s] = to]
    BY <1>4 DEF WaitReturns, HandlerReturns
  <2>2. \A u \in Streams : worker[u] \in {"over", "raised"} => worker'[u] = worker[u]
    BY <1>0, <2>1 DEF ThreadsTyped
  <2> QED
    BY <2>1, <2>2, PipesLeft DEF threadVars
<1>5. ASSUME NEW s \in Streams, GoOn(s)
      PROVE  PipeInv'
  <2>1. /\ worker[s] = "running" /\ worker' = worker /\ shown' = shown
        /\ eventQueue' = eventQueue /\ refused' = refused /\ stream' = stream
        /\ asking[s] # "none"
    BY <1>5 DEF GoOn
  <2>2. CASE status' = status /\ scheduled' = scheduled
    BY <2>1, <2>2, PipesLeft
  <2>3. CASE /\ status' = [status EXCEPT ![s][asking[s]] = "success"]
             /\ scheduled' = [scheduled EXCEPT ![s] = Append(@, Ev(asking[s], "success"))]
    <3>1. asking[s] \in Steps /\ "success" \in Statuses
      BY <1>0, <2>1 DEF ThreadsTyped, Statuses
    <3>2. worker[s] \notin {"over", "raised"}
      BY <2>1
    <3> QED
      BY <2>1, <2>3, <3>1, <3>2, ThreadEmits
  <2> QED
    BY <1>5, <2>2, <2>3 DEF GoOn, Ev
<1>6. ASSUME NEW s \in Streams, NEW how \in {"over", "raised"}, EndThread(s, how)
      PROVE  PipeInv'
  <2> DEFINE longer == Append(scheduled[s], End)
  <2>1. /\ worker[s] = "running" /\ worker' = [worker EXCEPT ![s] = how]
        /\ UNCHANGED threadVars /\ scheduled' = [scheduled EXCEPT ![s] = longer]
    BY <1>6 DEF EndThread, End
  <2>2. longer \in Seq(Events) /\ IsAppend(longer, scheduled[s], End)
    BY <1>0, AppendIs, EventTyped DEF EventsTyped
  <2> HIDE DEF longer
  <2>3. EventsTyped'
    BY <1>0, <2>1, <2>2 DEF EventsTyped, threadVars
  <2>4. StreamOK(s, how, stream[s], status[s], shown[s], refused, eventQueue[s], longer)
    BY <2>1, <2>2, StreamEnds DEF PipeInv
  <2>5. ASSUME NEW u \in Streams
        PROVE  StreamOK(u, worker'[u], stream[u], status[u], shown[u], refused,
                        eventQueue[u], scheduled'[u])
    <3>1. CASE u = s
      <4>1. worker'[u] = how /\ scheduled'[u] = longer
        BY <1>0, <2>1, <3>1 DEF ThreadsTyped, EventsTyped
      <4> QED
        BY <2>4, <3>1, <4>1
    <3>2. CASE u # s
      <4>1. worker'[u] = worker[u] /\ scheduled'[u] = scheduled[u]
        BY <1>0, <2>1, <3>2 DEF ThreadsTyped, EventsTyped
      <4> QED
        BY <4>1 DEF PipeInv
    <3> QED
      BY <3>1, <3>2
  <2> QED
    BY <2>1, <2>3, <2>5 DEF PipeInv, threadVars
<1>7. ASSUME NEW s \in Streams, Put(s)
      PROVE  PipeInv'
  <2> DEFINE w == scheduled[s]
             shorter == Tail(w)
             longer == Append(eventQueue[s], w[1])
  <2>1. /\ w # <<>> /\ scheduled' = [scheduled EXCEPT ![s] = shorter]
        /\ worker' = worker /\ status' = status /\ shown' = shown /\ stream' = stream
    BY <1>7 DEF Put, streamVars
  <2>2. /\ shorter \in Seq(Events) /\ IsTail(shorter, w) /\ w[1] \in Events /\ Head(w) = w[1]
    BY <1>0, <2>1, TailIs DEF EventsTyped
  <2>3. longer \in Seq(Events) /\ IsAppend(longer, eventQueue[s], w[1])
    BY <1>0, <2>2, AppendIs DEF EventsTyped
  <2>4. \/ eventQueue' = [eventQueue EXCEPT ![s] = longer] /\ refused' = refused
        \/ refused' = refused \cup {<<s, w[1]>>} /\ eventQueue' = eventQueue
    BY <1>7, <2>2 DEF Put
  <2>5. StreamOK(s, worker[s], stream[s], status[s], shown[s], refused, longer, shorter)
    BY <2>2, <2>3, StreamPuts DEF PipeInv
  <2>6. StreamOK(s, worker[s], stream[s], status[s], shown[s], refused \cup {<<s, w[1]>>},
                 eventQueue[s], shorter)
    BY <2>2, StreamRefuses DEF PipeInv
  <2> DEFINE more == refused \cup {<<s, w[1]>>}
  <2>7. refused \subseteq more
    OBVIOUS
  <2>8. \A u \in Streams : StreamOK(u, worker[u], stream[u], status[u], shown[u], more,
                                    eventQueue[u], scheduled[u])
    BY <2>7, StreamLeft DEF PipeInv
  <2> HIDE DEF w, shorter, longer
  <2>9. EventsTyped'
    <3>1. scheduled' \in [Streams -> Seq(Events)]
      BY <1>0, <2>1, <2>2 DEF EventsTyped
    <3>2. eventQueue' \in [Streams -> Seq(Events)]
      BY <1>0, <2>3, <2>4 DEF EventsTyped
    <3>3. stream' = stream /\ status' = status /\ shown' = shown
      BY <2>1
    <3> QED
      BY <1>0, <3>1, <3>2, <3>3 DEF EventsTyped
  <2>10. \A u \in Streams : scheduled'[u] = IF u = s THEN shorter ELSE scheduled[u]
    BY <1>0, <2>1 DEF EventsTyped
  <2> HIDE DEF more
  <2>11. CASE eventQueue' = [eventQueue EXCEPT ![s] = longer] /\ refused' = refused
    <3>1. \A u \in Streams : eventQueue'[u] = IF u = s THEN longer ELSE eventQueue[u]
      BY <1>0, <2>11 DEF EventsTyped
    <3>2. ASSUME NEW u \in Streams
          PROVE  StreamOK(u, worker[u], stream[u], status[u], shown[u], refused,
                          eventQueue'[u], scheduled'[u])
      BY <2>5, <2>10, <3>1 DEF PipeInv
    <3> QED
      BY <2>1, <2>9, <2>11, <3>2 DEF PipeInv
  <2>12. CASE refused' = more /\ eventQueue' = eventQueue
    <3>1. ASSUME NEW u \in Streams
          PROVE  StreamOK(u, worker[u], stream[u], status[u], shown[u], more,
                          eventQueue[u], scheduled'[u])
      BY <2>6, <2>8, <2>10 DEF more
    <3> QED
      BY <2>1, <2>9, <2>12, <3>1 DEF PipeInv
  <2> QED
    BY <2>4, <2>11, <2>12 DEF more
<1>8. ASSUME NEW s \in Streams, SendNext(s)
      PROVE  PipeInv'
  <2> DEFINE q == eventQueue[s]
             shorter == Tail(q)
  <2>1. /\ stream[s] = "on" /\ q # <<>> /\ eventQueue' = [eventQueue EXCEPT ![s] = RestOf(q)]
        /\ worker' = worker /\ status' = status /\ scheduled' = scheduled /\ refused' = refused
    BY <1>8 DEF SendNext, streamVars
  <2>2. /\ shorter \in Seq(Events) /\ IsTail(shorter, q) /\ q[1] \in Events
        /\ RestOf(q) = shorter
    BY <1>0, <2>1, TailIs DEF EventsTyped
  <2>3. \/ /\ q[1] = End /\ shown' = shown
           /\ stream' = [stream EXCEPT ![s] = IF worker[s] = "raised" THEN "error" ELSE "finished"]
        \/ /\ q[1] # End /\ stream' = stream
           /\ shown' = [shown EXCEPT ![s] = Translate(shown[s], q[1])]
    BY <1>8 DEF SendNext, NextItem, NextPlace, End
  <2> HIDE DEF q, shorter
  <2>4. \A u \in Streams : eventQueue'[u] = IF u = s THEN shorter ELSE eventQueue[u]
    BY <1>0, <2>1, <2>2 DEF EventsTyped
  <2>5. eventQueue' \in [Streams -> Seq(Events)]
    BY <1>0, <2>1, <2>2 DEF EventsTyped
  <2>6. StreamOK(s, worker[s], stream[s], status[s], shown[s], refused, q, scheduled[s])
    BY DEF PipeInv, q
  <2>7. CASE /\ q[1] = End /\ shown' = shown
             /\ stream' = [stream EXCEPT ![s] = IF worker[s] = "raised" THEN "error" ELSE "finished"]
    <3> DEFINE stm2 == IF worker[s] = "raised" THEN "error" ELSE "finished"
    <3>1. StreamOK(s, worker[s], stm2, status[s], shown[s], refused, shorter, scheduled[s])
      BY <2>2, <2>6, <2>7, StreamCloses
    <3>2. stm2 \in {"error", "finished"} /\ stream' = [stream EXCEPT ![s] = stm2]
      BY <2>7
    <3> HIDE DEF stm2
    <3>3. EventsTyped'
      BY <1>0, <2>1, <2>5, <2>7, <3>2 DEF EventsTyped
    <3>4. \A u \in Streams : stream'[u] = IF u = s THEN stm2 ELSE stream[u]
      BY <1>0, <3>2 DEF EventsTyped
    <3>5. ASSUME NEW u \in Streams
          PROVE  StreamOK(u, worker[u], stream'[u], status[u], shown[u], refused,
                          eventQueue'[u], scheduled[u])
      BY <3>1, <3>4, <2>4 DEF PipeInv
    <3> QED
      BY <2>1, <2>7, <3>3, <3>5 DEF PipeInv
  <2>8. CASE /\ q[1] # End /\ stream' = stream
             /\ shown' = [shown EXCEPT ![s] = Translate(shown[s], q[1])]
    <3>1. PICK t \in Steps, x \in Statuses : q[1] = Ev(t, x)
      BY <2>2, <2>8, EventIs
    <3> DEFINE sh2 == Translate(shown[s], q[1])
    <3>2. /\ sh2 \in [Steps -> Statuses]
          /\ \A u \in Steps : sh2[u] = IF u = t THEN x ELSE shown[s][u]
      <4>1. q[1][1] = t /\ q[1][2] = x
        BY <3>1, EventsApart
      <4>2. sh2 = [shown[s] EXCEPT ![t] = x]
        BY <4>1 DEF Translate
      <4> QED
        BY <1>0, <4>2 DEF EventsTyped
    <3> HIDE DEF sh2
    <3>3. StreamOK(s, worker[s], stream[s], status[s], sh2, refused, shorter, scheduled[s])
      BY <2>2, <2>6, <3>1, <3>2, StreamSends
    <3>4. shown' = [shown EXCEPT ![s] = sh2]
      BY <2>8 DEF sh2
    <3>5. EventsTyped'
      BY <1>0, <2>1, <2>5, <2>8, <3>2, <3>4 DEF EventsTyped
    <3>6. \A u \in Streams : shown'[u] = IF u = s THEN sh2 ELSE shown[u]
      BY <1>0, <3>4 DEF EventsTyped
    <3>7. ASSUME NEW u \in Streams
          PROVE  StreamOK(u, worker[u], stream[u], status[u], shown'[u], refused,
                          eventQueue'[u], scheduled[u])
      BY <3>3, <3>6, <2>4 DEF PipeInv
    <3> QED
      BY <2>1, <2>8, <3>5, <3>7 DEF PipeInv
  <2> QED
    BY <2>3, <2>7, <2>8
<1>9. ASSUME NEW s \in Streams, StreamTimesOut(s)
      PROVE  PipeInv'
  <2>1. /\ stream' = [stream EXCEPT ![s] = "timeout"]
        /\ worker' = worker /\ status' = status /\ shown' = shown /\ eventQueue' = eventQueue
        /\ scheduled' = scheduled /\ refused' = refused
    BY <1>9 DEF StreamTimesOut, streamVars
  <2>2. EventsTyped'
    BY <1>0, <2>1 DEF EventsTyped
  <2>3. ASSUME NEW u \in Streams
        PROVE  StreamOK(u, worker[u], stream'[u], status[u], shown[u], refused,
                        eventQueue[u], scheduled[u])
    <3>1. stream'[u] = stream[u] \/ stream'[u] # "finished"
      BY <1>0, <2>1 DEF EventsTyped
    <3> QED
      BY <3>1, StreamLeft DEF PipeInv
  <2> QED
    BY <2>1, <2>2, <2>3 DEF PipeInv
<1>10. ASSUME NEW k \in RunIds, NEW t \in Steps, NEW yes \in {"yes", "no"}, Approve(k, t, yes)
      PROVE  PipeInv'
  BY <1>10, PipesLeft DEF Approve, threadVars
<1>11. CASE UNCHANGED aguiVars
  BY <1>11, PipesLeft DEF aguiVars
<1> QED
  BY <1>1, <1>2, <1>3, <1>4, <1>5, <1>6, <1>7, <1>8, <1>9, <1>10, <1>11 DEF AgUiNext

\* A task is granted only if the client has said yes to it for its run id since
\* it was asked, and a stream that ends as finished has told the client the last
\* status of every task that the queue did not refuse: for any number of streams
\* and run ids, any plan and any size of the queue.
THEOREM StreamsTellTrue == AgUiSpec => []StreamTellsTrue
<1>1. AgUiInit => ApprovalInv
  <2> SUFFICES ASSUME AgUiInit PROVE ApprovalInv
    OBVIOUS
  <2>1. ThreadsTyped
    BY NoRequests DEF AgUiInit, ThreadsTyped, PerStream, Answers
  <2>2. HandlersInStep /\ GrantsTold
    BY DEF AgUiInit, HandlersInStep, GrantsTold, PerStream, InHandler
  <2>3. RegisteredWaits
    BY NoRequests DEF AgUiInit, RegisteredWaits
  <2> QED
    BY <2>1, <2>2, <2>3 DEF ApprovalInv
<1>2. ApprovalInv /\ PipeInv => StreamTellsTrue
  <2> SUFFICES ASSUME ApprovalInv, PipeInv, NEW s \in Streams
               PROVE  /\ verdict[s] = "yes" => "yes" \in told[s]
                      /\ stream[s] = "finished" =>
                           /\ worker[s] = "over"
                           /\ \A t \in Steps : \/ shown[s][t] = status[s][t]
                                               \/ <<s, <<t, status[s][t]>>>> \in refused
    BY DEF StreamTellsTrue
  <2>1. verdict[s] = "yes" => "yes" \in told[s]
    BY DEF ApprovalInv, GrantsTold
  <2>2. ASSUME stream[s] = "finished"
        PROVE  /\ worker[s] = "over"
               /\ \A t \in Steps : \/ shown[s][t] = status[s][t]
                                   \/ <<s, <<t, status[s][t]>>>> \in refused
    BY <2>2 DEF PipeInv, StreamOK, TaskTold, Ahead, Ev
  <2> QED
    BY <2>1, <2>2
<1>3. AgUiInit => ApprovalInv /\ PipeInv
  BY <1>1, InitStreams
<1>4. ApprovalInv /\ PipeInv /\ [AgUiNext]_aguiVars => ApprovalInv' /\ PipeInv'
  BY NextApprovals, NextStreams
<1> QED
  BY <1>2, <1>3, <1>4, PTL DEF AgUiSpec
=============================================================================
