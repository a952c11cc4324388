------------------------------ MODULE MemoryProofs ------------------------------
(***************************************************************************)
(* Theorems about what earlier runs leave for later ones: the records that *)
(* a search for a better plan scores its variants by (ScoreHistory), the   *)
(* snapshots and lessons that a watch tells its agent (SessionMemory) and  *)
(* the manifests that models are chosen by (Routing), for every set of     *)
(* plans, models and limits.                                               *)
(***************************************************************************)
EXTENDS ScoreHistory, SessionMemory, Routing, Memory, DataLemmas

-----------------------------------------------------------------------------
(* How evidence is counted (ScoreHistory).                                 *)

Variant == [hash : PlanHash, parent : Nat, state : {"new", "pruned", "scored", "cached", "ran"},
            ok : BOOLEAN, visits : Nat, scored : Nat, samples : Nat, evidence : SUBSET Nat]
ScoreRow == [hash : PlanHash, ok : BOOLEAN, day : Nat, run : Nat]

\* A database: no two rows are of the same run.
ToDatabase(db) ==
  /\ db \in [Dirs -> SUBSET ScoreRow]
  /\ \A d \in Dirs : IsFiniteSet(db[d]) /\ \A r, s \in db[d] : r.run = s.run => r = s

ChildrenOf(tree, n) == {k \in DOMAIN tree : tree[k].parent = n}
VisitsOf(tree) == [k \in DOMAIN tree |-> tree[k].visits]
VisitsAddUp(tree, n) == tree[n].visits = tree[n].scored + SumFunctionOnSet(VisitsOf(tree), ChildrenOf(tree, n))

\* A tree: every plan but the root came from an earlier one.
ToTree(tree) ==
  /\ tree \in Seq(Variant)
  /\ \A k \in DOMAIN tree : /\ tree[k].parent \in 0 .. k - 1
                            /\ tree[k].samples = Cardinality(tree[k].evidence)
                            /\ VisitsAddUp(tree, k)

LEMMA LineageStep ==
  ASSUME NEW tree, NEW n \in Nat, \A k \in 1 .. n : tree[k].parent \in 0 .. k - 1
  PROVE  \E up : up = [k \in 0 .. n |-> IF k = 0 THEN {} ELSE {k} \cup up[tree[k].parent]]
<1> DEFINE Fits(g, m) == g = [k \in 0 .. m |-> IF k = 0 THEN {} ELSE {k} \cup g[tree[k].parent]]
           Upto == {m \in Nat : m <= n => \E g : Fits(g, m)}
<1>1. 0 \in Upto
  <2> DEFINE g == [k \in 0 .. 0 |-> {}]
  <2>1. Fits(g, 0)
    OBVIOUS
  <2> HIDE DEF g, Fits
  <2> QED
    BY <2>1
<1>2. ASSUME NEW m \in Nat, m \in Upto PROVE m + 1 \in Upto
  <2> SUFFICES ASSUME m + 1 <= n PROVE \E g : Fits(g, m + 1)
    OBVIOUS
  <2>1. PICK g : Fits(g, m)
    BY <1>2
  <2> DEFINE h == [k \in 0 .. m + 1 |-> IF k = 0 THEN {} ELSE {k} \cup g[tree[k].parent]]
  <2>2. \A k \in 0 .. m : h[k] = g[k]
    <3>1. \A k \in 0 .. m : g[k] = IF k = 0 THEN {} ELSE {k} \cup g[tree[k].parent]
      BY <2>1
    <3>2. \A k \in 0 .. m : k \in 0 .. m + 1
      OBVIOUS
    <3>3. \A k \in 0 .. m + 1 : h[k] = IF k = 0 THEN {} ELSE {k} \cup g[tree[k].parent]
      OBVIOUS
    <3> HIDE DEF h
    <3> QED
      BY <3>1, <3>2, <3>3
  <2>3. \A k \in 0 .. m + 1 : k # 0 => tree[k].parent \in 0 .. m
    <3>1. \A k \in 0 .. m + 1 : k # 0 => k \in 1 .. n /\ k - 1 <= m
      OBVIOUS
    <3> QED
      BY <3>1
  <2>4. \A k \in 0 .. m + 1 : k # 0 => h[tree[k].parent] = g[tree[k].parent]
    <3> HIDE DEF h
    <3> QED
      BY <2>2, <2>3
  <2>5. Fits(h, m + 1)
    BY <2>4
  <2> HIDE DEF h, Fits
  <2> QED
    BY <2>5
<1>3. Nat \subseteq Upto
  <2> HIDE DEF Upto
  <2> QED
    BY <1>1, <1>2, SetInduction
<1>4. n \in Upto /\ n <= n
  <2> HIDE DEF Upto
  <2> QED
    BY <1>3
<1>5. PICK g : Fits(g, n)
  BY <1>4
<1> QED
  BY <1>5

\* What backpropagation walks: from the variant up to the root, no plan twice.
LEMMA LineageIsPath ==
  ASSUME NEW tree, IsSeq(tree), \A k \in DOMAIN tree : tree[k].parent \in 0 .. k - 1,
         NEW n \in DOMAIN tree
  PROVE  LET L == Lineage(tree, n) IN
         /\ L \subseteq 1 .. n /\ n \in L
         /\ \A c \in L : tree[c].parent = 0 \/ tree[c].parent \in L
         /\ \A k \in L : k # n => \E c \in L : tree[c].parent = k
         /\ \A c, d \in L : tree[c].parent = tree[d].parent => c = d
<1> DEFINE N == Len(tree)
           up == CHOOSE g : g = [k \in 0 .. N |-> IF k = 0 THEN {} ELSE {k} \cup g[tree[k].parent]]
           Path(m) ==
             /\ up[m] \subseteq 1 .. m /\ m \in up[m]
             /\ \A c \in up[m] : tree[c].parent = 0 \/ tree[c].parent \in up[m]
             /\ \A k \in up[m] : k # m => \E c \in up[m] : tree[c].parent = k
             /\ \A c, d \in up[m] : tree[c].parent = tree[d].parent => c = d
           Upto == {m \in Nat : \A k \in 1 .. m : k <= N => Path(k)}
<1>0. N \in Nat /\ DOMAIN tree = 1 .. N
  BY SeqDomain
<1>1. up = [k \in 0 .. N |-> IF k = 0 THEN {} ELSE {k} \cup up[tree[k].parent]]
  <2>1. \E g : g = [k \in 0 .. N |-> IF k = 0 THEN {} ELSE {k} \cup g[tree[k].parent]]
    BY <1>0, LineageStep
  <2> QED
    BY <2>1
<1>2. Lineage(tree, n) = up[n]
  BY DEF Lineage
<1> HIDE DEF up
<1>3. up[0] = {} /\ \A k \in 1 .. N : up[k] = {k} \cup up[tree[k].parent]
  BY <1>0, <1>1
<1>4. 0 \in Upto
  OBVIOUS
<1>5. ASSUME NEW m \in Nat, m \in Upto PROVE m + 1 \in Upto
  <2>1. ASSUME m + 1 <= N PROVE Path(m + 1)
    <3> DEFINE p == tree[m + 1].parent
    <3>1. p \in 0 .. m /\ m + 1 \in 1 .. N /\ up[m + 1] = {m + 1} \cup up[p]
      BY <1>0, <1>3, <2>1
    <3>2. CASE p = 0
      BY <1>3, <3>1, <3>2
    <3>3. CASE p # 0
      <4>a. p \in 1 .. m /\ p <= N
        BY <1>0, <2>1, <3>1, <3>3
      <4>1. Path(p) /\ p \in 1 .. m
        <5> HIDE DEF Path, p
        <5> QED
          BY <1>5, <4>a
      <4>2. \A c \in up[p] : c \in 1 .. p /\ c \in DOMAIN tree
        BY <1>0, <2>1, <4>1
      <4>3. \A c \in up[p] : tree[c].parent < p
        BY <4>1, <4>2
      <4>4. \A c \in up[p] : c # m + 1 /\ tree[c].parent # p
        BY <4>1, <4>2, <4>3
      <4>5. up[m + 1] \subseteq 1 .. m + 1 /\ m + 1 \in up[m + 1]
        BY <3>1, <4>1
      <4>6. \A c \in up[m + 1] : tree[c].parent = 0 \/ tree[c].parent \in up[m + 1]
        BY <3>1, <4>1
      <4>7. \A k \in up[m + 1] : k # m + 1 => \E c \in up[m + 1] : tree[c].parent = k
        BY <3>1, <4>1
      <4>8. \A c, d \in up[m + 1] : tree[c].parent = tree[d].parent => c = d
        BY <3>1, <4>1, <4>4
      <4> QED
        BY <4>5, <4>6, <4>7, <4>8
    <3> QED
      BY <3>2, <3>3
  <2> HIDE DEF Path
  <2>2. \A k \in 1 .. m + 1 : k \in 1 .. m \/ k = m + 1
    OBVIOUS
  <2> QED
    BY <1>5, <2>1, <2>2
<1>6. Path(n)
  <2>1. Nat \subseteq Upto
    <3> HIDE DEF Upto
    <3> QED
      BY <1>4, <1>5, SetInduction
  <2> HIDE DEF Path
  <2> QED
    BY <1>0, <2>1
<1> QED
  BY <1>2, <1>6

\* One visit more for a plan and for all it came from: the sums stay right.
LEMMA VisitsPropagate ==
  ASSUME NEW tree, ToTree(tree), NEW n \in DOMAIN tree,
         NEW new, DOMAIN new = DOMAIN tree,
         \A k \in DOMAIN tree :
           /\ new[k].parent = tree[k].parent
           /\ new[k].visits = tree[k].visits + (IF k \in Lineage(tree, n) THEN 1 ELSE 0)
           /\ new[k].scored = tree[k].scored + (IF k = n THEN 1 ELSE 0)
  PROVE  \A k \in DOMAIN tree : VisitsAddUp(new, k)
<1> DEFINE L == Lineage(tree, n)
<1>0. /\ IsSeq(tree) /\ tree \in Seq(Variant) /\ DOMAIN tree = 1 .. Len(tree) /\ Len(tree) \in Nat
      /\ \A k \in DOMAIN tree : tree[k] \in Variant
  BY SeqDomain DEF ToTree, IsSeq
<1>1. \A k \in DOMAIN tree : /\ tree[k].visits \in Nat /\ tree[k].scored \in Nat
                             /\ tree[k].parent \in 0 .. k - 1 /\ VisitsAddUp(tree, k)
  BY <1>0 DEF ToTree, Variant
<1>2. /\ L \subseteq 1 .. n /\ n \in L
      /\ \A c \in L : tree[c].parent = 0 \/ tree[c].parent \in L
      /\ \A k \in L : k # n => \E c \in L : tree[c].parent = k
      /\ \A c, d \in L : tree[c].parent = tree[d].parent => c = d
  BY <1>0, <1>1, LineageIsPath
<1> HIDE DEF L
<1>3. L \subseteq DOMAIN tree
  BY <1>0, <1>2
<1> SUFFICES ASSUME NEW k \in DOMAIN tree PROVE VisitsAddUp(new, k)
  OBVIOUS
<1> DEFINE C == ChildrenOf(tree, k)
           f == VisitsOf(tree)
           g == VisitsOf(new)
<1>4. C = ChildrenOf(new, k) /\ C \in SUBSET DOMAIN tree
  BY DEF ChildrenOf
<1>5. IsFiniteSet(C)
  <2>1. IsFiniteSet(DOMAIN tree)
    BY <1>0, FS_Interval
  <2> HIDE DEF C
  <2> QED
    BY <1>4, <2>1, FS_Subset
<1>6. /\ \A c \in DOMAIN tree : f[c] \in Int /\ g[c] \in Int
      /\ \A c \in DOMAIN tree : g[c] = f[c] + (IF c \in L THEN 1 ELSE 0)
  BY <1>1 DEF VisitsOf, L
<1>7. /\ tree[k].visits = tree[k].scored + SumFunctionOnSet(f, C)
      /\ new[k].visits = tree[k].visits + (IF k \in L THEN 1 ELSE 0)
      /\ new[k].scored = tree[k].scored + (IF k = n THEN 1 ELSE 0)
      /\ tree[k].visits \in Nat /\ tree[k].scored \in Nat
  BY <1>1 DEF VisitsAddUp, L
<1> HIDE DEF f, g, C
<1>8. SumFunctionOnSet(f, C) \in Int
  BY <1>4, <1>5, <1>6, SumInt
<1>9. ASSUME \A c \in C : c \notin L
      PROVE  SumFunctionOnSet(g, C) = SumFunctionOnSet(f, C)
  <2>1. \A c \in C : f[c] = g[c] /\ f[c] \in Int
    BY <1>4, <1>6, <1>9
  <2> QED
    BY <1>5, <2>1, SumAgrees
<1>10. ASSUME NEW c \in C, c \in L
       PROVE  SumFunctionOnSet(g, C) = SumFunctionOnSet(f, C) + 1
  <2> DEFINE R == C \ {c}
  <2>1. ASSUME NEW d \in R PROVE d \notin L
    <3>1. tree[c].parent = k /\ tree[d].parent = k /\ c # d
      BY <1>10 DEF C, ChildrenOf
    <3>2. \A a, b \in L : tree[a].parent = tree[b].parent => a = b
      BY <1>2
    <3> QED
      BY <1>10, <3>1, <3>2
  <2>2. IsFiniteSet(R) /\ \A d \in R : f[d] = g[d] /\ f[d] \in Int
    BY <1>4, <1>5, <1>6, <2>1, FS_RemoveElement
  <2>3. SumFunctionOnSet(f, R) = SumFunctionOnSet(g, R) /\ SumFunctionOnSet(f, R) \in Int
    <3> HIDE DEF R
    <3> QED
      BY <2>2, SumAgrees, SumInt
  <2>4. SumFunctionOnSet(f, C) = f[c] + SumFunctionOnSet(f, R)
    BY <1>4, <1>5, <1>6, SumSplits
  <2>5. SumFunctionOnSet(g, C) = g[c] + SumFunctionOnSet(g, R)
    BY <1>4, <1>5, <1>6, SumSplits
  <2>6. g[c] = f[c] + 1 /\ f[c] \in Int
    BY <1>4, <1>6, <1>10
  <2> HIDE DEF R
  <2> QED
    BY <2>3, <2>4, <2>5, <2>6
<1>11. new[k].visits = new[k].scored + SumFunctionOnSet(g, C)
  <2>1. CASE k = n
    <3>1. \A c \in C : c \notin L
      <4> SUFFICES ASSUME NEW c \in C, c \in L PROVE FALSE
        OBVIOUS
      <4>1. tree[c].parent = n /\ c \in 1 .. n /\ c \in DOMAIN tree
        BY <1>2, <1>4, <2>1 DEF C, ChildrenOf
      <4>2. tree[c].parent \in 0 .. c - 1
        BY <1>1, <4>1
      <4> QED
        BY <1>0, <4>1, <4>2
    <3> QED
      BY <1>2, <1>7, <1>8, <1>9, <2>1, <3>1
  <2>2. CASE k # n /\ k \in L
    <3>1. PICK c \in L : tree[c].parent = k
      BY <1>2, <2>2
    <3>2. c \in C
      BY <1>3, <3>1 DEF C, ChildrenOf
    <3> QED
      BY <1>7, <1>8, <1>10, <2>2, <3>1, <3>2
  <2>3. CASE k \notin L
    <3>1. \A c \in C : c \notin L
      <4> SUFFICES ASSUME NEW c \in C, c \in L PROVE FALSE
        OBVIOUS
      <4>1. tree[c].parent = k /\ k # 0
        BY <1>0 DEF C, ChildrenOf
      <4> QED
        BY <1>2, <2>3, <4>1
    <3>2. k # n
      BY <1>2, <2>3
    <3> QED
      BY <1>7, <1>8, <1>9, <2>3, <3>1, <3>2
  <2> QED
    BY <2>1, <2>2, <2>3
<1> QED
  BY <1>4, <1>11 DEF VisitsAddUp, g

LEMMA VisitsAt == \A tree : \A k \in DOMAIN tree : VisitsOf(tree)[k] = tree[k].visits
BY DEF VisitsOf

\* Another plan in the tree has no visits yet.
LEMMA VisitsOfLeaf ==
  ASSUME NEW tree, ToTree(tree), NEW v \in Variant, v.parent \in 0 .. Len(tree), v.visits = 0, v.scored = 0,
         NEW new, new = Append(tree, v)
  PROVE  \A k \in DOMAIN new : VisitsAddUp(new, k)
<1> DEFINE N == Len(tree)
           f == VisitsOf(tree)
           g == VisitsOf(new)
<1>0. /\ IsSeq(tree) /\ tree \in Seq(Variant) /\ DOMAIN tree = 1 .. N /\ N \in Nat
      /\ \A k \in DOMAIN tree : tree[k] \in Variant
  BY SeqDomain DEF ToTree, IsSeq
<1>1. \A k \in DOMAIN tree : /\ tree[k].visits \in Nat /\ tree[k].scored \in Nat
                             /\ tree[k].parent \in 0 .. k - 1 /\ VisitsAddUp(tree, k)
  BY <1>0 DEF ToTree, Variant
<1>2. /\ DOMAIN new = 1 .. N + 1 /\ new[N + 1] = v
      /\ \A k \in 1 .. N : new[k] = tree[k]
  BY <1>0, AppendSeq
<1> HIDE DEF N
<1>3. \A k \in 1 .. N : k \in 1 .. N + 1 /\ k # N + 1
  BY <1>0
<1>4. \A k \in 1 .. N + 1 : k = N + 1 \/ k \in 1 .. N
  BY <1>0
<1>5. N + 1 \in 1 .. N + 1
  BY <1>0
<1>6. /\ \A k \in 1 .. N : g[k] = f[k] /\ f[k] \in Int
      /\ g[N + 1] = 0
  <2>1. DOMAIN tree = 1 .. N /\ DOMAIN new = 1 .. N + 1
    BY <1>0, <1>2
  <2>2. ASSUME NEW k \in 1 .. N
        PROVE  f[k] = tree[k].visits
    BY <2>1, VisitsAt
  <2>3. ASSUME NEW k \in 1 .. N + 1
        PROVE  g[k] = new[k].visits
    <3>1. k \in DOMAIN new
      BY <2>1
    <3> HIDE DEF N
    <3> QED
      BY <3>1, VisitsAt, Zenon
  <2> HIDE DEF f, g
  <2>4. ASSUME NEW k \in 1 .. N
        PROVE  g[k] = f[k] /\ f[k] \in Int
    <3>1. tree[k].visits \in Int
      BY <1>1, <2>1
    <3>2. new[k].visits = tree[k].visits
      BY <1>2, Zenon
    <3>3. f[k] = tree[k].visits /\ g[k] = new[k].visits
      BY <1>3, <2>2, <2>3, Zenon
    <3> QED
      BY <3>1, <3>2, <3>3, Zenon
  <2>5. g[N + 1] = 0
    BY <1>2, <1>5, <2>3
  <2> QED
    BY <2>4, <2>5
<1>7. ASSUME NEW k \in 1 .. N
      PROVE  VisitsAddUp(new, k)
  <2> DEFINE C == ChildrenOf(tree, k)
             D == ChildrenOf(new, k)
  <2>1. C \in SUBSET D /\ D \subseteq C \cup {N + 1} /\ C \subseteq 1 .. N /\ D \subseteq 1 .. N + 1
    BY <1>0, <1>2, <1>3, <1>4 DEF ChildrenOf
  <2> HIDE DEF C, D
  <2>2. IsFiniteSet(C) /\ IsFiniteSet(D)
    <3>1. IsFiniteSet(1 .. N + 1)
      BY <1>0, FS_Interval
    <3>2. C \in SUBSET (1 .. N + 1) /\ D \in SUBSET (1 .. N + 1)
      BY <1>3, <2>1
    <3> QED
      BY <3>1, <3>2, FS_Subset
  <2> HIDE DEF f, g
  <2>3. SumFunctionOnSet(f, C) = SumFunctionOnSet(g, C)
    <3>1. \A x \in C : f[x] = g[x] /\ f[x] \in Int
      BY <1>6, <2>1
    <3> QED
      BY <2>2, <3>1, SumAgrees
  <2>4. SumFunctionOnSet(g, D) = SumFunctionOnSet(g, C)
    <3>1. \A x \in D : g[x] \in Int
      BY <1>4, <1>6, <2>1
    <3>2. \A x \in D \ C : g[x] = 0
      BY <1>6, <2>1
    <3> QED
      BY <2>1, <2>2, <3>1, <3>2, SumOfRest
  <2>5. tree[k].visits = tree[k].scored + SumFunctionOnSet(f, C)
    BY <1>0, <1>1 DEF VisitsAddUp, C, f
  <2> QED
    BY <1>2, <2>3, <2>4, <2>5 DEF VisitsAddUp, D, g
<1>8. VisitsAddUp(new, N + 1)
  <2>1. \A k \in 1 .. N : new[k].parent # N + 1
    BY <1>0, <1>1, <1>2
  <2>2. ChildrenOf(new, N + 1) = {}
    BY <1>0, <1>2, <1>4, <2>1 DEF ChildrenOf, N
  <2>3. SumFunctionOnSet(g, {}) = 0
    <3> HIDE DEF g
    <3> QED
      BY SumEmpty
  <2>4. SumFunctionOnSet(VisitsOf(new), ChildrenOf(new, N + 1)) = 0
    <3> HIDE DEF N
    <3> QED
      BY <2>2, <2>3, Zenon
  <2> QED
    BY <1>2, <2>4 DEF VisitsAddUp
<1> QED
  BY <1>2, <1>4, <1>7, <1>8

-----------------------------------------------------------------------------
\* A run and the others that the window shows are as many as they are told.
LEMMA OthersCounted ==
  ASSUME NEW db, ToDatabase(db), NEW d \in Dirs, NEW r \in ScoreRow
  PROVE  LET others == OtherRecords(db, d, r)
             evidence == {r.run} \cup {s.run : s \in others} IN
         /\ Cardinality(evidence) = 1 + Cardinality(others)
         /\ Cardinality(others) \in Nat /\ evidence \subseteq Nat
<1> DEFINE others == OtherRecords(db, d, r)
           ids == {s.run : s \in others}
           f == [s \in others |-> s.run]
<1>1. others \in SUBSET db[d] /\ \A s \in others : s.run # r.run
  BY DEF OtherRecords, LastOf, Records
<1>2. /\ IsFiniteSet(db[d]) /\ db[d] \subseteq ScoreRow
      /\ \A s, q \in db[d] : s.run = q.run => s = q
  BY DEF ToDatabase
<1>3. IsFiniteSet(others) /\ Cardinality(others) \in Nat
  BY <1>1, <1>2, FS_Subset, FS_CardinalityType
<1>4. r.run \notin ids /\ ids \subseteq Nat /\ r.run \in Nat
  BY <1>1, <1>2 DEF ScoreRow
<1>5. f \in Bijection(others, ids)
  <2>1. f \in [others -> ids] /\ \A i \in ids : \E s \in others : f[s] = i
    OBVIOUS
  <2>2. \A s, q \in others : f[s] = f[q] => s = q
    BY <1>1, <1>2
  <2> HIDE DEF f, ids, others
  <2> QED
    BY <2>1, <2>2 DEF Bijection, Injection, Surjection, IsInjective
<1>6. IsFiniteSet(ids) /\ Cardinality(ids) = Cardinality(others)
  <2>1. ExistsBijection(others, ids)
    BY <1>5 DEF ExistsBijection
  <2> HIDE DEF ids, others
  <2> QED
    BY <1>3, <2>1, FS_Bijection
<1>7. Cardinality(ids \cup {r.run}) = Cardinality(ids) + 1
  <2> HIDE DEF ids
  <2> QED
    BY <1>4, <1>6, FS_AddElement
<1>8. ids \cup {r.run} = {r.run} \cup ids
  OBVIOUS
<1> HIDE DEF ids, others
<1>9. Cardinality({r.run} \cup ids) = 1 + Cardinality(others) /\ {r.run} \cup ids \subseteq Nat
  <2>1. Cardinality({r.run} \cup ids) = Cardinality(ids \cup {r.run})
    BY <1>8
  <2>2. Cardinality(ids) = Cardinality(others) /\ Cardinality(others) \in Nat
    BY <1>3, <1>6
  <2>3. Cardinality({r.run} \cup ids) = 1 + Cardinality(others)
    BY <1>7, <2>1, <2>2
  <2> QED
    BY <1>4, <2>3
<1> QED
  BY <1>3, <1>9 DEF ids, others

\* Backpropagation into a tree.
LEMMA TreeScored ==
  ASSUME NEW tree, ToTree(tree), NEW n \in DOMAIN tree, NEW db, ToDatabase(db), HomeOf(n) \in Dirs,
         NEW r \in ScoreRow, NEW new, new = Backpropagate(db, tree, n, r)
  PROVE  /\ ToTree(new) /\ DOMAIN new = DOMAIN tree /\ Len(new) = Len(tree)
         /\ new[n].hash = r.hash
         /\ \A k \in DOMAIN tree : /\ new[k].state = tree[k].state
                                   /\ k # n => new[k].hash = tree[k].hash
<1> DEFINE others == OtherRecords(db, HomeOf(n), r)
           evidence == {r.run} \cup {s.run : s \in others}
           More(k) == tree[k].visits + (IF k \in Lineage(tree, n) THEN 1 ELSE 0)
           v(k) == [tree[k] EXCEPT !.visits = More(k)]
           w == [v(n) EXCEPT !.hash = r.hash, !.ok = r.ok, !.scored = @ + 1, !.samples = 1 + Cardinality(others),
                             !.evidence = evidence]
<1>0. /\ IsSeq(tree) /\ DOMAIN tree = 1 .. Len(tree) /\ Len(tree) \in Nat
      /\ \A k \in DOMAIN tree : /\ tree[k] \in Variant /\ tree[k].parent \in 0 .. k - 1
                                /\ tree[k].samples = Cardinality(tree[k].evidence)
  BY SeqDomain DEF ToTree, IsSeq
<1>1. new = [k \in DOMAIN tree |-> IF k # n THEN v(k) ELSE w]
  BY DEF Backpropagate
<1>2. /\ Cardinality(evidence) = 1 + Cardinality(others)
      /\ Cardinality(others) \in Nat /\ evidence \subseteq Nat
  <2> HIDE DEF others, evidence
  <2> QED
    BY OthersCounted DEF others, evidence
<1> HIDE DEF others, evidence
<1>3. ASSUME NEW k \in DOMAIN tree
      PROVE  /\ More(k) \in Nat /\ v(k) \in Variant
             /\ v(k).parent = tree[k].parent /\ v(k).state = tree[k].state /\ v(k).hash = tree[k].hash
             /\ v(k).visits = More(k) /\ v(k).scored = tree[k].scored
             /\ v(k).samples = tree[k].samples /\ v(k).evidence = tree[k].evidence
  <2>1. tree[k] \in Variant /\ More(k) \in Nat
    BY <1>0, <1>3 DEF Variant
  <2> HIDE DEF More
  <2> QED
    BY <2>1 DEF Variant
<1>4. /\ w \in Variant /\ w.parent = tree[n].parent /\ w.state = tree[n].state /\ w.hash = r.hash
      /\ w.visits = More(n) /\ w.scored = tree[n].scored + 1
      /\ w.samples = Cardinality(w.evidence)
  <2>1. /\ v(n) \in Variant /\ v(n).parent = tree[n].parent /\ v(n).state = tree[n].state
        /\ v(n).visits = More(n) /\ v(n).scored = tree[n].scored
    BY <1>3
  <2>2. r.hash \in PlanHash /\ r.ok \in BOOLEAN /\ 1 + Cardinality(others) \in Nat
    BY <1>2 DEF ScoreRow
  <2>3. \A u \in Variant :
          LET z == [u EXCEPT !.hash = r.hash, !.ok = r.ok, !.scored = @ + 1,
                             !.samples = 1 + Cardinality(others), !.evidence = evidence] IN
          /\ z \in Variant /\ z.parent = u.parent /\ z.state = u.state /\ z.hash = r.hash
          /\ z.visits = u.visits /\ z.scored = u.scored + 1
          /\ z.samples = 1 + Cardinality(others) /\ z.evidence = evidence
    <3> SUFFICES ASSUME NEW u \in Variant
                 PROVE  LET z == [u EXCEPT !.hash = r.hash, !.ok = r.ok, !.scored = @ + 1,
                                           !.samples = 1 + Cardinality(others), !.evidence = evidence] IN
                        /\ z \in Variant /\ z.parent = u.parent /\ z.state = u.state /\ z.hash = r.hash
                        /\ z.visits = u.visits /\ z.scored = u.scored + 1
                        /\ z.samples = 1 + Cardinality(others) /\ z.evidence = evidence
      OBVIOUS
    <3> DEFINE count == 1 + Cardinality(others)
    <3>1. count \in Nat /\ evidence \in SUBSET Nat
      BY <1>2, <2>2
    <3> HIDE DEF count
    <3>2. u.scored + 1 \in Nat
      BY DEF Variant
    <3> QED
      BY <2>2, <3>1, <3>2 DEF Variant, count
  <2> HIDE DEF v, More
  <2> QED
    BY <1>2, <2>1, <2>3
<1> HIDE DEF v, w
<1>5. ASSUME NEW k \in DOMAIN tree
      PROVE  /\ new[k] \in Variant /\ new[k].parent = tree[k].parent /\ new[k].state = tree[k].state
             /\ (k # n => new[k].hash = tree[k].hash)
             /\ new[k].visits = More(k)
             /\ new[k].scored = tree[k].scored + (IF k = n THEN 1 ELSE 0)
             /\ new[k].samples = Cardinality(new[k].evidence)
  <2>1. CASE k = n
    BY <1>1, <1>4, <2>1
  <2>2. CASE k # n
    <3>1. tree[k].scored \in Nat
      BY <1>0 DEF Variant
    <3> HIDE DEF More
    <3> QED
      BY <1>0, <1>1, <1>3, <2>2, <3>1
  <2> QED
    BY <2>1, <2>2
<1>6. DOMAIN new = DOMAIN tree /\ new \in Seq(Variant) /\ Len(new) = Len(tree)
  <2>1. new \in [1 .. Len(tree) -> Variant]
    BY <1>0, <1>1, <1>5
  <2> QED
    BY <1>0, <1>1, <2>1
<1>7. \A k \in DOMAIN tree : VisitsAddUp(new, k)
  <2>1. \A k \in DOMAIN tree :
          /\ new[k].parent = tree[k].parent
          /\ new[k].visits = tree[k].visits + (IF k \in Lineage(tree, n) THEN 1 ELSE 0)
          /\ new[k].scored = tree[k].scored + (IF k = n THEN 1 ELSE 0)
    BY <1>5, Zenon
  <2> QED
    BY <1>6, <2>1, VisitsPropagate, Zenon
<1>8. ToTree(new)
  <2>1. \A k \in DOMAIN new : new[k].parent \in 0 .. k - 1 /\ new[k].samples = Cardinality(new[k].evidence)
    BY <1>0, <1>5, <1>6
  <2> QED
    BY <1>6, <1>7, <2>1 DEF ToTree
<1>9. new[n].hash = r.hash
  BY <1>1, <1>4
<1> QED
  BY <1>5, <1>6, <1>8, <1>9

LEMMA NewVariantIs ==
  ASSUME NEW h \in PlanHash, NEW p \in Nat, NEW st \in {"new", "pruned", "scored", "cached", "ran"}
  PROVE  LET v == NewVariant(h, p, st) IN
         /\ v \in Variant /\ v.hash = h /\ v.parent = p /\ v.state = st /\ v.visits = 0 /\ v.scored = 0
         /\ v.samples = Cardinality(v.evidence)
BY FS_EmptySet DEF NewVariant, Variant

OneLonger(tree, new) ==
  /\ Len(new) = Len(tree) + 1 /\ Len(tree) \in Nat
  /\ DOMAIN new = DOMAIN tree \cup {Len(tree) + 1} /\ Len(tree) + 1 \notin DOMAIN tree
  /\ \A k \in DOMAIN tree : new[k] = tree[k]
LEMMA TreeGrows ==
  ASSUME NEW tree, ToTree(tree), NEW v \in Variant, v.parent \in 0 .. Len(tree), v.visits = 0, v.scored = 0,
         v.samples = Cardinality(v.evidence), NEW new, new = Append(tree, v)
  PROVE  ToTree(new) /\ OneLonger(tree, new) /\ new[Len(tree) + 1] = v
<1> DEFINE N == Len(tree)
<1>0. /\ IsSeq(tree) /\ tree \in Seq(Variant) /\ DOMAIN tree = 1 .. N /\ N \in Nat
      /\ \A k \in DOMAIN tree : /\ tree[k].parent \in 0 .. k - 1
                                /\ tree[k].samples = Cardinality(tree[k].evidence)
  BY SeqDomain DEF ToTree, IsSeq
<1>1. /\ DOMAIN new = 1 .. N + 1 /\ new[N + 1] = v /\ Len(new) = N + 1
      /\ \A k \in 1 .. N : new[k] = tree[k]
  BY <1>0, AppendSeq
<1>2. new \in Seq(Variant)
  BY <1>0
<1>3. \A k \in DOMAIN new : VisitsAddUp(new, k)
  BY VisitsOfLeaf
<1> HIDE DEF N
<1>4. 1 .. N + 1 = (1 .. N) \cup {N + 1} /\ N + 1 \notin 1 .. N
  BY <1>0
<1>5. \A k \in DOMAIN new : /\ new[k].parent \in 0 .. k - 1
                            /\ new[k].samples = Cardinality(new[k].evidence)
  <2>1. v.parent \in 0 .. (N + 1) - 1
    BY <1>0 DEF N
  <2> QED
    BY <1>0, <1>1, <1>4, <2>1
<1>6. ToTree(new)
  BY <1>2, <1>3, <1>5 DEF ToTree
<1>7. OneLonger(tree, new)
  BY <1>0, <1>1, <1>4 DEF N, OneLonger
<1> QED
  BY <1>1, <1>6, <1>7 DEF N

Ran(tree, n) == [tree EXCEPT ![n].state = "ran"]
LEMMA TreeRan ==
  ASSUME NEW tree, ToTree(tree), NEW n \in DOMAIN tree, NEW new, new = Ran(tree, n)
  PROVE  /\ ToTree(new) /\ DOMAIN new = DOMAIN tree /\ Len(new) = Len(tree)
         /\ new[n].state = "ran"
         /\ \A k \in DOMAIN tree : /\ new[k].hash = tree[k].hash
                                   /\ k # n => new[k].state = tree[k].state
<1>0. /\ IsSeq(tree) /\ DOMAIN tree = 1 .. Len(tree) /\ Len(tree) \in Nat
      /\ \A k \in DOMAIN tree : /\ tree[k] \in Variant /\ tree[k].parent \in 0 .. k - 1
                                /\ tree[k].samples = Cardinality(tree[k].evidence)
                                /\ VisitsAddUp(tree, k)
  BY SeqDomain DEF ToTree, IsSeq
<1>1. \A v \in Variant : LET w == [v EXCEPT !.state = "ran"] IN
        /\ w \in Variant /\ w.parent = v.parent /\ w.hash = v.hash /\ w.state = "ran"
        /\ w.visits = v.visits /\ w.scored = v.scored /\ w.samples = v.samples /\ w.evidence = v.evidence
  BY DEF Variant
<1>2. new = [k \in DOMAIN tree |-> IF k = n THEN [tree[n] EXCEPT !.state = "ran"] ELSE tree[k]]
  BY DEF Ran
<1>3. \A k \in DOMAIN tree :
        /\ new[k] \in Variant /\ new[k].parent = tree[k].parent /\ new[k].hash = tree[k].hash
        /\ new[k].visits = tree[k].visits /\ new[k].scored = tree[k].scored
        /\ new[k].samples = tree[k].samples /\ new[k].evidence = tree[k].evidence
        /\ k # n => new[k].state = tree[k].state
        /\ k = n => new[k].state = "ran"
  BY <1>0, <1>1, <1>2
<1>4. DOMAIN new = DOMAIN tree /\ new \in Seq(Variant) /\ Len(new) = Len(tree)
  <2>1. new \in [1 .. Len(tree) -> Variant]
    BY <1>0, <1>2, <1>3
  <2> QED
    BY <1>0, <1>2, <2>1
<1>5. VisitsOf(new) = VisitsOf(tree)
  BY <1>3, <1>4 DEF VisitsOf
<1>6. ASSUME NEW k \in DOMAIN tree PROVE VisitsAddUp(new, k)
  <2>1. ChildrenOf(new, k) = ChildrenOf(tree, k)
    BY <1>3, <1>4 DEF ChildrenOf
  <2>2. new[k].visits = tree[k].visits /\ new[k].scored = tree[k].scored
    BY <1>3
  <2>3. tree[k].visits = tree[k].scored + SumFunctionOnSet(VisitsOf(tree), ChildrenOf(tree, k))
    BY <1>0 DEF VisitsAddUp
  <2> QED
    BY <1>5, <2>1, <2>2, <2>3 DEF VisitsAddUp
<1>7. ToTree(new)
  <2>1. \A k \in DOMAIN new : new[k].parent \in 0 .. k - 1 /\ new[k].samples = Cardinality(new[k].evidence)
    <3> SUFFICES ASSUME NEW k \in DOMAIN tree
                 PROVE  new[k].parent \in 0 .. k - 1 /\ new[k].samples = Cardinality(new[k].evidence)
      BY <1>4
    <3>1. new[k].parent = tree[k].parent /\ new[k].samples = tree[k].samples /\ new[k].evidence = tree[k].evidence
      BY <1>3
    <3> QED
      BY <1>0, <3>1
  <2> QED
    BY <1>4, <1>6, <2>1 DEF ToTree
<1> QED
  BY <1>3, <1>4, <1>7

Stored(db, d, row) == [db EXCEPT ![d] = @ \cup {row}]
LEMMA RowStored ==
  ASSUME NEW db, ToDatabase(db), NEW d \in Dirs, NEW m \in Nat, \A e \in Dirs : \A r \in db[e] : r.run <= m,
         NEW row \in ScoreRow, row.run = m + 1, NEW new, new = Stored(db, d, row)
  PROVE  ToDatabase(new) /\ \A e \in Dirs : \A r \in new[e] : r.run <= m + 1
<1>1. /\ db \in [Dirs -> SUBSET ScoreRow] /\ \A r \in ScoreRow : r.run \in Nat
      /\ \A e \in Dirs : IsFiniteSet(db[e]) /\ \A r, s \in db[e] : r.run = s.run => r = s
  BY DEF ToDatabase, ScoreRow
<1>2. new \in [Dirs -> SUBSET ScoreRow] /\ new[d] = db[d] \cup {row} /\ \A e \in Dirs : e # d => new[e] = db[e]
  BY <1>1 DEF Stored
<1>3. IsFiniteSet(new[d])
  BY <1>1, <1>2, FS_AddElement
<1>4. \A r \in db[d] : r.run # row.run
  BY <1>1
<1>5. \A r, s \in new[d] : r.run = s.run => r = s
  BY <1>1, <1>2, <1>4
<1>6. \A e \in Dirs : \A r \in new[e] : r.run <= m + 1
  BY <1>1, <1>2
<1> QED
  BY <1>1, <1>2, <1>3, <1>5, <1>6 DEF ToDatabase

LEMMA NewestIs ==
  ASSUME NEW table, table \subseteq ScoreRow, table # {}, NEW m \in Nat, \A r \in table : r.run <= m
  PROVE  Newest(table) \in table
<1> DEFINE ids == {r.run : r \in table}
<1>1. ids \subseteq 0 .. m /\ ids # {}
  BY DEF ScoreRow
<1>2. PICK i \in ids : \A j \in ids : j <= i
  <2> HIDE DEF ids
  <2> QED
    BY <1>1, GreatestNumber
<1>3. \E r \in table : \A s \in table : s.run <= r.run
  BY <1>2
<1> QED
  BY <1>3 DEF Newest

-----------------------------------------------------------------------------
\* The plans that a search has run are in its tree, each once; what only has a
\* score is none of them, and has its hash for itself.
RunOnce(tree, sims) ==
  /\ IsSeq(sims)
  /\ \A i, j \in DOMAIN sims : sims[i].hash = sims[j].hash => i = j
  /\ \A i \in DOMAIN sims : \E k \in DOMAIN tree : tree[k].hash = sims[i].hash
  /\ \A k \in DOMAIN tree : tree[k].state = "scored" => \A i \in DOMAIN sims : sims[i].hash # tree[k].hash
  /\ \A k, l \in DOMAIN tree :
       tree[k].state = "scored" /\ tree[l].state = "scored" /\ tree[k].hash = tree[l].hash => k = l

\* Variant n of the tree is one that may be run.
Due(tree, sims, n) ==
  /\ IsSeq(sims) /\ n \in DOMAIN tree
  /\ \A i, j \in DOMAIN sims : sims[i].hash = sims[j].hash => i = j
  /\ \A i \in DOMAIN sims : sims[i].hash # tree[n].hash /\ \E k \in DOMAIN tree : tree[k].hash = sims[i].hash
  /\ \A k \in DOMAIN tree :
       k # n /\ tree[k].state = "scored" => /\ tree[k].hash # tree[n].hash
                                            /\ \A i \in DOMAIN sims : sims[i].hash # tree[k].hash
  /\ \A k, l \in DOMAIN tree :
       k # n /\ l # n /\ tree[k].state = "scored" /\ tree[l].state = "scored" /\ tree[k].hash = tree[l].hash => k = l

\* What a run of variant n changes of the tree that RunOnce speaks of.
AfterRun(tree, n, new) ==
  /\ DOMAIN new = DOMAIN tree /\ new[n].state = "ran"
  /\ \A k \in DOMAIN tree : new[k].hash = tree[k].hash /\ (k # n => new[k].state = tree[k].state)

LEMMA DueIsRun ==
  ASSUME NEW tree, NEW sims, NEW n, Due(tree, sims, n), NEW s, s.hash = tree[n].hash, NEW new, AfterRun(tree, n, new)
  PROVE  RunOnce(new, Append(sims, s))
<1> DEFINE more == Append(sims, s)
<1>0. /\ DOMAIN new = DOMAIN tree /\ new[n].state = "ran"
      /\ \A k \in DOMAIN tree : new[k].hash = tree[k].hash /\ (k # n => new[k].state = tree[k].state)
  BY DEF AfterRun
<1>1. /\ IsSeq(sims) /\ Len(sims) \in Nat /\ DOMAIN sims = 1 .. Len(sims) /\ n \in DOMAIN tree
  BY SeqDomain DEF Due
<1>2. /\ IsSeq(more) /\ DOMAIN more = 1 .. Len(sims) + 1 /\ more[Len(sims) + 1] = s
      /\ \A i \in DOMAIN sims : more[i] = sims[i]
  BY <1>1, AppendSeq
<1> HIDE DEF more
<1>3. \A i \in DOMAIN more : i \in DOMAIN sims \/ i = Len(sims) + 1
  BY <1>1, <1>2
<1>4. \A i, j \in DOMAIN more : more[i].hash = more[j].hash => i = j
  BY <1>0, <1>1, <1>2, <1>3 DEF Due
<1>5. \A i \in DOMAIN more : \E k \in DOMAIN new : new[k].hash = more[i].hash
  BY <1>0, <1>1, <1>2, <1>3 DEF Due
<1>6. \A k \in DOMAIN new : new[k].state = "scored" => k # n /\ \A i \in DOMAIN more : more[i].hash # new[k].hash
  BY <1>0, <1>1, <1>2, <1>3 DEF Due
<1>7. \A k, l \in DOMAIN new :
        new[k].state = "scored" /\ new[l].state = "scored" /\ new[k].hash = new[l].hash => k = l
  BY <1>0, <1>6 DEF Due
<1>8. RunOnce(new, more)
  BY <1>2, <1>4, <1>5, <1>6, <1>7 DEF RunOnce
<1> QED
  BY <1>8 DEF more

LEMMA LeafIsDue ==
  ASSUME NEW tree, NEW sims, RunOnce(tree, sims), NEW n \in DOMAIN tree, tree[n].state = "scored"
  PROVE  Due(tree, sims, n)
BY DEF RunOnce, Due

\* A plan more, not run.
LEMMA OneMore ==
  ASSUME NEW tree, NEW sims, RunOnce(tree, sims), NEW n, n \notin DOMAIN tree,
         NEW new, DOMAIN new = DOMAIN tree \cup {n},
         \A k \in DOMAIN tree : new[k].hash = tree[k].hash /\ new[k].state = tree[k].state,
         new[n].state = "scored" => \A k \in DOMAIN tree : tree[k].hash # new[n].hash
  PROVE  RunOnce(new, sims)
<1>1. \A i \in DOMAIN sims : \E k \in DOMAIN new : new[k].hash = sims[i].hash
  BY DEF RunOnce
<1>2. \A k \in DOMAIN new : new[k].state = "scored" => \A i \in DOMAIN sims : sims[i].hash # new[k].hash
  <2>1. new[n].state = "scored" => \A i \in DOMAIN sims : sims[i].hash # new[n].hash
    BY DEF RunOnce
  <2> QED
    BY <2>1 DEF RunOnce
<1>3. \A k, l \in DOMAIN new :
        new[k].state = "scored" /\ new[l].state = "scored" /\ new[k].hash = new[l].hash => k = l
  BY DEF RunOnce
<1> QED
  BY <1>1, <1>2, <1>3 DEF RunOnce

\* A plan more that is none of the tree's can be run.
LEMMA NewIsDue ==
  ASSUME NEW tree, NEW sims, RunOnce(tree, sims), NEW n, n \notin DOMAIN tree,
         NEW new, DOMAIN new = DOMAIN tree \cup {n}, \A k \in DOMAIN tree : new[k] = tree[k],
         \A k \in DOMAIN tree : tree[k].hash # new[n].hash
  PROVE  Due(new, sims, n)
<1>1. \A i \in DOMAIN sims : sims[i].hash # new[n].hash /\ \E k \in DOMAIN new : new[k].hash = sims[i].hash
  BY DEF RunOnce
<1> QED
  BY <1>1 DEF RunOnce, Due

-----------------------------------------------------------------------------
\* A run of a variant: its record, its score, and that it was run.
UpToRun(db, m) == ToDatabase(db) /\ m \in Nat /\ \A d \in Dirs : \A q \in db[d] : q.run <= m
ScoredTree(db, tree, n, r) == Backpropagate(Stored(db, HomeOf(n), r), Ran(tree, n), n, r)
LEMMA VariantRun ==
  ASSUME NEW tree, ToTree(tree), NEW n \in DOMAIN tree, HomeOf(n) \in Dirs, NEW db, NEW m, UpToRun(db, m),
         NEW r \in ScoreRow, r.run = m + 1, r.hash = tree[n].hash,
         NEW sims, Due(tree, sims, n), NEW s, s.hash = r.hash
  PROVE  /\ UpToRun(Stored(db, HomeOf(n), r), m + 1)
         /\ ToTree(ScoredTree(db, tree, n, r)) /\ Len(ScoredTree(db, tree, n, r)) = Len(tree)
         /\ DOMAIN ScoredTree(db, tree, n, r) = DOMAIN tree
         /\ RunOnce(ScoredTree(db, tree, n, r), Append(sims, s))
<1>1. PICK stores : stores = Stored(db, HomeOf(n), r)
  OBVIOUS
<1>2. ToDatabase(db) /\ m \in Nat /\ m + 1 \in Nat /\ \A e \in Dirs : \A q \in db[e] : q.run <= m
  BY DEF UpToRun
<1>3. ToDatabase(stores) /\ \A e \in Dirs : \A q \in stores[e] : q.run <= m + 1
  BY <1>1, <1>2, RowStored
<1>4. PICK ran : ran = Ran(tree, n)
  OBVIOUS
<1>5. /\ ToTree(ran) /\ DOMAIN ran = DOMAIN tree /\ Len(ran) = Len(tree) /\ ran[n].state = "ran"
      /\ \A k \in DOMAIN tree : ran[k].hash = tree[k].hash /\ (k # n => ran[k].state = tree[k].state)
  BY <1>4, TreeRan
<1>6. PICK new : new = Backpropagate(stores, ran, n, r)
  OBVIOUS
<1>7. new = ScoredTree(db, tree, n, r)
  BY <1>1, <1>4, <1>6 DEF ScoredTree
<1>8. /\ ToTree(new) /\ DOMAIN new = DOMAIN ran /\ Len(new) = Len(ran) /\ new[n].hash = r.hash
      /\ \A k \in DOMAIN ran : new[k].state = ran[k].state /\ (k # n => new[k].hash = ran[k].hash)
  BY <1>3, <1>5, <1>6, TreeScored
<1>9. AfterRun(tree, n, new)
  BY <1>5, <1>8 DEF AfterRun
<1>10. RunOnce(new, Append(sims, s))
  <2>1. s.hash = tree[n].hash
    OBVIOUS
  <2> QED
    BY <1>9, <2>1, DueIsRun
<1>11. UpToRun(stores, m + 1)
  BY <1>2, <1>3 DEF UpToRun
<1> QED
  BY <1>1, <1>5, <1>7, <1>8, <1>10, <1>11

\* How far a search is, and that its variants have directories.
Room(st, sr, tr, size) ==
  /\ st \in {"idle", "round", "pick", "run", "done"} /\ size <= MaxNodes
  /\ st \in {"round", "run", "pick"} => sr \in 1 .. MaxRounds
  /\ st \in {"round", "run"} => tr \in 0 .. VariantsPerRound - 1 /\ size <= 1 + VariantsPerRound * (sr - 1) + tr
  /\ st = "pick" => size <= 1 + VariantsPerRound * sr

LEMMA Sizes ==
  /\ VariantsPerRound \in Nat \ {0} /\ MaxRounds \in Nat \ {0} /\ MaxNodes \in Nat /\ 2 <= MaxNodes
  /\ \A sr \in 1 .. MaxRounds : /\ VariantsPerRound * (sr - 1) \in Nat
                                /\ VariantsPerRound * (sr - 1) + VariantsPerRound = VariantsPerRound * sr
                                /\ 1 + VariantsPerRound * sr <= MaxNodes
<1>1. VariantsPerRound \in Nat \ {0} /\ MaxRounds \in Nat \ {0}
  BY HistoryAssumption
<1>2. \A v, a, b \in Nat : a <= b => v * a \in Nat /\ v * a <= v * b /\ v * (a + 1) = v * a + v
  OBVIOUS
<1>3. \A sr \in 1 .. MaxRounds : sr \in Nat /\ sr - 1 \in Nat /\ sr <= MaxRounds /\ (sr - 1) + 1 = sr
  BY <1>1
<1>4. MaxNodes = 1 + VariantsPerRound * MaxRounds
  BY DEF MaxNodes
<1>5. \A sr \in 1 .. MaxRounds : VariantsPerRound * sr \in Nat /\ VariantsPerRound * sr <= VariantsPerRound * MaxRounds
  BY <1>1, <1>2, <1>3
<1>6. VariantsPerRound * MaxRounds \in Nat /\ 1 \in 1 .. MaxRounds
  BY <1>1, <1>2
<1>7. \A sr \in 1 .. MaxRounds : /\ VariantsPerRound * (sr - 1) \in Nat
                                 /\ VariantsPerRound * (sr - 1) + VariantsPerRound = VariantsPerRound * sr
  <2> TAKE sr \in 1 .. MaxRounds
  <2>1. VariantsPerRound * ((sr - 1) + 1) = VariantsPerRound * (sr - 1) + VariantsPerRound
    BY <1>1, <1>2, <1>3
  <2> QED
    BY <1>1, <1>2, <1>3, <2>1
<1>8. VariantsPerRound * 1 = VariantsPerRound
  BY <1>1
<1>9. 2 <= MaxNodes
  BY <1>1, <1>4, <1>5, <1>6, <1>8
<1> QED
  BY <1>1, <1>4, <1>5, <1>6, <1>7, <1>9

LEMMA RoomToTry ==
  ASSUME NEW sr, NEW tr, NEW size \in Nat, Room("round", sr, tr, size), NEW more \in Nat, more <= size + 1,
         NEW st, st = IF tr + 1 = VariantsPerRound THEN "pick" ELSE "round"
  PROVE  size + 1 <= MaxNodes /\ Room(st, sr, tr + 1, more)
<1> DEFINE before == VariantsPerRound * (sr - 1)
           after == VariantsPerRound * sr
<1>1. /\ sr \in 1 .. MaxRounds /\ tr \in 0 .. VariantsPerRound - 1 /\ size <= 1 + before + tr
  BY DEF Room
<1>2. /\ VariantsPerRound \in Nat \ {0} /\ MaxNodes \in Nat
      /\ before \in Nat /\ before + VariantsPerRound = after /\ 1 + after <= MaxNodes
  BY <1>1, Sizes
<1> HIDE DEF before, after
<1>3. size + 1 <= MaxNodes /\ more <= MaxNodes
  BY <1>1, <1>2
<1>4. CASE tr + 1 = VariantsPerRound
  <2>1. more <= 1 + after
    BY <1>1, <1>2, <1>4
  <2> QED
    BY <1>1, <1>3, <1>4, <2>1 DEF Room, after
<1>5. CASE tr + 1 # VariantsPerRound
  <2>1. tr + 1 \in 0 .. VariantsPerRound - 1 /\ more <= 1 + before + (tr + 1)
    BY <1>1, <1>2, <1>5
  <2> QED
    BY <1>1, <1>3, <1>5, <2>1 DEF Room, before
<1> QED
  BY <1>4, <1>5

LEMMA RoomToPick ==
  ASSUME NEW sr, NEW tr, NEW size \in Nat, Room("pick", sr, tr, size),
         NEW st, st = "done" \/ (st = "run" /\ sr # MaxRounds)
  PROVE  Room(st, sr + 1, 0, size)
<1>1. sr \in 1 .. MaxRounds /\ size <= 1 + VariantsPerRound * sr /\ size <= MaxNodes
  BY DEF Room
<1>2. VariantsPerRound \in Nat \ {0} /\ MaxRounds \in Nat \ {0} /\ (sr + 1) - 1 = sr /\ 0 \in 0 .. VariantsPerRound - 1
  BY <1>1, Sizes
<1>3. CASE st = "done"
  BY <1>1, <1>3 DEF Room
<1>4. CASE st = "run" /\ sr # MaxRounds
  <2>1. sr + 1 \in 1 .. MaxRounds
    BY <1>1, <1>2, <1>4
  <2>2. VariantsPerRound * ((sr + 1) - 1) + 0 = VariantsPerRound * sr
    <3>1. VariantsPerRound * sr \in Nat
      BY <1>1, <1>2, Sizes
    <3> QED
      BY <1>2, <3>1
  <2>3. size <= 1 + VariantsPerRound * ((sr + 1) - 1) + 0
    <3>1. VariantsPerRound * sr \in Nat /\ VariantsPerRound * ((sr + 1) - 1) = VariantsPerRound * sr
      BY <1>1, <1>2, Sizes
    <3> QED
      BY <1>1, <3>1
  <2> QED
    BY <1>1, <1>2, <1>4, <2>1, <2>3 DEF Room
<1> QED
  BY <1>3, <1>4

LEMMA HomesAreDirs ==
  ASSUME NEW n \in Nat, n <= MaxNodes PROVE HomeOf(n) \in Dirs
BY Sizes DEF HomeOf, Dirs, Project

-----------------------------------------------------------------------------
DatabaseKept == day \in Nat /\ UpToRun(scores, runs)
SearchKept ==
  /\ ToTree(variants) /\ RunOnce(variants, simulatedAs)
  /\ stage = "idle" => variants = <<>> /\ simulatedAs = <<>>
  /\ stage # "idle" => leaf \in DOMAIN variants
  /\ Room(stage, searchRound, tried, Len(variants))
ScoreInv == DatabaseKept /\ SearchKept

LEMMA TreeSize ==
  ASSUME NEW tree, ToTree(tree)
  PROVE  IsSeq(tree) /\ DOMAIN tree = 1 .. Len(tree) /\ Len(tree) \in Nat
BY SeqDomain DEF ToTree, IsSeq

LEMMA EmptyTree ==
  /\ ToTree(<<>>) /\ RunOnce(<<>>, <<>>)
  /\ \A st \in {"idle", "done"} : \A sr, tr : Room(st, sr, tr, Len(<<>>))
<1>1. DOMAIN <<>> = {} /\ Len(<<>>) = 0 /\ IsSeq(<<>>)
  BY DEF IsSeq
<1>2. ToTree(<<>>)
  BY <1>1 DEF ToTree
<1>3. RunOnce(<<>>, <<>>)
  BY <1>1 DEF RunOnce
<1> QED
  BY <1>1, <1>2, <1>3, Sizes DEF Room

\* What a run of a variant of a tree leaves.
LEMMA RunVariantKeeps ==
  ASSUME DatabaseKept, NEW tree, ToTree(tree), NEW n \in DOMAIN tree, n <= MaxNodes,
         Due(tree, simulatedAs, n), NEW ok \in BOOLEAN, NEW how, RunVariant(tree, n, ok, how)
  PROVE  /\ UpToRun(scores', runs')
         /\ ToTree(variants') /\ Len(variants') = Len(tree) /\ DOMAIN variants' = DOMAIN tree
         /\ RunOnce(variants', simulatedAs')
<1> DEFINE r == Record(tree[n].hash, ok)
           s == [hash |-> r.hash, how |-> how, failing |-> HistoricalPruning(Project, r.hash)]
<1>1. tree[n] \in Variant /\ n \in Nat
  <2>1. tree \in Seq(Variant) /\ DOMAIN tree = 1 .. Len(tree) /\ Len(tree) \in Nat
    BY TreeSize DEF ToTree
  <2> QED
    BY <2>1, ElementOfSeq
<1>2. r \in ScoreRow /\ r.run = runs + 1 /\ r.hash = tree[n].hash /\ s.hash = r.hash
  <2>1. tree[n].hash \in PlanHash
    BY <1>1 DEF Variant
  <2> QED
    BY <2>1 DEF Record, ScoreRow, DatabaseKept, UpToRun
<1>3. /\ scores' = Stored(scores, HomeOf(n), r) /\ runs' = runs + 1
      /\ variants' = ScoredTree(scores, tree, n, r) /\ simulatedAs' = Append(simulatedAs, s)
  BY DEF RunVariant, StoreScore, Record, Ran, Stored, ScoredTree
<1> HIDE DEF r, s
<1>4. HomeOf(n) \in Dirs
  BY <1>1, HomesAreDirs
<1>5. /\ UpToRun(Stored(scores, HomeOf(n), r), runs + 1)
      /\ ToTree(ScoredTree(scores, tree, n, r)) /\ Len(ScoredTree(scores, tree, n, r)) = Len(tree)
      /\ DOMAIN ScoredTree(scores, tree, n, r) = DOMAIN tree
      /\ RunOnce(ScoredTree(scores, tree, n, r), Append(simulatedAs, s))
  BY <1>2, <1>4, VariantRun DEF DatabaseKept
<1> QED
  BY <1>3, <1>5

GrownTree(tree, h, p, st) == Append(tree, NewVariant(h, p, st))
LEMMA Grown ==
  ASSUME NEW tree, ToTree(tree), NEW h \in PlanHash, NEW p \in 0 .. Len(tree),
         NEW st \in {"new", "pruned", "scored", "cached", "ran"}
  PROVE  LET new == GrownTree(tree, h, p, st) IN
         ToTree(new) /\ OneLonger(tree, new) /\ new[Len(tree) + 1].hash = h /\ new[Len(tree) + 1].state = st
<1> DEFINE new == GrownTree(tree, h, p, st)
<1>1. PICK v : v = NewVariant(h, p, st)
  OBVIOUS
<1>2. Len(tree) \in Nat
  BY TreeSize
<1>3. /\ v \in Variant /\ v.hash = h /\ v.parent = p /\ v.state = st /\ v.visits = 0 /\ v.scored = 0
      /\ v.samples = Cardinality(v.evidence)
  BY <1>1, <1>2, NewVariantIs
<1>4. new = Append(tree, v) /\ v.parent \in 0 .. Len(tree)
  BY <1>1, <1>3 DEF GrownTree
<1> HIDE DEF new
<1>5. ToTree(new) /\ OneLonger(tree, new) /\ new[Len(tree) + 1] = v
  BY <1>3, <1>4, TreeGrows
<1> QED
  BY <1>3, <1>5 DEF new

\* A candidate takes a try, and at most a place in the tree.
LEMMA TryTaken ==
  ASSUME SearchKept, Trying, ToTree(variants'), RunOnce(variants', simulatedAs'),
         DOMAIN variants \subseteq DOMAIN variants', Len(variants') <= Len(variants) + 1
  PROVE  SearchKept'
<1>1. /\ stage = "round" /\ tried' = tried + 1 /\ stage' = IF tried' = VariantsPerRound THEN "pick" ELSE "round"
      /\ leaf' = leaf /\ searchRound' = searchRound
  BY DEF Trying, NextTry
<1>2. leaf \in DOMAIN variants /\ Room("round", searchRound, tried, Len(variants)) /\ Len(variants) \in Nat
  BY <1>1, TreeSize DEF SearchKept
<1>3. Len(variants') \in Nat
  BY TreeSize
<1>4. PICK st : st = IF tried + 1 = VariantsPerRound THEN "pick" ELSE "round"
  OBVIOUS
<1>5. PICK more : more = Len(variants')
  OBVIOUS
<1>6. Room(st, searchRound, tried + 1, more)
  BY <1>2, <1>3, <1>4, <1>5, RoomToTry
<1>7. Room(stage', searchRound', tried', Len(variants'))
  BY <1>1, <1>4, <1>5, <1>6
<1>8. stage' # "idle" /\ leaf' \in DOMAIN variants'
  BY <1>1, <1>2
<1> QED
  BY <1>7, <1>8 DEF SearchKept

\* What is known when a candidate is tried.
LEMMA AtATry ==
  ASSUME SearchKept, stage = "round"
  PROVE  /\ ToTree(variants) /\ RunOnce(variants, simulatedAs) /\ leaf \in DOMAIN variants /\ leaf \in 0 .. Len(variants)
         /\ leaf \in Nat /\ Len(variants) \in Nat /\ Len(variants) + 1 <= MaxNodes /\ HomeOf(leaf) \in Dirs
         /\ HomeOf(Len(variants) + 1) \in Dirs
<1>1. /\ ToTree(variants) /\ RunOnce(variants, simulatedAs) /\ leaf \in DOMAIN variants
      /\ Room("round", searchRound, tried, Len(variants))
  BY DEF SearchKept
<1>2. DOMAIN variants = 1 .. Len(variants) /\ Len(variants) \in Nat
  BY <1>1, TreeSize
<1>3. Len(variants) + 1 <= MaxNodes
  BY <1>1, <1>2, RoomToTry
<1>4. leaf \in Nat /\ leaf <= MaxNodes /\ leaf \in 0 .. Len(variants)
  BY <1>1, <1>2, <1>3, Sizes
<1> QED
  BY <1>1, <1>2, <1>3, <1>4, HomesAreDirs

\* A plan that is not run joins the tree.
LEMMA CandidateJoins ==
  ASSUME DatabaseKept, SearchKept, Trying, NoRun, NEW h \in PlanHash,
         NEW st \in {"pruned", "scored", "cached"}, st = "scored" => ~InTree(h),
         NEW new, new = AddVariant(NewVariant(h, leaf, st))
  PROVE  /\ ToTree(new) /\ OneLonger(variants, new) /\ new[Len(variants) + 1].state = st
         /\ variants' = new => SearchKept'
         /\ DatabaseKept'
<1>0. stage = "round"
  BY DEF Trying
<1>1. /\ ToTree(variants) /\ RunOnce(variants, simulatedAs) /\ leaf \in 0 .. Len(variants) /\ Len(variants) \in Nat
  BY <1>0, AtATry
<1>2. new = GrownTree(variants, h, leaf, st) /\ st \in {"new", "pruned", "scored", "cached", "ran"}
  BY DEF AddVariant, GrownTree
<1>3. /\ ToTree(new) /\ OneLonger(variants, new)
      /\ new[Len(variants) + 1].hash = h /\ new[Len(variants) + 1].state = st
  BY <1>1, <1>2, Grown
<1>4. /\ ToTree(new) /\ Len(new) = Len(variants) + 1
      /\ DOMAIN new = DOMAIN variants \cup {Len(variants) + 1} /\ Len(variants) + 1 \notin DOMAIN variants
      /\ new[Len(variants) + 1].hash = h /\ new[Len(variants) + 1].state = st
      /\ \A k \in DOMAIN variants : new[k] = variants[k]
  BY <1>3 DEF OneLonger
<1>5. RunOnce(new, simulatedAs)
  <2>1. \A k \in DOMAIN variants : new[k].hash = variants[k].hash /\ new[k].state = variants[k].state
    BY <1>4
  <2>2. new[Len(variants) + 1].state = "scored" => \A k \in DOMAIN variants : variants[k].hash # new[Len(variants) + 1].hash
    BY <1>4 DEF InTree
  <2> QED
    BY <1>1, <1>4, <2>1, <2>2, OneMore
<1>6. simulatedAs' = simulatedAs /\ scores' = scores /\ runs' = runs /\ day' = day
  BY DEF NoRun, Trying
<1>7. DatabaseKept'
  BY <1>6 DEF DatabaseKept
<1>8. ASSUME variants' = new PROVE SearchKept'
  <2>1. ToTree(variants') /\ RunOnce(variants', simulatedAs') /\ DOMAIN variants \subseteq DOMAIN variants'
    BY <1>4, <1>5, <1>6, <1>8
  <2>2. Len(variants') <= Len(variants) + 1
    BY <1>1, <1>4, <1>8
  <2> QED
    BY <2>1, <2>2, TryTaken
<1> QED
  BY <1>3, <1>7, <1>8

\* A candidate with a record takes its score from there.
LEMMA ScoreTaken ==
  ASSUME DatabaseKept, SearchKept, Trying, NoRun, NEW h \in PlanHash, NEW st \in {"scored", "cached"},
         st = "scored" => ~InTree(h), NEW table, table # {}, table \subseteq scores[HomeOf(leaf)],
         st = "scored" => \A r \in table : r.hash = h,
         variants' = Backpropagate(scores, AddVariant(NewVariant(h, leaf, st)), Len(variants) + 1, Newest(table))
  PROVE  ScoreInv'
<1> DEFINE n == Len(variants) + 1
<1>0. stage = "round"
  BY DEF Trying
<1>1. PICK tree : tree = AddVariant(NewVariant(h, leaf, st))
  OBVIOUS
<1>2. st \in {"pruned", "scored", "cached"}
  OBVIOUS
<1>3. ToTree(tree) /\ OneLonger(variants, tree) /\ tree[Len(variants) + 1].state = st /\ DatabaseKept'
  BY <1>1, <1>2, CandidateJoins
<1>4. /\ ToTree(tree) /\ Len(tree) = n /\ n \in DOMAIN tree /\ DatabaseKept'
      /\ DOMAIN tree = DOMAIN variants \cup {n} /\ n \notin DOMAIN variants
      /\ tree[n].state = st /\ \A k \in DOMAIN variants : tree[k] = variants[k]
  BY <1>3 DEF OneLonger
<1>5. HomeOf(leaf) \in Dirs /\ HomeOf(n) \in Dirs /\ Len(variants) \in Nat
  BY <1>0, AtATry
<1>6. PICK r : r = Newest(table)
  OBVIOUS
<1>7. r \in table /\ r \in ScoreRow
  <2>1. ToDatabase(scores) /\ runs \in Nat /\ \A q \in table : q.run <= runs
    BY <1>5 DEF DatabaseKept, UpToRun
  <2>2. table \subseteq ScoreRow
    BY <1>5, <2>1 DEF ToDatabase
  <2> QED
    BY <1>6, <2>1, <2>2, NewestIs
<1>8. PICK new : new = Backpropagate(scores, tree, n, r)
  OBVIOUS
<1>9. /\ ToTree(new) /\ DOMAIN new = DOMAIN tree /\ Len(new) = Len(tree) /\ new[n].hash = r.hash
      /\ \A k \in DOMAIN tree : new[k].state = tree[k].state /\ (k # n => new[k].hash = tree[k].hash)
  <2>1. ToDatabase(scores)
    BY DEF DatabaseKept, UpToRun
  <2> QED
    BY <1>4, <1>5, <1>7, <1>8, <2>1, TreeScored
<1>10. simulatedAs' = simulatedAs /\ variants' = new
  BY <1>1, <1>6, <1>8 DEF NoRun
<1>11. RunOnce(new, simulatedAs)
  <2>1. RunOnce(variants, simulatedAs) /\ DOMAIN new = DOMAIN variants \cup {n} /\ n \notin DOMAIN variants
    BY <1>0, <1>4, <1>9, AtATry
  <2>2. \A k \in DOMAIN variants : new[k].hash = variants[k].hash /\ new[k].state = variants[k].state
    BY <1>4, <1>9
  <2>3. new[n].state = "scored" => \A k \in DOMAIN variants : variants[k].hash # new[n].hash
    <3>1. new[n].state = st /\ new[n].hash = r.hash
      BY <1>4, <1>9
    <3> QED
      BY <1>7, <3>1 DEF InTree
  <2> HIDE DEF n
  <2> QED
    BY <2>1, <2>2, <2>3, OneMore
<1>12. SearchKept'
  <2>1. ToTree(variants') /\ RunOnce(variants', simulatedAs') /\ DOMAIN variants \subseteq DOMAIN variants'
    BY <1>4, <1>9, <1>10, <1>11
  <2>2. Len(variants') <= Len(variants) + 1
    BY <1>4, <1>5, <1>9, <1>10
  <2> QED
    BY <2>1, <2>2, TryTaken
<1> QED
  BY <1>4, <1>12 DEF ScoreInv

\* A candidate that a dry run of all of it is made for.
LEMMA Simulated ==
  ASSUME ScoreInv, SimulateCandidate PROVE ScoreInv'
<1>0. DatabaseKept /\ SearchKept /\ Trying /\ stage = "round" /\ day' = day
  BY DEF SimulateCandidate, Trying, ScoreInv
<1>1. PICK h \in PlanHash, ok \in BOOLEAN, raises \in BOOLEAN :
        LET tree == AddVariant(NewVariant(h, leaf, "new"))  n == Len(tree)
        IN /\ ~InTree(h)
           /\ IF HistoricalPruning(HomeOf(n), h) \/ raises
                THEN variants' = AddVariant(NewVariant(h, leaf, "pruned")) /\ NoRun
              ELSE RunVariant(tree, n, ok, "simulation")
  BY DEF SimulateCandidate
<1>2. CASE variants' = AddVariant(NewVariant(h, leaf, "pruned")) /\ NoRun
  BY <1>0, <1>2, CandidateJoins DEF ScoreInv
<1>3. ASSUME NEW tree, tree = AddVariant(NewVariant(h, leaf, "new")), RunVariant(tree, Len(tree), ok, "simulation")
      PROVE  ScoreInv'
  <2>1. /\ ToTree(variants) /\ RunOnce(variants, simulatedAs) /\ leaf \in 0 .. Len(variants) /\ Len(variants) \in Nat
        /\ Len(variants) + 1 <= MaxNodes
    BY <1>0, AtATry
  <2>2. tree = GrownTree(variants, h, leaf, "new")
    BY <1>3 DEF AddVariant, GrownTree
  <2>3. ToTree(tree) /\ OneLonger(variants, tree) /\ tree[Len(variants) + 1].hash = h
    BY <2>1, <2>2, Grown
  <2>4. /\ ToTree(tree) /\ Len(tree) = Len(variants) + 1
        /\ DOMAIN tree = DOMAIN variants \cup {Len(variants) + 1} /\ Len(variants) + 1 \notin DOMAIN variants
        /\ tree[Len(variants) + 1].hash = h
        /\ \A k \in DOMAIN variants : tree[k] = variants[k]
    BY <2>3 DEF OneLonger
  <2>5. Due(tree, simulatedAs, Len(tree))
    <3>1. \A k \in DOMAIN variants : variants[k].hash # tree[Len(variants) + 1].hash
      BY <1>1, <2>4 DEF InTree
    <3> QED
      BY <2>1, <2>4, <3>1, NewIsDue
  <2>6. /\ UpToRun(scores', runs') /\ ToTree(variants') /\ Len(variants') = Len(tree) /\ DOMAIN variants' = DOMAIN tree
        /\ RunOnce(variants', simulatedAs')
    <3>1. Len(tree) \in DOMAIN tree /\ Len(tree) <= MaxNodes
      BY <2>1, <2>4
    <3> QED
      BY <1>0, <1>3, <2>4, <2>5, <3>1, RunVariantKeeps
  <2>7. SearchKept'
    <3>1. DOMAIN variants \subseteq DOMAIN variants' /\ Len(variants') <= Len(variants) + 1
      BY <2>1, <2>4, <2>6
    <3> QED
      BY <1>0, <2>6, <3>1, TryTaken
  <2>8. DatabaseKept'
    BY <1>0, <2>6 DEF DatabaseKept
  <2> QED
    BY <2>7, <2>8 DEF ScoreInv
<1> QED
  BY <1>1, <1>2, <1>3

LEMMA AttemptMade ==
  ASSUME ScoreInv, NEW tree, ToTree(tree), NEW n \in DOMAIN tree, n <= MaxNodes, Due(tree, simulatedAs, n),
         NEW ok \in BOOLEAN, RunVariant(tree, n, ok, "attempt"), stage' = IF ok THEN "done" ELSE "round",
         leaf' = n, day' = day, Room("round", searchRound', tried', Len(tree))
  PROVE  ScoreInv'
<1>1. /\ UpToRun(scores', runs') /\ ToTree(variants') /\ Len(variants') = Len(tree) /\ DOMAIN variants' = DOMAIN tree
      /\ RunOnce(variants', simulatedAs')
  BY RunVariantKeeps DEF ScoreInv
<1>2. leaf' \in DOMAIN variants' /\ stage' \in {"done", "round"}
  BY <1>1
<1>3. Room(stage', searchRound', tried', Len(variants'))
  BY <1>1, <1>2 DEF Room
<1>4. DatabaseKept'
  BY <1>1 DEF DatabaseKept, ScoreInv
<1>5. SearchKept'
  BY <1>1, <1>2, <1>3 DEF SearchKept
<1> QED
  BY <1>4, <1>5 DEF ScoreInv

LEMMA AttemptOfRoot ==
  ASSUME ScoreInv, StartSearch PROVE ScoreInv'
<1>1. PICK h \in PlanHash, ok \in BOOLEAN :
        /\ RunVariant(<<NewVariant(h, 0, "new")>>, 1, ok, "attempt")
        /\ stage' = IF ok THEN "done" ELSE "round"
  BY DEF StartSearch
<1>2. /\ stage = "idle" /\ leaf' = 1 /\ searchRound' = 1 /\ tried' = 0 /\ day' = day
  BY DEF StartSearch
<1>3. PICK tree : tree = <<NewVariant(h, 0, "new")>>
  OBVIOUS
<1>4. ToTree(<<>>) /\ Len(<<>>) = 0 /\ DOMAIN <<>> = {} /\ RunOnce(<<>>, simulatedAs)
  BY <1>2, EmptyTree DEF ScoreInv, SearchKept
<1>5. tree = GrownTree(<<>>, h, 0, "new")
  BY <1>3 DEF GrownTree
<1>6. ToTree(tree) /\ OneLonger(<<>>, tree)
  <2>1. 0 \in 0 .. Len(<<>>)
    BY <1>4
  <2> QED
    BY <1>4, <1>5, <2>1, Grown
<1>7. Len(tree) = 1 /\ DOMAIN tree = {1}
  BY <1>4, <1>6 DEF OneLonger
<1>8. Due(tree, simulatedAs, 1)
  <2>1. 1 \notin DOMAIN <<>> /\ DOMAIN tree = DOMAIN <<>> \cup {1}
    BY <1>4, <1>7
  <2>2. \A k \in DOMAIN <<>> : tree[k] = <<>>[k] /\ <<>>[k].hash # tree[1].hash
    BY <1>4
  <2> QED
    BY <1>4, <2>1, <2>2, NewIsDue
<1>9. 1 <= MaxNodes /\ Room("round", searchRound', tried', Len(tree))
  <2>1. VariantsPerRound \in Nat \ {0} /\ MaxRounds \in Nat \ {0} /\ MaxNodes \in Nat /\ 2 <= MaxNodes
    BY Sizes
  <2>2. 1 \in 1 .. MaxRounds /\ 0 \in 0 .. VariantsPerRound - 1
    BY <2>1
  <2>3. VariantsPerRound * (1 - 1) \in Nat
    BY <2>2, Sizes
  <2>4. 1 <= 1 + VariantsPerRound * (1 - 1) + 0
    BY <2>3
  <2>5. Room("round", 1, 0, 1)
    BY <2>1, <2>2, <2>4 DEF Room
  <2> QED
    BY <1>2, <1>7, <2>1, <2>5
<1>10. RunVariant(tree, 1, ok, "attempt") /\ 1 \in DOMAIN tree
  BY <1>1, <1>3, <1>7
<1> QED
  BY <1>1, <1>2, <1>6, <1>8, <1>9, <1>10, AttemptMade

LEMMA AttemptOfLeaf ==
  ASSUME ScoreInv, RunLeaf PROVE ScoreInv'
<1>1. PICK ok \in BOOLEAN : RunVariant(variants, leaf, ok, "attempt") /\ stage' = IF ok THEN "done" ELSE "round"
  BY DEF RunLeaf
<1>2. /\ stage = "run" /\ variants[leaf].state = "scored" /\ day' = day /\ leaf' = leaf
      /\ searchRound' = searchRound /\ tried' = tried
  BY DEF RunLeaf
<1>3. /\ ToTree(variants) /\ RunOnce(variants, simulatedAs) /\ leaf \in DOMAIN variants
      /\ Room("run", searchRound, tried, Len(variants))
  BY <1>2 DEF ScoreInv, SearchKept
<1>4. Due(variants, simulatedAs, leaf)
  BY <1>2, <1>3, LeafIsDue
<1>5. leaf <= MaxNodes
  BY <1>3, TreeSize, Sizes DEF Room
<1>6. Room("round", searchRound', tried', Len(variants))
  BY <1>2, <1>3 DEF Room
<1> QED
  BY <1>1, <1>2, <1>3, <1>4, <1>5, <1>6, AttemptMade

LEMMA SearchEnds ==
  ASSUME ScoreInv, Leave PROVE ScoreInv'
<1>1. /\ stage' = "idle" /\ variants' = <<>> /\ simulatedAs' = <<>> /\ day' = day /\ runs' = runs
      /\ scores' = [d \in Dirs |-> IF d = Project THEN scores[d] ELSE {}]
  BY DEF Leave
<1>2. SearchKept'
  <2>1. ToTree(variants') /\ RunOnce(variants', simulatedAs') /\ Room(stage', searchRound', tried', Len(variants'))
    BY <1>1, EmptyTree
  <2> QED
    BY <1>1, <2>1 DEF SearchKept
<1>3. UpToRun(scores', runs)
  <2>1. ToDatabase(scores) /\ runs \in Nat /\ \A d \in Dirs : \A r \in scores[d] : r.run <= runs
    BY DEF ScoreInv, DatabaseKept, UpToRun
  <2>2. \A d \in Dirs : scores'[d] = {} \/ scores'[d] = scores[d]
    BY <1>1
  <2>3. /\ \A d \in Dirs : scores[d] \in SUBSET ScoreRow /\ IsFiniteSet(scores[d])
        /\ \A d \in Dirs : \A r, s \in scores[d] : r.run = s.run => r = s
    BY <2>1 DEF ToDatabase
  <2>4. \A d \in Dirs : scores'[d] \in SUBSET ScoreRow /\ IsFiniteSet(scores'[d])
    BY <2>2, <2>3, FS_EmptySet
  <2>5. \A d \in Dirs : \A r, s \in scores'[d] : r.run = s.run => r = s
    BY <2>2, <2>3
  <2>6. scores' \in [Dirs -> SUBSET ScoreRow]
    BY <1>1, <2>4
  <2>7. ToDatabase(scores')
    BY <2>4, <2>5, <2>6 DEF ToDatabase
  <2>8. \A d \in Dirs : \A r \in scores'[d] : r.run <= runs
    BY <2>1, <2>2
  <2> QED
    BY <2>1, <2>7, <2>8 DEF UpToRun
<1>4. DatabaseKept'
  BY <1>1, <1>3 DEF ScoreInv, DatabaseKept
<1> QED
  BY <1>2, <1>4 DEF ScoreInv

LEMMA ScoreInvHolds == ScoresSpec => []ScoreInv
<1>1. ScoresInit => ScoreInv
  <2> SUFFICES ASSUME ScoresInit PROVE ScoreInv
    OBVIOUS
  <2>1. scores = [d \in Dirs |-> {}] /\ runs = 0 /\ day = 0 /\ stage = "idle" /\ variants = <<>> /\ simulatedAs = <<>>
    BY DEF ScoresInit
  <2>2. ToDatabase(scores) /\ \A d \in Dirs : \A r \in scores[d] : r.run <= 0
    BY <2>1, FS_EmptySet DEF ToDatabase
  <2>3. DatabaseKept
    BY <2>1, <2>2 DEF DatabaseKept, UpToRun
  <2>4. SearchKept
    BY <2>1, EmptyTree DEF SearchKept
  <2> QED
    BY <2>3, <2>4 DEF ScoreInv
<1>2. ScoreInv /\ [ScoresNext]_scoreVars => ScoreInv'
  <2> SUFFICES ASSUME ScoreInv, [ScoresNext]_scoreVars PROVE ScoreInv'
    OBVIOUS
  <2>0. DatabaseKept /\ SearchKept
    BY DEF ScoreInv
  <2>1. CASE UserRuns
    <3>1. PICK h \in PlanHash, ok \in BOOLEAN : scores' = StoreScore(Project, h, ok)
      BY <2>1 DEF UserRuns
    <3>2. /\ runs' = runs + 1
          /\ UNCHANGED <<day, variants, leaf, stage, searchRound, tried, simulatedAs>>
      BY <2>1 DEF UserRuns
    <3>3. SearchKept'
      BY <2>0, <3>2 DEF SearchKept
    <3>4. DatabaseKept'
      <4>1. PICK r : r = Record(h, ok)
        OBVIOUS
      <4>2. UpToRun(scores, runs) /\ r \in ScoreRow /\ r.run = runs + 1 /\ day' = day /\ day \in Nat
        BY <2>0, <3>2, <4>1 DEF Record, ScoreRow, DatabaseKept, UpToRun
      <4>3. Project \in Dirs
        BY Sizes DEF Dirs, Project
      <4>4. PICK new : new = Stored(scores, Project, r)
        OBVIOUS
      <4>5. ToDatabase(scores) /\ runs \in Nat /\ runs + 1 \in Nat /\ \A d \in Dirs : \A q \in scores[d] : q.run <= runs
        BY <4>2 DEF UpToRun
      <4>6. ToDatabase(new) /\ \A d \in Dirs : \A q \in new[d] : q.run <= runs + 1
        BY <4>2, <4>3, <4>4, <4>5, RowStored
      <4>7. scores' = new
        BY <3>1, <4>1, <4>4 DEF StoreScore, Stored
      <4> QED
        BY <3>2, <4>2, <4>5, <4>6, <4>7 DEF DatabaseKept, UpToRun
    <3> QED
      BY <3>3, <3>4 DEF ScoreInv
  <2>2. CASE NextDay
    <3>1. /\ day' = day + 1
          /\ UNCHANGED <<scores, variants, leaf, stage, searchRound, tried, runs, searches, simulatedAs>>
      BY <2>2 DEF NextDay
    <3>2. DatabaseKept' /\ SearchKept'
      BY <2>0, <3>1 DEF DatabaseKept, SearchKept
    <3> QED
      BY <3>2 DEF ScoreInv
  <2>3. CASE StartSearch
    BY <2>3, AttemptOfRoot
  <2>4. CASE RunLeaf
    BY <2>4, AttemptOfLeaf
  <2>5. CASE ReuseResult
    <3>1. /\ stage = "run" /\ stage' \in {"done", "round"}
          /\ UNCHANGED <<day, scores, variants, leaf, searchRound, tried, runs, simulatedAs>>
      BY <2>5 DEF ReuseResult
    <3>2. Room(stage', searchRound, tried, Len(variants))
      BY <2>0, <3>1 DEF SearchKept, Room
    <3>3. DatabaseKept' /\ SearchKept'
      BY <2>0, <3>1, <3>2 DEF DatabaseKept, SearchKept
    <3> QED
      BY <3>3 DEF ScoreInv
  <2>6. CASE NoCandidate
    <3>1. stage = "round" /\ Trying /\ UNCHANGED <<day, scores, variants, runs, simulatedAs>>
      BY <2>6 DEF NoCandidate, Trying, NoRun
    <3>2. ToTree(variants') /\ RunOnce(variants', simulatedAs') /\ Len(variants') = Len(variants)
          /\ DOMAIN variants \subseteq DOMAIN variants'
      BY <2>0, <3>1 DEF SearchKept
    <3>3. Len(variants') <= Len(variants) + 1
      BY <2>0, <3>1, <3>2, AtATry
    <3>4. SearchKept'
      BY <2>0, <3>1, <3>2, <3>3, TryTaken
    <3>5. DatabaseKept'
      BY <2>0, <3>1 DEF DatabaseKept
    <3> QED
      BY <3>4, <3>5 DEF ScoreInv
  <2>7. CASE CandidateRefused \/ SearchDuplicate
    <3>1. PICK h \in PlanHash : Trying /\ NoRun /\ variants' = AddVariant(NewVariant(h, leaf, "pruned"))
      BY <2>7 DEF CandidateRefused, SearchDuplicate
    <3> QED
      BY <2>0, <3>1, CandidateJoins DEF ScoreInv
  <2>8. CASE ScoreOnRecord
    <3>1. PICK h \in PlanHash :
            /\ ~InTree(h) /\ LoadScores(HomeOf(leaf), h) # {}
            /\ variants' = Backpropagate(scores, AddVariant(NewVariant(h, leaf, "scored")), Len(variants) + 1,
                                         Newest(LoadScores(HomeOf(leaf), h)))
      BY <2>8 DEF ScoreOnRecord
    <3>2. Trying /\ NoRun
      BY <2>8 DEF ScoreOnRecord
    <3>3. PICK table : table = LoadScores(HomeOf(leaf), h)
      OBVIOUS
    <3>4. table # {} /\ table \subseteq scores[HomeOf(leaf)] /\ \A r \in table : r.hash = h
      BY <3>1, <3>3 DEF LoadScores, Records
    <3> QED
      BY <2>0, <3>1, <3>2, <3>3, <3>4, ScoreTaken
  <2>9. CASE SimulationCached
    <3>1. PICK h \in PlanHash :
            /\ SimulationRecords(HomeOf(leaf), h) # {}
            /\ variants' = Backpropagate(scores, AddVariant(NewVariant(h, leaf, "cached")), Len(variants) + 1,
                                         Newest(SimulationRecords(HomeOf(leaf), h)))
      BY <2>9 DEF SimulationCached
    <3>2. Trying /\ NoRun
      BY <2>9 DEF SimulationCached
    <3>3. PICK table : table = SimulationRecords(HomeOf(leaf), h)
      OBVIOUS
    <3>4. table # {} /\ table \subseteq scores[HomeOf(leaf)]
      BY <3>1, <3>3 DEF SimulationRecords
    <3> QED
      BY <2>0, <3>1, <3>2, <3>3, <3>4, ScoreTaken
  <2>10. CASE SimulateCandidate
    BY <2>10, Simulated
  <2>11. CASE PickVariant
    <3>1. PICK n \in OpenLeaves :
            /\ leaf' = n
            /\ stage' = "done" \/ (stage' = "run" /\ searchRound # MaxRounds)
      BY <2>11 DEF PickVariant
    <3>2. /\ stage = "pick" /\ searchRound' = searchRound + 1 /\ tried' = 0
          /\ UNCHANGED <<day, scores, variants, runs, simulatedAs>>
      BY <2>11 DEF PickVariant
    <3>3. n \in DOMAIN variants /\ stage' # "idle"
      BY <3>1 DEF OpenLeaves
    <3>4. Room(stage', searchRound', tried', Len(variants'))
      <4>1. Room("pick", searchRound, tried, Len(variants)) /\ Len(variants) \in Nat
        BY <2>0, <3>2, TreeSize DEF SearchKept
      <4>2. PICK st : st = stage'
        OBVIOUS
      <4>3. Room(st, searchRound + 1, 0, Len(variants))
        BY <3>1, <4>1, <4>2, RoomToPick
      <4> QED
        BY <3>2, <4>2, <4>3
    <3>5. DatabaseKept' /\ SearchKept'
      BY <2>0, <3>1, <3>2, <3>3, <3>4 DEF DatabaseKept, SearchKept
    <3> QED
      BY <3>5 DEF ScoreInv
  <2>12. CASE EndSearch
    BY <2>12, SearchEnds DEF EndSearch
  <2>13. CASE UNCHANGED scoreVars
    <3>1. UNCHANGED <<day, scores, variants, leaf, stage, searchRound, tried, runs, simulatedAs>>
      BY <2>13 DEF scoreVars
    <3>2. DatabaseKept' /\ SearchKept'
      BY <2>0, <3>1 DEF DatabaseKept, SearchKept
    <3> QED
      BY <3>2 DEF ScoreInv
  <2> QED
    BY <2>1, <2>2, <2>3, <2>4, <2>5, <2>6, <2>7, <2>8, <2>9, <2>10, <2>11, <2>12, <2>13 DEF ScoresNext
<1> QED
  BY <1>1, <1>2, PTL DEF ScoresSpec

\* Whatever the plans, the records and the order of the runs: a run is counted
\* once in a score, a visit is a visit of all that is above it, and a search
\* runs a plan once (EvidenceCountedOnce).
THEOREM EvidenceIsCountedOnce == ScoresSpec => []EvidenceCountedOnce
<1>1. ScoreInv => EvidenceCountedOnce
  <2> SUFFICES ASSUME ScoreInv PROVE EvidenceCountedOnce
    OBVIOUS
  <2>1. ToTree(variants) /\ RunOnce(variants, simulatedAs)
    BY DEF ScoreInv, SearchKept
  <2>2. \A n \in DOMAIN variants : variants[n].samples = Cardinality(variants[n].evidence) /\ VisitsAddUp(variants, n)
    BY <2>1 DEF ToTree
  <2>3. \A i, j \in DOMAIN simulatedAs : simulatedAs[i].hash = simulatedAs[j].hash => i = j
    BY <2>1 DEF RunOnce
  <2> QED
    BY <2>2, <2>3 DEF EvidenceCountedOnce, VisitsAddUp, VisitsOf, ChildrenOf
<1> QED
  BY <1>1, ScoreInvHolds, PTL

-----------------------------------------------------------------------------
(* What the improve agent is told (SessionMemory).                         *)

\* Every row ever stored is of iterations that the agent is no longer told word
\* for word, no two of the same; the lessons are of iterations that were.
RowsTyped ==
  /\ IsSeq(iterations) /\ IsSeq(lessons) /\ ToSet(lessons) \subseteq DOMAIN iterations
  /\ at \in {"prompt", "outcome", "lesson", "down"}
  /\ at \in {"outcome", "lesson"} => iterations # <<>>
  /\ IsFiniteSet(stored)
  /\ \A r \in stored : /\ r.to \in Nat /\ r.to <= Len(iterations) - RecentTail
                       /\ at \in {"outcome", "lesson"} => r.to < Len(iterations) - RecentTail

\* A row tells of the iterations up to its last, but for those crowded out and
\* the failures cut off.
RowsTell ==
  \A r \in stored : \A i \in 1 .. r.to : i \in r.tells \/ Crowded(i, r.to) \/ (~ Improved(i) /\ r.cut)

\* The table has the rows after which fewer than MaxSnapshots were stored under
\* the same name.
NewestOf(table) == {r \in table : Cardinality(Newer(table, r)) < MaxSnapshots}
TableIsNewest == snapshots = NewestOf(stored)

SessionInv == RowsTyped /\ TableIsNewest /\ RowsTell

\* A row newer than all others, and the pruning under its name.
LEMMA NewestStored ==
  ASSUME NEW table, IsFiniteSet(table), NEW e, e.to \in Nat,
         \A r \in table : r.to \in Nat /\ r.to < e.to
  PROVE  PruneSnapshots(NewestOf(table) \cup {e}, e.plan) = NewestOf(table \cup {e})
<1> DEFINE now == table \cup {e}
           kept == {r \in table : Cardinality(Newer(table, r)) < MaxSnapshots}
<1>0. MaxSnapshots \in Nat \ {0} /\ IsFiniteSet(now) /\ e \notin table
  BY SessionAssumption, FS_AddElement
<1>1. \A r \in now : /\ Newer(now, r) \in SUBSET now
                     /\ IsFiniteSet(Newer(now, r)) /\ Cardinality(Newer(now, r)) \in Nat
  BY <1>0, FS_Subset, FS_CardinalityType DEF Newer, SnapshotsOf
<1>2. Newer(now, e) = {} /\ Newer(kept \cup {e}, e) = {}
  BY DEF Newer, SnapshotsOf
<1>3. ASSUME NEW r \in table
      PROVE  /\ Newer(table, r) \subseteq Newer(now, r)
             /\ r.plan # e.plan => Newer(table, r) = Newer(now, r)
             /\ IsFiniteSet(Newer(table, r)) /\ Cardinality(Newer(table, r)) <= Cardinality(Newer(now, r))
             /\ Cardinality(Newer(table, r)) \in Nat
  <2>1. Newer(table, r) \subseteq Newer(now, r) /\ (r.plan # e.plan => Newer(table, r) = Newer(now, r))
    BY DEF Newer, SnapshotsOf
  <2> QED
    BY <1>1, <2>1, FS_Subset, FS_CardinalityType
<1>4. ASSUME NEW r \in kept, NEW s \in Newer(table, r) PROVE s \in kept
  <2>1. r \in table /\ s \in table /\ s.plan = r.plan /\ s.to > r.to
    BY <1>4 DEF Newer, SnapshotsOf
  <2>2. Newer(table, s) \subseteq Newer(table, r)
    BY <2>1 DEF Newer, SnapshotsOf
  <2>3. Cardinality(Newer(table, s)) <= Cardinality(Newer(table, r))
    BY <1>3, <2>1, <2>2, FS_Subset
  <2> QED
    BY <1>0, <1>3, <2>1, <2>3
<1>5. ASSUME NEW r \in kept PROVE Newer(kept \cup {e}, r) = Newer(now, r)
  BY <1>4, <1>5 DEF Newer, SnapshotsOf
<1>6. ASSUME NEW r \in table, Cardinality(Newer(now, r)) < MaxSnapshots PROVE r \in kept
  <2>1. Cardinality(Newer(table, r)) <= Cardinality(Newer(now, r)) /\ Cardinality(Newer(table, r)) \in Nat
    BY <1>3
  <2>2. Cardinality(Newer(now, r)) \in Nat
    BY <1>1
  <2>3. Cardinality(Newer(table, r)) < MaxSnapshots
    BY <1>0, <1>6, <2>1, <2>2
  <2> QED
    BY <2>3
<1>7. Cardinality(Newer(now, e)) < MaxSnapshots /\ Cardinality(Newer(kept \cup {e}, e)) < MaxSnapshots
  <2>1. Cardinality({}) = 0 /\ 0 < MaxSnapshots
    BY <1>0, FS_EmptySet
  <2> QED
    BY <1>2, <2>1
<1>8. ASSUME NEW r \in kept, r.plan # e.plan PROVE Cardinality(Newer(now, r)) < MaxSnapshots
  BY <1>3, <1>8
<1>9. ASSUME NEW r
      PROVE  r \in PruneSnapshots(kept \cup {e}, e.plan)
               <=> r \in now /\ Cardinality(Newer(now, r)) < MaxSnapshots
  <2>1. CASE r = e
    BY <1>7, <2>1 DEF PruneSnapshots
  <2>2. CASE r # e /\ r \in kept
    BY <1>5, <1>8, <2>2 DEF PruneSnapshots
  <2>3. CASE r # e /\ r \notin kept
    BY <1>6, <2>3 DEF PruneSnapshots
  <2> QED
    BY <2>1, <2>2, <2>3
<1> QED
  BY <1>9 DEF NewestOf

\* What a row tells of its iterations is not changed by a later one.
LEMMA RowsKept ==
  ASSUME SessionInv, stored' = stored,
         iterations' = iterations \/ \E row : iterations' = Append(iterations, row)
  PROVE  RowsTell'
<1>0. /\ IsSeq(iterations) /\ Len(iterations) \in Nat /\ DOMAIN iterations = 1 .. Len(iterations) /\ RecentTail \in Nat
      /\ \A r \in stored : r.to \in Nat /\ r.to <= Len(iterations) - RecentTail
  BY SeqDomain, SessionAssumption DEF SessionInv, RowsTyped
<1>1. \A i \in 1 .. Len(iterations) : iterations'[i] = iterations[i]
  BY <1>0, AppendSeq
<1>2. ASSUME NEW r \in stored, NEW i \in 1 .. r.to
      PROVE  (Improved(i)' <=> Improved(i)) /\ (Crowded(i, r.to)' <=> Crowded(i, r.to))
  <2>1. r.to \in Nat /\ r.to <= Len(iterations)
    BY <1>0
  <2>2. \A j \in 1 .. r.to : iterations'[j] = iterations[j]
    BY <1>0, <1>1, <2>1
  <2>3. \A j \in 1 .. r.to : Improved(j)' = Improved(j)
    BY <2>2 DEF Improved
  <2>4. \A j \in i + 1 .. r.to : j \in 1 .. r.to
    BY <2>1
  <2>5. {j \in i + 1 .. r.to : Improved(j)' = Improved(i)'} = {j \in i + 1 .. r.to : Improved(j) = Improved(i)}
    BY <2>3, <2>4
  <2> QED
    BY <2>3, <2>5 DEF Crowded
<1> QED
  BY <1>2 DEF SessionInv, RowsTell

\* A new row tells as much.
LEMMA SnapshotTells ==
  ASSUME NEW trusted, NEW room, NEW i \in 1 .. BuildSnapshot(trusted, room).to
  PROVE  LET r == BuildSnapshot(trusted, room) IN i \in r.tells \/ Crowded(i, r.to) \/ (~ Improved(i) /\ r.cut)
<1> DEFINE to == Len(iterations) - RecentTail
<1>1. /\ BuildSnapshot(trusted, room).to = to /\ BuildSnapshot(trusted, room).tells = Told(to, room)
      /\ BuildSnapshot(trusted, room).cut = (Told(to, room) # Listed(to))
  BY DEF BuildSnapshot
<1>2. ~ Crowded(i, to) => i \in Listed(to)
  BY <1>1 DEF Listed
<1>3. i \in Listed(to) /\ i \notin Told(to, room) => ~ Improved(i) /\ Told(to, room) # Listed(to)
  BY DEF Told
<1> QED
  BY <1>1, <1>2, <1>3

LEMMA InitSession == SessionInit => SessionInv
<1> SUFFICES ASSUME SessionInit PROVE SessionInv
  OBVIOUS
<1>1. /\ iterations = <<>> /\ lessons = <<>> /\ stored = {} /\ snapshots = {} /\ at = "prompt"
  BY DEF SessionInit
<1>2. IsSeq(<<>>) /\ ToSet(<<>>) = {}
  BY EmptyIsSeq DEF ToSet
<1> QED
  BY <1>1, <1>2, FS_EmptySet DEF SessionInv, RowsTyped, TableIsNewest, NewestOf, RowsTell

\* What an iteration more does to the table and lessons.
LEMMA NextSession == SessionInv /\ [SessionNext]_sessionVars => SessionInv'
<1> SUFFICES ASSUME SessionInv, [SessionNext]_sessionVars PROVE SessionInv'
  OBVIOUS
<1>0. /\ IsSeq(iterations) /\ IsSeq(lessons) /\ ToSet(lessons) \subseteq DOMAIN iterations
      /\ Len(iterations) \in Nat /\ DOMAIN iterations = 1 .. Len(iterations)
      /\ RecentTail \in Nat /\ TriggerIteration \in Nat /\ TriggerIteration > RecentTail
      /\ at \in {"prompt", "outcome", "lesson", "down"}
      /\ IsFiniteSet(stored) /\ \A r \in stored : r.to \in Nat /\ r.to <= Len(iterations) - RecentTail
  BY SeqDomain, SessionAssumption DEF SessionInv, RowsTyped
<1>1. ASSUME stored' = stored, snapshots' = snapshots PROVE TableIsNewest'
  BY <1>1 DEF SessionInv, TableIsNewest
<1>2. ASSUME NEW how, iterations' = Append(iterations, how), lessons' = lessons, stored' = stored,
             at' \in {"outcome", "lesson"}
      PROVE  RowsTyped' /\ RowsTell'
  <2>1. /\ IsSeq(iterations') /\ Len(iterations') = Len(iterations) + 1
        /\ DOMAIN iterations' = 1 .. Len(iterations) + 1
    BY <1>0, <1>2, AppendSeq
  <2>2. DOMAIN iterations \subseteq DOMAIN iterations' /\ iterations' # <<>>
    BY <1>0, <2>1
  <2>3. \A r \in stored' : r.to \in Nat /\ r.to < Len(iterations') - RecentTail
    BY <1>0, <1>2, <2>1
  <2>4. RowsTell'
    BY <1>2, RowsKept
  <2> QED
    BY <1>0, <1>2, <2>1, <2>2, <2>3, <2>4 DEF RowsTyped
<1>3. CASE Iterate
  <2>1. /\ stored' = stored /\ snapshots' = snapshots /\ lessons' = lessons /\ at' = "outcome"
        /\ \E row : iterations' = Append(iterations, row)
    BY <1>3 DEF Iterate, WriteExperiment
  <2> QED
    BY <1>1, <1>2, <2>1 DEF SessionInv
<1>4. CASE ValidationFails
  <2>1. /\ stored' = stored /\ snapshots' = snapshots /\ lessons' = lessons /\ at' = "lesson"
        /\ \E row : iterations' = Append(iterations, row)
    BY <1>4 DEF ValidationFails, WriteExperiment
  <2> QED
    BY <1>1, <1>2, <2>1 DEF SessionInv
<1>5. CASE WriteLesson
  <2>1. /\ stored' = stored /\ snapshots' = snapshots /\ iterations' = iterations /\ at = "outcome" /\ at' = "lesson"
        /\ lessons' = Append(lessons, Len(iterations))
    BY <1>5 DEF WriteLesson
  <2>2. IsSeq(lessons') /\ ToSet(lessons') \subseteq ToSet(lessons) \cup {Len(iterations)}
    BY <1>0, <2>1, AppendSeq DEF ToSet
  <2>3. iterations # <<>> /\ \A r \in stored : r.to < Len(iterations) - RecentTail
    BY <2>1 DEF SessionInv, RowsTyped
  <2>4. Len(iterations) \in DOMAIN iterations
    BY <1>0, <2>3, EmptyDomain
  <2>5. ToSet(lessons') \subseteq DOMAIN iterations'
    BY <1>0, <2>1, <2>2, <2>4
  <2>6. RowsTyped'
    BY <1>0, <2>1, <2>2, <2>3, <2>5 DEF RowsTyped
  <2>7. RowsTell'
    BY <2>1, RowsKept
  <2> QED
    BY <1>1, <2>1, <2>6, <2>7 DEF SessionInv
<1>6. CASE ExtractSessionMemory
  <2>1. /\ at = "lesson" /\ at' = "prompt" /\ iterations' = iterations /\ lessons' = lessons
    BY <1>6 DEF ExtractSessionMemory
  <2>2. \A r \in stored : r.to < Len(iterations) - RecentTail
    BY <2>1 DEF SessionInv, RowsTyped
  <2>3. CASE UNCHANGED <<snapshots, stored>>
    <3>1. stored' = stored /\ snapshots' = snapshots
      BY <2>3
    <3>2. RowsTyped'
      BY <1>0, <2>1, <3>1 DEF RowsTyped
    <3>3. RowsTell'
      BY <2>1, <3>1, RowsKept
    <3> QED
      BY <1>1, <3>1, <3>2, <3>3 DEF SessionInv
  <2>4. ASSUME NEW trusted \in BOOLEAN, NEW room \in 0 .. ListLimit, ~ (Len(iterations) < TriggerIteration),
               snapshots' = PruneSnapshots(snapshots \cup {BuildSnapshot(trusted, room)}, plan),
               stored' = stored \cup {BuildSnapshot(trusted, room)}
        PROVE  SessionInv'
    <3> DEFINE e == BuildSnapshot(trusted, room)
    <3>1. e.plan = plan /\ e.to = Len(iterations) - RecentTail /\ e.to \in Nat
      BY <1>0, <2>4 DEF BuildSnapshot
    <3> HIDE DEF e
    <3>2. RowsTyped'
      <4>1. IsFiniteSet(stored \cup {e})
        BY <1>0, FS_AddElement
      <4>2. stored' = stored \cup {e}
        BY <2>4 DEF e
      <4>3. \A r \in stored' : r.to \in Nat /\ r.to <= Len(iterations) - RecentTail
        BY <1>0, <3>1, <4>2
      <4> QED
        BY <1>0, <2>1, <4>1, <4>2, <4>3 DEF RowsTyped
    <3>3. PruneSnapshots(NewestOf(stored) \cup {e}, e.plan) = NewestOf(stored \cup {e})
      <4>1. \A r \in stored : r.to \in Nat /\ r.to < e.to
        BY <1>0, <2>2, <3>1
      <4> QED
        BY <1>0, <3>1, <4>1, NewestStored
    <3>4. TableIsNewest'
      <4>1. snapshots' = PruneSnapshots(snapshots \cup {e}, e.plan) /\ stored' = stored \cup {e}
        BY <2>4, <3>1 DEF e
      <4>2. snapshots = NewestOf(stored)
        BY DEF SessionInv, TableIsNewest
      <4> QED
        BY <3>3, <4>1, <4>2 DEF TableIsNewest
    <3>5. RowsTell'
      <4>1. \A r \in stored : \A i \in 1 .. r.to : i \in r.tells \/ Crowded(i, r.to) \/ (~ Improved(i) /\ r.cut)
        BY DEF SessionInv, RowsTell
      <4>2. \A i \in 1 .. e.to : i \in e.tells \/ Crowded(i, e.to) \/ (~ Improved(i) /\ e.cut)
        BY SnapshotTells DEF e
      <4>3. \A r \in stored \cup {e} : \A i \in 1 .. r.to : i \in r.tells \/ Crowded(i, r.to) \/ (~ Improved(i) /\ r.cut)
        BY <4>1, <4>2
      <4>4. stored' = stored \cup {e}
        BY <2>4 DEF e
      <4> QED
        BY <2>1, <4>3, <4>4 DEF RowsTell, Crowded, Improved
    <3> QED
      BY <3>2, <3>4, <3>5 DEF SessionInv
  <2> QED
    BY <1>6, <2>3, <2>4 DEF ExtractSessionMemory
<1>7. CASE WatchDies \/ ResumeWatch \/ UNCHANGED sessionVars
  <2>1. /\ stored' = stored /\ snapshots' = snapshots /\ iterations' = iterations /\ lessons' = lessons
        /\ at' \in {"down", "prompt"} \/ at' = at
    BY <1>7 DEF WatchDies, ResumeWatch, sessionVars
  <2>2. \A r \in stored : r.to \in Nat /\ r.to <= Len(iterations) - RecentTail
                          /\ (at' \in {"outcome", "lesson"} => r.to < Len(iterations) - RecentTail)
    BY <2>1 DEF SessionInv, RowsTyped
  <2>3. at' \in {"outcome", "lesson"} => iterations # <<>>
    BY <2>1 DEF SessionInv, RowsTyped
  <2>4. RowsTyped'
    BY <1>0, <2>1, <2>2, <2>3 DEF RowsTyped
  <2>5. RowsTell'
    BY <2>1, RowsKept
  <2> QED
    BY <1>1, <2>1, <2>4, <2>5 DEF SessionInv
<1> QED
  BY <1>3, <1>4, <1>5, <1>6, <1>7 DEF SessionNext

\* The latest trusted row of a plan is one, and no other is newer.
LEMMA LatestIsLast ==
  ASSUME NEW table, NEW name, NEW n \in Nat, \A r \in table : r.to \in 0 .. n,
         NEW r \in SnapshotsOf(table, name), r.trusted
  PROVE  /\ LatestSnapshot(table, name) \in table
         /\ LatestSnapshot(table, name).to \in Nat /\ r.to <= LatestSnapshot(table, name).to
<1> DEFINE told == {s \in SnapshotsOf(table, name) : s.trusted}
           ends == {s.to : s \in told}
<1>1. r \in told /\ \A s \in told : s.to \in 0 .. n
  BY DEF SnapshotsOf
<1>2. ends \subseteq 0 .. n /\ ends # {}
  BY <1>1
<1>3. PICK last \in ends : \A k \in ends : k <= last
  <2> HIDE DEF ends
  <2> QED
    BY <1>2, GreatestNumber
<1>4. \E s \in told : \A q \in told : q.to <= s.to
  BY <1>3
<1>5. LatestSnapshot(table, name) = CHOOSE s \in told : \A q \in told : q.to <= s.to
  BY <1>1 DEF LatestSnapshot
<1>6. LatestSnapshot(table, name) \in told /\ \A q \in told : q.to <= LatestSnapshot(table, name).to
  <2> HIDE DEF told
  <2> QED
    BY <1>4, <1>5
<1> QED
  BY <1>1, <1>6 DEF SnapshotsOf

LEMMA SessionTells == SessionInv => IterationsTold
<1> DEFINE n == Len(iterations)
           snapshot == LatestSnapshot(snapshots, plan)
           Forgotten(i) == \A r \in SnapshotsOf(stored, plan) :
                             r.trusted /\ r.to >= i => Cardinality(Newer(stored, r)) >= MaxSnapshots
           later(i) == {j \in 1 .. n : (j > i /\ Improved(j)) \/ iterations[j].era > iterations[i].era}
<1> SUFFICES ASSUME SessionInv, NEW i \in 1 .. n
             PROVE  /\ \/ i \in RecentOutputs \cup snapshot.tells
                       \/ i \in HistoryRows /\ (n < TriggerIteration \/ (i > n - RecentTail /\ i \notin excerpted))
                       \/ i <= snapshot.to /\ (Crowded(i, snapshot.to) \/ (~ Improved(i) /\ snapshot.cut))
                       \/ n >= TriggerIteration /\ i <= n - RecentTail /\ Forgotten(i)
                    /\ Improved(i) /\ i \notin LoadLessons => ~ Contains(lessons, i) \/ Cardinality(later(i)) >= MaxLessons
  BY DEF IterationsTold
<1>0. /\ ToSet(lessons) \subseteq DOMAIN iterations /\ n \in Nat
      /\ DOMAIN iterations = 1 .. n /\ IsFiniteSet(DOMAIN iterations)
      /\ RecentTail \in Nat /\ MaxSnapshots \in Nat /\ MaxLessons \in Nat /\ TriggerIteration \in Nat
      /\ HistoryLimit \in Nat /\ HistoryLimit >= TriggerIteration - 1 /\ HistoryLimit >= RecentTail
      /\ IsFiniteSet(stored)
      /\ \A r \in stored : r.to \in 0 .. n
      /\ snapshots \subseteq stored
  <2>1. IsSeq(iterations) /\ ToSet(lessons) \subseteq DOMAIN iterations /\ IsFiniteSet(stored)
        /\ \A r \in stored : r.to \in Nat /\ r.to <= n - RecentTail
    BY DEF SessionInv, RowsTyped
  <2>2. n \in Nat /\ DOMAIN iterations = 1 .. n
    BY <2>1, SeqDomain
  <2>3. IsFiniteSet(DOMAIN iterations)
    BY <2>2, FS_Interval
  <2>4. /\ RecentTail \in Nat /\ MaxSnapshots \in Nat /\ MaxLessons \in Nat /\ TriggerIteration \in Nat
        /\ HistoryLimit \in Nat /\ HistoryLimit >= TriggerIteration - 1 /\ HistoryLimit >= RecentTail
    BY SessionAssumption
  <2>5. \A r \in stored : r.to \in 0 .. n
    BY <2>1, <2>2, <2>4
  <2>6. snapshots \subseteq stored
    BY DEF SessionInv, TableIsNewest, NewestOf
  <2> QED
    BY <2>1, <2>2, <2>3, <2>4, <2>5, <2>6
<1>k. \A r \in stored : r \in snapshots <=> Cardinality(Newer(stored, r)) < MaxSnapshots
  BY DEF SessionInv, TableIsNewest, NewestOf
<1>1. n < TriggerIteration => i \in HistoryRows
  BY <1>0 DEF HistoryRows, LastOnes
<1>2. i > n - RecentTail => i \in HistoryRows /\ (i \in excerpted => i \in RecentOutputs)
  BY <1>0 DEF HistoryRows, RecentOutputs, LastOnes
<1>3. ASSUME NEW r \in SnapshotsOf(stored, plan), r.trusted, r.to >= i,
             ~ (Cardinality(Newer(stored, r)) >= MaxSnapshots)
      PROVE  i <= snapshot.to /\ (i \in snapshot.tells \/ Crowded(i, snapshot.to) \/ (~ Improved(i) /\ snapshot.cut))
  <2>1. r \in stored /\ r.plan = plan /\ Newer(stored, r) \in SUBSET stored
    BY <1>3 DEF SnapshotsOf, Newer
  <2>2. Cardinality(Newer(stored, r)) \in Nat
    BY <1>0, <2>1, FS_Subset, FS_CardinalityType
  <2>3. r \in SnapshotsOf(snapshots, plan)
    BY <1>0, <1>3, <1>k, <2>1, <2>2 DEF SnapshotsOf
  <2>4. \A s \in snapshots : s.to \in 0 .. n
    BY <1>0
  <2>5. snapshot \in snapshots /\ snapshot.to \in Nat /\ r.to <= snapshot.to
    BY <1>0, <1>3, <2>3, <2>4, LatestIsLast
  <2> HIDE DEF snapshot
  <2>6. i \in 1 .. snapshot.to /\ snapshot \in stored
    BY <1>0, <1>3, <2>1, <2>5
  <2> QED
    BY <2>6 DEF SessionInv, RowsTell
<1>4. ASSUME Improved(i), i \notin LoadLessons, Contains(lessons, i)
      PROVE  Cardinality(later(i)) >= MaxLessons
  <2> DEFINE Before(j) == \/ Improved(j) = Improved(i) /\ j > i
                          \/ Improved(j) /\ ~ Improved(i) /\ iterations[j].era >= iterations[i].era
                          \/ ~ Improved(j) /\ Improved(i) /\ iterations[j].era > iterations[i].era
             before == {j \in ToSet(lessons) : Before(j)}
  <2>1. i \in ToSet(lessons)
    BY <1>4 DEF Contains, ToSet
  <2>2. ~ (Cardinality(before) < MaxLessons)
    BY <1>4, <2>1 DEF LoadLessons
  <2>3. before \subseteq later(i) /\ later(i) \subseteq 1 .. n
    BY <1>0, <1>4 DEF Improved
  <2>4. IsFiniteSet(later(i)) /\ IsFiniteSet(before) /\ Cardinality(before) <= Cardinality(later(i))
        /\ Cardinality(before) \in Nat /\ Cardinality(later(i)) \in Nat
    <3>1. IsFiniteSet(1 .. n)
      BY <1>0
    <3>2. IsFiniteSet(later(i)) /\ IsFiniteSet(before) /\ Cardinality(before) <= Cardinality(later(i))
      BY <2>3, <3>1, FS_Subset
    <3> QED
      BY <3>2, FS_CardinalityType
  <2> HIDE DEF later, before
  <2> QED
    BY <1>0, <2>2, <2>4
<1> QED
  BY <1>0, <1>1, <1>2, <1>3, <1>4

\* What was tried in an iteration is told to the next session by the table, the
\* last outputs or the snapshot, but for what their lists, the cut at 4000
\* characters and the prunings leave out (watch.py), for any number of iterations.
THEOREM IterationsAreTold == SessionSpec => []IterationsTold
<1>1. SessionInit => SessionInv
  BY InitSession
<1>2. SessionInv /\ [SessionNext]_sessionVars => SessionInv'
  BY NextSession
<1>3. SessionInv => IterationsTold
  BY SessionTells
<1> QED
  BY <1>1, <1>2, <1>3, PTL DEF SessionSpec

-----------------------------------------------------------------------------
(* What earlier runs did to the choice of a model (Routing).               *)

LEMMA SumPositive ==
  ASSUME NEW f, NEW S, IsFiniteSet(S), S # {}, \A x \in S : f[x] \in Nat \ {0}
  PROVE  SumFunctionOnSet(f, S) \in Nat \ {0}
<1>1. Chosen(S) \in S
  BY ChosenIn
<1>2. IsFiniteSet(S \ {Chosen(S)}) /\ \A x \in S \ {Chosen(S)} : f[x] \in Nat
  BY FS_RemoveElement
<1>3. SumFunctionOnSet(f, S \ {Chosen(S)}) \in Nat
  BY <1>2, SumGrows
<1>4. SumFunctionOnSet(f, S) = f[Chosen(S)] + SumFunctionOnSet(f, S \ {Chosen(S)})
  BY SumUnfolds
<1>5. f[Chosen(S)] \in Nat \ {0}
  BY <1>1
<1> QED
  BY <1>3, <1>4, <1>5

LEMMA BoundedIs ==
  \A x \in Int : Bounded(0, 100, x) \in 0 .. 100 /\ Bounded(-20, 20, x) \in -20 .. 20 /\ Bounded(-10, 10, x) \in -10 .. 10
BY DEF Bounded, Greater, Lesser

LEMMA BoundedNear ==
  \A x, y \in Int :
    /\ x - y \in -20 .. 20 => Bounded(0, 100, x) - Bounded(0, 100, y) \in -20 .. 20
    /\ x - y \in -10 .. 10 => Bounded(0, 100, x) - Bounded(0, 100, y) \in -10 .. 10
BY DEF Bounded, Greater, Lesser

Tiers == {"low", "medium", "high"}

LEMMA TiersNear ==
  \A x, y \in 0 .. 100 : x - y \in -30 .. 30 => TierRank[TierOf(x)] - TierRank[TierOf(y)] \in -1 .. 1
BY DEF TierRank, TierOf

LEMMA TierTyped == \A x : TierOf(x) \in Tiers
BY DEF TierOf, Tiers

LEMMA ScoreTyped ==
  ASSUME NEW f, f.prompt \in {"tiny", "plain", "short", "long", "huge"}, NEW strategy
  PROVE  ScoreUnder(f, strategy) \in Int
<1>1. TagScore(f.tags) \in Int
  BY DEF TagScore, Lesser, Points
<1>2. PromptScore[f.prompt] \in Int
  BY DEF PromptScore
<1>3. StructureScore(f) \in Int
  BY DEF StructureScore, Points
<1>4. \A tier \in Tiers : CostWeights(strategy, tier) \in Int
  BY DEF CostWeights, Tiers
<1>5. \A x : CostWeights(strategy, TierOf(x)) \in Int
  BY <1>4, TierTyped
<1> QED
  BY <1>1, <1>2, <1>3, <1>5 DEF ScoreUnder

LEMMA SimilarityTyped ==
  ASSUME NEW f, NEW g, IsFiniteSet(f.tags), IsFiniteSet(g.tags), f.deps \in Nat, g.deps \in Nat
  PROVE  Similarity(f, g) \in Int
<1> DEFINE both == f.tags \cap g.tags
           all == f.tags \cup g.tags
           Overlap == IF f.tags = {} \/ g.tags = {} THEN 0 ELSE (8 * Cardinality(both)) \div Cardinality(all)
           Apart == LET apart == Greater(f.deps - g.deps, g.deps - f.deps) IN IF apart <= 1 THEN 2 ELSE Points(apart <= 3, 1)
<1>1. IsFiniteSet(both) /\ IsFiniteSet(all)
  BY FS_Union, FS_Intersection
<1>2. Overlap \in Int
  <2>1. CASE f.tags = {} \/ g.tags = {}
    BY <2>1
  <2>2. CASE f.tags # {} /\ g.tags # {}
    <3>1. all # {}
      BY <2>2
    <3> HIDE DEF both, all
    <3>2. Cardinality(both) \in Nat /\ Cardinality(all) \in Nat \ {0}
      BY <1>1, <3>1, FS_CardinalityType, FS_EmptySet
    <3>3. (8 * Cardinality(both)) \div Cardinality(all) \in Int
      BY <3>2
    <3> QED
      BY <2>2, <3>3
  <2> QED
    BY <2>1, <2>2
<1>3. Apart \in Int
  BY DEF Points
<1>4. Points(f.engine = g.engine, 12) \in Int /\ Points(f.judge = g.judge, 4) \in Int /\ Points(f.recursive = g.recursive, 4) \in Int
  BY DEF Points
<1>5. Similarity(f, g) = Points(f.engine = g.engine, 12) + Overlap + Points(f.judge = g.judge, 4) + Points(f.recursive = g.recursive, 4) + Apart
  BY DEF Similarity
<1> HIDE DEF Overlap, Apart
<1> QED
  BY <1>2, <1>3, <1>4, <1>5

\* A run's manifests are there, and the plan is one of the plans.
RoutingTyped == routedPlan \in RoutedPlans /\ IsSeq(manifests)

LEMMA RunsCounted ==
  ASSUME RoutingTyped, NEW t
  PROVE  /\ IsFiniteSet(DOMAIN Loaded) /\ TotalRuns(t) \in Nat /\ IsFiniteSet(KnownModels(t))
         /\ \A m : /\ Cardinality(Outcomes(t, m)) \in Nat /\ Successes(t, Outcomes(t, m)) \in Nat
                   /\ Failures(t, Outcomes(t, m)) \in Nat
<1>1. IsFiniteSet(DOMAIN Loaded)
  <2>1. DOMAIN Loaded = {} \/ DOMAIN Loaded = 1 .. Len(manifests)
    BY SeqDomain DEF Loaded, RoutingTyped
  <2>2. IsFiniteSet(1 .. Len(manifests))
    BY SeqDomain, FS_Interval DEF RoutingTyped
  <2> QED
    BY <2>1, <2>2, FS_EmptySet
<1>2. \A S : S \subseteq DOMAIN Loaded => Cardinality(S) \in Nat
  BY <1>1, FS_Subset, FS_CardinalityType
<1>3. TotalRuns(t) \in Nat
  BY <1>2 DEF TotalRuns
<1>4. IsFiniteSet(KnownModels(t))
  <2> DEFINE all == {Loaded[i][t].model : i \in DOMAIN Loaded}
  <2>1. IsFiniteSet(all)
    <3> DEFINE model == [i \in DOMAIN Loaded |-> Loaded[i][t].model]
    <3>1. all = {model[i] : i \in DOMAIN Loaded}
      OBVIOUS
    <3>2. model \in Surjection(DOMAIN Loaded, all)
      BY <3>1 DEF Surjection
    <3> HIDE DEF model, all
    <3> QED
      BY <1>1, <3>1, <3>2, FS_Surjection
  <2> HIDE DEF all
  <2>2. IsFiniteSet(all \ {Unrouted})
    BY <2>1, FS_Difference
  <2> QED
    BY <2>2 DEF KnownModels, all
<1>5. ASSUME NEW m
      PROVE  /\ Cardinality(Outcomes(t, m)) \in Nat /\ Successes(t, Outcomes(t, m)) \in Nat
             /\ Failures(t, Outcomes(t, m)) \in Nat
  <2>1. Outcomes(t, m) \subseteq DOMAIN Loaded
    BY DEF Outcomes
  <2> QED
    BY <1>2, <2>1 DEF Successes, Failures
<1> QED
  BY <1>1, <1>3, <1>4, <1>5

LEMMA PointsTyped ==
  ASSUME RoutingTyped, NEW t PROVE HistoryPoints(t) \in Int
<1> DEFINE turns == [m \in KnownModels(t) |-> Turn(t, m)]
<1>1. \A m \in KnownModels(t) : turns[m] \in Int
  BY DEF Turn, Points
<1> HIDE DEF turns
<1>2. SumFunctionOnSet(turns, KnownModels(t)) \in Int
  BY <1>1, RunsCounted, SumInt
<1> QED
  BY <1>2 DEF HistoryPoints, Points, turns

\* What a task's own history adds.
LEMMA OwnSignalIs ==
  ASSUME RoutingTyped, NEW t PROVE HistoryAdjustment(t) \in -20 .. 20
<1> DEFINE confidence == Lesser(TotalRuns(t), FullConfidence)
           scaled == (HistoryPoints(t) * confidence) \div FullConfidence
<1>1. FullConfidence \in Nat \ {0}
  BY RoutingAssumption
<1>2. confidence \in Int
  BY <1>1, RunsCounted DEF Lesser
<1>3. HistoryPoints(t) * confidence \in Int
  <2> HIDE DEF confidence
  <2> QED
    BY <1>2, PointsTyped
<1>4. scaled \in Int
  <2> HIDE DEF confidence
  <2> QED
    BY <1>1, <1>3
<1>5. HistoryAdjustment(t) = Bounded(-20, 20, scaled)
  BY DEF HistoryAdjustment
<1> HIDE DEF scaled
<1> QED
  BY <1>4, <1>5, BoundedIs

\* What the tasks of the plan are.
LEMMA PlanOf ==
  ASSUME RoutingTyped
  PROVE  /\ IsFiniteSet(Tasks) /\ routedPlan.usable \subseteq Tiers
         /\ \A t \in Tasks : /\ Feature(t).prompt \in {"tiny", "plain", "short", "long", "huge"}
                             /\ IsFiniteSet(Feature(t).tags) /\ Feature(t).deps \in Nat
BY RoutingAssumption DEF RoutingTyped, Tasks, Feature, Tiers

\* What the histories of similar tasks add.
LEMMA CrossSignalIs ==
  ASSUME RoutingTyped, NEW t \in Tasks PROVE CrossTaskAdjustment(t) \in -10 .. 10
<1> DEFINE signals == [u \in Like(t) |-> Signal(t, u)]
           weights == [u \in Like(t) |-> Weight(t, u)]
<1>1. IsFiniteSet(Like(t)) /\ Like(t) \subseteq Tasks
  <2>1. Like(t) \subseteq Tasks
    BY DEF Like
  <2> QED
    BY <2>1, PlanOf, FS_Subset
<1>2. \A u \in Like(t) : Weight(t, u) \in Nat \ {0}
  <2> SUFFICES ASSUME NEW u \in Like(t) PROVE Weight(t, u) \in Nat \ {0}
    OBVIOUS
  <2>1. Weight(t, u) \in Int
    BY <1>1, PlanOf, SimilarityTyped DEF Weight
  <2>2. 10 * Weight(t, u) >= 90
    BY DEF Like
  <2> QED
    BY <2>1, <2>2
<1>3. \A u \in Like(t) : Signal(t, u) \in Int
  BY <1>2 DEF Signal, Points
<1>4. CASE Like(t) = {}
  BY <1>4 DEF CrossTaskAdjustment
<1>5. CASE Like(t) # {}
  <2>1. (\A u \in Like(t) : signals[u] \in Int) /\ \A u \in Like(t) : weights[u] \in Nat \ {0}
    BY <1>2, <1>3
  <2> HIDE DEF signals, weights
  <2>2. SumFunctionOnSet(signals, Like(t)) \in Int
    BY <1>1, <2>1, SumInt
  <2>3. SumFunctionOnSet(weights, Like(t)) \in Nat \ {0}
    BY <1>1, <1>5, <2>1, SumPositive
  <2> DEFINE mean == SumFunctionOnSet(signals, Like(t)) \div SumFunctionOnSet(weights, Like(t))
  <2>4. mean \in Int
    BY <2>2, <2>3
  <2>5. CrossTaskAdjustment(t) = Bounded(-10, 10, mean)
    BY <1>5 DEF CrossTaskAdjustment, signals, weights
  <2> HIDE DEF mean
  <2> QED
    BY <2>4, <2>5, BoundedIs
<1> QED
  BY <1>4, <1>5

\* Both signals together move a score by 30 of 100 at most.
LEMMA ScoreMoves ==
  ASSUME RoutingTyped, NEW t \in Tasks
  PROVE  HistoryScore(t) \in 0 .. 100 /\ BaseScore(t) \in 0 .. 100 /\ HistoryScore(t) - BaseScore(t) \in -30 .. 30
<1> DEFINE score == ScoreUnder(Feature(t), routedPlan.strategy)
           own == IF TotalRuns(t) = 0 THEN Bounded(0, 100, score) ELSE Bounded(0, 100, score + HistoryAdjustment(t))
           a == HistoryAdjustment(t)
           c == CrossTaskAdjustment(t)
<1>1. score \in Int
  BY PlanOf, ScoreTyped
<1>2. a \in -20 .. 20 /\ c \in -10 .. 10
  BY OwnSignalIs, CrossSignalIs
<1>3. BaseScore(t) = Bounded(0, 100, score) /\ HistoryScore(t) = Bounded(0, 100, own + c)
  BY DEF BaseScore, HistoryScore
<1>4. own = Bounded(0, 100, score) \/ own = Bounded(0, 100, score + a)
  OBVIOUS
<1> HIDE DEF score, own, a, c
<1>5. Bounded(0, 100, score) \in 0 .. 100
  BY <1>1, BoundedIs
<1>6. own \in 0 .. 100 /\ own - Bounded(0, 100, score) \in -20 .. 20
  <2>1. score + a \in Int /\ (score + a) - score \in -20 .. 20
    BY <1>1, <1>2
  <2>2. Bounded(0, 100, score + a) \in 0 .. 100 /\ Bounded(0, 100, score + a) - Bounded(0, 100, score) \in -20 .. 20
    BY <1>1, <2>1, BoundedIs, BoundedNear
  <2> QED
    BY <1>4, <1>5, <2>2
<1>7. Bounded(0, 100, own + c) \in 0 .. 100 /\ Bounded(0, 100, own + c) - own \in -10 .. 10
  <2>1. own + c \in Int /\ (own + c) - own \in -10 .. 10 /\ own \in Int
    BY <1>2, <1>6
  <2>2. Bounded(0, 100, own + c) \in 0 .. 100 /\ Bounded(0, 100, own + c) - Bounded(0, 100, own) \in -10 .. 10
    BY <2>1, BoundedIs, BoundedNear
  <2>3. Bounded(0, 100, own) = own
    BY <1>6 DEF Bounded, Greater, Lesser
  <2> QED
    BY <2>2, <2>3
<1>8. Bounded(0, 100, own + c) - Bounded(0, 100, score) \in -30 .. 30
  <2>1. \A x, y, z \in Int : x - y \in -10 .. 10 /\ y - z \in -20 .. 20 => x - z \in -30 .. 30
    OBVIOUS
  <2>2. Bounded(0, 100, own + c) \in Int /\ own \in Int /\ Bounded(0, 100, score) \in Int
    BY <1>5, <1>6, <1>7
  <2> QED
    BY <1>6, <1>7, <2>1, <2>2
<1> QED
  BY <1>3, <1>5, <1>7, <1>8

LEMMA LocalIsUsable ==
  ASSUME NEW tier \in Tiers, NEW usable \in SUBSET Tiers, usable # {}
  PROVE  LocalTier(tier, usable) \in usable
<1> DEFINE below == {u \in usable : TierRank[u] <= TierRank[tier]}
           candidates == IF below # {} THEN below ELSE usable
<1>1. candidates \subseteq usable /\ candidates # {}
  OBVIOUS
<1>2. LocalTier(tier, usable) = IF usable = {} \/ tier \in usable THEN tier
                                ELSE CHOOSE u \in candidates : \A w \in candidates : TierRank[w] <= TierRank[u]
  BY DEF LocalTier
<1> HIDE DEF candidates
<1>3. \E u \in candidates : \A w \in candidates : TierRank[w] <= TierRank[u]
  <2>1. TierRank["low"] = 1 /\ TierRank["medium"] = 2 /\ TierRank["high"] = 3
    BY DEF TierRank
  <2>2. \A w \in candidates : w = "low" \/ w = "medium" \/ w = "high"
    BY <1>1 DEF Tiers
  <2>3. CASE "high" \in candidates
    BY <2>1, <2>2, <2>3
  <2>4. CASE "high" \notin candidates /\ "medium" \in candidates
    BY <2>1, <2>2, <2>4
  <2>5. CASE candidates = {"low"}
    BY <2>1, <2>5
  <2> QED
    BY <1>1, <2>2, <2>3, <2>4, <2>5
<1> QED
  BY <1>1, <1>2, <1>3

LEMMA ChoiceIsNear ==
  ASSUME RoutingTyped, NEW t \in Tasks
  PROVE  /\ TierRank[Choice(t).tier] - TierRank[Choice(t).asked] \in -1 .. 1
         /\ Local(Feature(t).engine) /\ routedPlan.usable # {} => Choice(t).chosen \in routedPlan.usable
<1>1. Choice(t).tier = TierOf(HistoryScore(t)) /\ Choice(t).asked = TierOf(BaseScore(t))
  BY DEF Choice
<1>2. TierRank[Choice(t).tier] - TierRank[Choice(t).asked] \in -1 .. 1
  BY <1>1, ScoreMoves, TiersNear
<1>3. Local(Feature(t).engine) => Choice(t).chosen = LocalTier(TierOf(HistoryScore(t)), routedPlan.usable)
  BY DEF Choice
<1> QED
  BY <1>2, <1>3, PlanOf, TierTyped, LocalIsUsable

LEMMA LatestIsSeq ==
  ASSUME NEW loaded, IsSeq(loaded) PROVE IsSeq(Latest(loaded))
<1>1. PICK S : loaded \in Seq(S)
  BY DEF IsSeq
<1>2. Len(loaded) \in Nat /\ MaxManifests \in Nat \ {0} /\ \A i \in 1 .. Len(loaded) : loaded[i] \in S
  BY <1>1, RoutingAssumption, ElementOfSeq
<1> DEFINE m == Greater(1, Len(loaded) - MaxManifests + 1)
<1>3. m \in Int /\ m >= 1
  BY <1>2 DEF Greater
<1> HIDE DEF m
<1>4. \A i \in m .. Len(loaded) : loaded[i] \in S
  <2>1. \A i \in m .. Len(loaded) : i \in 1 .. Len(loaded)
    BY <1>2, <1>3
  <2> QED
    BY <1>2, <2>1
<1>5. SubSeq(loaded, m, Len(loaded)) \in Seq(S)
  BY <1>2, <1>3, <1>4, SubSeqProperties
<1> QED
  BY <1>5 DEF Latest, m, IsSeq

RoutingInv == RoutingTyped /\ HistoryMovesOneTier

\* Whatever the plans, the models, the limits and the runs that were: a task is
\* moved one tier at most, and a local engine is given a model it has
\* (HistoryMovesOneTier).
THEOREM HistoryMovesLittle == RoutingSpec => []HistoryMovesOneTier
<1>1. RoutingInit => RoutingInv
  BY EmptyIsSeq DEF RoutingInit, RoutingInv, RoutingTyped, HistoryMovesOneTier
<1>2. RoutingInv /\ [RoutingNext]_routingVars => RoutingInv'
  <2> SUFFICES ASSUME RoutingInv, [RoutingNext]_routingVars PROVE RoutingInv'
    OBVIOUS
  <2>0. RoutingTyped
    BY DEF RoutingInv
  <2>1. CASE RouteTasks
    <3>1. routedTo' = [t \in Tasks |-> Choice(t)] /\ routedPlan' = routedPlan /\ manifests' = manifests
      BY <2>1 DEF RouteTasks
    <3>2. PICK choice : choice = [t \in Tasks |-> Choice(t)]
      OBVIOUS
    <3>3. \A t \in DOMAIN choice :
            /\ TierRank[choice[t].tier] - TierRank[choice[t].asked] \in -1 .. 1
            /\ Local(Feature(t).engine) /\ routedPlan.usable # {} => choice[t].chosen \in routedPlan.usable
      <4> SUFFICES ASSUME NEW t \in Tasks
                   PROVE  /\ TierRank[choice[t].tier] - TierRank[choice[t].asked] \in -1 .. 1
                          /\ Local(Feature(t).engine) /\ routedPlan.usable # {} => choice[t].chosen \in routedPlan.usable
        BY <3>2
      <4>1. choice[t] = Choice(t)
        BY <3>2
      <4> QED
        BY <2>0, <4>1, ChoiceIsNear
    <3>4. HistoryMovesOneTier'
      BY <3>1, <3>2, <3>3 DEF HistoryMovesOneTier, Feature
    <3> QED
      BY <2>0, <3>1, <3>4 DEF RoutingInv, RoutingTyped
  <2>2. CASE EndRoutedRun
    <3>1. routedTo' = <<>> /\ routedPlan' = routedPlan /\ \E ends : manifests' = Latest(Append(manifests, ends))
      BY <2>2 DEF EndRoutedRun
    <3>2. PICK ends : manifests' = Latest(Append(manifests, ends))
      BY <3>1
    <3>3. IsSeq(Append(manifests, ends))
      BY <2>0, AppendSeq DEF RoutingTyped
    <3>4. IsSeq(manifests')
      BY <3>2, <3>3, LatestIsSeq
    <3>5. HistoryMovesOneTier'
      BY <3>1, EmptyIsSeq DEF HistoryMovesOneTier
    <3> QED
      BY <2>0, <3>1, <3>4, <3>5 DEF RoutingInv, RoutingTyped
  <2>3. CASE UNCHANGED routingVars
    BY <2>3 DEF routingVars, RoutingInv, RoutingTyped, HistoryMovesOneTier, Feature
  <2> QED
    BY <2>1, <2>2, <2>3 DEF RoutingNext
<1>3. RoutingInv => HistoryMovesOneTier
  BY DEF RoutingInv
<1> QED
  BY <1>1, <1>2, <1>3, PTL DEF RoutingSpec

-----------------------------------------------------------------------------
(* What a run learned of a poisoned insight (Memory).                      *)

LEMMA NoteIsSeq == ASSUME NEW cond, NEW t, NEW kind, NEW text PROVE IsSeq(Note(cond, t, kind, text))
<1>1. IsSeq(<<[task |-> t, kind |-> kind, text |-> text]>>)
  <2>1. <<[task |-> t, kind |-> kind, text |-> text]>> \in Seq({[task |-> t, kind |-> kind, text |-> text]})
    OBVIOUS
  <2> QED
    BY <2>1 DEF IsSeq
<1> QED
  BY <1>1, EmptyIsSeq DEF Note

LEMMA LearnedIsSeq ==
  ASSUME NEW t, NEW r, IsSeq(r.history)
  PROVE  IsSeq(Learned(t, r))
<1> DEFINE each == [n \in DOMAIN r.history |->
                      Note(r.history[n] # "unknown", t, "failure_pattern", <<r.history[n]>>)]
           first == IF r.status = "failed" THEN FlattenSeq(each) ELSE <<>>
           n1 == Note(r.code = 124, t, "timeout_hint", <<r.duration>>)
           n2 == Note(r.status = "success" /\ r.retries = "0" /\ r.judge = "clear_pass", t, "success_pattern", <<>>)
           n3 == Note(r.cost # "none" /\ r.status = "success", t, "cost_pattern", <<r.cost>>)
           n4 == Note(r.duration # "short" /\ r.status \in {"success", "failed"}, t, "duration_pattern", <<r.duration, r.status>>)
           n5 == Note(r.retries # "0", t, "retry_pattern", <<r.retries, IF r.status = "success" THEN "succeeded" ELSE "failed">>)
           n6 == Note(r.model # "none", t, "model_pattern", <<r.model, r.status>>)
           n7 == Note(r.status = "failed" /\ r.judge = "fail" /\ r.reason # "short", t, "policy_rule", <<r.reason>>)
           n8 == Note(r.status = "success" /\ r.retries # "0" /\ r.history # <<>> /\ Last(r.history) # "unknown",
                      t, "policy_rule", r.history)
<1>1. IsSeq(first)
  <2>1. \A n \in DOMAIN r.history : IsSeq(each[n])
    BY NoteIsSeq
  <2>2. Len(r.history) \in Nat /\ DOMAIN r.history = 1 .. Len(r.history)
    BY SeqDomain
  <2>3. each = [n \in 1 .. Len(r.history) |-> each[n]] /\ DOMAIN each = DOMAIN r.history
    BY <2>2
  <2> HIDE DEF each
  <2>4. IsSeq(each)
    BY <2>2, <2>3, DomainIsSeq
  <2>5. IsSeq(FlattenSeq(each))
    BY <2>1, <2>3, <2>4, FlattenElements
  <2> QED
    BY <2>5, EmptyIsSeq
<1>2. /\ IsSeq(n1) /\ IsSeq(n2) /\ IsSeq(n3) /\ IsSeq(n4)
      /\ IsSeq(n5) /\ IsSeq(n6) /\ IsSeq(n7) /\ IsSeq(n8)
  BY NoteIsSeq
<1>3. Learned(t, r) = IF r.status \in {"skipped", "dry_run"} THEN <<>>
                      ELSE first \o n1 \o n2 \o n3 \o n4 \o n5 \o n6 \o n7 \o n8
  BY DEF Learned
<1> HIDE DEF first, n1, n2, n3, n4, n5, n6, n7, n8
<1>4. IsSeq(first \o n1 \o n2 \o n3)
  BY <1>1, <1>2, ConcatSeq
<1>5. IsSeq(first \o n1 \o n2 \o n3 \o n4 \o n5 \o n6 \o n7 \o n8)
  BY <1>2, <1>4, ConcatSeq
<1> QED
  BY <1>3, <1>5, EmptyIsSeq

LEMMA ExtractedIsSeq ==
  ASSUME NEW results \in Results
  PROVE  IsSeq(ExtractKnowledge(results))
<1> DEFINE order == SetToSeq(DOMAIN results)
           each == [n \in DOMAIN order |-> Learned(order[n], results[order[n]])]
<1>1. IsFiniteSet(DOMAIN results) /\ \A t \in DOMAIN results : IsSeq(results[t].history)
  BY MemoryAssumption DEF IsSeq
<1>2. order \in Seq(DOMAIN results)
  BY <1>1, OrderIsSeq
<1>3. ExtractKnowledge(results) = FlattenSeq(each)
  BY DEF ExtractKnowledge
<1> HIDE DEF order
<1>4. Len(order) \in Nat /\ DOMAIN order = 1 .. Len(order) /\ \A n \in DOMAIN order : order[n] \in DOMAIN results
  BY <1>2
<1>5. \A n \in DOMAIN order : IsSeq(each[n])
  BY <1>1, <1>4, LearnedIsSeq
<1>6. each = [n \in 1 .. Len(order) |-> each[n]] /\ DOMAIN each = DOMAIN order
  BY <1>4
<1> HIDE DEF each
<1>7. IsSeq(each)
  BY <1>4, <1>6, DomainIsSeq
<1> QED
  BY <1>3, <1>5, <1>6, <1>7, FlattenElements

HasTrust(rs) == IsSeq(rs) /\ \A n \in DOMAIN rs : "trust" \in DOMAIN rs[n]

\* Rows that stay, and stay quarantined if they were.
KeepsQuarantined(old, new) ==
  /\ DOMAIN old \subseteq DOMAIN new
  /\ \A n \in DOMAIN old : old[n].trust = "quarantined" => new[n].trust = "quarantined"

LEMMA KeepsTransitively ==
  ASSUME NEW a, NEW b, NEW c, KeepsQuarantined(a, b), KeepsQuarantined(b, c)
  PROVE  KeepsQuarantined(a, c)
BY DEF KeepsQuarantined

LEMMA RowHasTrust == ASSUME NEW i, NEW now PROVE "trust" \in DOMAIN Row(i, now)
BY DEF Row

\* What a store does to a row that its SELECT did not return, or returned as it is.
LEMMA PutKeeps ==
  ASSUME NEW rs, HasTrust(rs), NEW i, NEW old, NEW now, NEW new, new = PutInsight(rs, i, old, now)
  PROVE  /\ HasTrust(new) /\ DOMAIN rs \subseteq DOMAIN new
         /\ \A n \in DOMAIN rs : rs[n].trust = "quarantined" /\ new[n].trust # "quarantined"
              => old.id = n /\ old.trust # "quarantined"
<1>0. IsSeq(rs) /\ DOMAIN rs = 1 .. Len(rs) /\ Len(rs) \in Nat /\ \A n \in DOMAIN rs : "trust" \in DOMAIN rs[n]
  BY SeqDomain DEF HasTrust
<1>1. CASE old.id = 0
  <2>1. new = Append(rs, Row(i, now))
    BY <1>1 DEF PutInsight
  <2>2. /\ IsSeq(new) /\ DOMAIN new = 1 .. Len(rs) + 1 /\ new[Len(rs) + 1] = Row(i, now)
        /\ \A n \in 1 .. Len(rs) : new[n] = rs[n]
    BY <1>0, <2>1, AppendSeq
  <2>3. \A n \in DOMAIN new : n \in 1 .. Len(rs) \/ n = Len(rs) + 1
    BY <1>0, <2>2
  <2>4. \A n \in DOMAIN rs : n \in DOMAIN new /\ new[n] = rs[n]
    BY <1>0, <2>2
  <2>5. \A n \in DOMAIN new : "trust" \in DOMAIN new[n]
    BY <1>0, <2>2, <2>3, RowHasTrust
  <2> QED
    BY <2>2, <2>4, <2>5 DEF HasTrust
<1>2. CASE old.id # 0 /\ old.id \notin DOMAIN rs
  <2>1. new = rs
    <3>1. new = [rs EXCEPT ![old.id].occ = old.occ + 1, ![old.id].seen = now,
                           ![old.id].trust = MergeTrust(old.trust, ComputedTrust(i))]
      BY <1>2 DEF PutInsight
    <3>2. DOMAIN new = DOMAIN rs /\ \A n \in DOMAIN rs : new[n] = rs[n]
      BY <1>2, <3>1
    <3>3. new = [n \in DOMAIN rs |-> new[n]] /\ rs = [n \in DOMAIN rs |-> rs[n]]
      <4>1. PICK S : rs \in Seq(S)
        BY <1>0 DEF IsSeq
      <4>2. rs \in [1 .. Len(rs) -> S]
        BY <4>1
      <4> QED
        BY <1>0, <3>1, <4>2
    <3> QED
      BY <3>2, <3>3
  <2> QED
    BY <1>0, <2>1 DEF HasTrust
<1>3. CASE old.id \in DOMAIN rs
  <2> DEFINE t == MergeTrust(old.trust, ComputedTrust(i))
             row == [[[rs[old.id] EXCEPT !.occ = old.occ + 1] EXCEPT !.seen = now] EXCEPT !.trust = t]
  <2>1. old.id # 0
    BY <1>0, <1>3
  <2>2. new = [rs EXCEPT ![old.id] = row]
    BY <1>3, <2>1 DEF PutInsight
  <2>3. row.trust = t /\ "trust" \in DOMAIN row
    BY <1>0, <1>3
  <2>4. old.trust = "quarantined" => t = "quarantined"
    BY DEF MergeTrust
  <2> HIDE DEF row, t
  <2>5. IsSeq(new) /\ DOMAIN new = DOMAIN rs /\ \A n \in DOMAIN rs : new[n] = IF n = old.id THEN row ELSE rs[n]
    <3>1. PICK j \in DOMAIN rs : j = old.id
      BY <1>3
    <3>2. new = [rs EXCEPT ![j] = row]
      BY <2>2, <3>1
    <3>3. LET q == [rs EXCEPT ![j] = row] IN
          IsSeq(q) /\ DOMAIN q = DOMAIN rs /\ \A n \in DOMAIN rs : q[n] = IF n = j THEN row ELSE rs[n]
      BY <1>0, ExceptIsSeq
    <3> QED
      BY <3>1, <3>2, <3>3
  <2>6. HasTrust(new)
    BY <1>0, <2>3, <2>5 DEF HasTrust
  <2>7. \A n \in DOMAIN rs : rs[n].trust = "quarantined" /\ new[n].trust # "quarantined"
          => old.id = n /\ old.trust # "quarantined"
    BY <2>3, <2>4, <2>5
  <2> QED
    BY <2>5, <2>6, <2>7
<1> QED
  BY <1>1, <1>2, <1>3

\* The SELECT of an insight returns its row.
LEMMA FindIs ==
  ASSUME NEW rs, HasTrust(rs), NEW i
  PROVE  Find(rs, i).id = 0 \/ (Find(rs, i).id \in DOMAIN rs /\ Find(rs, i).trust = rs[Find(rs, i).id].trust)
<1> DEFINE ids == {n \in DOMAIN rs : rs[n].what = i}
           least == CHOOSE n \in ids : \A m \in ids : n <= m
<1>1. CASE ids = {}
  BY <1>1 DEF Find, None
<1>2. CASE ids # {}
  <2>1. ids \subseteq Nat
    BY SeqDomain DEF HasTrust
  <2>2. \E n \in ids : \A m \in ids : n <= m
    <3> HIDE DEF ids
    <3> QED
      BY <1>2, <2>1, LeastNumber
  <2>3. least \in ids
    <3> HIDE DEF ids
    <3> QED
      BY <2>2
  <2>4. Find(rs, i) = [id |-> least, occ |-> rs[least].occ, trust |-> rs[least].trust]
    BY <1>2 DEF Find
  <2>5. least \in DOMAIN rs
    BY <2>3
  <2> HIDE DEF least
  <2> QED
    BY <2>4, <2>5
<1> QED
  BY <1>1, <1>2

\* An insight that is looked up where it is put back leaves what is quarantined.
LEMMA PutFoundKeeps ==
  ASSUME NEW rs, HasTrust(rs), NEW i, NEW now
  PROVE  HasTrust(PutInsight(rs, i, Find(rs, i), now)) /\ KeepsQuarantined(rs, PutInsight(rs, i, Find(rs, i), now))
<1>1. PICK old : old = Find(rs, i)
  OBVIOUS
<1>2. PICK new : new = PutInsight(rs, i, old, now)
  OBVIOUS
<1>3. /\ HasTrust(new) /\ DOMAIN rs \subseteq DOMAIN new
      /\ \A n \in DOMAIN rs : rs[n].trust = "quarantined" /\ new[n].trust # "quarantined"
           => old.id = n /\ old.trust # "quarantined"
  BY <1>2, PutKeeps
<1>4. \A n \in DOMAIN rs : old.id = n => old.trust = rs[n].trust
  <2>1. DOMAIN rs = 1 .. Len(rs) /\ Len(rs) \in Nat
    BY SeqDomain DEF HasTrust
  <2>2. \A n \in DOMAIN rs : n # 0
    BY <2>1
  <2>3. old.id = 0 \/ (old.id \in DOMAIN rs /\ old.trust = rs[old.id].trust)
    BY <1>1, FindIs
  <2> QED
    BY <2>2, <2>3
<1>5. KeepsQuarantined(rs, new)
  BY <1>3, <1>4 DEF KeepsQuarantined
<1> QED
  BY <1>1, <1>2, <1>3, <1>5

\* The rows after each insight of a batch.
PutsAll(rs, learned, now, g, n) ==
  g = [k \in 0 .. n |-> IF k = 0 THEN rs ELSE PutInsight(g[k - 1], learned[k], Find(g[k - 1], learned[k]), now)]

LEMMA PutAllExists ==
  ASSUME NEW rs, NEW learned, NEW now, NEW n \in Nat
  PROVE  \E g : PutsAll(rs, learned, now, g, n)
<1> DEFINE Fits(g, m) ==
             g = [k \in 0 .. m |-> IF k = 0 THEN rs
                                   ELSE PutInsight(g[k - 1], learned[k], Find(g[k - 1], learned[k]), now)]
           Upto == {m \in Nat : \E g : Fits(g, m)}
<1>1. 0 \in Upto
  <2> DEFINE g == [k \in 0 .. 0 |-> rs]
  <2>1. Fits(g, 0)
    OBVIOUS
  <2> HIDE DEF g, Fits
  <2> QED
    BY <2>1
<1>2. ASSUME NEW m \in Nat, m \in Upto PROVE m + 1 \in Upto
  <2>1. PICK g : Fits(g, m)
    BY <1>2
  <2> DEFINE h == [k \in 0 .. m + 1 |-> IF k = 0 THEN rs
                                        ELSE PutInsight(g[k - 1], learned[k], Find(g[k - 1], learned[k]), now)]
  <2>2. \A k \in 0 .. m : h[k] = g[k]
    <3>1. \A k \in 0 .. m : g[k] = IF k = 0 THEN rs
                                   ELSE PutInsight(g[k - 1], learned[k], Find(g[k - 1], learned[k]), now)
      BY <2>1
    <3>2. \A k \in 0 .. m : k \in 0 .. m + 1
      OBVIOUS
    <3>3. \A k \in 0 .. m + 1 : h[k] = IF k = 0 THEN rs
                                       ELSE PutInsight(g[k - 1], learned[k], Find(g[k - 1], learned[k]), now)
      OBVIOUS
    <3> HIDE DEF h
    <3> QED
      BY <3>1, <3>2, <3>3
  <2>3. \A k \in 0 .. m + 1 : k # 0 => h[k - 1] = g[k - 1]
    <3>1. \A k \in 0 .. m + 1 : k # 0 => k - 1 \in 0 .. m
      OBVIOUS
    <3> HIDE DEF h
    <3> QED
      BY <2>2, <3>1
  <2>4. Fits(h, m + 1)
    BY <2>3
  <2> HIDE DEF h, Fits
  <2> QED
    BY <2>4
<1>3. Nat \subseteq Upto
  <2> HIDE DEF Upto
  <2> QED
    BY <1>1, <1>2, SetInduction
<1> QED
  BY <1>3 DEF PutsAll

LEMMA PutAllKeeps ==
  ASSUME NEW rs, HasTrust(rs), NEW learned, IsSeq(learned), NEW now
  PROVE  HasTrust(PutAll(rs, learned, now)) /\ KeepsQuarantined(rs, PutAll(rs, learned, now))
<1> DEFINE N == Len(learned)
           all == CHOOSE g : PutsAll(rs, learned, now, g, N)
           Upto == {m \in Nat : m <= N => HasTrust(all[m]) /\ KeepsQuarantined(rs, all[m])}
<1>0. N \in Nat
  BY SeqDomain
<1>1. PutsAll(rs, learned, now, all, N)
  <2>1. \E g : PutsAll(rs, learned, now, g, N)
    BY <1>0, PutAllExists
  <2> QED
    BY <2>1
<1>2. PutAll(rs, learned, now) = all[N]
  BY DEF PutAll, PutsAll
<1> HIDE DEF all
<1>3. 0 \in Upto
  <2>1. all[0] = rs
    BY <1>0, <1>1 DEF PutsAll
  <2>2. KeepsQuarantined(rs, rs)
    BY DEF KeepsQuarantined
  <2> QED
    BY <2>1, <2>2
<1>4. ASSUME NEW m \in Nat, m \in Upto PROVE m + 1 \in Upto
  <2> SUFFICES ASSUME m + 1 <= N PROVE HasTrust(all[m + 1]) /\ KeepsQuarantined(rs, all[m + 1])
    OBVIOUS
  <2>1. m + 1 \in 0 .. N /\ m + 1 # 0 /\ (m + 1) - 1 = m /\ m <= N
    BY <1>0
  <2>2. all[m + 1] = PutInsight(all[m], learned[m + 1], Find(all[m], learned[m + 1]), now)
    BY <1>1, <2>1 DEF PutsAll
  <2>3. HasTrust(all[m]) /\ KeepsQuarantined(rs, all[m])
    BY <1>4, <2>1
  <2>4. HasTrust(all[m + 1]) /\ KeepsQuarantined(all[m], all[m + 1])
    BY <2>2, <2>3, PutFoundKeeps
  <2> QED
    BY <2>3, <2>4, KeepsTransitively
<1>5. Nat \subseteq Upto
  <2> HIDE DEF Upto
  <2> QED
    BY <1>3, <1>4, SetInduction
<1> QED
  BY <1>0, <1>2, <1>5

\* What a task is told is of what the run knows.
LEMMA RelevantAreKnown ==
  ASSUME NEW from, NEW t, NEW chosen \in SelectRelevant(from, t)
  PROVE  chosen \subseteq from
<1> DEFINE own == {k \in from : k.what.task = t}
<1>1. own \subseteq from
  OBVIOUS
<1>2. CASE t \in Worded
  <2>1. chosen \in Best(from, MaxTold, LAMBDA k : Relevance(t, k))
    BY <1>2 DEF SelectRelevant
  <2> QED
    BY <2>1 DEF Best
<1>3. CASE t \notin Worded
  <2>1. chosen \in MostUseful(IF own = {} THEN from ELSE own, MaxTold)
    BY <1>3 DEF SelectRelevant
  <2>2. chosen \subseteq (IF own = {} THEN from ELSE own)
    BY <2>1 DEF MostUseful, Best
  <2> HIDE DEF own
  <2> QED
    BY <1>1, <2>2
<1> QED
  BY <1>2, <1>3

\* What the steps keep true: the rows have labels, nothing known or told in full
\* has raised an alert, what the index lists is known or has raised one,
\* and a run that has not loaded anything has raised none.
MemoryInv ==
  /\ HasTrust(rows) /\ HasTrust(jsonl)
  /\ DOMAIN phase = MRuns /\ DOMAIN known = MRuns /\ DOMAIN retold = MRuns
  /\ DOMAIN index = MRuns
  /\ DOMAIN alerted = MRuns /\ DOMAIN batch = MRuns /\ DOMAIN found = MRuns
  /\ \A r \in MRuns :
       /\ \A k \in known[r] : k.what \notin alerted[r]
       /\ retold[r] \cap alerted[r] = {}
       /\ \A i \in index[r] : i \in alerted[r] \/ \E k \in known[r] : k.what = i
       /\ phase[r] \in {"new", "migrating", "migrated"} => alerted[r] = {}
       /\ phase[r] \in {"storing", "fallback"} => IsSeq(batch[r].learned) /\ batch[r].learned # <<>>
       /\ phase[r] = "fallback" => HasTrust(found[r])

\* The labels that are taken back are those a store had read before.
OnlyStale ==
  \A n \in DOMAIN rows : rows[n].trust = "quarantined" /\ rows'[n].trust # "quarantined"
    => \E r \in MRuns : phase[r] = "storing" /\ found[r].id = n
                        /\ found[r].trust # "quarantined" /\ phase'[r] = "done"

LEMMA EarlierHaveTrust ==
  ASSUME NEW rs, rs = [n \in DOMAIN Earlier |-> Row(Earlier[n], n)]
  PROVE  HasTrust(rs)
<1>1. Len(Earlier) \in Nat /\ DOMAIN Earlier = 1 .. Len(Earlier)
  BY MemoryAssumption
<1>2. rs = [n \in 1 .. Len(Earlier) |-> rs[n]] /\ DOMAIN rs = DOMAIN Earlier
  BY <1>1
<1>3. \A n \in DOMAIN rs : "trust" \in DOMAIN rs[n]
  BY RowHasTrust
<1> QED
  BY <1>1, <1>2, <1>3, DomainIsSeq DEF HasTrust

LEMMA NoneHasTrust == HasTrust(<<>>)
BY EmptyIsSeq DEF HasTrust

LEMMA JoinedHaveTrust ==
  ASSUME NEW a, NEW b, HasTrust(a), HasTrust(b)
  PROVE  HasTrust(a \o b) /\ KeepsQuarantined(a, a \o b)
<1> DEFINE c == a \o b
<1>1. /\ IsSeq(a) /\ DOMAIN a = 1 .. Len(a) /\ Len(a) \in Nat
      /\ IsSeq(b) /\ DOMAIN b = 1 .. Len(b) /\ Len(b) \in Nat
  BY SeqDomain DEF HasTrust
<1>2. /\ IsSeq(c) /\ Len(c) = Len(a) + Len(b)
      /\ \A i \in 1 .. Len(a) : c[i] = a[i]
      /\ \A i \in 1 .. Len(b) : c[Len(a) + i] = b[i]
  BY <1>1, ConcatSeq
<1> HIDE DEF c
<1>3. DOMAIN c = 1 .. Len(c)
  BY <1>2, SeqDomain
<1>4. DOMAIN a \subseteq DOMAIN c
  BY <1>1, <1>2, <1>3
<1>5. ASSUME NEW n \in DOMAIN c PROVE "trust" \in DOMAIN c[n]
  <2>1. CASE n \in 1 .. Len(a)
    BY <1>1, <1>2, <2>1 DEF HasTrust
  <2>2. CASE n \notin 1 .. Len(a)
    <3>1. n - Len(a) \in 1 .. Len(b) /\ n = Len(a) + (n - Len(a))
      BY <1>1, <1>2, <1>3, <2>2
    <3>2. c[n] = b[n - Len(a)]
      BY <1>2, <3>1
    <3> QED
      BY <1>1, <3>1, <3>2 DEF HasTrust
  <2> QED
    BY <2>1, <2>2
<1>6. HasTrust(c)
  BY <1>2, <1>5 DEF HasTrust
<1>7. KeepsQuarantined(a, c)
  BY <1>1, <1>2, <1>4 DEF KeepsQuarantined
<1> QED
  BY <1>6, <1>7 DEF c

LEMMA RaisedHaveTrust ==
  ASSUME NEW a, HasTrust(a), NEW bad,
         NEW b, b = [n \in DOMAIN a |-> IF n \in bad THEN [a[n] EXCEPT !.trust = "quarantined"] ELSE a[n]]
  PROVE  HasTrust(b) /\ KeepsQuarantined(a, b)
<1>1. IsSeq(a) /\ DOMAIN a = 1 .. Len(a) /\ Len(a) \in Nat /\ \A n \in DOMAIN a : "trust" \in DOMAIN a[n]
  BY SeqDomain DEF HasTrust
<1>2. \A n \in DOMAIN a : /\ "trust" \in DOMAIN b[n]
                          /\ a[n].trust = "quarantined" => b[n].trust = "quarantined"
  BY <1>1
<1>3. b = [n \in 1 .. Len(a) |-> b[n]] /\ DOMAIN b = DOMAIN a
  BY <1>1
<1>4. IsSeq(b)
  BY <1>1, <1>3, DomainIsSeq
<1> QED
  BY <1>2, <1>3, <1>4 DEF HasTrust, KeepsQuarantined

LEMMA KeptAreNotStale ==
  ASSUME KeepsQuarantined(rows, rows') PROVE OnlyStale
BY DEF KeepsQuarantined, OnlyStale

LEMMA MigrateCheckKeeps ==
  ASSUME MemoryInv, NEW r \in MRuns, MigrateCheck(r)
  PROVE  MemoryInv' /\ OnlyStale
<1>1. /\ phase[r] = "new"
      /\ phase' = [phase EXCEPT ![r] = IF rows = <<>> /\ jsonl # <<>> THEN "migrating" ELSE "migrated"]
      /\ rows' = rows /\ jsonl' = jsonl /\ known' = known /\ retold' = retold /\ index' = index /\ alerted' = alerted
      /\ batch' = batch /\ found' = found
  BY DEF MigrateCheck, Move
<1>2. DOMAIN phase' = MRuns /\ phase'[r] \in {"migrating", "migrated"} /\ \A q \in MRuns \ {r} : phase'[q] = phase[q]
  BY <1>1 DEF MemoryInv
<1>3. OnlyStale
  BY <1>1 DEF OnlyStale
<1> QED
  BY <1>1, <1>2, <1>3 DEF MemoryInv

LEMMA MigrateWriteKeeps ==
  ASSUME MemoryInv, NEW r \in MRuns, MigrateWrite(r)
  PROVE  MemoryInv' /\ OnlyStale
<1>1. /\ phase[r] = "migrating" /\ phase' = [phase EXCEPT ![r] = "migrated"] /\ rows' = rows \o jsonl
      /\ jsonl' = jsonl /\ known' = known /\ retold' = retold /\ index' = index /\ alerted' = alerted
      /\ batch' = batch /\ found' = found
  BY DEF MigrateWrite, Move
<1>2. DOMAIN phase' = MRuns /\ phase'[r] = "migrated" /\ \A q \in MRuns \ {r} : phase'[q] = phase[q]
  BY <1>1 DEF MemoryInv
<1>3. HasTrust(rows') /\ KeepsQuarantined(rows, rows')
  BY <1>1, JoinedHaveTrust DEF MemoryInv
<1>4. OnlyStale
  BY <1>3, KeptAreNotStale
<1> QED
  BY <1>1, <1>2, <1>3, <1>4 DEF MemoryInv

LEMMA LoadKnowledgeKeeps ==
  ASSUME MemoryInv, NEW r \in MRuns, LoadKnowledge(r)
  PROVE  MemoryInv' /\ OnlyStale
<1>1. /\ phase[r] = "migrated" /\ phase' = [phase EXCEPT ![r] = "running"]
      /\ rows' = rows /\ jsonl' = jsonl /\ retold' = retold /\ alerted' = alerted
      /\ batch' = batch /\ found' = found
      /\ \E loaded : known' = [known EXCEPT ![r] = loaded]
      /\ \E listed \in MostUseful(known'[r], MaxIndexed) : index' = [index EXCEPT ![r] = {k.what : k \in listed}]
  BY DEF LoadKnowledge, Move
<1>7. PICK listed \in MostUseful(known'[r], MaxIndexed) : index' = [index EXCEPT ![r] = {k.what : k \in listed}]
  BY <1>1
<1>8. listed \subseteq known'[r]
  BY DEF MostUseful, Best
<1>9. /\ DOMAIN index' = MRuns /\ \A q \in MRuns \ {r} : index'[q] = index[q]
      /\ \A i \in index'[r] : \E k \in known'[r] : k.what = i
  BY <1>7, <1>8 DEF MemoryInv
<1>2. PICK loaded : known' = [known EXCEPT ![r] = loaded]
  BY <1>1
<1>3. DOMAIN phase' = MRuns /\ phase'[r] = "running" /\ \A q \in MRuns \ {r} : phase'[q] = phase[q]
  BY <1>1 DEF MemoryInv
<1>4. DOMAIN known' = MRuns /\ \A q \in MRuns \ {r} : known'[q] = known[q]
  BY <1>2 DEF MemoryInv
<1>5. alerted'[r] = {}
  BY <1>1 DEF MemoryInv
<1>6. OnlyStale
  BY <1>1 DEF OnlyStale
<1> QED
  BY <1>1, <1>3, <1>4, <1>5, <1>6, <1>9 DEF MemoryInv

LEMMA RetrievalKeeps ==
  ASSUME MemoryInv, NEW r \in MRuns, NEW t, NEW chosen, chosen \subseteq known[r],
         jsonl' = jsonl, phase' = phase, index' = index, batch' = batch, found' = found, phase[r] = "running",
         NEW row \in RowsOf(chosen), RecordRetrievals(r, t, row)
  PROVE  MemoryInv' /\ OnlyStale
<1> DEFINE count == [n \in 1 .. MaxRows |-> stats[Cluster[t]][n] + IF n \in Range(row) THEN 1 ELSE 0]
<1>1. PICK bad : bad = Dominant(count, Range(row))
  OBVIOUS
<1>2. PICK alerts : alerts = {rows[n].what : n \in bad}
  OBVIOUS
<1>3. /\ rows' = [n \in DOMAIN rows |-> IF n \in bad THEN [rows[n] EXCEPT !.trust = "quarantined"] ELSE rows[n]]
      /\ alerted' = [alerted EXCEPT ![r] = @ \cup alerts]
      /\ retold' = [retold EXCEPT ![r] = {k.what : k \in DOMAIN row} \ alerts]
      /\ known' = [known EXCEPT ![r] = Unlearn(@, alerts)]
  BY <1>1, <1>2 DEF RecordRetrievals
<1>4. HasTrust(rows') /\ KeepsQuarantined(rows, rows')
  <2>1. HasTrust(rows)
    BY DEF MemoryInv
  <2> QED
    BY <1>3, <2>1, RaisedHaveTrust
<1>5. DOMAIN row = chosen
  BY DEF RowsOf
<1>6. /\ DOMAIN alerted' = MRuns /\ DOMAIN retold' = MRuns /\ DOMAIN known' = MRuns
      /\ alerted'[r] = alerted[r] \cup alerts
      /\ retold'[r] = {k.what : k \in chosen} \ alerts
      /\ known'[r] = {k \in known[r] : k.what \notin alerts}
      /\ \A q \in MRuns \ {r} : alerted'[q] = alerted[q] /\ retold'[q] = retold[q] /\ known'[q] = known[q]
  BY <1>3, <1>5 DEF MemoryInv, Unlearn
<1>7. \A k \in known[r] : k.what \notin alerted[r]
  BY DEF MemoryInv
<1>8. (\A k \in known'[r] : k.what \notin alerted'[r]) /\ retold'[r] \cap alerted'[r] = {}
  BY <1>6, <1>7
<1>9. OnlyStale
  BY <1>4, KeptAreNotStale
<1>10. \A i \in index[r] : i \in alerted'[r] \/ \E k \in known'[r] : k.what = i
  <2>1. \A i \in index[r] : i \in alerted[r] \/ \E k \in known[r] : k.what = i
    BY DEF MemoryInv
  <2> QED
    BY <1>6, <2>1
<1> QED
  BY <1>4, <1>6, <1>8, <1>9, <1>10 DEF MemoryInv

LEMMA TellTaskKeeps ==
  ASSUME MemoryInv, NEW r \in MRuns, NEW t \in MTasks, TellTask(r, t)
  PROVE  MemoryInv' /\ OnlyStale
<1>1. phase[r] = "running" /\ jsonl' = jsonl /\ phase' = phase /\ index' = index /\ batch' = batch /\ found' = found
  BY DEF TellTask
<1>2. PICK chosen \in SelectRelevant(known[r], t) :
        (\E row \in RowsOf(chosen) : RecordRetrievals(r, t, row)) \/ RetrievalFails(r, chosen)
  BY DEF TellTask
<1>3. chosen \subseteq known[r]
  BY RelevantAreKnown
<1>4. CASE \E row \in RowsOf(chosen) : RecordRetrievals(r, t, row)
  BY <1>1, <1>3, <1>4, RetrievalKeeps
<1>5. CASE RetrievalFails(r, chosen)
  <2>1. /\ retold' = [retold EXCEPT ![r] = {k.what : k \in chosen}]
        /\ rows' = rows /\ known' = known /\ alerted' = alerted
    BY <1>5 DEF RetrievalFails
  <2>2. /\ DOMAIN retold' = MRuns /\ retold'[r] = {k.what : k \in chosen}
        /\ \A q \in MRuns \ {r} : retold'[q] = retold[q]
    BY <2>1 DEF MemoryInv
  <2>3. \A k \in known[r] : k.what \notin alerted[r]
    BY DEF MemoryInv
  <2>4. retold'[r] \cap alerted'[r] = {}
    BY <1>3, <2>1, <2>2, <2>3
  <2>5. OnlyStale
    BY <2>1 DEF OnlyStale
  <2> QED
    BY <1>1, <2>1, <2>2, <2>4, <2>5 DEF MemoryInv
<1> QED
  BY <1>2, <1>4, <1>5

LEMMA StoreBeginKeeps ==
  ASSUME MemoryInv, NEW r \in MRuns, NEW results \in Results, StoreBegin(r, results)
  PROVE  MemoryInv' /\ OnlyStale
<1>1. PICK learned : learned = ExtractKnowledge(results)
  OBVIOUS
<1>2. IsSeq(learned)
  BY <1>1, ExtractedIsSeq
<1>3. /\ batch' = [batch EXCEPT ![r] = [learned |-> learned, at |-> time + 1]]
      /\ known' = [known EXCEPT ![r] = {}] /\ index' = [index EXCEPT ![r] = {}]
      /\ rows' = rows /\ jsonl' = jsonl /\ retold' = retold /\ alerted' = alerted /\ phase[r] = "running"
  BY <1>1 DEF StoreBegin
<1>4. phase' = [phase EXCEPT ![r] = IF learned = <<>> THEN "done" ELSE "storing"]
  BY <1>1 DEF StoreBegin, Move
<1>5. DOMAIN found' = MRuns /\ \A q \in MRuns \ {r} : found'[q] = found[q]
  <2>1. found' = found \/ found' = [found EXCEPT ![r] = Find(rows, Head(learned))]
    BY <1>1 DEF StoreBegin
  <2>2. PICK read : read = Find(rows, Head(learned))
    OBVIOUS
  <2> QED
    BY <2>1, <2>2 DEF MemoryInv
<1>6. /\ DOMAIN phase' = MRuns /\ DOMAIN batch' = MRuns /\ DOMAIN known' = MRuns
      /\ DOMAIN index' = MRuns /\ index'[r] = {} /\ (\A q \in MRuns \ {r} : index'[q] = index[q])
      /\ phase'[r] \in {"done", "storing"} /\ (phase'[r] = "storing" => learned # <<>>)
      /\ batch'[r].learned = learned /\ known'[r] = {}
      /\ \A q \in MRuns \ {r} : phase'[q] = phase[q] /\ batch'[q] = batch[q] /\ known'[q] = known[q]
  BY <1>3, <1>4 DEF MemoryInv
<1>7. OnlyStale
  BY <1>3 DEF OnlyStale
<1> QED
  BY <1>2, <1>3, <1>5, <1>6, <1>7 DEF MemoryInv

LEMMA StoreWriteKeeps ==
  ASSUME MemoryInv, NEW r \in MRuns, StoreWrite(r)
  PROVE  MemoryInv' /\ OnlyStale
<1>1. PICK b : b = batch[r]
  OBVIOUS
<1>2. /\ phase[r] = "storing" /\ phase' = [phase EXCEPT ![r] = "done"]
      /\ rows' = PutAll(PutInsight(rows, Head(b.learned), found[r], b.at), Tail(b.learned), b.at)
      /\ batch' = [batch EXCEPT ![r] = <<>>] /\ found' = [found EXCEPT ![r] = None]
      /\ jsonl' = jsonl /\ known' = known /\ retold' = retold /\ index' = index /\ alerted' = alerted
  BY <1>1 DEF StoreWrite, Move, Forget
<1>3. /\ DOMAIN phase' = MRuns /\ DOMAIN batch' = MRuns /\ DOMAIN found' = MRuns /\ phase'[r] = "done"
      /\ \A q \in MRuns \ {r} : phase'[q] = phase[q] /\ batch'[q] = batch[q] /\ found'[q] = found[q]
  BY <1>2 DEF MemoryInv
<1>4. IsSeq(b.learned) /\ b.learned # <<>> /\ HasTrust(rows)
  BY <1>1, <1>2 DEF MemoryInv
<1>5. PICK mid : mid = PutInsight(rows, Head(b.learned), found[r], b.at)
  OBVIOUS
<1>6. /\ HasTrust(mid) /\ DOMAIN rows \subseteq DOMAIN mid
      /\ \A n \in DOMAIN rows : rows[n].trust = "quarantined" /\ mid[n].trust # "quarantined"
           => found[r].id = n /\ found[r].trust # "quarantined"
  BY <1>4, <1>5, PutKeeps
<1>7. HasTrust(rows') /\ KeepsQuarantined(mid, rows')
  <2>1. IsSeq(Tail(b.learned))
    BY <1>4, TailSeq
  <2>2. rows' = PutAll(mid, Tail(b.learned), b.at)
    BY <1>2, <1>5
  <2> QED
    BY <1>6, <2>1, <2>2, PutAllKeeps
<1>8. OnlyStale
  <2> SUFFICES ASSUME NEW n \in DOMAIN rows, rows[n].trust = "quarantined", rows'[n].trust # "quarantined"
               PROVE  phase[r] = "storing" /\ found[r].id = n /\ found[r].trust # "quarantined" /\ phase'[r] = "done"
    BY DEF OnlyStale
  <2>1. mid[n].trust # "quarantined"
    BY <1>6, <1>7 DEF KeepsQuarantined
  <2> QED
    BY <1>2, <1>3, <1>6, <2>1
<1> QED
  BY <1>2, <1>3, <1>7, <1>8 DEF MemoryInv

LEMMA FallbackReadKeeps ==
  ASSUME MemoryInv, NEW r \in MRuns, FallbackRead(r)
  PROVE  MemoryInv' /\ OnlyStale
<1>1. /\ phase[r] = "storing" /\ phase' = [phase EXCEPT ![r] = "fallback"] /\ found' = [found EXCEPT ![r] = jsonl]
      /\ rows' = rows /\ jsonl' = jsonl /\ known' = known /\ retold' = retold /\ index' = index /\ alerted' = alerted
      /\ batch' = batch
  BY DEF FallbackRead, Move
<1>2. /\ DOMAIN phase' = MRuns /\ DOMAIN found' = MRuns /\ phase'[r] = "fallback" /\ found'[r] = jsonl
      /\ \A q \in MRuns \ {r} : phase'[q] = phase[q] /\ found'[q] = found[q]
  BY <1>1 DEF MemoryInv
<1>3. OnlyStale
  BY <1>1 DEF OnlyStale
<1> QED
  BY <1>1, <1>2, <1>3 DEF MemoryInv

LEMMA FallbackWriteKeeps ==
  ASSUME MemoryInv, NEW r \in MRuns, FallbackWrite(r)
  PROVE  MemoryInv' /\ OnlyStale
<1>1. /\ phase[r] = "fallback" /\ phase' = [phase EXCEPT ![r] = "done"]
      /\ jsonl' = PutAll(found[r], batch[r].learned, batch[r].at)
      /\ batch' = [batch EXCEPT ![r] = <<>>] /\ found' = [found EXCEPT ![r] = None]
      /\ rows' = rows /\ known' = known /\ retold' = retold /\ index' = index /\ alerted' = alerted
  BY DEF FallbackWrite, Move, Forget
<1>2. /\ DOMAIN phase' = MRuns /\ DOMAIN batch' = MRuns /\ DOMAIN found' = MRuns /\ phase'[r] = "done"
      /\ \A q \in MRuns \ {r} : phase'[q] = phase[q] /\ batch'[q] = batch[q] /\ found'[q] = found[q]
  BY <1>1 DEF MemoryInv
<1>3. IsSeq(batch[r].learned) /\ HasTrust(found[r])
  BY <1>1 DEF MemoryInv
<1>4. HasTrust(jsonl')
  BY <1>1, <1>3, PutAllKeeps
<1>5. OnlyStale
  BY <1>1 DEF OnlyStale
<1> QED
  BY <1>1, <1>2, <1>4, <1>5 DEF MemoryInv

LEMMA MemoryStepKeeps ==
  ASSUME MemoryInv, [MemoryNext]_memoryVars
  PROVE  MemoryInv' /\ OnlyStale
<1>1. CASE UNCHANGED memoryVars
  BY <1>1 DEF memoryVars, MemoryInv, OnlyStale
<1>2. ASSUME NEW r \in MRuns, MemoryStep(r) PROVE MemoryInv' /\ OnlyStale
  BY <1>2, MigrateCheckKeeps, MigrateWriteKeeps, LoadKnowledgeKeeps, TellTaskKeeps, StoreBeginKeeps,
     StoreWriteKeeps, FallbackReadKeeps, FallbackWriteKeeps DEF MemoryStep
<1>3. CASE MemoryOver
  BY <1>1, <1>3 DEF MemoryOver
<1> QED
  BY <1>1, <1>2, <1>3 DEF MemoryNext

\* For any number of runs, whatever they learn, retrieve and store, and however
\* SQLite and the JSONL file alternate: no {{ task_knowledge }} of a run has an
\* insight that the run itself raised an alert for, its index lists nothing else
\* that is not told in full, and a row is no longer quarantined only if a store had
\* read it before it was (QuarantineKept).
THEOREM QuarantinesAreKept == MemorySpec => QuarantineKept
<1>1. MemoryInit => MemoryInv
  <2> SUFFICES ASSUME MemoryInit PROVE MemoryInv
    OBVIOUS
  <2>1. HasTrust(rows) /\ HasTrust(jsonl)
    BY EarlierHaveTrust, NoneHasTrust DEF MemoryInit
  <2> QED
    BY <2>1 DEF MemoryInit, MemoryInv
<1>2. MemoryInv /\ [MemoryNext]_memoryVars => MemoryInv' /\ OnlyStale
  BY MemoryStepKeeps
<1>3. MemoryInv' => \A r \in MRuns : /\ retold'[r] \cap alerted'[r] = {}
                                    /\ index'[r] \ {k.what : k \in known'[r]} \subseteq alerted'[r]
  BY DEF MemoryInv
<1> DEFINE Kept == /\ \A r \in MRuns : /\ retold'[r] \cap alerted'[r] = {}
                                      /\ index'[r] \ {k.what : k \in known'[r]} \subseteq alerted'[r]
                   /\ OnlyStale
<1>4. MemoryInv /\ MemoryInv' /\ [MemoryNext]_memoryVars => [Kept]_memoryVars
  BY <1>2, <1>3
<1>5. MemorySpec => [][Kept]_memoryVars
  BY <1>1, <1>2, <1>4, PTL DEF MemorySpec
<1> QED
  BY <1>5 DEF QuarantineKept, OnlyStale
=================================================================================
