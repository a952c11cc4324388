------------------------------ MODULE DataLemmas ------------------------------
(***************************************************************************)
(* Lemmas about data that the proofs of several components share.  The     *)
(* induction theorems of the library take an operator; here induction is   *)
(* stated of a set, and rests on the library's theorem that a nonempty     *)
(* subset of a well-founded order has a minimal element.                   *)
(***************************************************************************)
EXTENDS Integers, Sequences, FiniteSets, Functions, SequencesExt, WellFoundedInduction, SequenceTheorems,
        FiniteSetTheorems, TLAPS

-----------------------------------------------------------------------------
(* Natural numbers.                                                        *)

\* A nonempty set of naturals has a least element.
LEMMA LeastNumber ==
  ASSUME NEW S, S \subseteq Nat, S # {}
  PROVE  \E m \in S : \A n \in S : m <= n
<1>1. PICK m \in S : \A n \in S : ~ (<<n, m>> \in OpToRel(<, Nat))
  BY NatLessThanWellFounded, WFMin
<1>2. \A n \in S : <<n, m>> \in OpToRel(<, Nat) <=> n < m
  BY DEF OpToRel
<1>3. \A n \in S : ~ (n < m)
  BY <1>1, <1>2
<1>4. m \in Nat /\ \A n \in S : n \in Nat
  BY <1>1
<1>5. \A n \in S : m <= n
  BY <1>3, <1>4
<1> QED
  BY <1>5

\* A set that has 0 and, with a number, the next one has all naturals.
LEMMA SetInduction ==
  ASSUME NEW S, 0 \in S, \A n \in Nat : n \in S => n + 1 \in S
  PROVE  Nat \subseteq S
<1> SUFFICES ASSUME Nat \ S # {} PROVE FALSE
  OBVIOUS
<1>1. PICK m \in Nat \ S : \A n \in Nat \ S : m <= n
  BY LeastNumber
<1>2. m # 0 /\ m - 1 \in Nat
  BY <1>1
<1>3. m - 1 \in S
  BY <1>1, <1>2
<1> QED
  BY <1>1, <1>2, <1>3

\* A nonempty bounded set of naturals has a greatest element.
LEMMA GreatestNumber ==
  ASSUME NEW n \in Nat, NEW S, S \subseteq 0 .. n, S # {}
  PROVE  \E m \in S : \A k \in S : k <= m
<1> DEFINE Below == {n - k : k \in S}
<1>1. Below \subseteq Nat /\ Below # {}
  <2>1. \A k \in S : n - k \in Nat
    OBVIOUS
  <2>2. PICK k \in S : TRUE
    OBVIOUS
  <2>3. n - k \in Below
    OBVIOUS
  <2> QED
    BY <2>1, <2>3
<1>2. PICK b \in Below : \A c \in Below : b <= c
  BY <1>1, LeastNumber
<1>3. PICK m \in S : b = n - m
  BY <1>2
<1>4. \A k \in S : n - k \in Below
  OBVIOUS
<1>5. \A k \in S : b <= n - k
  BY <1>2, <1>4
<1>6. \A k \in S : k <= m
  BY <1>3, <1>5
<1> QED
  BY <1>6

-----------------------------------------------------------------------------
(* Recursive functions over the naturals.                                  *)

\* A function of which each value is made of the one before, as step says.
Recursive(step, base, it, upto) ==
  it = [k \in upto |-> IF k = 0 THEN base ELSE step[k][it[k - 1]]]

LEMMA RecursiveBelow ==
  ASSUME NEW step, NEW base, NEW n \in Nat
  PROVE  \E it : Recursive(step, base, it, 0 .. n)
<1> DEFINE Upto == {m \in Nat : \E it : Recursive(step, base, it, 0 .. m)}
<1>1. 0 \in Upto
  <2> DEFINE it == [k \in 0 .. 0 |-> base]
  <2>1. Recursive(step, base, it, 0 .. 0)
    BY DEF Recursive
  <2> HIDE DEF it
  <2> QED
    BY <2>1
<1>2. ASSUME NEW m \in Nat, m \in Upto
      PROVE  m + 1 \in Upto
  <2>1. PICK g : Recursive(step, base, g, 0 .. m)
    BY <1>2
  <2> DEFINE h == [k \in 0 .. m + 1 |-> IF k = 0 THEN base ELSE step[k][g[k - 1]]]
  <2>2. \A k \in 0 .. m : h[k] = g[k]
    BY <2>1 DEF Recursive
  <2>3. \A k \in 0 .. m + 1 : k # 0 => h[k - 1] = g[k - 1]
    <3> HIDE DEF h
    <3>1. \A k \in 0 .. m + 1 : k # 0 => k - 1 \in 0 .. m
      OBVIOUS
    <3> QED
      BY <2>2, <3>1
  <2>4. h = [k \in 0 .. m + 1 |-> IF k = 0 THEN base ELSE step[k][h[k - 1]]]
    BY <2>3
  <2> HIDE DEF h
  <2>5. Recursive(step, base, h, 0 .. m + 1)
    BY <2>4 DEF Recursive
  <2> QED
    BY <2>5
<1>3. Nat \subseteq Upto
  <2> HIDE DEF Upto
  <2> QED
    BY <1>1, <1>2, SetInduction
<1> QED
  BY <1>3

LEMMA RecursiveAgree ==
  ASSUME NEW step, NEW base, NEW m \in Nat, NEW n \in Nat, m <= n,
         NEW g, Recursive(step, base, g, 0 .. m), NEW h, Recursive(step, base, h, 0 .. n)
  PROVE  \A k \in 0 .. m : g[k] = h[k]
<1> DEFINE Upto == {k \in Nat : k <= m => g[k] = h[k]}
<1>1. 0 \in Upto
  BY DEF Recursive
<1>2. ASSUME NEW k \in Nat, k \in Upto
      PROVE  k + 1 \in Upto
  BY <1>2 DEF Recursive
<1>3. Nat \subseteq Upto
  <2> HIDE DEF Upto
  <2> QED
    BY <1>1, <1>2, SetInduction
<1> QED
  BY <1>3

LEMMA RecursiveExists ==
  ASSUME NEW step, NEW base
  PROVE  \E it : Recursive(step, base, it, Nat)
<1> DEFINE upto(n) == CHOOSE it : Recursive(step, base, it, 0 .. n)
           all == [k \in Nat |-> upto(k)[k]]
<1>1. \A n \in Nat : Recursive(step, base, upto(n), 0 .. n)
  BY RecursiveBelow
<1> HIDE DEF upto
<1>2. ASSUME NEW k \in Nat, k # 0
      PROVE  upto(k)[k] = step[k][upto(k - 1)[k - 1]]
  <2>1. k - 1 \in Nat /\ k - 1 <= k /\ k - 1 \in 0 .. k - 1
    BY <1>2
  <2>2. upto(k - 1)[k - 1] = upto(k)[k - 1]
    BY <1>1, <2>1, RecursiveAgree
  <2>3. upto(k)[k] = step[k][upto(k)[k - 1]]
    BY <1>1, <1>2 DEF Recursive
  <2> QED
    BY <2>2, <2>3
<1>3. upto(0)[0] = base
  BY <1>1 DEF Recursive
<1>4. \A k \in Nat : k # 0 => k - 1 \in Nat /\ all[k - 1] = upto(k - 1)[k - 1]
  OBVIOUS
<1>5. all = [k \in Nat |-> IF k = 0 THEN base ELSE step[k][all[k - 1]]]
  BY <1>2, <1>3, <1>4
<1> HIDE DEF all
<1> QED
  BY <1>5 DEF Recursive

\* A set that only grows, out of a finite one, and stands still once it does, has
\* stopped after as many steps as there are elements.
LEMMA GrowsToFixpoint ==
  ASSUME NEW D, IsFiniteSet(D), NEW it \in [Nat -> SUBSET D],
         \A k \in Nat : it[k] \subseteq it[k + 1],
         \A k \in Nat : it[k] = it[k + 1] => it[k + 1] = it[k + 2]
  PROVE  it[Cardinality(D)] = it[Cardinality(D) + 1]
<1> DEFINE Upto == {k \in Nat : it[k] = it[k + 1] \/ Cardinality(it[k]) >= k}
           n == Cardinality(D)
<1>1. \A k \in Nat : IsFiniteSet(it[k]) /\ Cardinality(it[k]) \in Nat
  BY FS_Subset, FS_CardinalityType
<1>2. 0 \in Upto
  BY <1>1
<1>3. ASSUME NEW k \in Nat, k \in Upto
      PROVE  k + 1 \in Upto
  <2>1. CASE it[k] = it[k + 1]
    <3>1. it[k + 1] = it[k + 2] /\ k + 2 = (k + 1) + 1
      BY <2>1
    <3> QED
      BY <3>1
  <2>2. CASE it[k] # it[k + 1]
    <3>1. it[k] \in SUBSET it[k + 1] /\ IsFiniteSet(it[k + 1])
      BY <1>1
    <3>2. /\ Cardinality(it[k]) <= Cardinality(it[k + 1])
          /\ Cardinality(it[k + 1]) # Cardinality(it[k])
      BY <2>2, <3>1, FS_Subset
    <3>3. Cardinality(it[k]) \in Nat /\ Cardinality(it[k + 1]) \in Nat /\ Cardinality(it[k]) >= k
      BY <1>1, <1>3, <2>2
    <3>4. Cardinality(it[k + 1]) >= k + 1
      BY <3>2, <3>3
    <3> QED
      BY <3>4
  <2> QED
    BY <2>1, <2>2
<1>4. Nat \subseteq Upto
  <2> HIDE DEF Upto
  <2> QED
    BY <1>2, <1>3, SetInduction
<1>5. n \in Nat /\ n + 1 \in Nat
  BY FS_CardinalityType
<1>6. CASE Cardinality(it[n]) >= n
  <2>1. it[n] \in SUBSET D /\ it[n + 1] \in SUBSET D
    BY <1>5
  <2>2. Cardinality(it[n]) <= n
    BY <2>1, FS_Subset
  <2>3. Cardinality(D) = Cardinality(it[n])
    BY <1>1, <1>5, <1>6, <2>2
  <2>4. it[n] = D
    BY <2>1, <2>3, FS_Subset
  <2>5. it[n] \subseteq it[n + 1]
    BY <1>5
  <2> QED
    BY <2>1, <2>4, <2>5
<1> QED
  BY <1>4, <1>5, <1>6

\* Rounds that add to a set what the elements it has call for.
Growing(D, base, more, it) ==
  it = [k \in Nat |-> IF k = 0 THEN base ELSE it[k - 1] \cup more[it[k - 1]]]

LEMMA GrowingExists ==
  ASSUME NEW D, NEW base \in SUBSET D, NEW more \in [SUBSET D -> SUBSET D]
  PROVE  \E it : Growing(D, base, more, it)
<1> DEFINE step == [k \in Nat |-> [X \in SUBSET D |-> X \cup more[X]]]
<1>1. PICK it : Recursive(step, base, it, Nat)
  <2> HIDE DEF step
  <2> QED
    BY RecursiveExists
<1> DEFINE Upto == {k \in Nat : it[k] \in SUBSET D}
<1>2. 0 \in Upto
  BY <1>1 DEF Recursive
<1>3. ASSUME NEW k \in Nat, k \in Upto
      PROVE  k + 1 \in Upto
  <2>1. it[k + 1] = step[k + 1][it[k]] /\ it[k] \in SUBSET D
    <3> HIDE DEF step
    <3>1. k + 1 \in Nat /\ k + 1 # 0 /\ (k + 1) - 1 = k
      OBVIOUS
    <3> QED
      BY <1>1, <1>3, <3>1 DEF Recursive
  <2>2. it[k + 1] = it[k] \cup more[it[k]]
    BY <2>1
  <2> QED
    BY <2>1, <2>2
<1>4. Nat \subseteq Upto
  <2> HIDE DEF Upto
  <2> QED
    BY <1>2, <1>3, SetInduction
<1>5. \A k \in Nat : k # 0 => /\ k - 1 \in Nat
                              /\ step[k][it[k - 1]] = it[k - 1] \cup more[it[k - 1]]
  BY <1>4
<1>6. Growing(D, base, more, it)
  <2> HIDE DEF step, Upto
  <2> QED
    BY <1>1, <1>5 DEF Recursive, Growing
<1> QED
  BY <1>6

LEMMA GrowingTyped ==
  ASSUME NEW D, NEW base \in SUBSET D, NEW more \in [SUBSET D -> SUBSET D],
         NEW it, Growing(D, base, more, it)
  PROVE  it \in [Nat -> SUBSET D]
<1> DEFINE Upto == {k \in Nat : it[k] \in SUBSET D}
<1>1. 0 \in Upto
  BY DEF Growing
<1>2. ASSUME NEW k \in Nat, k \in Upto
      PROVE  k + 1 \in Upto
  <2>1. k + 1 \in Nat /\ k + 1 # 0 /\ (k + 1) - 1 = k
    OBVIOUS
  <2>2. it[k + 1] = it[k] \cup more[it[k]]
    BY <2>1 DEF Growing
  <2> QED
    BY <1>2, <2>2
<1>3. Nat \subseteq Upto
  <2> HIDE DEF Upto
  <2> QED
    BY <1>1, <1>2, SetInduction
<1>4. it = [k \in Nat |-> it[k]]
  BY DEF Growing
<1> QED
  BY <1>3, <1>4

\* After as many rounds as there are elements, the set has what it calls for,
\* and nothing it neither began with nor calls for.
LEMMA GrowingCloses ==
  ASSUME NEW D, IsFiniteSet(D), NEW base \in SUBSET D, NEW more \in [SUBSET D -> SUBSET D],
         \A X \in SUBSET D : \A Y \in SUBSET X : more[Y] \subseteq more[X],
         NEW it, Growing(D, base, more, it)
  PROVE  LET all == it[Cardinality(D)] IN
         /\ base \subseteq all /\ all \subseteq D /\ more[all] \subseteq all
         /\ \A x \in all : x \in base \/ x \in more[all]
<1>1. it[0] = base
  BY DEF Growing
<1>2. \A k \in Nat : it[k + 1] = it[k] \cup more[it[k]]
  <2> TAKE k \in Nat
  <2>1. k + 1 \in Nat /\ k + 1 # 0 /\ (k + 1) - 1 = k
    OBVIOUS
  <2> QED
    BY <2>1 DEF Growing
<1> DEFINE Upto == {k \in Nat : /\ it[k] \in SUBSET D /\ base \subseteq it[k]
                                /\ \A x \in it[k] : x \in base \/ x \in more[it[k]]}
<1>3. 0 \in Upto
  BY <1>1
<1>4. ASSUME NEW k \in Nat, k \in Upto
      PROVE  k + 1 \in Upto
  <2>1. it[k] \in SUBSET D /\ it[k + 1] \in SUBSET D /\ it[k] \in SUBSET it[k + 1]
    BY <1>2, <1>4
  <2>2. more[it[k]] \subseteq more[it[k + 1]]
    BY <2>1
  <2> QED
    BY <1>2, <1>4, <2>1, <2>2
<1>5. Nat \subseteq Upto
  <2> HIDE DEF Upto
  <2> QED
    BY <1>3, <1>4, SetInduction
<1>6. it \in [Nat -> SUBSET D]
  BY GrowingTyped
<1>7. /\ \A k \in Nat : it[k] \subseteq it[k + 1]
      /\ \A k \in Nat : it[k] = it[k + 1] => it[k + 1] = it[k + 2]
  <2>1. \A k \in Nat : it[k] \subseteq it[k + 1]
    BY <1>2
  <2>2. ASSUME NEW k \in Nat, it[k] = it[k + 1]
        PROVE  it[k + 1] = it[k + 2]
    <3>1. k + 1 \in Nat /\ (k + 1) + 1 = k + 2
      OBVIOUS
    <3>2. it[k + 2] = it[k + 1] \cup more[it[k + 1]]
      BY <1>2, <3>1
    <3>3. it[k + 1] = it[k] \cup more[it[k]]
      BY <1>2
    <3> QED
      BY <2>2, <3>2, <3>3
  <2> QED
    BY <2>1, <2>2
<1>8. it[Cardinality(D)] = it[Cardinality(D) + 1]
  BY <1>6, <1>7, GrowsToFixpoint
<1>9. Cardinality(D) \in Nat
  BY FS_CardinalityType
<1>10. more[it[Cardinality(D)]] \subseteq it[Cardinality(D)]
  BY <1>2, <1>8, <1>9
<1> QED
  BY <1>5, <1>9, <1>10

-----------------------------------------------------------------------------
(* Sequences whose elements have no type of their own.                     *)

IsSeq(s) == \E S : s \in Seq(S)

LEMMA SeqDomain ==
  ASSUME NEW s, IsSeq(s)
  PROVE  Len(s) \in Nat /\ DOMAIN s = 1 .. Len(s)
BY DEF IsSeq

LEMMA AppendSeq ==
  ASSUME NEW s, NEW e, IsSeq(s)
  PROVE  /\ IsSeq(Append(s, e))
         /\ Len(Append(s, e)) = Len(s) + 1
         /\ DOMAIN Append(s, e) = 1 .. Len(s) + 1
         /\ \A i \in 1 .. Len(s) : Append(s, e)[i] = s[i]
         /\ Append(s, e)[Len(s) + 1] = e
         /\ s \o <<e>> = Append(s, e)
<1>1. PICK S : s \in Seq(S)
  BY DEF IsSeq
<1>2. s \in Seq(S \cup {e}) /\ e \in S \cup {e}
  BY <1>1, SeqMonotonic
<1>3. Append(s, e) \in Seq(S \cup {e})
  BY <1>2
<1>4. /\ Len(Append(s, e)) = Len(s) + 1
      /\ \A i \in 1 .. Len(s) : Append(s, e)[i] = s[i]
      /\ Append(s, e)[Len(s) + 1] = e
  BY <1>2, AppendProperties
<1>5. s \o <<e>> = Append(s, e)
  BY <1>2, AppendIsConcat
<1> QED
  BY <1>3, <1>4, <1>5 DEF IsSeq

LEMMA ExceptIsSeq ==
  ASSUME NEW s, IsSeq(s), NEW i \in DOMAIN s, NEW e
  PROVE  LET r == [s EXCEPT ![i] = e] IN
         /\ IsSeq(r) /\ Len(r) = Len(s) /\ DOMAIN r = DOMAIN s
         /\ \A j \in DOMAIN s : r[j] = IF j = i THEN e ELSE s[j]
<1>1. PICK S : s \in Seq(S)
  BY DEF IsSeq
<1>2. s \in Seq(S \cup {e}) /\ e \in S \cup {e} /\ i \in 1 .. Len(s)
  BY <1>1, SeqMonotonic, LenProperties
<1>3. [s EXCEPT ![i] = e] \in Seq(S \cup {e}) /\ Len([s EXCEPT ![i] = e]) = Len(s)
  BY <1>2, ExceptSeq
<1> QED
  BY <1>3 DEF IsSeq

LEMMA EmptyIsSeq == IsSeq(<<>>) /\ Len(<<>>) = 0 /\ DOMAIN <<>> = {}
BY DEF IsSeq

LEMMA EmptyDomain ==
  ASSUME NEW s, IsSeq(s), s # <<>>
  PROVE  Len(s) \in 1 .. Len(s)
BY SeqDomain, EmptySeq DEF IsSeq

LEMMA FunctionIsSeq ==
  ASSUME NEW n \in Nat, NEW S, NEW f, f \in [1 .. n -> S] PROVE f \in Seq(S)
BY SeqDef

\* A function whose domain begins at 1 is a sequence.
LEMMA DomainIsSeq ==
  ASSUME NEW n \in Nat, NEW f, f = [i \in 1 .. n |-> f[i]]
  PROVE  IsSeq(f) /\ Len(f) = n
<1> DEFINE S == {f[i] : i \in 1 .. n}
<1>1. f \in [1 .. n -> S]
  OBVIOUS
<1> HIDE DEF S
<1>2. f \in Seq(S)
  BY <1>1, FunctionIsSeq
<1>3. Len(f) \in Nat /\ DOMAIN f = 1 .. Len(f) /\ DOMAIN f = 1 .. n
  BY <1>1, <1>2
<1> QED
  BY <1>2, <1>3 DEF IsSeq

LEMMA ConcatSeq ==
  ASSUME NEW s, NEW t, IsSeq(s), IsSeq(t)
  PROVE  /\ IsSeq(s \o t) /\ Len(s \o t) = Len(s) + Len(t)
         /\ \A i \in 1 .. Len(s) : (s \o t)[i] = s[i]
         /\ \A i \in 1 .. Len(t) : (s \o t)[Len(s) + i] = t[i]
<1>1. PICK S, T : s \in Seq(S) /\ t \in Seq(T)
  BY DEF IsSeq
<1>2. s \in Seq(S \cup T) /\ t \in Seq(S \cup T)
  BY <1>1, SeqMonotonic
<1>3. s \o t \in Seq(S \cup T) /\ Len(s \o t) = Len(s) + Len(t)
  BY <1>2, ConcatProperties
<1>4. \A i \in 1 .. Len(s) + Len(t) : (s \o t)[i] = IF i <= Len(s) THEN s[i] ELSE t[i - Len(s)]
  BY <1>2, ConcatProperties
<1>5. Len(s) \in Nat /\ Len(t) \in Nat
  BY <1>1
<1> QED
  BY <1>3, <1>4, <1>5 DEF IsSeq

LEMMA TailSeq ==
  ASSUME NEW s, IsSeq(s), s # <<>>
  PROVE  IsSeq(Tail(s)) /\ 1 \in DOMAIN s /\ Head(s) = s[1]
BY HeadTailProperties DEF IsSeq

LEMMA ConcatElements ==
  ASSUME NEW s, NEW t, IsSeq(s), IsSeq(t)
  PROVE  ToSet(s \o t) = ToSet(s) \cup ToSet(t)
<1>1. /\ IsSeq(s \o t) /\ Len(s \o t) = Len(s) + Len(t)
      /\ \A i \in 1 .. Len(s) : (s \o t)[i] = s[i]
      /\ \A i \in 1 .. Len(t) : (s \o t)[Len(s) + i] = t[i]
  BY ConcatSeq
<1>2. /\ Len(s) \in Nat /\ DOMAIN s = 1 .. Len(s) /\ Len(t) \in Nat /\ DOMAIN t = 1 .. Len(t)
      /\ DOMAIN (s \o t) = 1 .. Len(s) + Len(t)
  BY <1>1, SeqDomain
<1>3. ASSUME NEW i \in 1 .. Len(s) + Len(t) PROVE (s \o t)[i] \in ToSet(s) \cup ToSet(t)
  <2>1. CASE i <= Len(s)
    BY <1>1, <1>2, <2>1 DEF ToSet
  <2>2. CASE ~(i <= Len(s))
    <3>1. i - Len(s) \in 1 .. Len(t) /\ Len(s) + (i - Len(s)) = i
      BY <1>2, <2>2
    <3> QED
      BY <1>1, <1>2, <3>1 DEF ToSet
  <2> QED
    BY <2>1, <2>2
<1>4. \A i \in 1 .. Len(s) : i \in DOMAIN (s \o t)
  BY <1>2
<1>5. \A i \in 1 .. Len(t) : Len(s) + i \in DOMAIN (s \o t)
  BY <1>2
<1>6. ToSet(s \o t) \subseteq ToSet(s) \cup ToSet(t)
  BY <1>2, <1>3 DEF ToSet
<1>7. ToSet(s) \subseteq ToSet(s \o t)
  BY <1>1, <1>2, <1>4 DEF ToSet
<1>8. ToSet(t) \subseteq ToSet(s \o t)
  BY <1>1, <1>2, <1>5 DEF ToSet
<1> QED
  BY <1>6, <1>7, <1>8

LEMMA FlattenExists ==
  ASSUME NEW seqs, NEW n \in Nat
  PROVE  \E g : g = [i \in 1 .. n |-> IF i = 1 THEN seqs[i] ELSE g[i - 1] \o seqs[i]]
<1> DEFINE Fits(g, m) == g = [i \in 1 .. m |-> IF i = 1 THEN seqs[i] ELSE g[i - 1] \o seqs[i]]
           Upto == {m \in Nat : \E g : Fits(g, m)}
<1>1. 0 \in Upto
  <2> DEFINE g == [i \in 1 .. 0 |-> {}]
  <2>1. Fits(g, 0)
    OBVIOUS
  <2> HIDE DEF g, Fits
  <2> QED
    BY <2>1
<1>2. ASSUME NEW m \in Nat, m \in Upto PROVE m + 1 \in Upto
  <2>1. PICK g : Fits(g, m)
    BY <1>2
  <2> DEFINE h == [i \in 1 .. m + 1 |-> IF i = 1 THEN seqs[i] ELSE g[i - 1] \o seqs[i]]
  <2>2. \A i \in 1 .. m : h[i] = g[i]
    <3>1. \A i \in 1 .. m : g[i] = IF i = 1 THEN seqs[i] ELSE g[i - 1] \o seqs[i]
      BY <2>1
    <3>2. \A i \in 1 .. m : i \in 1 .. m + 1
      OBVIOUS
    <3>3. \A i \in 1 .. m + 1 : h[i] = IF i = 1 THEN seqs[i] ELSE g[i - 1] \o seqs[i]
      OBVIOUS
    <3> HIDE DEF h
    <3> QED
      BY <3>1, <3>2, <3>3
  <2>3. \A i \in 1 .. m + 1 : i # 1 => h[i - 1] = g[i - 1]
    <3>1. \A i \in 1 .. m + 1 : i # 1 => i - 1 \in 1 .. m
      OBVIOUS
    <3> HIDE DEF h
    <3> QED
      BY <2>2, <3>1
  <2>4. Fits(h, m + 1)
    BY <2>3
  <2> HIDE DEF h, Fits
  <2> QED
    BY <2>4
<1>3. Nat \subseteq Upto
  <2> HIDE DEF Upto
  <2> QED
    BY <1>1, <1>2, SetInduction
<1> QED
  BY <1>3

\* What a flattened sequence holds is what its parts hold.
LEMMA FlattenElements ==
  ASSUME NEW seqs, IsSeq(seqs), \A i \in DOMAIN seqs : IsSeq(seqs[i])
  PROVE  /\ IsSeq(FlattenSeq(seqs))
         /\ ToSet(FlattenSeq(seqs)) = UNION {ToSet(seqs[i]) : i \in DOMAIN seqs}
<1> DEFINE N == Len(seqs)
           all == CHOOSE g : g = [i \in 1 .. N |-> IF i = 1 THEN seqs[i] ELSE g[i - 1] \o seqs[i]]
           Upto == {m \in Nat : m \in 1 .. N =>
                      IsSeq(all[m]) /\ ToSet(all[m]) = UNION {ToSet(seqs[i]) : i \in 1 .. m}}
<1>0. N \in Nat /\ DOMAIN seqs = 1 .. N
  BY SeqDomain
<1>1. all = [i \in 1 .. N |-> IF i = 1 THEN seqs[i] ELSE all[i - 1] \o seqs[i]]
  <2>1. \E g : g = [i \in 1 .. N |-> IF i = 1 THEN seqs[i] ELSE g[i - 1] \o seqs[i]]
    BY <1>0, FlattenExists
  <2> QED
    BY <2>1
<1>2. FlattenSeq(seqs) = IF N = 0 THEN seqs ELSE all[N]
  BY DEF FlattenSeq
<1> HIDE DEF all
<1>3. 0 \in Upto
  OBVIOUS
<1>4. ASSUME NEW m \in Nat, m \in Upto PROVE m + 1 \in Upto
  <2> SUFFICES ASSUME m + 1 \in 1 .. N
               PROVE  /\ IsSeq(all[m + 1])
                      /\ ToSet(all[m + 1]) = UNION {ToSet(seqs[i]) : i \in 1 .. m + 1}
    OBVIOUS
  <2>1. IsSeq(seqs[m + 1])
    BY <1>0
  <2>2. CASE m = 0
    <3>1. all[m + 1] = seqs[1] /\ 1 .. m + 1 = {1}
      BY <1>1, <2>2
    <3> QED
      BY <2>1, <2>2, <3>1
  <2>3. CASE m # 0
    <3>1. m \in 1 .. N /\ m + 1 # 1 /\ (m + 1) - 1 = m /\ 1 .. m + 1 = (1 .. m) \cup {m + 1}
      BY <1>0, <2>3
    <3>2. all[m + 1] = all[m] \o seqs[m + 1]
      BY <1>1, <3>1
    <3>3. IsSeq(all[m]) /\ ToSet(all[m]) = UNION {ToSet(seqs[i]) : i \in 1 .. m}
      BY <1>4, <3>1
    <3>4. ToSet(all[m + 1]) = ToSet(all[m]) \cup ToSet(seqs[m + 1])
      BY <2>1, <3>2, <3>3, ConcatElements
    <3>5. ToSet(all[m + 1]) = UNION {ToSet(seqs[i]) : i \in 1 .. m + 1}
      <4>1. UNION {ToSet(seqs[i]) : i \in (1 .. m) \cup {m + 1}}
              = (UNION {ToSet(seqs[i]) : i \in 1 .. m}) \cup ToSet(seqs[m + 1])
        OBVIOUS
      <4> QED
        BY <3>1, <3>3, <3>4, <4>1
    <3> QED
      BY <2>1, <3>2, <3>3, <3>5, ConcatSeq
  <2> QED
    BY <2>2, <2>3
<1>5. Nat \subseteq Upto
  <2> HIDE DEF Upto
  <2> QED
    BY <1>3, <1>4, SetInduction
<1>6. N # 0 => IsSeq(all[N]) /\ ToSet(all[N]) = UNION {ToSet(seqs[i]) : i \in 1 .. N}
  BY <1>0, <1>5
<1>7. CASE N = 0
  <2>1. DOMAIN seqs = {} /\ ToSet(seqs) = {}
    BY <1>0, <1>7 DEF ToSet
  <2> QED
    BY <1>2, <1>7, <2>1
<1> QED
  BY <1>0, <1>2, <1>6, <1>7

\* A finite set in some order.
LEMMA OrderIsSeq ==
  ASSUME NEW S, IsFiniteSet(S)
  PROVE  SetToSeq(S) \in Seq(S)
<1>1. PICK n \in Nat : ExistsBijection(1 .. n, S)
  BY FS_NatBijection
<1>2. Cardinality(S) = n
  BY <1>1, FS_CountingElements
<1>3. PICK f : f \in [1 .. n -> S] /\ IsInjective(f)
  BY <1>1 DEF ExistsBijection, Bijection, Injection
<1>4. SetToSeq(S) \in [1 .. n -> S]
  BY <1>2, <1>3 DEF SetToSeq
<1> QED
  BY <1>4, FunctionIsSeq

-----------------------------------------------------------------------------
(* Sums over finite sets, for SumFunctionOnSet.                            *)

Chosen(s) == CHOOSE x \in s : TRUE

\* The function that SumFunctionOnSet defines over the subsets of S.
SumRec(f, S, g) ==
  g = [s \in SUBSET S |-> IF s = {} THEN 0 ELSE f[Chosen(s)] + g[s \ {Chosen(s)}]]

LEMMA SumIsChosen == \A f, S : SumFunctionOnSet(f, S) = (CHOOSE g : SumRec(f, S, g))[S]
BY DEF SumFunctionOnSet, FoldFunctionOnSet, MapThenFoldSet, SumRec, Chosen

LEMMA ChosenIn == \A s : s # {} => Chosen(s) \in s
BY DEF Chosen

\* There is such a function: it is built for ever larger subsets.
LEMMA SumRecExists ==
  ASSUME NEW f, NEW S, IsFiniteSet(S)
  PROVE  \E g : SumRec(f, S, g)
<1> DEFINE Small(n) == {s \in SUBSET S : Cardinality(s) <= n}
           Next0(s, g) == IF s = {} THEN 0 ELSE f[Chosen(s)] + g[s \ {Chosen(s)}]
           Upto == {n \in Nat : \E g : g = [s \in Small(n) |-> Next0(s, g)]}
<1>1. \A s \in SUBSET S : IsFiniteSet(s) /\ Cardinality(s) \in Nat
  BY FS_Subset, FS_CardinalityType
<1>2. \A n \in Nat, s \in SUBSET S :
        s # {} /\ s \in Small(n + 1) => s \ {Chosen(s)} \in Small(n)
  <2> SUFFICES ASSUME NEW n \in Nat, NEW s \in SUBSET S, s # {}, Cardinality(s) <= n + 1
               PROVE  s \ {Chosen(s)} \in SUBSET S /\ Cardinality(s \ {Chosen(s)}) <= n
    OBVIOUS
  <2>1. Cardinality(s \ {Chosen(s)}) = Cardinality(s) - 1
    BY <1>1, ChosenIn, FS_RemoveElement
  <2> QED
    BY <1>1, <2>1
<1>3. \A n \in Nat : Small(n) \subseteq Small(n + 1)
  BY <1>1
<1>4. 0 \in Upto
  <2>1. \A s \in Small(0) : s = {}
    BY <1>1, FS_EmptySet
  <2> DEFINE g == [s \in Small(0) |-> 0]
  <2>2. g = [s \in Small(0) |-> Next0(s, g)]
    BY <2>1
  <2> QED
    BY <2>2
<1>5. ASSUME NEW n \in Nat, n \in Upto
      PROVE  n + 1 \in Upto
  <2>1. PICK g : g = [s \in Small(n) |-> Next0(s, g)]
    BY <1>5
  <2> HIDE DEF Small
  <2> DEFINE h == [s \in Small(n + 1) |-> Next0(s, g)]
  <2>2. \A s \in Small(n) : h[s] = g[s]
    BY <1>3, <2>1
  <2>3. \A s \in Small(n + 1) : Next0(s, g) = Next0(s, h)
    BY <1>2, <2>2 DEF Small
  <2>4. h = [s \in Small(n + 1) |-> Next0(s, h)]
    BY <2>3
  <2> HIDE DEF h, Next0
  <2>5. \E k : k = [s \in Small(n + 1) |-> Next0(s, k)]
    BY <2>4
  <2> QED
    BY <2>5
<1>6. Cardinality(S) \in Upto
  <2> HIDE DEF Upto
  <2>1. Nat \subseteq Upto
    BY <1>4, <1>5, SetInduction
  <2> QED
    BY <1>1, <2>1
<1>7. Small(Cardinality(S)) = SUBSET S
  BY <1>1, FS_Subset
<1> QED
  BY <1>6, <1>7 DEF SumRec

\* Two of them agree where both are defined.
LEMMA SumRecUnique ==
  ASSUME NEW f
  PROVE  \A S, T, g, h :
           IsFiniteSet(S) /\ T \in SUBSET S /\ SumRec(f, S, g) /\ SumRec(f, T, h) => g[T] = h[T]
<1> DEFINE Same(n) == \A S, T, g, h :
                        IsFiniteSet(S) /\ T \in SUBSET S /\ Cardinality(T) = n
                        /\ SumRec(f, S, g) /\ SumRec(f, T, h) => g[T] = h[T]
           Upto == {n \in Nat : Same(n)}
<1>1. Same(0)
  <2>1. ASSUME NEW S, NEW T, NEW g, NEW h, IsFiniteSet(S), T \in SUBSET S, Cardinality(T) = 0,
               SumRec(f, S, g), SumRec(f, T, h)
        PROVE  g[T] = h[T]
    <3>1. T = {}
      BY <2>1, FS_Subset, FS_EmptySet
    <3> QED
      BY <2>1, <3>1 DEF SumRec
  <2> QED
    BY <2>1, Zenon
<1>2. ASSUME NEW n \in Nat, Same(n)
      PROVE  Same(n + 1)
  <2>1. ASSUME NEW S, NEW T, NEW g, NEW h, IsFiniteSet(S), T \in SUBSET S,
               Cardinality(T) = n + 1, SumRec(f, S, g), SumRec(f, T, h)
        PROVE  g[T] = h[T]
    <3> DEFINE R == T \ {Chosen(T)}
    <3>1. IsFiniteSet(T) /\ T # {}
      BY <2>1, FS_Subset, FS_EmptySet
    <3>2. IsFiniteSet(R) /\ Cardinality(R) = n /\ R \in SUBSET T /\ R \in SUBSET S
      BY <2>1, <3>1, ChosenIn, FS_RemoveElement
    <3>3. PICK k : SumRec(f, R, k)
      BY <3>2, SumRecExists
    <3>4. g[R] = k[R] /\ h[R] = k[R]
      BY <1>2, <2>1, <3>1, <3>2, <3>3
    <3>5. g[T] = f[Chosen(T)] + g[R]
      BY <2>1, <3>1 DEF SumRec
    <3>6. h[T] = f[Chosen(T)] + h[R]
      BY <2>1, <3>1 DEF SumRec
    <3> QED
      BY <3>4, <3>5, <3>6
  <2> QED
    BY <2>1, Zenon
<1>3. \A n \in Nat : Same(n)
  <2> HIDE DEF Same
  <2>1. 0 \in Upto /\ \A n \in Nat : n \in Upto => n + 1 \in Upto
    BY <1>1, <1>2
  <2> HIDE DEF Upto
  <2>2. Nat \subseteq Upto
    BY <2>1, SetInduction
  <2> QED
    BY <2>2 DEF Upto
<1> QED
  BY <1>3, FS_Subset, FS_CardinalityType

LEMMA SumEmpty == \A f : SumFunctionOnSet(f, {}) = 0
<1> SUFFICES ASSUME NEW f PROVE SumFunctionOnSet(f, {}) = 0
  OBVIOUS
<1>1. \E g : SumRec(f, {}, g)
  BY SumRecExists, FS_EmptySet
<1>2. SumRec(f, {}, CHOOSE g : SumRec(f, {}, g))
  BY <1>1
<1> QED
  BY <1>2, SumIsChosen DEF SumRec

LEMMA SumUnfolds ==
  ASSUME NEW f, NEW S, IsFiniteSet(S), S # {}
  PROVE  SumFunctionOnSet(f, S) = f[Chosen(S)] + SumFunctionOnSet(f, S \ {Chosen(S)})
<1> DEFINE R == S \ {Chosen(S)}
           g == CHOOSE g : SumRec(f, S, g)
           h == CHOOSE h : SumRec(f, R, h)
<1>1. IsFiniteSet(R) /\ R \in SUBSET S
  BY FS_RemoveElement
<1>2. SumRec(f, S, g)
  BY SumRecExists
<1>3. SumRec(f, R, h)
  BY <1>1, SumRecExists
<1>4. SumFunctionOnSet(f, S) = g[S] /\ SumFunctionOnSet(f, R) = h[R]
  BY SumIsChosen
<1> HIDE DEF g, h
<1>5. g[R] = h[R]
  BY <1>1, <1>2, <1>3, SumRecUnique
<1>6. g[S] = f[Chosen(S)] + g[R]
  BY <1>2 DEF SumRec
<1> QED
  BY <1>4, <1>5, <1>6

LEMMA SumInt ==
  ASSUME NEW f, NEW S, IsFiniteSet(S), \A x \in S : f[x] \in Int
  PROVE  SumFunctionOnSet(f, S) \in Int
<1> DEFINE Upto == {n \in Nat : \A T \in SUBSET S : Cardinality(T) = n => SumFunctionOnSet(f, T) \in Int}
<1>1. \A T \in SUBSET S : IsFiniteSet(T) /\ Cardinality(T) \in Nat
  BY FS_Subset, FS_CardinalityType
<1>2. 0 \in Upto
  BY <1>1, FS_EmptySet, SumEmpty
<1>3. ASSUME NEW n \in Nat, n \in Upto
      PROVE  n + 1 \in Upto
  <2> SUFFICES ASSUME NEW T \in SUBSET S, Cardinality(T) = n + 1
               PROVE  SumFunctionOnSet(f, T) \in Int
    OBVIOUS
  <2>1. T # {} /\ Chosen(T) \in T
    BY <1>1, FS_EmptySet, ChosenIn
  <2>2. T \ {Chosen(T)} \in SUBSET S /\ Cardinality(T \ {Chosen(T)}) = n
    <3>1. IsFiniteSet(T) /\ Cardinality(T \ {Chosen(T)}) = Cardinality(T) - 1
      BY <1>1, <2>1, FS_RemoveElement
    <3> QED
      BY <3>1
  <2> QED
    BY <1>1, <1>3, <2>1, <2>2, SumUnfolds
<1>4. Nat \subseteq Upto
  <2> HIDE DEF Upto
  <2> QED
    BY <1>2, <1>3, SetInduction
<1> QED
  BY <1>1, <1>4

\* Whichever element is taken first.
LEMMA SumSplits ==
  ASSUME NEW f, NEW S, IsFiniteSet(S), \A x \in S : f[x] \in Int
  PROVE  \A x \in S : SumFunctionOnSet(f, S) = f[x] + SumFunctionOnSet(f, S \ {x})
<1> DEFINE Sum(R) == SumFunctionOnSet(f, R)
           Splits(T) == \A x \in T : Sum(T) = f[x] + Sum(T \ {x})
           Upto == {n \in Nat : \A T \in SUBSET S : Cardinality(T) = n => Splits(T)}
<1>1. \A T \in SUBSET S : IsFiniteSet(T) /\ Cardinality(T) \in Nat
  BY FS_Subset, FS_CardinalityType
<1>2. 0 \in Upto
  BY <1>1, FS_EmptySet
<1>3. ASSUME NEW n \in Nat, n \in Upto
      PROVE  n + 1 \in Upto
  <2> SUFFICES ASSUME NEW T \in SUBSET S, Cardinality(T) = n + 1
               PROVE  Splits(T)
    OBVIOUS
  <2> DEFINE c == Chosen(T)
  <2>1. T # {} /\ c \in T
    BY <1>1, FS_EmptySet, ChosenIn
  <2>2. \A x \in T : T \ {x} \in SUBSET S /\ Cardinality(T \ {x}) = n
    BY <1>1, FS_RemoveElement
  <2>3. \A x \in T : Splits(T \ {x})
    BY <1>3, <2>2
  <2>4. Sum(T) = f[c] + Sum(T \ {c})
    BY <1>1, <2>1, SumUnfolds
  <2>5. ASSUME NEW x \in T, x # c
        PROVE  Sum(T) = f[x] + Sum(T \ {x})
    <3> DEFINE R == (T \ {x}) \ {c}
    <3>1. (T \ {c}) \ {x} = R /\ x \in T \ {c} /\ c \in T \ {x}
      BY <2>1, <2>5
    <3>2. Sum(T \ {c}) = f[x] + Sum(R) /\ Sum(T \ {x}) = f[c] + Sum(R)
      BY <2>1, <2>3, <3>1
    <3>3. R \in SUBSET S /\ IsFiniteSet(R)
      BY <1>1
    <3>4. Sum(R) \in Int
      BY <3>3, SumInt
    <3>5. f[x] \in Int /\ f[c] \in Int
      BY <2>1
    <3> HIDE DEF Sum, R, c
    <3> QED
      BY <2>4, <3>2, <3>4, <3>5
  <2> QED
    BY <2>4, <2>5
<1>4. Nat \subseteq Upto
  <2> HIDE DEF Upto
  <2> QED
    BY <1>2, <1>3, SetInduction
<1> QED
  BY <1>1, <1>4

\* One more element.
LEMMA SumAdds ==
  ASSUME NEW f, NEW S, IsFiniteSet(S), NEW x, x \notin S, \A y \in S \cup {x} : f[y] \in Int
  PROVE  SumFunctionOnSet(f, S \cup {x}) = f[x] + SumFunctionOnSet(f, S)
<1>1. IsFiniteSet(S \cup {x}) /\ (S \cup {x}) \ {x} = S
  BY FS_AddElement
<1> QED
  BY <1>1, SumSplits

\* A sum only depends on the values over its set.
LEMMA SumAgrees ==
  ASSUME NEW f, NEW g, NEW S, IsFiniteSet(S), \A x \in S : f[x] = g[x] /\ f[x] \in Int
  PROVE  SumFunctionOnSet(f, S) = SumFunctionOnSet(g, S)
<1> DEFINE Upto == {n \in Nat : \A T \in SUBSET S :
                      Cardinality(T) = n => SumFunctionOnSet(f, T) = SumFunctionOnSet(g, T)}
<1>1. \A T \in SUBSET S : IsFiniteSet(T) /\ Cardinality(T) \in Nat
  BY FS_Subset, FS_CardinalityType
<1>2. 0 \in Upto
  BY <1>1, FS_EmptySet, SumEmpty
<1>3. ASSUME NEW n \in Nat, n \in Upto
      PROVE  n + 1 \in Upto
  <2> SUFFICES ASSUME NEW T \in SUBSET S, Cardinality(T) = n + 1
               PROVE  SumFunctionOnSet(f, T) = SumFunctionOnSet(g, T)
    OBVIOUS
  <2>1. T # {} /\ Chosen(T) \in T
    BY <1>1, FS_EmptySet, ChosenIn
  <2>2. T \ {Chosen(T)} \in SUBSET S /\ Cardinality(T \ {Chosen(T)}) = n
    <3>1. IsFiniteSet(T) /\ Cardinality(T \ {Chosen(T)}) = Cardinality(T) - 1
      BY <1>1, <2>1, FS_RemoveElement
    <3> QED
      BY <3>1
  <2>3. SumFunctionOnSet(f, T \ {Chosen(T)}) = SumFunctionOnSet(g, T \ {Chosen(T)})
    BY <1>3, <2>2
  <2> QED
    BY <1>1, <2>1, <2>3, SumUnfolds
<1>4. Nat \subseteq Upto
  <2> HIDE DEF Upto
  <2> QED
    BY <1>2, <1>3, SetInduction
<1> QED
  BY <1>1, <1>4

\* A sum of naturals grows with its set.
LEMMA SumGrows ==
  ASSUME NEW f, NEW S, IsFiniteSet(S), \A x \in S : f[x] \in Nat
  PROVE  /\ SumFunctionOnSet(f, S) \in Nat
         /\ \A T \in SUBSET S : SumFunctionOnSet(f, T) <= SumFunctionOnSet(f, S)
<1> DEFINE Grows(n) == \A T \in SUBSET S : \A U \in SUBSET T :
                         Cardinality(T) = n => /\ SumFunctionOnSet(f, T) \in Nat
                                               /\ SumFunctionOnSet(f, U) <= SumFunctionOnSet(f, T)
           Upto == {n \in Nat : Grows(n)}
<1>1. \A T \in SUBSET S : IsFiniteSet(T) /\ Cardinality(T) \in Nat /\ SumFunctionOnSet(f, T) \in Int
  BY FS_Subset, FS_CardinalityType, SumInt
<1>2. 0 \in Upto
  BY <1>1, FS_EmptySet, SumEmpty
<1>3. ASSUME NEW n \in Nat, n \in Upto
      PROVE  n + 1 \in Upto
  <2> SUFFICES ASSUME NEW T \in SUBSET S, NEW U \in SUBSET T, Cardinality(T) = n + 1
               PROVE  /\ SumFunctionOnSet(f, T) \in Nat
                      /\ SumFunctionOnSet(f, U) <= SumFunctionOnSet(f, T)
    OBVIOUS
  <2> DEFINE Sum(R) == SumFunctionOnSet(f, R)
  <2>1. \A x \in T : /\ T \ {x} \in SUBSET S /\ Cardinality(T \ {x}) = n
                     /\ Sum(T \ {x}) \in Nat /\ Sum(T) = f[x] + Sum(T \ {x})
    <3>1. \A x \in T : Cardinality(T \ {x}) = Cardinality(T) - 1
      BY <1>1, FS_RemoveElement
    <3>2. \A x \in T : T \ {x} \in SUBSET S /\ Cardinality(T \ {x}) = n
      BY <3>1
    <3>3. \A x \in T : Sum(T) = f[x] + Sum(T \ {x})
      BY <1>1, SumSplits
    <3> QED
      BY <1>3, <3>2, <3>3
  <2>2. T # {}
    BY <1>1, FS_EmptySet
  <2>3. Sum(T) \in Nat
    <3>1. PICK x \in T : Sum(T) = f[x] + Sum(T \ {x}) /\ Sum(T \ {x}) \in Nat /\ f[x] \in Nat
      BY <2>1, <2>2
    <3> HIDE DEF Sum
    <3> QED
      BY <3>1
  <2>4. CASE U # T
    <3>1. PICK x \in T : U \in SUBSET (T \ {x})
      BY <2>4
    <3>2. Sum(U) <= Sum(T \ {x})
      BY <1>3, <2>1, <3>1
    <3>3. Sum(U) \in Int /\ f[x] \in Nat
      BY <1>1
    <3> HIDE DEF Sum
    <3> QED
      BY <2>1, <2>3, <3>2, <3>3 DEF Sum
  <2> QED
    BY <2>3, <2>4
<1>4. Nat \subseteq Upto
  <2> HIDE DEF Upto
  <2> QED
    BY <1>2, <1>3, SetInduction
<1> QED
  BY <1>1, <1>4

\* What is zero adds nothing.
LEMMA SumOfRest ==
  ASSUME NEW f, NEW S, IsFiniteSet(S), \A x \in S : f[x] \in Int
  PROVE  \A U \in SUBSET S :
           (\A x \in S \ U : f[x] = 0) => SumFunctionOnSet(f, S) = SumFunctionOnSet(f, U)
<1> DEFINE Sum(R) == SumFunctionOnSet(f, R)
           Upto == {n \in Nat : \A T \in SUBSET S : \A U \in SUBSET T :
                      Cardinality(T) = n /\ (\A x \in T \ U : f[x] = 0) => Sum(T) = Sum(U)}
<1>1. \A T \in SUBSET S : IsFiniteSet(T) /\ Cardinality(T) \in Nat /\ Sum(T) \in Int
  BY FS_Subset, FS_CardinalityType, SumInt
<1>2. 0 \in Upto
  <2>1. \A T \in SUBSET S : Cardinality(T) = 0 => T = {}
    BY <1>1, FS_EmptySet
  <2>2. \A T \in SUBSET S : \A U \in SUBSET T : T = {} => U = T
    OBVIOUS
  <2> HIDE DEF Sum
  <2> QED
    BY <2>1, <2>2
<1>3. ASSUME NEW n \in Nat, n \in Upto
      PROVE  n + 1 \in Upto
  <2> SUFFICES ASSUME NEW T \in SUBSET S, NEW U \in SUBSET T, Cardinality(T) = n + 1,
                      \A x \in T \ U : f[x] = 0, U # T
               PROVE  Sum(T) = Sum(U)
    OBVIOUS
  <2>1. PICK x \in T : x \notin U
    OBVIOUS
  <2> DEFINE R == T \ {x}
  <2>2. R \in SUBSET S /\ U \in SUBSET R /\ \A y \in R \ U : f[y] = 0
    BY <2>1
  <2>3. Cardinality(R) = Cardinality(T) - 1
    BY <1>1, <2>1, FS_RemoveElement
  <2>4. Sum(T) = f[x] + Sum(R) /\ f[x] = 0
    BY <1>1, <2>1, SumSplits
  <2>5. Sum(R) \in Int
    BY <1>1, <2>2
  <2>6. Cardinality(R) = n
    BY <2>3
  <2>7. Sum(R) = Sum(U)
    BY <1>3, <2>2, <2>6
  <2> HIDE DEF Sum, R
  <2> QED
    BY <2>4, <2>5, <2>7
<1>4. Nat \subseteq Upto
  <2> HIDE DEF Upto
  <2> QED
    BY <1>2, <1>3, SetInduction
<1> QED
  BY <1>1, <1>4
\* The sum of n numbers of which none is above h.
LEMMA SumAtMost ==
  ASSUME NEW h \in Nat, NEW n \in Nat, NEW f, \A i \in 1 .. n : f[i] \in 0 .. h
  PROVE  SumFunctionOnSet(f, 1 .. n) \in Int /\ SumFunctionOnSet(f, 1 .. n) <= h * n
<1> DEFINE Upto == {m \in Nat : m <= n => /\ SumFunctionOnSet(f, 1 .. m) \in Int
                                          /\ SumFunctionOnSet(f, 1 .. m) <= h * m}
<1>1. 0 \in Upto
  <2>1. 1 .. 0 = {} /\ h * 0 = 0
    OBVIOUS
  <2> QED
    BY <2>1, SumEmpty
<1>2. ASSUME NEW m \in Nat, m \in Upto PROVE m + 1 \in Upto
  <2> SUFFICES ASSUME m + 1 <= n
               PROVE  /\ SumFunctionOnSet(f, 1 .. m + 1) \in Int
                      /\ SumFunctionOnSet(f, 1 .. m + 1) <= h * (m + 1)
    OBVIOUS
  <2>1. SumFunctionOnSet(f, 1 .. m) \in Int /\ SumFunctionOnSet(f, 1 .. m) <= h * m
    BY <1>2
  <2>2. IsFiniteSet(1 .. m) /\ m + 1 \notin 1 .. m /\ 1 .. m + 1 = (1 .. m) \cup {m + 1}
    BY FS_Interval
  <2>3. \A y \in (1 .. m) \cup {m + 1} : f[y] \in Int
    OBVIOUS
  <2>4. SumFunctionOnSet(f, 1 .. m + 1) = f[m + 1] + SumFunctionOnSet(f, 1 .. m)
    BY <2>2, <2>3, SumAdds
  <2>5. h * (m + 1) = h * m + h /\ h * m \in Int
    OBVIOUS
  <2>6. f[m + 1] \in 0 .. h
    OBVIOUS
  <2> QED
    BY <2>1, <2>4, <2>5, <2>6
<1> HIDE DEF Upto
<1>3. Nat \subseteq Upto
  BY <1>1, <1>2, SetInduction
<1> QED
  BY <1>3 DEF Upto

\* What goes on as long as it may begins at the first.
LEMMA PrefixIsInterval ==
  ASSUME NEW n \in Nat, NEW S, S \subseteq 1 .. n,
         \A i \in S : \A j \in 1 .. n : j <= i => j \in S
  PROVE  \E m \in 0 .. n : S = 1 .. m
<1>1. CASE S = {}
  <2>1. S = 1 .. 0 /\ 0 \in 0 .. n
    BY <1>1
  <2> QED
    BY <2>1
<1>2. CASE S # {}
  <2>1. S \subseteq 0 .. n
    OBVIOUS
  <2>2. PICK m \in S : \A k \in S : k <= m
    BY <1>2, <2>1, GreatestNumber
  <2>3. m \in 1 .. n
    BY <2>2
  <2>4. S \subseteq 1 .. m
    BY <2>2, <2>3
  <2>5. \A j \in 1 .. m : j \in 1 .. n /\ j <= m
    BY <2>3
  <2>6. 1 .. m \subseteq S
    BY <2>2, <2>5
  <2>7. m \in 0 .. n
    BY <2>3
  <2> QED
    BY <2>4, <2>6, <2>7
<1> QED
  BY <1>1, <1>2

\* Sums up to a place.
LEMMA SumsUpTo ==
  ASSUME NEW n \in Nat, NEW f, \A i \in 1 .. n : f[i] \in Nat
  PROVE  /\ SumFunctionOnSet(f, 1 .. 0) = 0
         /\ \A i \in 0 .. n : SumFunctionOnSet(f, 1 .. i) \in Nat
         /\ \A i \in 1 .. n : SumFunctionOnSet(f, 1 .. i) = f[i] + SumFunctionOnSet(f, 1 .. i - 1)
         /\ \A i, j \in 0 .. n : i <= j => SumFunctionOnSet(f, 1 .. i) <= SumFunctionOnSet(f, 1 .. j)
<1>1. SumFunctionOnSet(f, 1 .. 0) = 0
  <2>1. 1 .. 0 = {}
    OBVIOUS
  <2> QED
    BY <2>1, SumEmpty
<1>2. ASSUME NEW j \in 0 .. n
      PROVE  /\ SumFunctionOnSet(f, 1 .. j) \in Nat
             /\ \A i \in 0 .. n : i <= j => SumFunctionOnSet(f, 1 .. i) <= SumFunctionOnSet(f, 1 .. j)
  <2>1. IsFiniteSet(1 .. j) /\ \A i \in 1 .. j : f[i] \in Nat
    BY FS_Interval
  <2>2. \A i \in 0 .. n : i <= j => 1 .. i \in SUBSET (1 .. j)
    OBVIOUS
  <2>3. /\ SumFunctionOnSet(f, 1 .. j) \in Nat
        /\ \A T \in SUBSET (1 .. j) : SumFunctionOnSet(f, T) <= SumFunctionOnSet(f, 1 .. j)
    BY <2>1, SumGrows
  <2> QED
    BY <2>2, <2>3
<1>3. ASSUME NEW i \in 1 .. n
      PROVE  SumFunctionOnSet(f, 1 .. i) = f[i] + SumFunctionOnSet(f, 1 .. i - 1)
  <2>1. IsFiniteSet(1 .. i) /\ (\A k \in 1 .. i : f[k] \in Int) /\ i \in 1 .. i
    BY FS_Interval
  <2>2. (1 .. i) \ {i} = 1 .. i - 1
    OBVIOUS
  <2>3. SumFunctionOnSet(f, 1 .. i) = f[i] + SumFunctionOnSet(f, (1 .. i) \ {i})
    BY <2>1, SumSplits
  <2> QED
    BY <2>2, <2>3
<1> QED
  BY <1>1, <1>2, <1>3

\* What is smaller everywhere is smaller in sum.
LEMMA SumBelow ==
  ASSUME NEW f, NEW g, NEW S, IsFiniteSet(S), \A x \in S : f[x] \in Int /\ g[x] \in Int /\ f[x] <= g[x]
  PROVE  SumFunctionOnSet(f, S) <= SumFunctionOnSet(g, S)
<1> DEFINE Upto == {n \in Nat : \A T \in SUBSET S :
                      Cardinality(T) = n => SumFunctionOnSet(f, T) <= SumFunctionOnSet(g, T)}
<1>1. \A T \in SUBSET S : IsFiniteSet(T) /\ Cardinality(T) \in Nat
  BY FS_Subset, FS_CardinalityType
<1>2. 0 \in Upto
  <2>1. \A T \in SUBSET S : Cardinality(T) = 0 => T = {}
    BY <1>1, FS_EmptySet
  <2>2. SumFunctionOnSet(f, {}) <= SumFunctionOnSet(g, {})
    BY SumEmpty
  <2> QED
    BY <2>1, <2>2
<1>3. ASSUME NEW n \in Nat, n \in Upto
      PROVE  n + 1 \in Upto
  <2> SUFFICES ASSUME NEW T \in SUBSET S, Cardinality(T) = n + 1
               PROVE  SumFunctionOnSet(f, T) <= SumFunctionOnSet(g, T)
    OBVIOUS
  <2>1. T # {} /\ IsFiniteSet(T)
    BY <1>1, FS_EmptySet
  <2>2. PICK x \in T : TRUE
    BY <2>1
  <2>3. T \ {x} \in SUBSET S /\ Cardinality(T \ {x}) = n
    <3>1. Cardinality(T \ {x}) = IF x \in T THEN Cardinality(T) - 1 ELSE Cardinality(T)
      BY <2>1, FS_RemoveElement, Zenon
    <3> QED
      BY <2>2, <3>1
  <2>4. SumFunctionOnSet(f, T \ {x}) <= SumFunctionOnSet(g, T \ {x})
    BY <1>3, <2>3
  <2>5. \A y \in T : f[y] \in Int /\ g[y] \in Int
    OBVIOUS
  <2>6. SumFunctionOnSet(f, T) = f[x] + SumFunctionOnSet(f, T \ {x})
    BY <2>1, <2>5, SumSplits
  <2>7. SumFunctionOnSet(g, T) = g[x] + SumFunctionOnSet(g, T \ {x})
    BY <2>1, <2>5, SumSplits
  <2>8. IsFiniteSet(T \ {x}) /\ \A y \in T \ {x} : f[y] \in Int /\ g[y] \in Int
    BY <1>1, <2>3
  <2>9. SumFunctionOnSet(f, T \ {x}) \in Int /\ SumFunctionOnSet(g, T \ {x}) \in Int
    BY <2>8, SumInt
  <2>10. f[x] \in Int /\ g[x] \in Int /\ f[x] <= g[x]
    OBVIOUS
  <2> QED
    BY <2>4, <2>6, <2>7, <2>9, <2>10
<1>4. Nat \subseteq Upto
  <2> HIDE DEF Upto
  <2> QED
    BY <1>2, <1>3, SetInduction
<1> QED
  BY <1>1, <1>4

\* Shares of at most what was there, none beyond what was left at its place, come
\* to no more than all there was to give.
LEMMA SharesFit ==
  ASSUME NEW n \in Nat, NEW f, \A i \in 1 .. n : f[i] \in Nat, NEW b \in Nat, NEW m \in 0 .. n,
         NEW g, \A i \in 1 .. m : g[i] \in Nat /\ g[i] <= f[i] /\ g[i] <= b - SumFunctionOnSet(f, 1 .. i - 1)
  PROVE  SumFunctionOnSet(g, 1 .. m) \in Nat /\ SumFunctionOnSet(g, 1 .. m) <= b
<1>1. m \in Nat /\ \A i \in 1 .. m : g[i] \in Nat
  OBVIOUS
<1>2. SumFunctionOnSet(g, 1 .. m) \in Nat
  <2>1. m \in 0 .. m
    BY <1>1
  <2> QED
    BY <1>1, <2>1, SumsUpTo, Zenon
<1>3. CASE m = 0
  <2>1. SumFunctionOnSet(g, 1 .. 0) = 0
    BY <1>1, SumsUpTo, Zenon
  <2> QED
    BY <1>2, <1>3, <2>1
<1>4. CASE m # 0
  <2>1. m \in 1 .. m /\ m - 1 \in 0 .. m /\ m - 1 \in 0 .. n
    BY <1>1, <1>4
  <2>2. SumFunctionOnSet(g, 1 .. m) = g[m] + SumFunctionOnSet(g, 1 .. m - 1)
    BY <1>1, <2>1, SumsUpTo, Zenon
  <2>3. SumFunctionOnSet(g, 1 .. m - 1) <= SumFunctionOnSet(f, 1 .. m - 1)
    <3>1. IsFiniteSet(1 .. m - 1)
      BY <1>1, FS_Interval
    <3>2. \A i \in 1 .. m - 1 : i \in 1 .. m /\ i \in 1 .. n
      BY <1>1
    <3>3. \A i \in 1 .. m - 1 : g[i] \in Int /\ f[i] \in Int /\ g[i] <= f[i]
      BY <3>2
    <3> QED
      BY <3>1, <3>3, SumBelow
  <2>4. SumFunctionOnSet(g, 1 .. m - 1) \in Nat /\ SumFunctionOnSet(f, 1 .. m - 1) \in Nat
    BY <1>1, <2>1, SumsUpTo, Zenon
  <2>5. g[m] \in Nat /\ g[m] <= b - SumFunctionOnSet(f, 1 .. m - 1)
    BY <2>1
  <2> QED
    BY <1>2, <2>2, <2>3, <2>4, <2>5
<1> QED
  BY <1>2, <1>3, <1>4

=============================================================================
