----------------------------- MODULE ScanProofs -----------------------------
(***************************************************************************)
(* Proofs about SCAN, for any scanners, keys, patterns, counts, cursors    *)
(* and limits: a traversal returns every name once, cursors last, and the  *)
(* session manager keeps to its budget.                                    *)
(***************************************************************************)
EXTENDS ScanSessions, Induction, FiniteSetTheorems

----------------------------------------------------------------------------
(***************************************************************************)
(* Sums over sets of sessions.                                             *)
(***************************************************************************)
\* Among subsets of a finite set there is a minimal one.
LEMMA MinimalSubset ==
  ASSUME NEW U, IsFiniteSet(U), NEW B, B \subseteq SUBSET U, B # {}
  PROVE  \E T \in B : \A t \in T : T \ {t} \notin B
<1>1. IsWellFoundedOn(StrictSubsetOrdering(U), SUBSET U)
  BY Zenon, FS_StrictSubsetOrderingWellFounded, FS_FiniteSubsetsOfFinite
<1>2. PICK T \in B : \A S \in B : ~(<<S, T>> \in StrictSubsetOrdering(U))
  BY Zenon, <1>1, WFMin
<1>3. ASSUME NEW t \in T, T \ {t} \in B PROVE FALSE
  <2>1. T \in SUBSET U /\ T \ {t} \in SUBSET U /\ T \ {t} \subseteq T /\ T \ {t} # T
    BY <1>3
  <2>2. <<T \ {t}, T>> \in StrictSubsetOrdering(U)
    BY <2>1 DEF StrictSubsetOrdering
  <2> QED
    BY Zenon, <1>2, <1>3, <2>2
<1> QED
  BY Zenon, <1>3

\* Induction over the subsets of a finite set.
LEMMA SubsetInduction ==
  ASSUME NEW U, IsFiniteSet(U), NEW A, {} \in A,
         \A T \in SUBSET U : T # {} /\ (\A t \in T : T \ {t} \in A) => T \in A
  PROVE  SUBSET U \subseteq A
<1> DEFINE B == {T \in SUBSET U : T \notin A}
<1>1. SUFFICES ASSUME B # {} PROVE FALSE
  BY Zenon
<1>2. B \subseteq SUBSET U
  BY Zenon
<1>3. PICK T \in B : \A t \in T : T \ {t} \notin B
  <2> HIDE DEF B
  <2> QED
    BY Zenon, <1>1, <1>2, MinimalSubset
<1>4. T \in SUBSET U /\ T \notin A
  BY Zenon
<1>5. ASSUME NEW t \in T PROVE T \ {t} \in A
  <2>1. T \ {t} \in SUBSET U
    BY Zenon, <1>4
  <2> QED
    BY Zenon, <1>3, <2>1
<1> QED
  BY Zenon, <1>4, <1>5

\* Natural numbers for the elements of a set.
Weights(U) == [U -> Nat]

\* f gives every subset of U the sum of the weights of its elements.
Additive(f, U, w) ==
  /\ f \in [SUBSET U -> Nat] /\ f[{}] = 0
  /\ \A T \in SUBSET U : \A t \in T : f[T] = f[T \ {t}] + w[t]

\* There is such a function for every finite set and its weights.
LEMMA AdditiveExists ==
  ASSUME NEW U, IsFiniteSet(U), NEW w \in Weights(U)
  PROVE  \E f : Additive(f, U, w)
<1> DEFINE A == {T \in SUBSET U : \E f : Additive(f, T, w)}
<1>1. {} \in A
  <2>1. Additive([T \in SUBSET {} |-> 0], {}, w)
    BY DEF Additive
  <2> QED
    BY <2>1
<1>2. ASSUME NEW V \in SUBSET U, V # {}, \A v \in V : V \ {v} \in A
      PROVE  V \in A
  <2>0. PICK v \in V : TRUE
    BY <1>2
  <2>1. PICK f : Additive(f, V \ {v}, w)
    BY Zenon, <1>2
  <2>2. /\ f \in [SUBSET (V \ {v}) -> Nat] /\ f[{}] = 0
        /\ \A T \in SUBSET (V \ {v}) : \A t \in T : f[T] = f[T \ {t}] + w[t]
    BY Zenon, <2>1 DEF Additive
  <2> DEFINE g == [T \in SUBSET V |-> IF v \in T THEN f[T \ {v}] + w[v] ELSE f[T]]
  <2>3. w[v] \in Nat /\ \A t \in V : w[t] \in Nat
    BY <1>2 DEF Weights
  <2>4. g \in [SUBSET V -> Nat]
    <3>1. ASSUME NEW T \in SUBSET V
          PROVE  (IF v \in T THEN f[T \ {v}] + w[v] ELSE f[T]) \in Nat
      <4>1. CASE v \in T
        <5>1. T \ {v} \in SUBSET (V \ {v})
          OBVIOUS
        <5>2. f[T \ {v}] \in Nat
          BY Zenon, <2>2, <5>1
        <5> QED
          BY <2>3, <4>1, <5>2
      <4>2. CASE v \notin T
        <5>1. T \in SUBSET (V \ {v})
          BY <4>2
        <5> QED
          BY Zenon, <2>2, <4>2, <5>1
      <4> QED
        BY Zenon, <4>1, <4>2
    <3> QED
      BY Zenon, <3>1
  <2>5. g[{}] = 0
    BY Zenon, <2>2
  <2>6. ASSUME NEW T \in SUBSET V, NEW t \in T
        PROVE  g[T] = g[T \ {t}] + w[t]
    <3>0. T \ {t} \in SUBSET V
      OBVIOUS
    <3>1. CASE t = v
      BY Zenon, <3>0, <3>1
    <3>2. CASE t # v /\ v \in T
      <4>1. /\ T \ {v} \in SUBSET (V \ {v}) /\ t \in T \ {v} /\ v \in T \ {t}
            /\ (T \ {v}) \ {t} = (T \ {t}) \ {v}
            /\ (T \ {v}) \ {t} \in SUBSET (V \ {v})
        BY <3>2
      <4>2. f[T \ {v}] = f[(T \ {t}) \ {v}] + w[t] /\ f[(T \ {t}) \ {v}] \in Nat
        BY Zenon, <2>2, <4>1
      <4>3. g[T] = f[T \ {v}] + w[v] /\ g[T \ {t}] = f[(T \ {t}) \ {v}] + w[v]
        BY Zenon, <3>0, <3>2, <4>1
      <4>4. w[t] \in Nat
        BY <2>3
      <4> HIDE DEF g
      <4> QED
        BY <2>3, <4>2, <4>3, <4>4
    <3>3. CASE v \notin T
      <4>1. T \in SUBSET (V \ {v}) /\ v \notin T \ {t}
        BY <3>3
      <4>2. g[T] = f[T] /\ g[T \ {t}] = f[T \ {t}]
        BY Zenon, <3>0, <3>3, <4>1
      <4> QED
        BY Zenon, <2>2, <4>1, <4>2
    <3> QED
      BY Zenon, <3>1, <3>2, <3>3
  <2>7. Additive(g, V, w)
    <3> HIDE DEF g
    <3> QED
      BY Zenon, <2>4, <2>5, <2>6 DEF Additive
  <2> QED
    BY Zenon, <2>7
<1>3. U \in A
  <2> HIDE DEF A
  <2>1. SUBSET U \subseteq A
    BY Zenon, <1>1, <1>2, SubsetInduction
  <2> QED
    BY <2>1
<1> QED
  BY Zenon, <1>3

\* It is what adding up the weights, in any order, gives.
LEMMA SumIsAdditive ==
  ASSUME NEW U, IsFiniteSet(U), NEW w \in Weights(U), NEW f, Additive(f, U, w),
         NEW T \in SUBSET U, NEW ss, \A t \in T : ss[t].bytes = w[t]
  PROVE  SumBytes(ss, T) = f[T]
<1> DEFINE Unfold(s) == [S \in SUBSET T |->
                          IF S = {} THEN 0
                          ELSE ss[CHOOSE x \in S : TRUE].bytes + s[S \ {CHOOSE x \in S : TRUE}]]
           iter == CHOOSE s : s = Unfold(s)
<1>1. SumBytes(ss, T) = iter[T]
  BY Zenon DEF SumBytes, MapThenSumSet, MapThenFoldSet
<1>2. f \in [SUBSET U -> Nat] /\ f[{}] = 0
      /\ \A S \in SUBSET U : \A t \in S : f[S] = f[S \ {t}] + w[t]
  BY Zenon DEF Additive
<1> DEFINE g == [S \in SUBSET T |-> f[S]]
<1>3. g = Unfold(g)
  <2>1. ASSUME NEW S \in SUBSET T
        PROVE  f[S] = IF S = {} THEN 0
                      ELSE ss[CHOOSE x \in S : TRUE].bytes + g[S \ {CHOOSE x \in S : TRUE}]
    <3>1. CASE S = {}
      BY <1>2, <3>1
    <3>2. CASE S # {}
      <4> DEFINE x == CHOOSE x \in S : TRUE
      <4>1. x \in S
        BY <3>2
      <4> HIDE DEF x
      <4>2. S \ {x} \in SUBSET T /\ S \in SUBSET U /\ S \ {x} \in SUBSET U /\ x \in T /\ x \in U
        BY <4>1
      <4>3. f[S] = f[S \ {x}] + w[x] /\ f[S \ {x}] \in Nat /\ ss[x].bytes = w[x] /\ w[x] \in Nat
        BY Zenon, <1>2, <4>1, <4>2 DEF Weights
      <4>4. g[S \ {x}] = f[S \ {x}]
        BY Zenon, <4>2
      <4> HIDE DEF g
      <4>5. f[S] = ss[x].bytes + g[S \ {x}]
        BY <4>3, <4>4
      <4> QED
        BY Zenon, <3>2, <4>5 DEF x
    <3> QED
      BY Zenon, <3>1, <3>2
  <2> QED
    BY Zenon, <2>1
<1>4. iter = Unfold(iter)
  <2> HIDE DEF Unfold, g
  <2> QED
    BY Zenon, <1>3
<1>5. \A S \in SUBSET T : iter[S] = f[S]
  <2> DEFINE A == {S \in SUBSET T : iter[S] = f[S]}
  <2>1. IsFiniteSet(T)
    BY Zenon, FS_Subset
  <2> HIDE DEF iter
  <2>2. {} \in A
    BY Zenon, <1>2, <1>4
  <2>3. ASSUME NEW S \in SUBSET T, S # {}, \A u \in S : S \ {u} \in A
        PROVE  S \in A
    <3> DEFINE x == CHOOSE x \in S : TRUE
    <3>1. x \in S
      BY Zenon, <2>3
    <3>2. iter[S] = ss[x].bytes + iter[S \ {x}]
      BY Zenon, <1>4, <2>3
    <3> HIDE DEF x
    <3>3. iter[S \ {x}] = f[S \ {x}]
      BY Zenon, <2>3, <3>1
    <3>4. S \ {x} \in SUBSET U /\ S \in SUBSET U /\ x \in T /\ x \in U
      BY <3>1
    <3>5. f[S] = f[S \ {x}] + w[x] /\ f[S \ {x}] \in Nat /\ ss[x].bytes = w[x] /\ w[x] \in Nat
      BY Zenon, <1>2, <3>1, <3>4 DEF Weights
    <3> QED
      BY <3>2, <3>3, <3>5
  <2>4. SUBSET T \subseteq A
    <3> HIDE DEF A
    <3> QED
      BY Zenon, <2>1, <2>2, <2>3, SubsetInduction
  <2> QED
    BY <2>4
<1> QED
  BY Zenon, <1>1, <1>5

\* The sums of two disjoint sets.
LEMMA AdditiveSplits ==
  ASSUME NEW U, IsFiniteSet(U), NEW w \in Weights(U), NEW f, Additive(f, U, w),
         NEW D, D \subseteq U, NEW E, E \subseteq D
  PROVE  f[D] = f[D \ E] + f[E]
<1>1. f \in [SUBSET U -> Nat] /\ f[{}] = 0
      /\ \A S \in SUBSET U : \A t \in S : f[S] = f[S \ {t}] + w[t]
  BY Zenon DEF Additive
<1>2. D \ E \in SUBSET U /\ E \in SUBSET U
  OBVIOUS
<1> DEFINE A == {S \in SUBSET E : f[(D \ E) \cup S] = f[D \ E] + f[S]}
<1>3. {} \in A
  <2>1. (D \ E) \cup {} = D \ E /\ f[D \ E] \in Nat
    BY <1>1, <1>2
  <2> QED
    BY <1>1, <2>1
<1>4. ASSUME NEW S \in SUBSET E, S # {}, \A t \in S : S \ {t} \in A
      PROVE  S \in A
  <2>1. PICK t \in S : TRUE
    BY <1>4
  <2> DEFINE X == (D \ E) \cup S
             Y == (D \ E) \cup (S \ {t})
  <2>2. /\ S \in SUBSET U /\ S \ {t} \in SUBSET U /\ t \in U
        /\ X \in SUBSET U /\ t \in X /\ X \ {t} = Y
    OBVIOUS
  <2>3. f[Y] = f[D \ E] + f[S \ {t}]
    BY Zenon, <1>4
  <2> HIDE DEF X, Y
  <2>4. f[X] = f[Y] + w[t] /\ f[S] = f[S \ {t}] + w[t]
    BY Zenon, <1>1, <2>2
  <2>5. f[D \ E] \in Nat /\ f[S \ {t}] \in Nat /\ w[t] \in Nat
    BY Zenon, <1>1, <1>2, <2>2 DEF Weights
  <2>6. f[X] = f[D \ E] + f[S]
    BY <2>3, <2>4, <2>5
  <2> QED
    BY <2>6 DEF X
<1>5. E \in A
  <2>1. IsFiniteSet(E)
    BY Zenon, <1>2, FS_Subset
  <2> HIDE DEF A
  <2>2. SUBSET E \subseteq A
    BY Zenon, <1>3, <1>4, <2>1, SubsetInduction
  <2> QED
    BY <2>2
<1>6. (D \ E) \cup E = D
  OBVIOUS
<1> QED
  BY Zenon, <1>1, <1>2, <1>5, <1>6

\* left holds, for the cursors R, what remains of the sessions ss for the cursors D
\* without those for E.
Remains(ss, D, E, left, R) ==
  /\ D \subseteq Tokens /\ E \subseteq D /\ R = D \ E
  /\ \A t \in D : ss[t].bytes \in Nat
  /\ \A t \in R : left[t] = ss[t]

\* The remaining sessions account for the difference.
LEMMA SumOfRest ==
  ASSUME NEW ss, NEW D, NEW E, NEW left, NEW R, Remains(ss, D, E, left, R)
  PROVE  /\ SumBytes(ss, D) = SumBytes(left, R) + SumBytes(ss, E)
         /\ SumBytes(left, R) \in Nat /\ SumBytes(ss, E) \in Nat
<1> DEFINE U == Tokens
           w == [t \in U |-> IF t \in D THEN ss[t].bytes ELSE 0]
<1>0. /\ D \subseteq U /\ E \subseteq D /\ R = D \ E
      /\ \A t \in D : ss[t].bytes \in Nat
      /\ \A t \in R : left[t] = ss[t]
  BY Zenon DEF Remains
<1>1. w \in Weights(U) /\ \A t \in D : ss[t].bytes = w[t]
  BY <1>0 DEF Weights
<1>2. R \in SUBSET U /\ D \in SUBSET U /\ E \in SUBSET U
  BY <1>0
<1>3. IsFiniteSet(U)
  BY Zenon, TokensAssumption
<1> HIDE DEF w, U
<1>4. PICK f : Additive(f, U, w)
  BY Zenon, <1>1, <1>3, AdditiveExists
<1>5. SumBytes(ss, D) = f[D]
  BY <1>1, <1>2, <1>3, <1>4, SumIsAdditive
<1>6. SumBytes(ss, E) = f[E]
  <2>1. \A t \in E : ss[t].bytes = w[t]
    BY <1>0, <1>1
  <2> QED
    BY <1>1, <1>2, <1>3, <1>4, <2>1, SumIsAdditive
<1>7. SumBytes(left, R) = f[R]
  <2>1. \A t \in R : left[t].bytes = w[t]
    BY <1>0, <1>1
  <2> QED
    BY <1>1, <1>2, <1>3, <1>4, <2>1, SumIsAdditive
<1>8. f[D] = f[R] + f[E]
  <2>1. f[D] = f[D \ E] + f[E]
    BY <1>0, <1>1, <1>3, <1>4, AdditiveSplits
  <2> QED
    BY Zenon, <1>0, <2>1
<1>9. f[R] \in Nat /\ f[E] \in Nat
  BY Zenon, <1>2, <1>4 DEF Additive
<1> QED
  BY Zenon, <1>5, <1>6, <1>7, <1>8, <1>9

\* The sum over one cursor, and over none.
LEMMA SumOfOne ==
  ASSUME NEW ss, NEW t, ss[t].bytes \in Nat
  PROVE  SumBytes(ss, {t}) = ss[t].bytes /\ SumBytes(ss, {}) = 0
<1> DEFINE w == [u \in {t} |-> ss[t].bytes]
<1>1. w \in Weights({t}) /\ IsFiniteSet({t}) /\ \A u \in {t} : ss[u].bytes = w[u]
  BY FS_Singleton DEF Weights
<1>2. w[t] = ss[t].bytes
  OBVIOUS
<1> HIDE DEF w
<1>3. PICK f : Additive(f, {t}, w)
  BY Zenon, <1>1, AdditiveExists
<1>4. {t} \in SUBSET {t} /\ {} \in SUBSET {t} /\ t \in {t} /\ {t} \ {t} = {}
  OBVIOUS
<1>5. SumBytes(ss, {t}) = f[{t}]
  BY <1>1, <1>3, <1>4, SumIsAdditive
<1>6. SumBytes(ss, {}) = f[{}]
  BY <1>1, <1>3, <1>4, SumIsAdditive
<1>7. f[{}] = 0 /\ f[{t}] = f[{}] + w[t]
  BY Zenon, <1>3, <1>4 DEF Additive
<1> QED
  BY <1>2, <1>5, <1>6, <1>7

----------------------------------------------------------------------------
(***************************************************************************)
(* What a session costs.                                                   *)
(***************************************************************************)
\* The limits are natural numbers.
LEMMA LimitsAreNaturals ==
  /\ SessionTTL \in Nat /\ MaxSessions \in Nat /\ MaxBytes \in Nat /\ StringBytes \in Nat
  /\ SessionOverhead \in Nat /\ PatternLen \in Nat /\ MaxUint \in Nat /\ MaxBytes < MaxUint
  BY LimitsAssumption

\* Products with a natural number.
LEMMA Products ==
  ASSUME NEW a \in Nat, NEW s \in Nat
  PROVE  a * s \in Nat /\ (a + 1) * s = a * s + s
  OBVIOUS

\* Products of naturals are monotonic.
LEMMA ProductsGrow ==
  ASSUME NEW a \in Nat, NEW b \in Nat, a <= b, NEW s \in Nat
  PROVE  a * s <= b * s
<1>1. b = a + (b - a) /\ b - a \in Nat
  OBVIOUS
<1>2. (a + (b - a)) * s = a * s + (b - a) * s /\ (b - a) * s \in Nat /\ a * s \in Nat
  BY <1>1
<1> QED
  BY <1>1, <1>2

\* scanSaturatingAdd is exact, or at its limit.
LEMMA AddSaturates ==
  ASSUME NEW a \in Nat, NEW b \in Nat
  PROVE  /\ ScanSaturatingAdd(a, b) \in Nat
         /\ ScanSaturatingAdd(a, b) = MaxUint \/ ScanSaturatingAdd(a, b) = a + b
  BY LimitsAssumption DEF ScanSaturatingAdd

\* scanSaturatingMultiply too.
LEMMA MultiplySaturates ==
  ASSUME NEW a \in Nat, NEW b \in Nat
  PROVE  /\ ScanSaturatingMultiply(a, b) \in Nat
         /\ ScanSaturatingMultiply(a, b) = MaxUint \/ ScanSaturatingMultiply(a, b) = a * b
<1>1. a * b \in Nat /\ MaxUint \in Nat
  BY LimitsAssumption
<1> QED
  BY Zenon, <1>1 DEF ScanSaturatingMultiply

\* The loop of scanSessionBytes over the names.
KeyBytes(keys) ==
  LET sum[i \in 0..Len(keys)] ==
        IF i = 0 THEN 0 ELSE ScanSaturatingAdd(sum[i - 1], KeyLen[keys[i]])
  IN sum

\* The bytes of a list of names, as ScanSessionBytes adds them, ...
LEMMA KeyBytesIterates ==
  ASSUME NEW keys \in Seq(Keys)
  PROVE  /\ KeyBytes(keys) \in [0..Len(keys) -> Nat] /\ KeyBytes(keys)[0] = 0
         /\ \A i \in 1..Len(keys) :
              KeyBytes(keys)[i] = ScanSaturatingAdd(KeyBytes(keys)[i - 1], KeyLen[keys[i]])
<1> DEFINE n == Len(keys)
           step == [p \in Nat \X (1..n) |-> ScanSaturatingAdd(p[1], KeyLen[keys[p[2]]])]
           Unfold(f) == [i \in 0..n |->
                           IF i = 0 THEN 0 ELSE ScanSaturatingAdd(f[i - 1], KeyLen[keys[i]])]
           r == CHOOSE f : f = Unfold(f)
<1>1. n \in Nat /\ \A i \in 1..n : KeyLen[keys[i]] \in Nat
  BY KeysAssumption
<1>2. KeyBytes(keys) = r
  BY Zenon DEF KeyBytes
<1> HIDE DEF n
<1>3. /\ step \in Steps(Nat, n)
      /\ \A s \in Nat, i \in 1..n : step[<<s, i>>] = ScanSaturatingAdd(s, KeyLen[keys[i]])
  <2>1. \A s \in Nat, i \in 1..n : ScanSaturatingAdd(s, KeyLen[keys[i]]) \in Nat
    BY Zenon, <1>1, AddSaturates
  <2> QED
    BY Zenon, <2>1 DEF Steps
<1> HIDE DEF step
<1>4. PICK f : Iterates(f, Nat, 0, step, n)
  BY Zenon, <1>1, <1>3, IterationExists
<1>5. f \in [0..n -> Nat] /\ f[0] = 0 /\ \A i \in 1..n : f[i] = step[<<f[i - 1], i>>]
  BY Zenon, <1>4 DEF Iterates
<1>6. \A i \in 1..n : f[i] = ScanSaturatingAdd(f[i - 1], KeyLen[keys[i]])
  <2>1. \A i \in 1..n : f[i - 1] \in Nat
    BY <1>1, <1>5
  <2> QED
    BY Zenon, <1>3, <1>5, <2>1
<1>7. f = Unfold(f)
  BY <1>1, <1>5, <1>6
<1>8. r = Unfold(r)
  <2> HIDE DEF Unfold
  <2> QED
    BY Zenon, <1>7
<1> HIDE DEF r
<1>9. r[0] = 0 /\ \A i \in 1..n : r[i] = ScanSaturatingAdd(r[i - 1], KeyLen[keys[i]])
  BY <1>1, <1>8
<1>10. \A i \in 0..n : r[i] \in Nat
  <2> DEFINE A == {i \in 0..n : r[i] \in Nat}
  <2>1. 0 \in A
    BY <1>1, <1>9
  <2>2. ASSUME NEW i \in 1..n, i - 1 \in A
        PROVE  i \in A
    <3>1. r[i - 1] \in Nat /\ i \in 0..n
      BY <1>1, <2>2
    <3>2. r[i] \in Nat
      BY Zenon, <1>1, <1>9, <3>1, AddSaturates
    <3> QED
      BY <3>1, <3>2
  <2>3. 0..n \subseteq A
    <3> HIDE DEF A
    <3> QED
      BY Zenon, <1>1, <2>1, <2>2, UptoInductionSet
  <2> QED
    BY <2>3
<1>11. r \in [0..n -> Nat]
  BY <1>8, <1>10
<1> QED
  BY Zenon, <1>2, <1>9, <1>11 DEF n

\* The loop of Cost.
Costs(keys) ==
  LET cost[i \in 0..Len(keys)] ==
        IF i = 0 THEN 0 ELSE cost[i - 1] + KeyLen[keys[i]] + StringBytes
  IN cost

\* ... and as they really are.
LEMMA CostsIterates ==
  ASSUME NEW keys \in Seq(Keys)
  PROVE  /\ Costs(keys) \in [0..Len(keys) -> Nat] /\ Costs(keys)[0] = 0
         /\ \A i \in 1..Len(keys) :
              Costs(keys)[i] = Costs(keys)[i - 1] + KeyLen[keys[i]] + StringBytes
<1> DEFINE n == Len(keys)
           step == [p \in Nat \X (1..n) |-> p[1] + KeyLen[keys[p[2]]] + StringBytes]
           Unfold(f) == [i \in 0..n |->
                           IF i = 0 THEN 0 ELSE f[i - 1] + KeyLen[keys[i]] + StringBytes]
           r == CHOOSE f : f = Unfold(f)
<1>1. n \in Nat /\ StringBytes \in Nat /\ \A i \in 1..n : KeyLen[keys[i]] \in Nat
  BY KeysAssumption, LimitsAreNaturals
<1>2. Costs(keys) = r
  BY Zenon DEF Costs
<1> HIDE DEF n
<1>3. /\ step \in Steps(Nat, n)
      /\ \A s \in Nat, i \in 1..n : step[<<s, i>>] = s + KeyLen[keys[i]] + StringBytes
  <2>1. \A s \in Nat, i \in 1..n : s + KeyLen[keys[i]] + StringBytes \in Nat
    BY <1>1
  <2> QED
    BY Zenon, <2>1 DEF Steps
<1> HIDE DEF step
<1>4. PICK f : Iterates(f, Nat, 0, step, n)
  BY Zenon, <1>1, <1>3, IterationExists
<1>5. f \in [0..n -> Nat] /\ f[0] = 0 /\ \A i \in 1..n : f[i] = step[<<f[i - 1], i>>]
  BY Zenon, <1>4 DEF Iterates
<1>6. \A i \in 1..n : f[i] = f[i - 1] + KeyLen[keys[i]] + StringBytes
  <2>1. \A i \in 1..n : f[i - 1] \in Nat
    BY <1>1, <1>5
  <2> QED
    BY Zenon, <1>3, <1>5, <2>1
<1>7. f = Unfold(f)
  BY <1>1, <1>5, <1>6
<1>8. r = Unfold(r)
  <2> HIDE DEF Unfold
  <2> QED
    BY Zenon, <1>7
<1> HIDE DEF r
<1>9. r[0] = 0 /\ \A i \in 1..n : r[i] = r[i - 1] + KeyLen[keys[i]] + StringBytes
  BY <1>1, <1>8
<1>10. \A i \in 0..n : r[i] \in Nat
  <2> DEFINE A == {i \in 0..n : r[i] \in Nat}
  <2>1. 0 \in A
    BY <1>1, <1>9
  <2>2. ASSUME NEW i \in 1..n, i - 1 \in A
        PROVE  i \in A
    <3>1. r[i - 1] \in Nat /\ i \in 0..n
      BY <1>1, <2>2
    <3>2. r[i] \in Nat
      BY <1>1, <1>9, <3>1
    <3> QED
      BY <3>1, <3>2
  <2>3. 0..n \subseteq A
    <3> HIDE DEF A
    <3> QED
      BY Zenon, <1>1, <2>1, <2>2, UptoInductionSet
  <2> QED
    BY <2>3
<1>11. r \in [0..n -> Nat]
  BY <1>8, <1>10
<1> QED
  BY Zenon, <1>2, <1>9, <1>11 DEF n

\* One name more, and all of a session: as sums of numbers.
LEMMA CoverStep ==
  ASSUME NEW b \in Nat, NEW bb \in Nat, NEW d \in Nat, NEW dd \in Nat, NEW l \in Nat,
         NEW p \in Nat, NEW s \in Nat, NEW m \in Nat,
         b >= m \/ d <= b + p, bb = m \/ bb = b + l, dd = d + l + s
  PROVE  bb >= m \/ dd <= bb + (p + s)
  OBVIOUS

\* An estimate that did not saturate covers what it estimates.
LEMMA CoverAll ==
  ASSUME NEW b \in Nat, NEW d \in Nat, NEW h \in Nat, NEW x \in Nat, NEW y \in Nat,
         NEW z \in Nat, NEW p \in Nat, NEW q \in Nat, NEW m \in Nat, NEW l \in Nat, NEW o \in Nat,
         p <= q, b >= m \/ d <= b + p, h = m \/ h = q, x = m \/ x = h + b,
         y = m \/ y = x + l, z = m \/ z = y + o
  PROVE  z < m => d <= z
  OBVIOUS

\* A size that is not at the limit covers the names and their headers: a slice
\* has room for at least its elements.
LEMMA SizeCoversCost ==
  ASSUME NEW session, NEW keys \in Seq(Keys), session.keys = keys,
         NEW cap \in Nat
  PROVE  /\ ScanSessionBytes(keys, cap) \in Nat
         /\ Len(keys) <= cap /\ ScanSessionBytes(keys, cap) < MaxUint
              => Cost(session) <= ScanSessionBytes(keys, cap)
<1> DEFINE n == Len(keys)
           b == KeyBytes(keys)
           d == Costs(keys)
           h == ScanSaturatingMultiply(cap, StringBytes)
           x == ScanSaturatingAdd(h, b[n])
           y == ScanSaturatingAdd(x, PatternLen)
           z == ScanSaturatingAdd(y, SessionOverhead)
<1>1. n \in Nat /\ MaxUint \in Nat /\ StringBytes \in Nat /\ PatternLen \in Nat
      /\ SessionOverhead \in Nat /\ \A i \in 1..n : KeyLen[keys[i]] \in Nat
  <2>1. n \in Nat /\ \A i \in 1..n : keys[i] \in Keys
    OBVIOUS
  <2>2. \A i \in 1..n : KeyLen[keys[i]] \in Nat
    BY Zenon, <2>1, KeysAssumption
  <2> QED
    BY Zenon, <2>1, <2>2, LimitsAreNaturals
<1>2. /\ b \in [0..n -> Nat] /\ b[0] = 0
      /\ \A i \in 1..n : b[i] = ScanSaturatingAdd(b[i - 1], KeyLen[keys[i]])
  BY Zenon, KeyBytesIterates
<1>3. /\ d \in [0..n -> Nat] /\ d[0] = 0
      /\ \A i \in 1..n : d[i] = d[i - 1] + KeyLen[keys[i]] + StringBytes
  BY Zenon, CostsIterates
<1>4. Cost(session) = d[n]
  BY Zenon DEF Cost, Costs
<1>5. ScanSessionBytes(keys, cap) = z
  BY Zenon DEF ScanSessionBytes, KeyBytes
<1> HIDE DEF n, b, d
<1>6. \A i \in 0..n : b[i] >= MaxUint \/ d[i] <= b[i] + i * StringBytes
  <2> DEFINE A == {i \in 0..n : b[i] >= MaxUint \/ d[i] <= b[i] + i * StringBytes}
  <2>1. 0 \in A
    BY <1>1, <1>2, <1>3
  <2>2. ASSUME NEW i \in 1..n, i - 1 \in A
        PROVE  i \in A
    <3>1. /\ i \in 0..n /\ i - 1 \in 0..n /\ b[i - 1] \in Nat /\ b[i] \in Nat
          /\ d[i - 1] \in Nat /\ d[i] \in Nat /\ KeyLen[keys[i]] \in Nat
      BY <1>1, <1>2, <1>3
    <3>2. b[i] = MaxUint \/ b[i] = b[i - 1] + KeyLen[keys[i]]
      BY Zenon, <1>2, <3>1, AddSaturates
    <3>3. d[i] = d[i - 1] + KeyLen[keys[i]] + StringBytes
      BY <1>3
    <3>4. b[i - 1] >= MaxUint \/ d[i - 1] <= b[i - 1] + (i - 1) * StringBytes
      BY <2>2
    <3>5. i * StringBytes = (i - 1) * StringBytes + StringBytes /\ (i - 1) * StringBytes \in Nat
      <4>1. i - 1 \in Nat /\ (i - 1) + 1 = i
        BY <1>1
      <4> QED
        BY Zenon, <1>1, <4>1, Products
    <3>6. b[i] >= MaxUint \/ d[i] <= b[i] + i * StringBytes
      <4> DEFINE p == (i - 1) * StringBytes
                 l == KeyLen[keys[i]]
                 b0 == b[i - 1]
                 b1 == b[i]
                 d0 == d[i - 1]
                 d1 == d[i]
      <4>1. /\ p \in Nat /\ l \in Nat /\ MaxUint \in Nat /\ StringBytes \in Nat
            /\ b0 \in Nat /\ b1 \in Nat /\ d0 \in Nat /\ d1 \in Nat
        BY Zenon, <1>1, <3>1, <3>5
      <4>2. (b0 >= MaxUint \/ d0 <= b0 + p) /\ (b1 = MaxUint \/ b1 = b0 + l)
            /\ d1 = d0 + l + StringBytes
        BY Zenon, <3>2, <3>3, <3>4
      <4> HIDE DEF p, l, b0, b1, d0, d1
      <4>3. b1 >= MaxUint \/ d1 <= b1 + (p + StringBytes)
        BY <4>1, <4>2, CoverStep
      <4> QED
        BY Zenon, <3>5, <4>3 DEF p, b1, d1
    <3> QED
      BY <3>1, <3>6
  <2>3. 0..n \subseteq A
    <3> HIDE DEF A
    <3> QED
      BY Zenon, <1>1, <2>1, <2>2, UptoInductionSet
  <2> QED
    BY <2>3
<1>7. h \in Nat /\ (h = MaxUint \/ h = cap * StringBytes)
  BY Zenon, <1>1, MultiplySaturates
<1> HIDE DEF h
<1>8. b[n] \in Nat /\ d[n] \in Nat /\ (b[n] >= MaxUint \/ d[n] <= b[n] + n * StringBytes)
  BY <1>1, <1>2, <1>3, <1>6
<1>9. x \in Nat /\ (x = MaxUint \/ x = h + b[n])
  BY Zenon, <1>7, <1>8, AddSaturates
<1> HIDE DEF x
<1>10. y \in Nat /\ (y = MaxUint \/ y = x + PatternLen)
  BY Zenon, <1>1, <1>9, AddSaturates
<1> HIDE DEF y
<1>11. z \in Nat /\ (z = MaxUint \/ z = y + SessionOverhead)
  BY Zenon, <1>1, <1>10, AddSaturates
<1> HIDE DEF z
<1>12. /\ n <= cap => n * StringBytes <= cap * StringBytes
       /\ n * StringBytes \in Nat /\ cap * StringBytes \in Nat
  BY Zenon, <1>1, Products, ProductsGrow
<1>13. ASSUME n <= cap PROVE z < MaxUint => d[n] <= z
  <2> DEFINE p == n * StringBytes
             q == cap * StringBytes
  <2>1. p <= q /\ p \in Nat /\ q \in Nat
    BY Zenon, <1>12, <1>13
  <2>2. (h = MaxUint \/ h = q) /\ (b[n] >= MaxUint \/ d[n] <= b[n] + p)
    BY Zenon, <1>7, <1>8
  <2>3. h \in Nat /\ b[n] \in Nat /\ d[n] \in Nat /\ MaxUint \in Nat
        /\ PatternLen \in Nat /\ SessionOverhead \in Nat
    BY Zenon, <1>1, <1>7, <1>8
  <2> HIDE DEF p, q
  <2> QED
    BY <1>9, <1>10, <1>11, <2>1, <2>2, <2>3, CoverAll
<1> QED
  BY Zenon, <1>4, <1>5, <1>11, <1>13 DEF n

----------------------------------------------------------------------------
(***************************************************************************)
(* Snapshots.                                                              *)
(***************************************************************************)
\* How many of the keys S sort before k.
Rank(S, k) == Cardinality({j \in S : j < k})

\* Ranks tell the elements of S apart, keep their order, and leave no gap.
LEMMA RanksOrder ==
  ASSUME NEW S \in SUBSET Keys, NEW k \in S, NEW l \in S, k < l
  PROVE  Rank(S, k) < Rank(S, l)
<1> DEFINE A == {j \in S : j < k}
           B == {j \in S : j < l}
<1>1. IsFiniteSet(S) /\ S \subseteq Nat
  BY Zenon, KeysAssumption, FS_Subset
<1>2. A \in SUBSET S /\ B \in SUBSET S /\ A \in SUBSET B /\ k \in B /\ k \notin A
  <2>1. k \in Nat /\ l \in Nat /\ \A j \in S : j \in Nat
    BY <1>1
  <2>2. ~(k < k) /\ \A j \in S : j < k => j < l
    BY <2>1
  <2> QED
    BY Zenon, <2>2
<1> HIDE DEF A, B
<1>3. IsFiniteSet(A) /\ IsFiniteSet(B)
  BY Zenon, <1>1, <1>2, FS_Subset
<1>4. Cardinality(A) \in Nat /\ Cardinality(B) \in Nat
  BY Zenon, <1>3, FS_CardinalityType
<1>5. Cardinality(A) <= Cardinality(B) /\ (Cardinality(B) = Cardinality(A) => B = A)
  BY <1>2, <1>3, FS_Subset
<1>6. Cardinality(A) < Cardinality(B)
  <2>1. Cardinality(B) # Cardinality(A)
    BY Zenon, <1>2, <1>5
  <2> QED
    BY <1>4, <1>5, <2>1
<1> QED
  BY <1>6 DEF Rank, A, B

\* The ranks of a set of names are the numbers below its size, one each.
LEMMA RanksCover ==
  ASSUME NEW S \in SUBSET Keys
  PROVE  /\ Cardinality(S) \in Nat
         /\ \A k \in S : Rank(S, k) \in 0..(Cardinality(S) - 1)
         /\ \A i \in 0..(Cardinality(S) - 1) : \E k \in S : Rank(S, k) = i
<1> DEFINE n == Cardinality(S)
           R == 0..(n - 1)
           r == [k \in S |-> Rank(S, k)]
<1>1. IsFiniteSet(S) /\ S \subseteq Nat
  BY Zenon, KeysAssumption, FS_Subset
<1>2. n \in Nat
  BY <1>1, FS_CardinalityType
<1>3. ASSUME NEW k \in S PROVE Rank(S, k) \in R
  <2> DEFINE A == {j \in S : j < k}
  <2>1. A \in SUBSET S /\ k \notin A
    BY <1>1
  <2> HIDE DEF A
  <2>2. IsFiniteSet(A) /\ Cardinality(A) <= n /\ (n = Cardinality(A) => S = A)
    BY Zenon, <1>1, <2>1, FS_Subset
  <2>3. Cardinality(A) \in Nat
    BY Zenon, <2>2, FS_CardinalityType
  <2>4. Cardinality(A) # n
    BY Zenon, <2>1, <2>2
  <2> HIDE DEF n
  <2>5. Cardinality(A) \in R
    BY <1>2, <2>2, <2>3, <2>4
  <2> QED
    BY Zenon, <2>5 DEF Rank, A
<1>4. ASSUME NEW k \in S, NEW l \in S, Rank(S, k) = Rank(S, l) PROVE k = l
  <2>1. k \in Nat /\ l \in Nat /\ Rank(S, k) \in Int /\ Rank(S, l) \in Int
    BY <1>1, <1>2, <1>3
  <2>2. ~(k < l) /\ ~(l < k)
    BY <1>4, <2>1, RanksOrder
  <2> QED
    BY <2>1, <2>2
<1>5. IsFiniteSet(R) /\ Cardinality(R) = n
  BY <1>2, FS_Interval
<1> HIDE DEF n, R
<1>6. r \in Injection(S, R)
  BY <1>3, <1>4 DEF Injection, IsInjective
<1>7. r \in Surjection(S, R)
  BY Zenon, <1>5, <1>6, FS_Injection DEF n
<1>8. \A i \in R : \E k \in S : Rank(S, k) = i
  BY Zenon, <1>7 DEF Surjection
<1> QED
  BY Zenon, <1>2, <1>3, <1>8 DEF n, R

\* sortSnapshot: a snapshot holds every key that was captured, in order and once.
LEMMA SortedEnumerates ==
  ASSUME NEW S \in SUBSET Keys
  PROVE  /\ Sorted(S) \in Seq(Keys) /\ Len(Sorted(S)) = Cardinality(S)
         /\ \A i \in 1..Len(Sorted(S)) : Sorted(S)[i] \in S /\ Rank(S, Sorted(S)[i]) = i - 1
         /\ \A k \in S : \E i \in 1..Len(Sorted(S)) : Sorted(S)[i] = k
         /\ \A i, j \in 1..Len(Sorted(S)) : i < j => Sorted(S)[i] < Sorted(S)[j]
<1> DEFINE n == Cardinality(S)
           pick(i) == CHOOSE k \in S : Rank(S, k) = i - 1
           s == [i \in 1..n |-> pick(i)]
<1>1. Sorted(S) = s
  BY Zenon DEF Sorted, Rank
<1>2. n \in Nat /\ \A k \in S : Rank(S, k) \in 0..(n - 1)
  BY Zenon, RanksCover
<1>3. ASSUME NEW i \in 1..n PROVE s[i] \in S /\ Rank(S, s[i]) = i - 1
  <2>1. i - 1 \in 0..(n - 1)
    BY <1>2
  <2>2. \E k \in S : Rank(S, k) = i - 1
    BY Zenon, <2>1, RanksCover
  <2> HIDE DEF n
  <2> QED
    BY Zenon, <2>2
<1> HIDE DEF n, pick
<1>4. s \in [1..n -> S]
  BY <1>3
<1> HIDE DEF s
<1>5. s \in Seq(Keys) /\ Len(s) = n
  BY <1>2, <1>4
<1>6. \A k \in S : k \in Nat
  BY KeysAssumption
<1>7. ASSUME NEW k \in S, NEW l \in S, Rank(S, k) <= Rank(S, l) PROVE k <= l
  <2>1. k \in Nat /\ l \in Nat /\ Rank(S, k) \in Int /\ Rank(S, l) \in Int
    BY <1>2, <1>6
  <2>2. ~(l < k)
    BY <1>7, <2>1, RanksOrder
  <2> QED
    BY <2>1, <2>2
<1>8. ASSUME NEW k \in S PROVE \E i \in 1..n : s[i] = k
  <2> DEFINE i == Rank(S, k) + 1
  <2>1. i \in 1..n /\ i - 1 = Rank(S, k)
    BY <1>2
  <2> HIDE DEF i
  <2>2. s[i] \in S /\ Rank(S, s[i]) = Rank(S, k)
    BY Zenon, <1>3, <2>1
  <2>3. s[i] <= k /\ k <= s[i] /\ s[i] \in Nat /\ k \in Nat
    BY <1>2, <1>6, <1>7, <2>2
  <2> QED
    BY <2>1, <2>3
<1>9. ASSUME NEW i \in 1..n, NEW j \in 1..n, i < j PROVE s[i] < s[j]
  <2>1. /\ s[i] \in S /\ s[j] \in S /\ s[i] \in Nat /\ s[j] \in Nat
        /\ Rank(S, s[i]) = i - 1 /\ Rank(S, s[j]) = j - 1
    BY Zenon, <1>3, <1>6
  <2>2. s[i] <= s[j] /\ s[i] # s[j]
    BY <1>2, <1>7, <1>9, <2>1
  <2> QED
    BY <2>1, <2>2
<1> QED
  BY Zenon, <1>1, <1>3, <1>5, <1>8, <1>9 DEF n

----------------------------------------------------------------------------
(***************************************************************************)
(* Types.                                                                  *)
(***************************************************************************)
\* The types.
Session == [keys : Seq(Keys), pattern : SUBSET Keys, position : Nat, lastUsed : Nat,
            bytes : Nat]
ScanState == [pc : {"idle", "start", "next"}, snap : Seq(Keys), cap : Nat,
              pattern : SUBSET Keys, at : Nat, presented : Tokens \cup {0},
              got : Seq(Keys), cursor : Tokens \cup {0}, used : Nat]

ScanTypeOK ==
  /\ DOMAIN sessions \subseteq Tokens /\ sessions \in [DOMAIN sessions -> Session]
  /\ now \in Nat /\ retired \subseteq Tokens /\ cleared \subseteq retired
  /\ scan \in [Scanners -> ScanState]

----------------------------------------------------------------------------
(***************************************************************************)
(* Snapshots and pages.                                                    *)
(***************************************************************************)
\* A page ends between its start and the end of the snapshot (scanPageEnd).
LEMMA PageEnd ==
  ASSUME NEW length \in Nat, NEW start \in 0..length, NEW count \in Nat
  PROVE  ScanPageEnd(start, length, count) \in start..length
  BY DEF ScanPageEnd

\* A page continues what was returned before it.
LEMMA PageJoins ==
  ASSUME NEW s \in Seq(Keys), NEW p \in 0..Len(s), NEW e \in p..Len(s)
  PROVE  /\ SubSeq(s, 1, p) \o SubSeq(s, p + 1, e) = SubSeq(s, 1, e)
         /\ SubSeq(s, 1, e) \in Seq(Keys)
<1> DEFINE a == SubSeq(s, 1, p)
           b == SubSeq(s, p + 1, e)
<1>1. a \in Seq(Keys) /\ Len(a) = p /\ \A i \in 1..p : a[i] = s[i]
  OBVIOUS
<1>2. b \in Seq(Keys) /\ Len(b) = e - p /\ \A i \in 1..(e - p) : b[i] = s[p + i]
  OBVIOUS
<1>3. SubSeq(s, 1, e) \in Seq(Keys) /\ Len(SubSeq(s, 1, e)) = e
      /\ \A i \in 1..e : SubSeq(s, 1, e)[i] = s[i]
  OBVIOUS
<1> HIDE DEF a, b
<1>4. a \o b \in Seq(Keys) /\ Len(a \o b) = e
  BY <1>1, <1>2
<1>5. \A i \in 1..e : (a \o b)[i] = s[i]
  BY <1>1, <1>2
<1>6. a \o b = SubSeq(s, 1, e)
  BY <1>3, <1>4, <1>5
<1> QED
  BY <1>3, <1>6 DEF a, b

\* The page that is everything, and the one that is nothing.
LEMMA WholePage ==
  ASSUME NEW s \in Seq(Keys)
  PROVE  SubSeq(s, 1, Len(s)) = s /\ SubSeq(s, 1, 0) = <<>>
  OBVIOUS

----------------------------------------------------------------------------
(***************************************************************************)
(* How a call to the manager ends.                                         *)
(***************************************************************************)
\* What start and next leave of the sessions: all but those gone, and one more
\* under a cursor that is new.
Leaves(ss, gone, fresh) ==
  /\ gone \subseteq DOMAIN sessions /\ fresh \subseteq Tokens
  /\ fresh \cap (DOMAIN sessions \cup retired) = {}
  /\ DOMAIN ss = (DOMAIN sessions \ gone) \cup fresh
  /\ \A t \in DOMAIN sessions \ gone : ss[t] = sessions[t]
  /\ sessions' = ss /\ retired' = retired \cup gone /\ UNCHANGED <<now, cleared>>

\* A scanner whose traversal is not touched keeps it, if what it loses had expired.
LEMMA TraversalKept ==
  ASSUME ScanTypeOK, CursorsInv, NEW c \in Scanners, TraversalInv(c),
         NEW ss, NEW gone, NEW fresh, Leaves(ss, gone, fresh), NEW at \in Nat, at <= now,
         scan[c].cursor \in gone => scan[c].cursor \in Expirable(at),
         scan'[c].snap = scan[c].snap, scan'[c].got = scan[c].got,
         scan'[c].cursor = scan[c].cursor, scan'[c].used = scan[c].used,
         scan'[c].pc # "start" => scan[c].pc # "start"
  PROVE  TraversalInv(c)'
<1> DEFINE t == scan[c].cursor
<1>0. scan[c] \in ScanState /\ now \in Nat /\ SessionTTL \in Nat
  BY LimitsAssumption DEF ScanTypeOK
<1>1. t # 0 => t \in DOMAIN sessions \cup retired
  BY DEF TraversalInv
<1>2. t # 0 => t \in DOMAIN sessions' \cup retired'
  BY <1>1 DEF Leaves
<1>3. t \in DOMAIN sessions' => t \in DOMAIN sessions /\ sessions'[t] = sessions[t]
  BY <1>0, <1>1, TokensAssumption DEF Leaves
<1>4. t \in DOMAIN sessions /\ t \notin DOMAIN sessions' => now >= scan[c].used + SessionTTL
  <2> SUFFICES ASSUME t \in DOMAIN sessions, t \notin DOMAIN sessions'
               PROVE  now >= scan[c].used + SessionTTL
    OBVIOUS
  <2>1. t \in Expirable(at)
    BY DEF Leaves
  <2>2. at >= scan[c].used + SessionTTL
    BY <2>1 DEF Expirable, TraversalInv
  <2> QED
    BY <1>0, <2>2 DEF ScanState
<1>5. t # 0 /\ now' < scan[c].used + SessionTTL /\ t \notin cleared' => t \in DOMAIN sessions'
  BY <1>0, <1>4 DEF TraversalInv, Leaves, ScanState
<1> HIDE DEF t
<1> QED
  BY <1>2, <1>3, <1>5 DEF TraversalInv, t

\* A scanner with nothing more to come, or nothing yet.
LEMMA TraversalOver ==
  ASSUME NEW c \in Scanners, scan'[c].cursor = 0, scan'[c].snap \in Seq(Keys),
         scan'[c].got = scan'[c].snap \/ (scan'[c].pc = "start" /\ scan'[c].got = <<>>),
         0 \notin DOMAIN sessions'
  PROVE  TraversalInv(c)'
<1>1. \E n \in 0..Len(scan'[c].snap) : scan'[c].got = SubSeq(scan'[c].snap, 1, n)
  <2> DEFINE snap == scan'[c].snap
             got == scan'[c].got
  <2>1. Len(snap) \in 0..Len(snap) /\ 0 \in 0..Len(snap)
    OBVIOUS
  <2>2. got = SubSeq(snap, 1, Len(snap)) \/ got = SubSeq(snap, 1, 0)
    <3> HIDE DEF snap, got
    <3> QED
      BY Zenon, WholePage DEF snap, got
  <2> QED
    BY <2>1, <2>2
<1> QED
  BY <1>1 DEF TraversalInv

\* A scanner that was given a new cursor.
LEMMA TraversalGoesOn ==
  ASSUME NEW c \in Scanners, NEW t \in DOMAIN sessions', t # 0, scan'[c].cursor = t,
         sessions'[t].keys = scan'[c].snap, sessions'[t].lastUsed = scan'[c].used,
         sessions'[t].position \in 0..Len(scan'[c].snap),
         scan'[c].got = SubSeq(scan'[c].snap, 1, sessions'[t].position)
  PROVE  TraversalInv(c)'
  BY DEF TraversalInv

\* Cursors stay apart.
LEMMA CursorsKept ==
  ASSUME ScanTypeOK, CursorsInv, \A c \in Scanners : TraversalInv(c),
         NEW ss, NEW gone, NEW fresh, Leaves(ss, gone, fresh),
         NEW c \in Scanners, NEW outcome, scan' = [scan EXCEPT ![c] = outcome],
         outcome.cursor \in {0, scan[c].cursor} \cup fresh
  PROVE  CursorsInv'
<1>1. retired' \cap DOMAIN sessions' = {}
  BY DEF CursorsInv, Leaves
<1>2. \A d \in Scanners : scan[d].cursor \notin fresh
  <2> SUFFICES ASSUME NEW d \in Scanners PROVE scan[d].cursor \notin fresh
    OBVIOUS
  <2>1. scan[d].cursor = 0 \/ scan[d].cursor \in DOMAIN sessions \cup retired
    BY DEF TraversalInv
  <2> QED
    BY <2>1, TokensAssumption DEF Leaves
<1>3. /\ scan'[c].cursor \in {0, scan[c].cursor} \cup fresh
      /\ \A d \in Scanners \ {c} : scan'[d] = scan[d]
  BY DEF ScanTypeOK
<1>4. ASSUME NEW d \in Scanners, NEW e \in Scanners, d # e, scan'[d].cursor = scan'[e].cursor
      PROVE  scan'[d].cursor = 0
  <2>1. CASE d # c /\ e # c
    BY <1>3, <1>4, <2>1 DEF CursorsInv
  <2>2. CASE d = c
    BY <1>2, <1>3, <1>4, <2>2 DEF CursorsInv
  <2>3. CASE e = c
    BY <1>2, <1>3, <1>4, <2>3 DEF CursorsInv
  <2> QED
    BY <2>1, <2>2, <2>3
<1> QED
  BY <1>1, <1>4 DEF CursorsInv

\* A call returns to an idle scanner.
LEMMA RequestsKept ==
  ASSUME ScanTypeOK, \A d \in Scanners : RequestInv(d),
         NEW c \in Scanners, NEW outcome, scan' = [scan EXCEPT ![c] = outcome],
         outcome.pc = "idle", outcome.at = 0, now' = now, retired \subseteq retired'
  PROVE  \A d \in Scanners : RequestInv(d)'
<1> SUFFICES ASSUME NEW d \in Scanners PROVE RequestInv(d)'
  OBVIOUS
<1>1. CASE d = c
  BY <1>1 DEF ScanTypeOK, RequestInv
<1>2. CASE d # c
  BY <1>2 DEF ScanTypeOK, RequestInv
<1> QED
  BY <1>1, <1>2

\* All of it, for a call that ends.
LEMMA CallEnds ==
  ASSUME ScanTypeOK, ScanInv, NEW c \in Scanners,
         NEW ss, NEW sz, NEW gone, NEW fresh, NEW outcome \in ScanState,
         Ends(c, ss, sz, gone, outcome), Leaves(ss, gone, fresh), ss \in [DOMAIN ss -> Session],
         gone \subseteq Expirable(scan[c].at) \cup {scan[c].cursor},
         outcome.pc = "idle", outcome.at = 0, outcome.cursor \in {0, scan[c].cursor} \cup fresh,
         TraversalInv(c)'
  PROVE  ScanTypeOK' /\ ScanInv'
<1>1. scan' = [scan EXCEPT ![c] = outcome]
  BY DEF Ends
<1>2. ScanTypeOK'
  <2>1. scan' \in [Scanners -> ScanState]
    BY <1>1 DEF ScanTypeOK
  <2> QED
    BY <2>1 DEF ScanTypeOK, Leaves
<1>3. CursorsInv'
  BY Zenon, <1>1, CursorsKept DEF ScanInv
<1>4. \A d \in Scanners : RequestInv(d)'
  BY Zenon, <1>1, RequestsKept DEF ScanInv, Leaves
<1>5. ASSUME NEW d \in Scanners, d # c
      PROVE  TraversalInv(d)'
  <2>1. scan'[d] = scan[d]
    BY <1>1, <1>5 DEF ScanTypeOK
  <2>2. scan[c].at \in Nat /\ scan[c].at <= now
    BY DEF ScanTypeOK, ScanState, ScanInv, RequestInv
  <2>3. scan[d].cursor \in gone => scan[d].cursor \in Expirable(scan[c].at)
    <3> SUFFICES ASSUME scan[d].cursor \in gone, scan[d].cursor = scan[c].cursor PROVE FALSE
      OBVIOUS
    <3>1. scan[d].cursor = 0
      BY <1>5 DEF ScanInv, CursorsInv
    <3> QED
      BY <3>1, TokensAssumption DEF Leaves, ScanTypeOK
  <2> QED
    BY <2>1, <2>2, <2>3, TraversalKept DEF ScanInv
<1> QED
  BY <1>2, <1>3, <1>4, <1>5 DEF ScanInv

\* expireLocked only removes sessions.
LEMMA KeptLeaves ==
  ASSUME ScanTypeOK, NEW at
  PROVE  /\ Expirable(at) \subseteq DOMAIN sessions
         /\ DOMAIN Kept(at) = DOMAIN sessions \ Expirable(at)
         /\ \A t \in DOMAIN Kept(at) : Kept(at)[t] = sessions[t]
         /\ Kept(at) \in [DOMAIN Kept(at) -> Session]
  BY DEF ScanTypeOK, Kept, Without, Expirable

\* nextTokenLocked gives a cursor that no scanner has held.
LEMMA NextTokenNew ==
  ASSUME ScanTypeOK, NEW at, NEW t \in NextToken(DOMAIN Kept(at))
  PROVE  t \in Tokens /\ t \notin DOMAIN sessions /\ t \notin retired /\ t # 0
  BY KeptLeaves, TokensAssumption DEF NextToken, Past

----------------------------------------------------------------------------
(***************************************************************************)
(* The calls.                                                              *)
(***************************************************************************)
\* A scanner at rest.
LEMMA NoScanType == NoScan \in ScanState
  BY DEF NoScan, ScanState

\* The scanner that start has returned a page to.
Returned(snap, got, used) == [NoScan EXCEPT !.snap = snap, !.got = got, !.used = used]

\* Its fields, and its type.
LEMMA FirstPage ==
  ASSUME NEW snap \in Seq(Keys), NEW got \in Seq(Keys), NEW used \in Nat
  PROVE  LET page == Returned(snap, got, used)
         IN /\ page \in ScanState /\ page.pc = "idle" /\ page.at = 0 /\ page.cursor = 0
            /\ page.snap = snap /\ page.got = got /\ page.used = used
<1> DEFINE page == Returned(snap, got, used)
<1>1. page \in ScanState /\ page.snap = snap /\ page.got = got /\ page.used = used
      /\ page.pc = NoScan.pc /\ page.at = NoScan.at /\ page.cursor = NoScan.cursor
  BY Zenon, NoScanType DEF ScanState, Returned
<1>2. NoScan.pc = "idle" /\ NoScan.at = 0 /\ NoScan.cursor = 0
  BY DEF NoScan
<1> HIDE DEF page
<1> QED
  BY Zenon, <1>1, <1>2 DEF page

\* start, for SCAN 0, preserves the invariant.
LEMMA StartStep ==
  ASSUME ScanTypeOK, ScanInv, NEW c \in Scanners, NEW count \in Counts, Start(c, count)
  PROVE  ScanTypeOK' /\ ScanInv'
<1> DEFINE s == scan[c]
           end == ScanPageEnd(0, Len(s.snap), count)
           size == ScanSessionBytes(s.snap, s.cap)
           kept == Kept(s.at)
           retained == KeptBytes(s.at)
           gone == Expirable(s.at)
           page == [NoScan EXCEPT !.snap = s.snap, !.got = SubSeq(s.snap, 1, end), !.used = s.at]
           session == [keys |-> s.snap, pattern |-> s.pattern, position |-> end,
                       lastUsed |-> s.at, bytes |-> size]
<1>1. s \in ScanState /\ s.snap \in Seq(Keys) /\ Len(s.snap) \in Nat
  BY DEF ScanTypeOK, ScanState
<1>2. end \in 0..Len(s.snap)
  <2>1. count \in Nat
    BY CountsAssumption
  <2> HIDE DEF s
  <2>2. 0 \in 0..Len(s.snap)
    BY <1>1
  <2> QED
    BY Zenon, <1>1, <2>1, <2>2, PageEnd
<1>3. page \in ScanState /\ page.pc = "idle" /\ page.at = 0 /\ page.cursor = 0
      /\ page.snap = s.snap /\ page.got = SubSeq(s.snap, 1, end) /\ page.used = s.at
  <2>1. SubSeq(s.snap, 1, end) \in Seq(Keys)
    <3> HIDE DEF s, end
    <3> QED
      BY <1>1, <1>2
  <2> HIDE DEF s, end
  <2>2. s.at \in Nat
    BY <1>1 DEF ScanState
  <2> QED
    <3> DEFINE snap == s.snap
               got == SubSeq(s.snap, 1, end)
               used == s.at
    <3>1. page = Returned(snap, got, used)
      BY Zenon DEF Returned
    <3>2. snap \in Seq(Keys) /\ got \in Seq(Keys) /\ used \in Nat
      BY <1>1, <2>1, <2>2
    <3> HIDE DEF page, snap, got, used
    <3>3. /\ page \in ScanState /\ page.pc = "idle" /\ page.at = 0 /\ page.cursor = 0
          /\ page.snap = snap /\ page.got = got /\ page.used = used
      BY <3>1, <3>2, FirstPage
    <3> QED
      BY <3>3 DEF snap, got, used
<1>4. session \in Session
  <2>1. size \in Nat
    <3>1. s.cap \in Nat /\ [keys |-> s.snap].keys = s.snap
      BY <1>1 DEF ScanState
    <3> HIDE DEF s
    <3> QED
      BY Zenon, <1>1, <3>1, SizeCoversCost
  <2>2. end \in Nat /\ s.pattern \in SUBSET Keys /\ s.at \in Nat
    BY <1>1, <1>2 DEF ScanState
  <2> HIDE DEF s, end, size
  <2> QED
    BY <1>1, <2>1, <2>2 DEF Session
<1>5. \/ end = Len(s.snap) /\ Ends(c, kept, retained, gone, page)
      \/ Ends(c, kept, retained, gone, NoScan)
      \/ \E t \in NextToken(DOMAIN kept) :
           Ends(c, With(kept, t, session), (retained + size) % (MaxUint + 1), gone,
                [page EXCEPT !.cursor = t])
  BY Zenon DEF Start
<1>6. /\ gone \subseteq DOMAIN sessions /\ DOMAIN kept = DOMAIN sessions \ gone
      /\ \A t \in DOMAIN kept : kept[t] = sessions[t]
      /\ kept \in [DOMAIN kept -> Session]
  BY KeptLeaves
<1> HIDE DEF s, end, size, kept, gone, retained, page, session
<1>7. ASSUME NEW outcome, Ends(c, kept, retained, gone, outcome),
             outcome = NoScan \/ (outcome = page /\ end = Len(s.snap))
      PROVE  ScanTypeOK' /\ ScanInv'
  <2>1. Leaves(kept, gone, {})
    BY <1>6, <1>7 DEF Leaves, Ends
  <2>2. /\ outcome \in ScanState /\ outcome.pc = "idle" /\ outcome.at = 0 /\ outcome.cursor = 0
        /\ outcome.got = outcome.snap
    <3>1. CASE outcome = NoScan
      BY <3>1, NoScanType DEF NoScan
    <3>2. CASE outcome = page /\ end = Len(s.snap)
      BY <1>1, <1>3, <3>2, WholePage
    <3> QED
      BY <1>7, <3>1, <3>2
  <2>3. TraversalInv(c)'
    <3>1. scan'[c] = outcome /\ sessions' = kept
      BY <1>7 DEF Ends, ScanTypeOK
    <3>2. 0 \notin DOMAIN sessions'
      BY <1>6, <3>1, TokensAssumption DEF ScanTypeOK
    <3> QED
      BY <2>2, <3>1, <3>2, TraversalOver DEF ScanState
  <2> QED
    BY <1>6, <1>7, <2>1, <2>2, <2>3, CallEnds DEF gone, s
<1>8. ASSUME NEW t \in NextToken(DOMAIN kept),
             Ends(c, With(kept, t, session), (retained + size) % (MaxUint + 1), gone,
                  [page EXCEPT !.cursor = t])
      PROVE  ScanTypeOK' /\ ScanInv'
  <2> DEFINE ss == With(kept, t, session)
             outcome == [page EXCEPT !.cursor = t]
  <2>1. t \in Tokens /\ t \notin DOMAIN sessions /\ t \notin retired /\ t # 0
    BY <1>8, NextTokenNew DEF kept
  <2>2. /\ DOMAIN ss = DOMAIN kept \cup {t} /\ ss[t] = session
        /\ \A u \in DOMAIN kept : ss[u] = kept[u]
    BY <1>6, <2>1 DEF With
  <2>3. ss \in [DOMAIN ss -> Session]
    BY <1>4, <1>6 DEF With
  <2>4. /\ outcome \in ScanState /\ outcome.pc = "idle" /\ outcome.at = 0 /\ outcome.cursor = t
        /\ outcome.snap = s.snap /\ outcome.got = SubSeq(s.snap, 1, end) /\ outcome.used = s.at
    BY Zenon, <1>3, <2>1 DEF ScanState
  <2> HIDE DEF ss, outcome
  <2>5. Ends(c, ss, (retained + size) % (MaxUint + 1), gone, outcome)
    BY <1>8 DEF ss, outcome
  <2>6. Leaves(ss, gone, {t})
    BY <1>6, <2>1, <2>2, <2>5 DEF Leaves, Ends
  <2>7. TraversalInv(c)'
    <3>1. scan'[c] = outcome /\ sessions' = ss
      BY <2>5 DEF Ends, ScanTypeOK
    <3>2. sessions'[t] = session /\ t \in DOMAIN sessions'
      BY <2>2, <3>1
    <3>3. session.keys = s.snap /\ session.lastUsed = s.at /\ session.position = end
      BY DEF session
    <3> QED
      BY Zenon, <1>2, <2>1, <2>4, <3>1, <3>2, <3>3, TraversalGoesOn
  <2> QED
    BY <2>3, <2>4, <2>5, <2>6, <2>7, CallEnds DEF gone, s
<1> QED
  BY Zenon, <1>5, <1>7, <1>8

\* next, for SCAN with a cursor, preserves it.
LEMMA NextPageStep ==
  ASSUME ScanTypeOK, ScanInv, NEW c \in Scanners, NEW count \in Counts, NEW given,
         NextPage(c, count, given)
  PROVE  ScanTypeOK' /\ ScanInv'
<1> DEFINE s == scan[c]
           t == s.presented
           kept == Kept(s.at)
           retained == KeptBytes(s.at)
           gone == Expirable(s.at)
           error == [s EXCEPT !.pc = "idle", !.presented = 0, !.at = 0]
           session == kept[t]
           end == ScanPageEnd(session.position, Len(session.keys), count)
           page == [error EXCEPT !.used = s.at,
                      !.got = @ \o SubSeq(session.keys, session.position + 1, end)]
           moved == [session EXCEPT !.position = end, !.lastUsed = s.at]
<1>1. s \in ScanState /\ s.pc = "next" /\ s.snap \in Seq(Keys) /\ Len(s.snap) \in Nat
  <2>1. s.pc = "next"
    BY Zenon DEF NextPage
  <2>2. s \in ScanState
    BY DEF ScanTypeOK
  <2> HIDE DEF s
  <2> QED
    BY <2>1, <2>2 DEF ScanState
<1>2. /\ gone \subseteq DOMAIN sessions /\ DOMAIN kept = DOMAIN sessions \ gone
      /\ \A u \in DOMAIN kept : kept[u] = sessions[u]
      /\ kept \in [DOMAIN kept -> Session]
  BY Zenon, KeptLeaves
<1>3. /\ error \in ScanState /\ error.pc = "idle" /\ error.at = 0 /\ error.cursor = s.cursor
      /\ error.snap = s.snap /\ error.got = s.got /\ error.used = s.used
  BY Zenon, <1>1 DEF ScanState
<1>4. \/ Ends(c, kept, retained, gone, error)
      \/ /\ t \in DOMAIN kept /\ end = Len(session.keys)
         /\ Ends(c, Without(kept, {t}), Minus(retained, session.bytes), gone \cup {t},
                 [page EXCEPT !.cursor = 0])
      \/ /\ t \in DOMAIN kept
         /\ \E u \in NextToken(DOMAIN kept) :
              Ends(c, Replace(kept, t, u, moved), retained, gone \cup {t},
                   [page EXCEPT !.cursor = u])
  BY Zenon DEF NextPage
<1>5. CursorsInv /\ TraversalInv(c) /\ RequestInv(c) /\ 0 \notin DOMAIN sessions
  BY TokensAssumption DEF ScanInv, ScanTypeOK
<1>6. ASSUME t \in DOMAIN kept
      PROVE  /\ t = s.cursor /\ session \in Session /\ session.keys = s.snap
             /\ session.position \in 0..Len(s.snap) /\ end \in session.position..Len(s.snap)
             /\ page \in ScanState /\ page.pc = "idle" /\ page.at = 0 /\ page.snap = s.snap
             /\ page.got = SubSeq(s.snap, 1, end) /\ page.used = s.at
  <2>1. t \in DOMAIN sessions /\ session = sessions[t] /\ session \in Session
    BY <1>2, <1>6
  <2>2. t = s.cursor
    <3>1. t \in {s.cursor} \cup retired
      BY <1>1, <1>5 DEF RequestInv
    <3>2. t \notin retired
      BY <1>5, <2>1 DEF CursorsInv
    <3> QED
      BY <3>1, <3>2
  <2>3. /\ session.keys = s.snap /\ session.position \in 0..Len(s.snap)
        /\ s.got = SubSeq(s.snap, 1, session.position)
    BY <1>5, <2>1, <2>2 DEF TraversalInv
  <2>4. end \in session.position..Len(s.snap)
    <3>1. count \in Nat
      BY CountsAssumption
    <3> HIDE DEF s, session
    <3> QED
      BY Zenon, <1>1, <2>3, <3>1, PageEnd
  <2>5. /\ s.got \o SubSeq(session.keys, session.position + 1, end) = SubSeq(s.snap, 1, end)
        /\ SubSeq(s.snap, 1, end) \in Seq(Keys)
    <3> HIDE DEF s, session, end
    <3> QED
      BY Zenon, <1>1, <2>3, <2>4, PageJoins
  <2> HIDE DEF end, session, t, kept
  <2>6. /\ page \in ScanState /\ page.pc = "idle" /\ page.at = 0 /\ page.snap = s.snap
        /\ page.got = SubSeq(s.snap, 1, end) /\ page.used = s.at
    BY Zenon, <1>1, <1>3, <2>5 DEF ScanState
  <2> QED
    BY Zenon, <2>1, <2>2, <2>3, <2>4, <2>6
<1>7. session \in Session => /\ moved.keys = session.keys /\ moved.position = end
                             /\ moved.lastUsed = s.at
                             /\ (end \in Nat => moved \in Session)
  BY Zenon, <1>1 DEF Session, ScanState
<1> HIDE DEF s, t, kept, retained, gone, error, session, end, page, moved
<1>8. ASSUME Ends(c, kept, retained, gone, error)
      PROVE  ScanTypeOK' /\ ScanInv'
  <2>1. Leaves(kept, gone, {})
    BY <1>2, <1>8 DEF Leaves, Ends
  <2>2. scan'[c] = error
    BY <1>8 DEF Ends, ScanTypeOK
  <2>3. s.at \in Nat /\ s.at <= now
    BY <1>1, <1>5 DEF ScanState, RequestInv, s
  <2>4. TraversalInv(c)'
    BY <1>1, <1>3, <1>5, <2>1, <2>2, <2>3, TraversalKept DEF s, gone
  <2> QED
    BY <1>2, <1>3, <1>8, <2>1, <2>4, CallEnds DEF gone, s
<1>9. ASSUME t \in DOMAIN kept, end = Len(session.keys),
             Ends(c, Without(kept, {t}), Minus(retained, session.bytes), gone \cup {t},
                  [page EXCEPT !.cursor = 0])
      PROVE  ScanTypeOK' /\ ScanInv'
  <2> DEFINE ss == Without(kept, {t})
             outcome == [page EXCEPT !.cursor = 0]
  <2>1. /\ DOMAIN ss = DOMAIN kept \ {t} /\ ss \in [DOMAIN ss -> Session]
        /\ \A u \in DOMAIN ss : ss[u] = kept[u]
    BY <1>2 DEF Without
  <2>2. /\ outcome \in ScanState /\ outcome.pc = "idle" /\ outcome.at = 0 /\ outcome.cursor = 0
        /\ outcome.snap = s.snap /\ outcome.got = SubSeq(s.snap, 1, end)
    BY <1>6, <1>9 DEF ScanState
  <2>3. outcome.got = outcome.snap
    BY Zenon, <1>1, <1>6, <1>9, <2>2, WholePage DEF ScanState
  <2> HIDE DEF ss, outcome
  <2>4. Ends(c, ss, Minus(retained, session.bytes), gone \cup {t}, outcome)
    BY <1>9 DEF ss, outcome
  <2>5. Leaves(ss, gone \cup {t}, {})
    BY <1>2, <1>9, <2>1, <2>4 DEF Leaves, Ends
  <2>6. TraversalInv(c)'
    <3>1. scan'[c] = outcome /\ 0 \notin DOMAIN sessions'
      BY <1>2, <1>5, <2>1, <2>4 DEF Ends, ScanTypeOK
    <3> QED
      BY <2>2, <2>3, <3>1, TraversalOver DEF ScanState
  <2>7. gone \cup {t} \subseteq Expirable(scan[c].at) \cup {scan[c].cursor}
    BY <1>6, <1>9 DEF gone, s
  <2> QED
    BY <2>1, <2>2, <2>4, <2>5, <2>6, <2>7, CallEnds
<1>10. ASSUME t \in DOMAIN kept, NEW u \in NextToken(DOMAIN kept),
              Ends(c, Replace(kept, t, u, moved), retained, gone \cup {t}, [page EXCEPT !.cursor = u])
       PROVE  ScanTypeOK' /\ ScanInv'
  <2> DEFINE ss == Replace(kept, t, u, moved)
             outcome == [page EXCEPT !.cursor = u]
  <2>1. u \in Tokens /\ u \notin DOMAIN sessions /\ u \notin retired /\ u # 0
    BY <1>10, NextTokenNew DEF kept
  <2>2. moved \in Session /\ moved.keys = s.snap /\ moved.position = end /\ moved.lastUsed = s.at
    BY <1>6, <1>7, <1>10
  <2>3. /\ DOMAIN ss = (DOMAIN kept \ {t}) \cup {u} /\ ss[u] = moved
        /\ \A v \in DOMAIN kept \ {t} : ss[v] = kept[v]
    BY <1>2, <2>1 DEF Replace, With, Without
  <2>4. ss \in [DOMAIN ss -> Session]
    BY <1>2, <2>2 DEF Replace, With, Without
  <2>5. /\ outcome \in ScanState /\ outcome.pc = "idle" /\ outcome.at = 0 /\ outcome.cursor = u
        /\ outcome.snap = s.snap /\ outcome.got = SubSeq(s.snap, 1, end) /\ outcome.used = s.at
    BY <1>6, <1>10, <2>1 DEF ScanState
  <2> HIDE DEF ss, outcome
  <2>6. Ends(c, ss, retained, gone \cup {t}, outcome)
    BY <1>10 DEF ss, outcome
  <2>7. Leaves(ss, gone \cup {t}, {u})
    BY <1>2, <1>10, <2>1, <2>3, <2>6 DEF Leaves, Ends
  <2>8. TraversalInv(c)'
    <3>1. scan'[c] = outcome /\ sessions' = ss
      BY <2>6 DEF Ends, ScanTypeOK
    <3>2. sessions'[u] = moved /\ u \in DOMAIN sessions'
      BY <2>3, <3>1
    <3>3. end \in 0..Len(s.snap)
      BY <1>1, <1>6, <1>10 DEF ScanState
    <3> QED
      BY Zenon, <2>1, <2>2, <2>5, <3>1, <3>2, <3>3, TraversalGoesOn
  <2>9. gone \cup {t} \subseteq Expirable(scan[c].at) \cup {scan[c].cursor}
    BY <1>6, <1>10 DEF gone, s
  <2> QED
    BY <2>4, <2>5, <2>6, <2>7, <2>8, <2>9, CallEnds
<1> QED
  BY Zenon, <1>4, <1>8, <1>9, <1>10

----------------------------------------------------------------------------
(***************************************************************************)
(* The other steps, and the theorems.                                      *)
(***************************************************************************)
\* What another scanner does is of no account to a traversal it leaves alone.
LEMMA OtherKept ==
  ASSUME NEW d, TraversalInv(d), RequestInv(d), scan'[d] = scan[d],
         UNCHANGED <<sessions, now, retired, cleared>>
  PROVE  TraversalInv(d)' /\ RequestInv(d)'
<1>1. sessions' = sessions /\ now' = now /\ retired' = retired /\ cleared' = cleared
  BY Zenon
<1>2. TraversalInv(d)'
  BY Zenon, <1>1 DEF TraversalInv
<1>3. RequestInv(d)'
  BY Zenon, <1>1 DEF RequestInv
<1> QED
  BY Zenon, <1>2, <1>3

\* captureLiveKeys, the filter and the sort preserve it.
LEMMA CaptureStep ==
  ASSUME ScanTypeOK, ScanInv, NEW c \in Scanners, NEW live \in LiveSets, NEW stored \in {live, Keys},
         NEW pattern \in Patterns, Capture(c, live, stored, pattern)
  PROVE  ScanTypeOK' /\ ScanInv'
<1> DEFINE outcome == [NoScan EXCEPT !.pc = "start", !.at = now, !.pattern = pattern,
                         !.snap = Sorted(live \cap pattern), !.cap = Cardinality(stored)]
<1>1. UNCHANGED <<sessions, now, retired, cleared>> /\ scan' = [scan EXCEPT ![c] = outcome]
  BY DEF Capture
<1>2. live \in SUBSET Keys /\ pattern \in SUBSET Keys /\ live \cap pattern \in SUBSET Keys
  BY LiveSetsAssumption
<1>3. Sorted(live \cap pattern) \in Seq(Keys) /\ Cardinality(stored) \in Nat
  BY Zenon, <1>2, SortedEnumerates, KeysAssumption, FS_Subset, FS_CardinalityType
<1>4. /\ outcome \in ScanState /\ outcome.pc = "start" /\ outcome.at = now /\ outcome.cursor = 0
      /\ outcome.got = <<>>
  BY Zenon, <1>2, <1>3, NoScanType DEF ScanState, NoScan, ScanTypeOK
<1> HIDE DEF outcome
<1>5. scan'[c] = outcome /\ \A d \in Scanners \ {c} : scan'[d] = scan[d]
  BY <1>1 DEF ScanTypeOK
<1>6. ScanTypeOK'
  BY <1>1, <1>4 DEF ScanTypeOK
<1>7. TraversalInv(c)' /\ RequestInv(c)'
  <2>1. 0 \notin DOMAIN sessions'
    BY <1>1, TokensAssumption DEF ScanTypeOK
  <2>2. now \in Nat
    BY DEF ScanTypeOK
  <2> QED
    BY <1>1, <1>4, <1>5, <2>1, <2>2, TraversalOver DEF ScanState, RequestInv
<1>8. ASSUME NEW d \in Scanners \ {c}
      PROVE  TraversalInv(d)' /\ RequestInv(d)'
  <2>1. TraversalInv(d) /\ RequestInv(d) /\ scan'[d] = scan[d]
    BY Zenon, <1>5 DEF ScanInv
  <2> QED
    BY Zenon, <1>1, <2>1, OtherKept
<1>9. CursorsInv'
  BY <1>1, <1>4, <1>5 DEF ScanInv, CursorsInv
<1> QED
  BY <1>6, <1>7, <1>8, <1>9 DEF ScanInv

\* So does a request with a cursor, valid or not,
LEMMA PresentStep ==
  ASSUME ScanTypeOK, ScanInv, NEW c \in Scanners, NEW t \in {scan[c].cursor} \cup retired,
         Present(c, t)
  PROVE  ScanTypeOK' /\ ScanInv'
<1> DEFINE outcome == [scan[c] EXCEPT !.pc = "next", !.at = now, !.presented = t]
<1>1. UNCHANGED <<sessions, now, retired, cleared>> /\ scan[c].pc = "idle"
      /\ scan' = [scan EXCEPT ![c] = outcome]
  BY Zenon DEF Present, ScanTypeOK, ScanState
<1>2. scan[c] \in ScanState /\ t \in Tokens \cup {0} /\ now \in Nat
  BY DEF ScanTypeOK, ScanState
<1>3. /\ outcome \in ScanState /\ outcome.pc = "next" /\ outcome.at = now
      /\ outcome.presented = t /\ outcome.cursor = scan[c].cursor
      /\ outcome.snap = scan[c].snap /\ outcome.got = scan[c].got /\ outcome.used = scan[c].used
  BY Zenon, <1>2 DEF ScanState
<1> HIDE DEF outcome
<1>4. scan'[c] = outcome /\ \A d \in Scanners \ {c} : scan'[d] = scan[d]
  BY <1>1 DEF ScanTypeOK
<1>5. ScanTypeOK'
  BY <1>1, <1>3 DEF ScanTypeOK
<1>6. TraversalInv(c)' /\ RequestInv(c)'
  <2>1. TraversalInv(c)'
    <3>1. Leaves(sessions, {}, {})
      BY <1>1 DEF Leaves
    <3>2. /\ scan'[c].snap = scan[c].snap /\ scan'[c].got = scan[c].got
          /\ scan'[c].cursor = scan[c].cursor /\ scan'[c].used = scan[c].used
          /\ scan[c].pc # "start"
      BY <1>1, <1>3, <1>4
    <3>3. 0 \in Nat /\ 0 <= now
      BY <1>2
    <3>4. CursorsInv /\ TraversalInv(c)
      BY Zenon DEF ScanInv
    <3> QED
      BY <3>1, <3>2, <3>3, <3>4, TraversalKept
  <2>2. RequestInv(c)'
    <3>1. scan'[c].at = now' /\ now' \in Nat /\ retired' = retired
      BY <1>1, <1>2, <1>3, <1>4
    <3>2. scan'[c].presented = t /\ scan'[c].cursor = scan[c].cursor /\ scan'[c].pc = "next"
      BY <1>3, <1>4
    <3> QED
      BY <3>1, <3>2 DEF RequestInv
  <2> QED
    BY <2>1, <2>2
<1>7. ASSUME NEW d \in Scanners \ {c}
      PROVE  TraversalInv(d)' /\ RequestInv(d)'
  <2>1. TraversalInv(d) /\ RequestInv(d) /\ scan'[d] = scan[d]
    BY Zenon, <1>4 DEF ScanInv
  <2> QED
    BY Zenon, <1>1, <2>1, OtherKept
<1>8. CursorsInv'
  BY <1>1, <1>3, <1>4 DEF ScanInv, CursorsInv
<1> QED
  BY <1>5, <1>6, <1>7, <1>8 DEF ScanInv

\* clear, which removes every session,
LEMMA ClearStep == ASSUME ScanTypeOK, ScanInv, Clear PROVE ScanTypeOK' /\ ScanInv'
<1>1. /\ DOMAIN sessions' = {} /\ UNCHANGED <<now, scan>>
      /\ retired' = retired \cup DOMAIN sessions /\ cleared' = cleared \cup DOMAIN sessions
  BY DEF Clear
<1>2. sessions' \in [DOMAIN sessions' -> Session]
  BY DEF Clear
<1>3. ScanTypeOK'
  BY <1>1, <1>2 DEF ScanTypeOK
<1>4. ASSUME NEW c \in Scanners
      PROVE  TraversalInv(c)' /\ RequestInv(c)'
  BY <1>1, <1>4 DEF ScanInv, TraversalInv, RequestInv
<1> QED
  BY <1>1, <1>3, <1>4 DEF ScanInv, CursorsInv

\* and the passing of time.
LEMMA TickStep == ASSUME ScanTypeOK, ScanInv, Tick PROVE ScanTypeOK' /\ ScanInv'
<1>1. UNCHANGED <<sessions, retired, cleared, scan>> /\ now' = now + 1 /\ now \in Nat
  BY DEF Tick, ScanTypeOK
<1>2. ScanTypeOK' /\ CursorsInv'
  BY <1>1 DEF ScanTypeOK, ScanInv, CursorsInv
<1>3. ASSUME NEW c \in Scanners
      PROVE  TraversalInv(c)' /\ RequestInv(c)'
  <2>1. scan[c].at \in Nat /\ scan[c].used \in Nat /\ SessionTTL \in Nat
    BY LimitsAssumption DEF ScanTypeOK, ScanState
  <2> QED
    <3>1. RequestInv(c)'
      BY <1>1, <2>1 DEF ScanInv, RequestInv
    <3>2. now' < scan[c].used + SessionTTL => now < scan[c].used + SessionTTL
      BY <1>1, <2>1
    <3>3. TraversalInv(c)'
      BY <1>1, <3>2 DEF ScanInv, TraversalInv
    <3> QED
      BY <3>1, <3>3
<1> QED
  BY <1>2, <1>3 DEF ScanInv

\* The inductive invariant of SCAN.
THEOREM ScanInvariance == Spec => [](ScanTypeOK /\ ScanInv)
<1>1. Init => ScanTypeOK /\ ScanInv
  <2> SUFFICES ASSUME Init PROVE ScanTypeOK /\ ScanInv
    OBVIOUS
  <2>1. DOMAIN sessions = {} /\ retired = {} /\ cleared = {} /\ now = 0
    BY DEF Init
  <2>2. sessions \in [DOMAIN sessions -> Session]
    BY DEF Init
  <2>3. scan = [c \in Scanners |-> NoScan]
    BY DEF Init
  <2>4. ScanTypeOK
    BY <2>1, <2>2, <2>3, NoScanType DEF ScanTypeOK
  <2>5. ASSUME NEW c \in Scanners
        PROVE  TraversalInv(c) /\ RequestInv(c)
    <3>1. scan[c] = NoScan
      BY <2>3, <2>5
    <3>2. /\ NoScan.snap = <<>> /\ NoScan.got = <<>> /\ NoScan.cursor = 0 /\ NoScan.at = 0
          /\ NoScan.pc = "idle"
      BY DEF NoScan
    <3>3. \E n \in 0..Len(scan[c].snap) : scan[c].got = SubSeq(scan[c].snap, 1, n)
      <4>1. <<>> \in Seq(Keys) /\ 0 \in 0..Len(<<>>)
        OBVIOUS
      <4> QED
        BY <3>1, <3>2, <4>1, WholePage
    <3> QED
      BY <2>1, <3>1, <3>2, <3>3 DEF TraversalInv, RequestInv
  <2>6. CursorsInv
    BY <2>1, <2>3 DEF CursorsInv, NoScan
  <2> QED
    BY <2>4, <2>5, <2>6 DEF ScanInv
<1>2. ScanTypeOK /\ ScanInv /\ [Next]_vars => (ScanTypeOK /\ ScanInv)'
  <2> SUFFICES ASSUME ScanTypeOK, ScanInv, [Next]_vars PROVE ScanTypeOK' /\ ScanInv'
    OBVIOUS
  <2>1. CASE UNCHANGED vars
    BY <2>1 DEF vars, ScanTypeOK, ScanInv, CursorsInv, TraversalInv, RequestInv
  <2>2. CASE Next
    BY <2>2, ClearStep, TickStep, CaptureStep, PresentStep, StartStep, NextPageStep DEF Next
  <2> QED
    BY <2>1, <2>2
<1> QED
  BY <1>1, <1>2, PTL DEF Spec

\* A traversal that was followed to cursor 0 has returned the snapshot that
\* captureLiveKeys took, no part of it skipped or repeated, for any number of scanners,
\* page sizes, failures and repeated requests.
THEOREM NamesOnce == Spec => []EveryNameOnce
<1>1. ScanTypeOK /\ ScanInv => EveryNameOnce
  <2> SUFFICES ASSUME ScanTypeOK, ScanInv, NEW c \in Scanners
               PROVE  /\ \E n \in 0..Len(scan[c].snap) : scan[c].got = SubSeq(scan[c].snap, 1, n)
                      /\ scan[c].pc = "idle" /\ scan[c].cursor = 0 => scan[c].got = scan[c].snap
    BY DEF EveryNameOnce
  <2> QED
    BY DEF ScanInv, TraversalInv
<1> QED
  BY <1>1, ScanInvariance, PTL

\* expireLocked, next and the calls of other scanners never take a cursor from
\* its holder before its time.
THEOREM CursorsLast == Spec => []CursorStaysValid
<1>1. ScanTypeOK /\ ScanInv => CursorStaysValid
  BY DEF ScanInv, TraversalInv, CursorStaysValid
<1> QED
  BY <1>1, ScanInvariance, PTL

----------------------------------------------------------------------------
(***************************************************************************)
(* The budget.                                                             *)
(***************************************************************************)
\* Sessions ss within the limits, with sz bytes accounted for.
Managed(ss) == DOMAIN ss \subseteq Tokens /\ ss \in [DOMAIN ss -> Session]

Budgeted(ss, sz) ==
  /\ Cardinality(DOMAIN ss) <= MaxSessions
  /\ sz = SumBytes(ss, DOMAIN ss) /\ sz <= MaxBytes
  /\ \A t \in DOMAIN ss : Cost(ss[t]) <= ss[t].bytes

\* The slice of a SCAN 0 has room for its names.
SnapshotsFit == \A c \in Scanners : scan[c].pc = "start" => Len(scan[c].snap) <= scan[c].cap

\* Within the limits, the arithmetic of the manager does not wrap.
LEMMA MinusIsExact ==
  ASSUME NEW a \in Nat, NEW b \in Nat, b <= a, a <= MaxUint
  PROVE  Minus(a, b) = a - b
  BY LimitsAreNaturals DEF Minus

\* A sum that fits does not wrap around.
LEMMA AddIsExact ==
  ASSUME NEW a \in Nat, a <= MaxUint
  PROVE  a % (MaxUint + 1) = a
  BY LimitsAreNaturals

\* The sessions left when some are removed, by expireLocked or after a last page.
LEMMA BudgetRemoves ==
  ASSUME NEW ss, NEW sz, Managed(ss), Budgeted(ss, sz), NEW E, E \subseteq DOMAIN ss
  PROVE  /\ Managed(Without(ss, E)) /\ DOMAIN Without(ss, E) = DOMAIN ss \ E
         /\ \A t \in DOMAIN ss \ E : Without(ss, E)[t] = ss[t]
         /\ Budgeted(Without(ss, E), Minus(sz, SumBytes(ss, E)))
         /\ SumBytes(ss, E) \in Nat /\ sz \in Nat /\ SumBytes(ss, E) <= sz
         /\ Minus(sz, SumBytes(ss, E)) = sz - SumBytes(ss, E)
<1> DEFINE D == DOMAIN ss
           left == Without(ss, E)
           e == SumBytes(ss, E)
           r == SumBytes(left, D \ E)
<1>1. DOMAIN left = D \ E /\ \A t \in D \ E : left[t] = ss[t]
  BY DEF Without
<1>2. D \subseteq Tokens /\ \A t \in D : ss[t] \in Session
  BY DEF Managed
<1>3. \A t \in D : ss[t].bytes \in Nat
  BY <1>2 DEF Session
<1>4. left \in [DOMAIN left -> Session]
  BY Zenon, <1>2 DEF Without
<1>5. IsFiniteSet(Tokens) /\ D \in SUBSET Tokens /\ E \in SUBSET D
  BY <1>2, TokensAssumption
<1>6. sz = SumBytes(ss, D) /\ sz <= MaxBytes
  BY Zenon DEF Budgeted
<1> HIDE DEF D, left
<1>7. SumBytes(ss, D) = r + e /\ r \in Nat /\ e \in Nat
  <2> DEFINE R == D \ E
  <2>1. /\ D \subseteq Tokens /\ E \subseteq D /\ R = D \ E
        /\ \A t \in R : left[t] = ss[t]
    BY Zenon, <1>1, <1>2 DEF D
  <2> HIDE DEF R
  <2>2. Remains(ss, D, E, left, R)
    BY Zenon, <1>3, <2>1 DEF Remains
  <2>3. SumBytes(ss, D) = SumBytes(left, R) + e /\ SumBytes(left, R) \in Nat /\ e \in Nat
    BY <2>2, SumOfRest
  <2> QED
    BY Zenon, <2>3 DEF R
<1> HIDE DEF r, e
<1>8. sz \in Nat /\ e <= sz /\ sz - e = r /\ r <= MaxBytes /\ sz <= MaxUint
  BY <1>6, <1>7, LimitsAreNaturals
<1>9. Minus(sz, e) = sz - e
  BY Zenon, <1>7, <1>8, MinusIsExact
<1>10. Cardinality(D \ E) <= MaxSessions
  <2>1. D \ E \in SUBSET D /\ IsFiniteSet(D)
    BY <1>5, FS_Subset
  <2>2. IsFiniteSet(D \ E) /\ Cardinality(D \ E) <= Cardinality(D)
    BY <2>1, FS_Subset
  <2>3. Cardinality(D \ E) \in Nat /\ Cardinality(D) \in Nat
    BY Zenon, <2>1, <2>2, FS_CardinalityType
  <2>4. Cardinality(D) <= MaxSessions
    BY Zenon DEF Budgeted, D
  <2> QED
    BY <2>2, <2>3, <2>4, LimitsAreNaturals
<1>11. \A t \in D \ E : Cost(left[t]) <= left[t].bytes
  BY Zenon, <1>1 DEF Budgeted, D
<1>12. Budgeted(left, Minus(sz, e))
  BY Zenon, <1>1, <1>8, <1>9, <1>10, <1>11 DEF Budgeted, r
<1>13. Managed(left)
  BY <1>1, <1>2, <1>4 DEF Managed
<1> QED
  BY Zenon, <1>1, <1>7, <1>8, <1>9, <1>12, <1>13 DEF left, D, e

\* One session more, under a new cursor.
LEMMA BudgetAdds ==
  ASSUME NEW ss, NEW sz, Managed(ss), Budgeted(ss, sz), NEW t \in Tokens, t \notin DOMAIN ss,
         NEW session \in Session, Cost(session) <= session.bytes,
         Cardinality(DOMAIN ss) < MaxSessions, sz + session.bytes <= MaxBytes
  PROVE  Managed(With(ss, t, session)) /\ Budgeted(With(ss, t, session), sz + session.bytes)
<1> DEFINE D == DOMAIN ss
           more == With(ss, t, session)
           M == DOMAIN more
<1>1. M = D \cup {t} /\ more[t] = session /\ \A u \in D : more[u] = ss[u]
  BY DEF With
<1>2. D \subseteq Tokens /\ \A u \in D : ss[u] \in Session
  BY DEF Managed
<1>3. more \in [M -> Session]
  BY Zenon, <1>2 DEF With
<1> HIDE DEF D, more, M
<1>4. \A u \in M : more[u].bytes \in Nat
  BY <1>3 DEF Session
<1>5. IsFiniteSet(Tokens) /\ M \in SUBSET Tokens /\ {t} \in SUBSET M /\ M \ {t} = D /\ t \in M
  BY <1>1, <1>2, TokensAssumption DEF D
<1>6. \A u \in M \ {t} : ss[u] = more[u]
  BY <1>1, <1>5
<1> DEFINE one == {t}
<1>7. one \in SUBSET M /\ M \ one = D /\ \A u \in M \ one : ss[u] = more[u]
  BY <1>5, <1>6
<1>8. SumBytes(more, one) = session.bytes
  BY Zenon, <1>1, <1>4, <1>5, SumOfOne
<1> HIDE DEF one
<1>9. SumBytes(more, M) = SumBytes(ss, D) + SumBytes(more, one)
  <2>1. /\ M \subseteq Tokens /\ one \subseteq M /\ D = M \ one
        /\ \A u \in D : ss[u] = more[u]
    BY Zenon, <1>1, <1>5, <1>7
  <2>2. Remains(more, M, one, ss, D)
    BY Zenon, <1>4, <2>1 DEF Remains
  <2> QED
    BY <2>2, SumOfRest
<1>10. sz = SumBytes(ss, D)
  BY Zenon DEF Budgeted, D
<1>11. SumBytes(more, M) = sz + session.bytes
  BY Zenon, <1>8, <1>9, <1>10
<1>12. Cardinality(M) <= MaxSessions
  <2>1. D \in SUBSET Tokens /\ t \notin D
    BY <1>2 DEF D
  <2>2. IsFiniteSet(D)
    BY Zenon, <1>5, <2>1, FS_Subset
  <2>3. Cardinality(M) = Cardinality(D) + 1
    BY Zenon, <1>1, <2>1, <2>2, FS_AddElement
  <2>4. Cardinality(D) \in Nat
    BY Zenon, <2>2, FS_CardinalityType
  <2> QED
    BY <2>3, <2>4, LimitsAreNaturals DEF D
<1>13. \A u \in M : Cost(more[u]) <= more[u].bytes
  BY Zenon, <1>1 DEF Budgeted, D
<1>14. Budgeted(more, sz + session.bytes)
  BY Zenon, <1>11, <1>12, <1>13 DEF Budgeted, M
<1>15. Managed(more)
  BY <1>3, <1>5 DEF Managed, M
<1> QED
  BY Zenon, <1>14, <1>15 DEF more

\* What expireLocked leaves is within the limits.
LEMMA BudgetExpires ==
  ASSUME ScanTypeOK, Budgeted(sessions, bytes), NEW at
  PROVE  Managed(Kept(at)) /\ Budgeted(Kept(at), KeptBytes(at)) /\ KeptBytes(at) \in Nat
<1> DEFINE E == Expirable(at)
           e == SumBytes(sessions, E)
<1>1. Managed(sessions) /\ E \subseteq DOMAIN sessions
  BY DEF ScanTypeOK, Managed, Expirable
<1> HIDE DEF E
<1>2. /\ Managed(Without(sessions, E)) /\ Budgeted(Without(sessions, E), Minus(bytes, e))
      /\ e \in Nat /\ bytes \in Nat /\ e <= bytes /\ Minus(bytes, e) = bytes - e
  BY Zenon, <1>1, BudgetRemoves
<1> HIDE DEF e
<1>3. Minus(bytes, e) \in Nat
  BY <1>2
<1> QED
  BY Zenon, <1>2, <1>3 DEF Kept, KeptBytes, E, e

\* A call that ends leaves the captured slices of the other scanners alone.
LEMMA FitsKept ==
  ASSUME ScanTypeOK, SnapshotsFit, NEW c \in Scanners, NEW outcome, outcome.pc # "start",
         scan' = [scan EXCEPT ![c] = outcome]
  PROVE  SnapshotsFit'
<1> SUFFICES ASSUME NEW d \in Scanners, scan'[d].pc = "start"
             PROVE  Len(scan'[d].snap) <= scan'[d].cap
  BY DEF SnapshotsFit
<1>1. scan'[d] = IF d = c THEN outcome ELSE scan[d]
  BY DEF ScanTypeOK
<1> QED
  BY <1>1 DEF SnapshotsFit

\* start keeps the budget: what its three tests let in fits.
LEMMA StartBudget ==
  ASSUME ScanTypeOK, Budgeted(sessions, bytes), SnapshotsFit,
         NEW c \in Scanners, NEW count \in Counts, Start(c, count)
  PROVE  Budgeted(sessions', bytes') /\ SnapshotsFit'
<1> DEFINE s == scan[c]
           end == ScanPageEnd(0, Len(s.snap), count)
           size == ScanSessionBytes(s.snap, s.cap)
           kept == Kept(s.at)
           retained == KeptBytes(s.at)
           gone == Expirable(s.at)
           page == [NoScan EXCEPT !.snap = s.snap, !.got = SubSeq(s.snap, 1, end), !.used = s.at]
           session == [keys |-> s.snap, pattern |-> s.pattern, position |-> end,
                       lastUsed |-> s.at, bytes |-> size]
<1>1. \/ \E outcome : outcome.pc # "start" /\ Ends(c, kept, retained, gone, outcome)
      \/ /\ ~Full(kept, retained, size)
         /\ \E t \in NextToken(DOMAIN kept) : \E outcome :
              /\ outcome.pc # "start"
              /\ Ends(c, With(kept, t, session), (retained + size) % (MaxUint + 1), gone, outcome)
  <2>1. \/ Ends(c, kept, retained, gone, page)
        \/ Ends(c, kept, retained, gone, NoScan)
        \/ /\ ~Full(kept, retained, size)
           /\ \E t \in NextToken(DOMAIN kept) :
                Ends(c, With(kept, t, session), (retained + size) % (MaxUint + 1), gone,
                     [page EXCEPT !.cursor = t])
    BY Zenon DEF Start
  <2>2. page.pc = "idle" /\ NoScan.pc = "idle" /\ \A t : [page EXCEPT !.cursor = t].pc = "idle"
    BY DEF NoScan
  <2> HIDE DEF page, kept, retained, gone, size, session
  <2> QED
    BY Zenon, <2>1, <2>2
<1>2. Managed(kept) /\ Budgeted(kept, retained) /\ retained \in Nat
  BY Zenon, BudgetExpires
<1>3. s.pc = "start" /\ s.snap \in Seq(Keys) /\ s.cap \in Nat /\ Len(s.snap) <= s.cap
      /\ s.pattern \in SUBSET Keys /\ s.at \in Nat
  <2>1. s.pc = "start"
    BY Zenon DEF Start
  <2>2. s \in ScanState
    BY DEF ScanTypeOK
  <2>3. Len(s.snap) <= s.cap
    BY Zenon, <2>1 DEF SnapshotsFit
  <2> HIDE DEF s
  <2> QED
    BY <2>1, <2>2, <2>3 DEF ScanState
<1>4. end \in Nat
  <2>1. count \in Nat /\ Len(s.snap) \in Nat
    BY <1>3, CountsAssumption
  <2> HIDE DEF s
  <2> QED
    BY <2>1 DEF ScanPageEnd
<1>5. session.keys = s.snap /\ session.bytes = size
  OBVIOUS
<1>6. size \in Nat /\ (size < MaxUint => Cost(session) <= size)
  <2> DEFINE keys == s.snap
             cap == s.cap
  <2>1. keys \in Seq(Keys) /\ cap \in Nat /\ session.keys = keys /\ Len(keys) <= cap
    BY <1>3
  <2> HIDE DEF keys, cap, session
  <2>2. /\ ScanSessionBytes(keys, cap) \in Nat
        /\ ScanSessionBytes(keys, cap) < MaxUint => Cost(session) <= ScanSessionBytes(keys, cap)
    BY <2>1, SizeCoversCost
  <2> QED
    BY Zenon, <2>2 DEF keys, cap
<1>7. session \in Session
  <2> HIDE DEF s, end, size
  <2> QED
    BY <1>3, <1>4, <1>6 DEF Session
<1> HIDE DEF s, end, size, kept, retained, gone, page, session
<1>8. CASE \E outcome : outcome.pc # "start" /\ Ends(c, kept, retained, gone, outcome)
  <2>1. PICK outcome : outcome.pc # "start" /\ Ends(c, kept, retained, gone, outcome)
    BY <1>8
  <2>2. /\ sessions' = kept /\ bytes' = retained /\ scan' = [scan EXCEPT ![c] = outcome]
    BY Zenon, <2>1 DEF Ends
  <2> QED
    BY Zenon, <1>2, <2>1, <2>2, FitsKept
<1>9. CASE /\ ~Full(kept, retained, size)
           /\ \E t \in NextToken(DOMAIN kept) : \E outcome :
                /\ outcome.pc # "start"
                /\ Ends(c, With(kept, t, session), (retained + size) % (MaxUint + 1), gone, outcome)
  <2>0. PICK t \in NextToken(DOMAIN kept) : \E outcome :
          /\ outcome.pc # "start"
          /\ Ends(c, With(kept, t, session), (retained + size) % (MaxUint + 1), gone, outcome)
    BY Zenon, <1>9
  <2>1. PICK outcome :
          /\ outcome.pc # "start"
          /\ Ends(c, With(kept, t, session), (retained + size) % (MaxUint + 1), gone, outcome)
    BY Zenon, <2>0
  <2>2. /\ sessions' = With(kept, t, session) /\ bytes' = (retained + size) % (MaxUint + 1)
        /\ scan' = [scan EXCEPT ![c] = outcome]
    BY Zenon, <2>1 DEF Ends
  <2>3. t \in Tokens /\ t \notin DOMAIN kept
    BY <2>0 DEF NextToken
  <2>4. /\ ~(Cardinality(DOMAIN kept) >= MaxSessions) /\ ~(size > MaxBytes)
        /\ ~(retained > Minus(MaxBytes, size))
    BY Zenon, <1>9 DEF Full
  <2>5. Cardinality(DOMAIN kept) < MaxSessions
    <3>1. DOMAIN kept \in SUBSET Tokens /\ IsFiniteSet(Tokens)
      BY <1>2, TokensAssumption DEF Managed
    <3>2. Cardinality(DOMAIN kept) \in Nat
      BY <3>1, FS_Subset, FS_CardinalityType
    <3> QED
      BY <2>4, <3>2, LimitsAreNaturals
  <2>6. size <= MaxBytes /\ MaxBytes <= MaxUint /\ MaxBytes \in Nat
    BY <1>6, <2>4, LimitsAreNaturals
  <2>7. Minus(MaxBytes, size) = MaxBytes - size
    BY Zenon, <1>6, <2>6, MinusIsExact
  <2>8. /\ retained + size <= MaxBytes /\ retained + size \in Nat /\ retained + size <= MaxUint
        /\ size < MaxUint
    BY <1>2, <1>6, <2>4, <2>6, <2>7, LimitsAreNaturals
  <2>9. bytes' = retained + session.bytes
    BY <1>5, <2>2, <2>8, AddIsExact
  <2>10. Cost(session) <= session.bytes /\ retained + session.bytes <= MaxBytes
    BY Zenon, <1>5, <1>6, <2>8
  <2>11. Budgeted(With(kept, t, session), retained + session.bytes)
    BY Zenon, <1>2, <1>7, <2>3, <2>5, <2>10, BudgetAdds
  <2> QED
    BY Zenon, <2>1, <2>2, <2>9, <2>11, FitsKept
<1> QED
  BY Zenon, <1>1, <1>8, <1>9

\* The session of a cursor goes on under another: the account does not change.
LEMMA BudgetMoves ==
  ASSUME NEW ss, NEW sz, Managed(ss), Budgeted(ss, sz), NEW t \in DOMAIN ss,
         NEW u \in Tokens, u \notin DOMAIN ss,
         NEW moved \in Session, moved.keys = ss[t].keys, moved.bytes = ss[t].bytes
  PROVE  Budgeted(Replace(ss, t, u, moved), sz)
<1> DEFINE E == {t}
           left == Without(ss, E)
           e == SumBytes(ss, E)
<1>1. E \subseteq DOMAIN ss /\ t \in DOMAIN ss
  OBVIOUS
<1>2. moved.bytes \in Nat
  BY DEF Session
<1>3. e = moved.bytes
  BY <1>2, SumOfOne
<1> HIDE DEF E
<1>4. /\ Managed(left) /\ Budgeted(left, Minus(sz, e)) /\ DOMAIN left = DOMAIN ss \ E
      /\ e \in Nat /\ sz \in Nat /\ e <= sz /\ Minus(sz, e) = sz - e
  BY <1>1, BudgetRemoves
<1> HIDE DEF left, e
<1>5. Cardinality(DOMAIN left) < MaxSessions
  <2>1. DOMAIN ss \in SUBSET Tokens /\ IsFiniteSet(Tokens)
    BY TokensAssumption DEF Managed
  <2>2. IsFiniteSet(DOMAIN ss) /\ Cardinality(DOMAIN ss) \in Nat
    BY <2>1, FS_Subset, FS_CardinalityType
  <2>3. Cardinality(DOMAIN left) = Cardinality(DOMAIN ss) - 1
    BY <1>4, <2>2, FS_RemoveElement DEF E
  <2>4. Cardinality(DOMAIN ss) <= MaxSessions
    BY Zenon DEF Budgeted
  <2> QED
    BY <2>2, <2>3, <2>4, LimitsAreNaturals
<1>6. u \notin DOMAIN left
  BY <1>4
<1>7. Cost(moved) <= moved.bytes
  <2>1. Cost(moved) = Cost(ss[t])
    BY Zenon DEF Cost
  <2>2. Cost(ss[t]) <= ss[t].bytes
    BY Zenon DEF Budgeted
  <2> QED
    BY Zenon, <2>1, <2>2
<1> DEFINE rest == Minus(sz, e)
<1>8. rest + moved.bytes = sz /\ sz <= MaxBytes
  <2>1. sz <= MaxBytes
    BY Zenon DEF Budgeted
  <2> QED
    BY <1>2, <1>3, <1>4, <2>1
<1>9. Managed(left) /\ Budgeted(left, rest) /\ rest + moved.bytes <= MaxBytes
  BY Zenon, <1>4, <1>8
<1> HIDE DEF rest
<1>10. Budgeted(With(left, u, moved), rest + moved.bytes)
  BY Zenon, <1>5, <1>6, <1>7, <1>9, BudgetAdds
<1> QED
  BY Zenon, <1>8, <1>10 DEF Replace, left, E

\* next keeps the budget, whether it fails, ends a traversal or goes on with it.
LEMMA NextPageBudget ==
  ASSUME ScanTypeOK, Budgeted(sessions, bytes), SnapshotsFit,
         NEW c \in Scanners, NEW count \in Counts, NEW given, NextPage(c, count, given)
  PROVE  Budgeted(sessions', bytes') /\ SnapshotsFit'
<1> DEFINE s == scan[c]
           t == s.presented
           kept == Kept(s.at)
           retained == KeptBytes(s.at)
           gone == Expirable(s.at)
           error == [s EXCEPT !.pc = "idle", !.presented = 0, !.at = 0]
           session == kept[t]
           end == ScanPageEnd(session.position, Len(session.keys), count)
           page == [error EXCEPT !.used = s.at,
                      !.got = @ \o SubSeq(session.keys, session.position + 1, end)]
           moved == [session EXCEPT !.position = end, !.lastUsed = s.at]
<1>1. s \in ScanState
  BY DEF ScanTypeOK
<1>2. \/ Ends(c, kept, retained, gone, error)
      \/ /\ t \in DOMAIN kept
         /\ Ends(c, Without(kept, {t}), Minus(retained, session.bytes), gone \cup {t},
                 [page EXCEPT !.cursor = 0])
      \/ /\ t \in DOMAIN kept
         /\ \E u \in NextToken(DOMAIN kept) :
              Ends(c, Replace(kept, t, u, moved), retained, gone \cup {t},
                   [page EXCEPT !.cursor = u])
  BY Zenon DEF NextPage
<1>3. error.pc = "idle"
  BY Zenon, <1>1 DEF ScanState
<1>4. \A u : [page EXCEPT !.cursor = u].pc = "idle"
  <2>1. error \in ScanState
    BY Zenon, <1>1 DEF ScanState
  <2> HIDE DEF error
  <2> QED
    BY Zenon, <1>3, <2>1 DEF ScanState
<1>5. Managed(kept) /\ Budgeted(kept, retained) /\ retained \in Nat
  BY Zenon, BudgetExpires
<1>6. s.at \in Nat /\ count \in Nat
  BY <1>1, CountsAssumption DEF ScanState
<1> HIDE DEF s, t, kept, retained, gone, error, page
<1>7. ASSUME t \in DOMAIN kept
      PROVE  /\ session \in Session /\ session.bytes \in Nat
             /\ moved \in Session /\ moved.keys = session.keys /\ moved.bytes = session.bytes
  <2>1. session \in Session
    BY <1>5, <1>7 DEF Managed
  <2> HIDE DEF session
  <2>2. session.position \in Nat /\ Len(session.keys) \in Nat /\ session.bytes \in Nat
    BY <2>1 DEF Session
  <2>3. end \in Nat
    BY <1>6, <2>2 DEF ScanPageEnd
  <2> HIDE DEF end
  <2> QED
    BY Zenon, <1>6, <2>1, <2>2, <2>3 DEF Session
<1> HIDE DEF moved
<1>8. CASE Ends(c, kept, retained, gone, error)
  <2>1. sessions' = kept /\ bytes' = retained /\ scan' = [scan EXCEPT ![c] = error]
    BY Zenon, <1>8 DEF Ends
  <2> QED
    BY Zenon, <1>3, <1>5, <2>1, FitsKept
<1>9. CASE /\ t \in DOMAIN kept
           /\ Ends(c, Without(kept, {t}), Minus(retained, session.bytes), gone \cup {t},
                   [page EXCEPT !.cursor = 0])
  <2> DEFINE outcome == [page EXCEPT !.cursor = 0]
             E == {t}
  <2>1. /\ sessions' = Without(kept, E) /\ bytes' = Minus(retained, session.bytes)
        /\ scan' = [scan EXCEPT ![c] = outcome]
    BY Zenon, <1>9 DEF Ends
  <2>2. outcome.pc = "idle"
    BY Zenon, <1>4
  <2>3. SumBytes(kept, E) = session.bytes
    BY <1>7, <1>9, SumOfOne
  <2>4. E \subseteq DOMAIN kept
    BY <1>9
  <2> HIDE DEF E, outcome, session
  <2>5. Budgeted(Without(kept, E), Minus(retained, SumBytes(kept, E)))
    BY Zenon, <1>5, <2>4, BudgetRemoves
  <2>6. Budgeted(sessions', bytes')
    BY Zenon, <2>1, <2>3, <2>5
  <2> QED
    BY Zenon, <2>1, <2>2, <2>6, FitsKept
<1>10. CASE /\ t \in DOMAIN kept
            /\ \E u \in NextToken(DOMAIN kept) :
                 Ends(c, Replace(kept, t, u, moved), retained, gone \cup {t},
                      [page EXCEPT !.cursor = u])
  <2>1. PICK u \in NextToken(DOMAIN kept) :
          Ends(c, Replace(kept, t, u, moved), retained, gone \cup {t}, [page EXCEPT !.cursor = u])
    BY Zenon, <1>10
  <2> DEFINE outcome == [page EXCEPT !.cursor = u]
  <2>2. /\ sessions' = Replace(kept, t, u, moved) /\ bytes' = retained
        /\ scan' = [scan EXCEPT ![c] = outcome]
    BY Zenon, <2>1 DEF Ends
  <2>3. outcome.pc = "idle"
    BY Zenon, <1>4
  <2>4. u \in Tokens /\ u \notin DOMAIN kept
    BY <2>1 DEF NextToken
  <2>5. moved \in Session /\ moved.keys = kept[t].keys /\ moved.bytes = kept[t].bytes
    BY Zenon, <1>7, <1>10
  <2> HIDE DEF outcome, session
  <2>6. Budgeted(Replace(kept, t, u, moved), retained)
    BY Zenon, <1>5, <1>10, <2>4, <2>5, BudgetMoves
  <2> QED
    BY Zenon, <2>2, <2>3, <2>6, FitsKept
<1> QED
  BY Zenon, <1>2, <1>8, <1>9, <1>10

\* captureLiveKeys: the slice was made for all the keys stored.
LEMMA CaptureBudget ==
  ASSUME ScanTypeOK, Budgeted(sessions, bytes), SnapshotsFit, NEW c \in Scanners,
         NEW live \in LiveSets, NEW stored \in {live, Keys}, NEW pattern \in Patterns,
         Capture(c, live, stored, pattern)
  PROVE  Budgeted(sessions', bytes') /\ SnapshotsFit'
<1> DEFINE S == live \cap pattern
           outcome == [NoScan EXCEPT !.pc = "start", !.at = now, !.pattern = pattern,
                         !.snap = Sorted(S), !.cap = Cardinality(stored)]
<1>1. sessions' = sessions /\ bytes' = bytes /\ scan' = [scan EXCEPT ![c] = outcome]
  BY Zenon DEF Capture
<1>2. outcome.snap = Sorted(S) /\ outcome.cap = Cardinality(stored)
  BY DEF NoScan
<1>3. live \in SUBSET Keys
  BY LiveSetsAssumption
<1>4. S \in SUBSET Keys /\ S \in SUBSET stored /\ stored \in SUBSET Keys
  BY <1>3
<1>5. IsFiniteSet(stored)
  BY Zenon, <1>4, KeysAssumption, FS_Subset
<1> HIDE DEF S, outcome
<1>6. Cardinality(S) <= Cardinality(stored)
  BY <1>4, <1>5, FS_Subset
<1>7. Len(Sorted(S)) = Cardinality(S)
  BY <1>4, SortedEnumerates
<1>8. ASSUME NEW d \in Scanners, scan'[d].pc = "start"
      PROVE  Len(scan'[d].snap) <= scan'[d].cap
  <2>1. scan'[d] = IF d = c THEN outcome ELSE scan[d]
    BY <1>1 DEF ScanTypeOK
  <2> QED
    BY <1>2, <1>6, <1>7, <1>8, <2>1 DEF SnapshotsFit
<1>9. SnapshotsFit'
  BY <1>8 DEF SnapshotsFit
<1> QED
  BY Zenon, <1>1, <1>9

\* A request with a cursor has captured nothing.
LEMMA PresentBudget ==
  ASSUME ScanTypeOK, Budgeted(sessions, bytes), SnapshotsFit, NEW c \in Scanners, NEW t,
         Present(c, t)
  PROVE  Budgeted(sessions', bytes') /\ SnapshotsFit'
<1> DEFINE outcome == [scan[c] EXCEPT !.pc = "next", !.at = now, !.presented = t]
<1>1. sessions' = sessions /\ bytes' = bytes
  BY Zenon DEF Present
<1>2. scan' = [scan EXCEPT ![c] = outcome]
  BY Zenon DEF Present
<1>3. outcome.pc = "next"
  BY DEF ScanTypeOK, ScanState
<1> HIDE DEF outcome
<1>4. SnapshotsFit'
  BY Zenon, <1>2, <1>3, FitsKept
<1> QED
  BY Zenon, <1>1, <1>4

\* No sessions cost nothing, at the start and after clear().
LEMMA NothingIsBudgeted == ASSUME NEW ss, DOMAIN ss = {} PROVE Budgeted(ss, 0)
<1> DEFINE one == [t \in {0} |-> [bytes |-> 0]]
<1>1. SumBytes(ss, {}) = SumBytes(one, {})
  <2>1. IsFiniteSet({}) /\ {} \in SUBSET {}
    BY FS_EmptySet
  <2> DEFINE w == [t \in {} |-> 0]
  <2>2. w \in Weights({}) /\ (\A t \in {} : ss[t].bytes = w[t]) /\ \A t \in {} : one[t].bytes = w[t]
    BY DEF Weights
  <2> HIDE DEF w, one
  <2>3. PICK f : Additive(f, {}, w)
    BY <2>1, <2>2, AdditiveExists
  <2>4. SumBytes(ss, {}) = f[{}] /\ SumBytes(one, {}) = f[{}]
    BY <2>1, <2>2, <2>3, SumIsAdditive
  <2> QED
    BY <2>4
<1>2. one[0].bytes = 0 /\ 0 \in Nat
  OBVIOUS
<1> HIDE DEF one
<1>3. SumBytes(one, {}) = 0
  BY Zenon, <1>2, SumOfOne
<1>4. Cardinality({}) = 0
  BY FS_EmptySet
<1> QED
  BY <1>1, <1>3, <1>4, LimitsAreNaturals DEF Budgeted

\* BudgetHolds, with what start relies on.  The counter is exact: neither its
\* subtractions nor its addition wrap, since what is subtracted was added before
\* and what is added was compared with the room left.  A session's accounted size
\* is below the limit, so that none of the sums it consists of has saturated, and
\* covers its names because the slice they were captured in has room for them.
THEOREM BudgetInvariance == Spec => [](Budgeted(sessions, bytes) /\ SnapshotsFit)
<1>1. Init => Budgeted(sessions, bytes) /\ SnapshotsFit
  <2> SUFFICES ASSUME Init PROVE Budgeted(sessions, bytes) /\ SnapshotsFit
    OBVIOUS
  <2>1. DOMAIN sessions = {} /\ bytes = 0
    BY DEF Init
  <2>2. Budgeted(sessions, bytes)
    BY Zenon, <2>1, NothingIsBudgeted
  <2>3. SnapshotsFit
    BY DEF Init, SnapshotsFit, NoScan
  <2> QED
    BY <2>2, <2>3
<1>2. /\ ScanTypeOK /\ ScanInv /\ Budgeted(sessions, bytes) /\ SnapshotsFit /\ [Next]_vars
      => (Budgeted(sessions, bytes) /\ SnapshotsFit)'
  <2> SUFFICES ASSUME ScanTypeOK, Budgeted(sessions, bytes), SnapshotsFit, [Next]_vars
               PROVE  Budgeted(sessions', bytes') /\ SnapshotsFit'
    BY Zenon DEF Budgeted
  <2>1. CASE UNCHANGED vars
    BY Zenon, <2>1 DEF vars, Budgeted, SnapshotsFit
  <2>2. CASE Clear
    <3>1. DOMAIN sessions' = {} /\ bytes' = 0 /\ scan' = scan
      BY <2>2 DEF Clear
    <3> QED
      BY Zenon, <3>1, NothingIsBudgeted DEF SnapshotsFit
  <2>3. CASE Tick
    BY Zenon, <2>3 DEF Tick, Budgeted, SnapshotsFit
  <2>4. ASSUME NEW c \in Scanners, NEW live \in LiveSets, NEW stored \in {live, Keys},
               NEW p \in Patterns, Capture(c, live, stored, p)
        PROVE  Budgeted(sessions', bytes') /\ SnapshotsFit'
    BY Zenon, <2>4, CaptureBudget
  <2>5. ASSUME NEW c \in Scanners, NEW t, Present(c, t)
        PROVE  Budgeted(sessions', bytes') /\ SnapshotsFit'
    BY Zenon, <2>5, PresentBudget
  <2>6. ASSUME NEW c \in Scanners, NEW count \in Counts, Start(c, count)
        PROVE  Budgeted(sessions', bytes') /\ SnapshotsFit'
    BY Zenon, <2>6, StartBudget
  <2>7. ASSUME NEW c \in Scanners, NEW count \in Counts, NEW given, NextPage(c, count, given)
        PROVE  Budgeted(sessions', bytes') /\ SnapshotsFit'
    BY Zenon, <2>7, NextPageBudget
  <2> QED
    BY Zenon, <2>1, <2>2, <2>3, <2>4, <2>5, <2>6, <2>7 DEF Next
<1> QED
  BY <1>1, <1>2, ScanInvariance, PTL DEF Spec

\* The bounds of ADR 0008 on retained sessions hold at all times.
THEOREM BudgetKept == Spec => []BudgetHolds
<1>1. Budgeted(sessions, bytes) => BudgetHolds
  BY Zenon DEF Budgeted, BudgetHolds
<1> QED
  BY <1>1, BudgetInvariance, PTL
=============================================================================
