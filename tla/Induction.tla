----------------------------- MODULE Induction -----------------------------
(***************************************************************************)
(* Induction and recursion over the naturals and over a range, stated with *)
(* sets and functions, so that every proof of the project can cite them.   *)
(***************************************************************************)
EXTENDS Integers, WellFoundedInduction, TLAPS

\* Induction over the naturals, for a set.
LEMMA NatInductionSet ==
  ASSUME NEW A, 0 \in A, \A n \in Nat : n \in A => n + 1 \in A
  PROVE  Nat \subseteq A
<1>1. SUFFICES ASSUME Nat \ A # {} PROVE FALSE
  OBVIOUS
<1>2. PICK m \in Nat \ A : \A j \in Nat \ A : ~(<<j, m>> \in OpToRel(<, Nat))
  BY Zenon, <1>1, WFMin, NatLessThanWellFounded
<1>3. \A j \in Nat \ A : ~(j < m)
  BY Zenon, <1>2 DEF OpToRel
<1>4. m \in Nat /\ m \notin A /\ m # 0
  BY Zenon, <1>2
<1>5. m - 1 \in Nat /\ m - 1 < m /\ (m - 1) + 1 = m
  BY <1>4
<1>6. m - 1 \in A
  BY <1>3, <1>5
<1> QED
  BY <1>4, <1>5, <1>6

\* The same up to a bound.
LEMMA UptoInductionSet ==
  ASSUME NEW N \in Nat, NEW A, 0 \in A, \A i \in 1..N : i - 1 \in A => i \in A
  PROVE  0..N \subseteq A
<1> DEFINE B == {n \in Nat : n \in 0..N => n \in A}
<1>1. 0 \in B
  OBVIOUS
<1>2. ASSUME NEW n \in Nat, n \in B PROVE n + 1 \in B
  <2>1. CASE n + 1 \in 0..N
    <3>1. n \in 0..N /\ n + 1 \in 1..N /\ (n + 1) - 1 = n
      BY <2>1
    <3> QED
      BY <1>2, <3>1
  <2>2. CASE n + 1 \notin 0..N
    BY <2>2
  <2> QED
    BY <2>1, <2>2
<1>3. Nat \subseteq B
  <2> HIDE DEF B
  <2> QED
    BY Zenon, <1>1, <1>2, NatInductionSet
<1> QED
  BY <1>3

\* f is the iteration of step, a function of an element of S and an index, from
\* base up to index N.
Steps(S, N) == [S \X (1..N) -> S]

Iterates(f, S, base, step, N) ==
  f \in [0..N -> S] /\ f[0] = base /\ \A i \in 1..N : f[i] = step[<<f[i - 1], i>>]

\* A function of an element and an index can be iterated.
LEMMA IterationExists ==
  ASSUME NEW S, NEW base \in S, NEW N \in Nat,
         NEW step \in Steps(S, N)
  PROVE  \E f : Iterates(f, S, base, step, N)
<1> DEFINE P(n) == n <= N => \E f : Iterates(f, S, base, step, n)
           A == {n \in Nat : P(n)}
<1>1. P(0)
  <2>1. Iterates([i \in 0..0 |-> base], S, base, step, 0)
    BY DEF Iterates
  <2> QED
    BY Zenon, <2>1
<1>2. ASSUME NEW n \in Nat, P(n)
      PROVE  P(n + 1)
  <2>1. SUFFICES ASSUME n + 1 <= N
                 PROVE  \E f : Iterates(f, S, base, step, n + 1)
    BY Zenon
  <2>2. n <= N
    BY <2>1
  <2>3. PICK f : Iterates(f, S, base, step, n)
    BY Zenon, <1>2, <2>2
  <2> DEFINE g == [i \in 0..n + 1 |-> IF i = n + 1 THEN step[<<f[n], n + 1>>] ELSE f[i]]
  <2>4. f \in [0..n -> S] /\ f[0] = base /\ \A i \in 1..n : f[i] = step[<<f[i - 1], i>>]
    BY Zenon, <2>3 DEF Iterates
  <2>5. step[<<f[n], n + 1>>] \in S
    <3>1. f[n] \in S /\ n + 1 \in 1..N
      BY <2>1, <2>4
    <3> QED
      BY <3>1 DEF Steps
  <2>6. /\ g \in [0..n + 1 -> S]
        /\ g[n + 1] = step[<<f[n], n + 1>>]
        /\ \A i \in 0..n : g[i] = f[i]
    BY <2>4, <2>5
  <2> HIDE DEF g
  <2>7. ASSUME NEW i \in 1..n + 1
        PROVE  g[i] = step[<<g[i - 1], i>>]
    <3>1. CASE i = n + 1
      <4>1. i - 1 = n /\ n \in 0..n
        BY <3>1
      <4> QED
        BY Zenon, <2>6, <3>1, <4>1
    <3>2. CASE i # n + 1
      <4>1. i \in 1..n /\ i \in 0..n /\ i - 1 \in 0..n
        BY <3>2
      <4> QED
        BY Zenon, <2>4, <2>6, <4>1
    <3> QED
      BY <3>1, <3>2
  <2>8. Iterates(g, S, base, step, n + 1)
    <3>1. g[0] = base
      BY <2>4, <2>6
    <3> QED
      BY Zenon, <2>6, <2>7, <3>1 DEF Iterates
  <2> QED
    BY Zenon, <2>8
<1>3. N \in A
  <2> HIDE DEF P
  <2>1. 0 \in A
    BY <1>1
  <2>2. \A n \in Nat : n \in A => n + 1 \in A
    BY <1>2
  <2> HIDE DEF A
  <2>3. Nat \subseteq A
    BY Zenon, <2>1, <2>2, NatInductionSet
  <2> QED
    BY Zenon, <2>3
<1>4. \E f : Iterates(f, S, base, step, N)
  <2>1. N <= N
    OBVIOUS
  <2> QED
    BY Zenon, <1>3, <2>1
<1> QED
  BY Zenon, <1>4

\* A set of naturals that is not empty has a smallest element.
LEMMA SmallestExists ==
  ASSUME NEW A \in SUBSET Nat, A # {}
  PROVE  \E m \in A : \A j \in A : m <= j
<1>1. PICK m \in A : \A j \in A : ~(<<j, m>> \in OpToRel(<, Nat))
  BY Zenon, WFMin, NatLessThanWellFounded
<1>2. \A j \in A : ~(j < m)
  BY Zenon, <1>1 DEF OpToRel
<1>3. \A j \in A : m <= j
  BY <1>2
<1> QED
  BY Zenon, <1>3

\* A function on 1..N can be defined by recursion from its end: each value by
\* the values above.
LookAhead(S, N, step) ==
  /\ step \in [[1..N -> S] \X (1..N) -> S]
  /\ \A i \in 1..N : \A f, g \in [1..N -> S] :
       (\A h \in i + 1..N : f[h] = g[h]) => step[<<f, i>>] = step[<<g, i>>]

Recurs(f, S, N, step) == f \in [1..N -> S] /\ \A i \in 1..N : f[i] = step[<<f, i>>]

LEMMA DownRecursionExists ==
  ASSUME NEW S, NEW b \in S, NEW N \in Nat, NEW step, LookAhead(S, N, step)
  PROVE  \E f : Recurs(f, S, N, step)
<1> DEFINE T == [1..N -> S]
           base == [i \in 1..N |-> b]
           at(k) == N + 1 - k
           next(f, k) == [f EXCEPT ![at(k)] = step[<<f, at(k)>>]]
           steps == [x \in T \X (1..N) |-> next(x[1], x[2])]
<1>1. base \in T
  OBVIOUS
<1>2. /\ step \in [T \X (1..N) -> S]
      /\ \A i \in 1..N : \A f, g \in T :
           (\A h \in i + 1..N : f[h] = g[h]) => step[<<f, i>>] = step[<<g, i>>]
  BY Zenon DEF LookAhead
<1>3. ASSUME NEW f \in T, NEW k \in 1..N
      PROVE  /\ at(k) \in 1..N /\ next(f, k) \in T /\ next(f, k)[at(k)] = step[<<f, at(k)>>]
             /\ \A h \in 1..N : h # at(k) => next(f, k)[h] = f[h]
  <2>1. at(k) \in 1..N
    OBVIOUS
  <2> HIDE DEF at
  <2>2. step[<<f, at(k)>>] \in S
    BY <1>2, <2>1
  <2> QED
    BY <2>1, <2>2
<1>4. steps \in Steps(T, N) /\ \A f \in T, k \in 1..N : steps[<<f, k>>] = next(f, k)
  <2> HIDE DEF T, next
  <2> QED
    BY Zenon, <1>3 DEF Steps
<1> HIDE DEF T, base, steps
<1>5. PICK F : Iterates(F, T, base, steps, N)
  BY Zenon, <1>1, <1>4, IterationExists
<1>6. F \in [0..N -> T] /\ \A k \in 1..N : F[k] = steps[<<F[k - 1], k>>]
  BY Zenon, <1>5 DEF Iterates
<1> DEFINE Right(k) == \A i \in 1..N : i > N - k => F[k][i] = step[<<F[k], i>>]
           A == {k \in 0..N : Right(k)}
<1>7. 0 \in A
  OBVIOUS
<1>8. ASSUME NEW k \in 1..N, k - 1 \in A PROVE k \in A
  <2> DEFINE f == F[k - 1]
             g == F[k]
  <2>1. k - 1 \in 0..N /\ k \in 0..N
    OBVIOUS
  <2>2. f \in T /\ g \in T /\ Right(k - 1)
    BY <1>6, <1>8, <2>1
  <2>3. g = next(f, k)
    BY Zenon, <1>4, <1>6, <2>2
  <2>4. g[at(k)] = step[<<f, at(k)>>] /\ \A h \in 1..N : h # at(k) => g[h] = f[h]
    <3> HIDE DEF next, at, f
    <3>1. /\ next(f, k)[at(k)] = step[<<f, at(k)>>]
          /\ \A h \in 1..N : h # at(k) => next(f, k)[h] = f[h]
      BY Zenon, <1>3, <2>2
    <3> HIDE DEF g
    <3> QED
      BY <2>3, <3>1
  <2>5. ASSUME NEW i \in 1..N, i > N - k PROVE g[i] = step[<<g, i>>]
    <3>1. \A h \in i + 1..N : h \in 1..N /\ h # at(k)
      BY <2>1, <2>5
    <3>2. \A h \in i + 1..N : f[h] = g[h]
      BY Zenon, <2>4, <3>1
    <3>3. step[<<f, i>>] = step[<<g, i>>]
      BY Zenon, <1>2, <2>2, <3>2
    <3>4. CASE i = at(k)
      BY Zenon, <2>4, <3>3, <3>4
    <3>5. CASE i # at(k)
      <4>1. i > N - (k - 1)
        BY <2>5, <3>5
      <4>2. f[i] = step[<<f, i>>]
        BY Zenon, <2>2, <4>1
      <4> QED
        BY Zenon, <2>4, <3>3, <3>5, <4>2
    <3> QED
      BY Zenon, <3>4, <3>5
  <2> QED
    BY Zenon, <2>1, <2>5
<1>9. 0..N \subseteq A
  <2> HIDE DEF A
  <2> QED
    BY Zenon, <1>7, <1>8, UptoInductionSet
<1>10. N \in 0..N /\ \A i \in 1..N : i > N - N
  OBVIOUS
<1>11. F[N] \in T /\ \A i \in 1..N : F[N][i] = step[<<F[N], i>>]
  <2>1. Right(N)
    BY Zenon, <1>9, <1>10
  <2> QED
    BY Zenon, <1>6, <1>10, <2>1
<1> QED
  BY Zenon, <1>11 DEF T, Recurs
=============================================================================
