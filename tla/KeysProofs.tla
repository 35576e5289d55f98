----------------------------- MODULE KeysProofs -----------------------------
(***************************************************************************)
(* Proofs about KEYS, for any names and any pattern: the glob matcher      *)
(* decides what the reference says (Match and Matches of Glob), names are  *)
(* ordered, and filtering the sorted names is sorting those that match.    *)
(***************************************************************************)
EXTENDS Commands, Induction, FiniteSetTheorems

\* All that the proofs need of a sequence of bytes.
Counted(bytes) == Len(bytes) \in Nat

----------------------------------------------------------------------------
(***************************************************************************)
(* What one element of a pattern takes.                                    *)
(***************************************************************************)
\* The loop of matchClass, from each index on, and one round of it.
ClassItems(p, b) ==
  LET items[i \in 1..Len(p) + 1] ==
        IF i > Len(p) THEN [next |-> i, ok |-> FALSE]
        ELSE IF p[i] = Close THEN [next |-> i + 1, ok |-> FALSE]
        ELSE LET rest == items[Item(p, i).next]
             IN [rest EXCEPT !.ok = @ \/ b \in Item(p, i).bytes]
  IN items

ClassRound(p, b, f, i) ==
  IF i > Len(p) THEN [next |-> i, ok |-> FALSE]
  ELSE IF p[i] = Close THEN [next |-> i + 1, ok |-> FALSE]
  ELSE LET rest == f[Item(p, i).next]
       IN [rest EXCEPT !.ok = @ \/ b \in Item(p, i).bytes]

Taken(p) == [next : 1..Len(p) + 1, ok : BOOLEAN]

\* An item is read from left to right, and within the pattern.
LEMMA ItemAdvances ==
  ASSUME NEW p, Counted(p), NEW i \in 1..Len(p)
  PROVE  Item(p, i).next \in i + 1..Len(p) + 1
<1>1. Len(p) \in Nat
  BY Zenon DEF Counted
<1> QED
  BY <1>1 DEF Item

\* A round looks only at what follows.
LEMMA ClassLooksAhead ==
  ASSUME NEW p, Counted(p), NEW b, NEW i \in 1..Len(p) + 1
  PROVE  /\ \A f \in [1..Len(p) + 1 -> Taken(p)] : ClassRound(p, b, f, i) \in Taken(p)
         /\ \A f, g : (\A h \in i + 1..Len(p) + 1 : f[h] = g[h]) =>
                        ClassRound(p, b, f, i) = ClassRound(p, b, g, i)
<1> DEFINE n == Len(p)
<1>1. n \in Nat
  BY Zenon DEF Counted
<1>2. CASE i > n
  <2>1. i \in 1..n + 1
    OBVIOUS
  <2> HIDE DEF n
  <2>2. [next |-> i, ok |-> FALSE] \in Taken(p)
    BY <2>1 DEF Taken, n
  <2> QED
    BY Zenon, <1>2, <2>2 DEF ClassRound, n
<1>3. CASE ~(i > n) /\ p[i] = Close
  <2>1. i + 1 \in 1..n + 1
    BY <1>1, <1>3
  <2> HIDE DEF n
  <2>2. [next |-> i + 1, ok |-> FALSE] \in Taken(p)
    BY <2>1 DEF Taken, n
  <2> QED
    BY Zenon, <1>3, <2>2 DEF ClassRound, n
<1>4. CASE ~(i > n) /\ p[i] # Close
  <2> DEFINE m == Item(p, i).next
             got == b \in Item(p, i).bytes
             Adds(r) == [r EXCEPT !.ok = @ \/ got]
  <2>1. i \in 1..n
    BY <1>1, <1>4
  <2>2. m \in i + 1..n + 1
    BY Zenon, <2>1, ItemAdvances
  <2>3. m \in 1..n + 1
    BY <1>1, <2>2
  <2>4. \A f : ClassRound(p, b, f, i) = Adds(f[m])
    BY Zenon, <1>4 DEF ClassRound, n
  <2>5. \A r \in Taken(p) : Adds(r) \in Taken(p)
    BY Zenon DEF Taken
  <2> HIDE DEF m, Adds, n
  <2> QED
    BY Zenon, <2>2, <2>3, <2>4, <2>5 DEF n
<1> QED
  BY Zenon, <1>2, <1>3, <1>4

\* The recursion defines the loop.
LEMMA ClassRecursion ==
  ASSUME NEW p, Counted(p), NEW b
  PROVE  \A i \in 1..Len(p) + 1 : ClassItems(p, b)[i] = ClassRound(p, b, ClassItems(p, b), i)
<1> DEFINE n == Len(p) + 1
           S == Taken(p)
           T == [1..n -> S]
           step == [x \in T \X (1..n) |-> ClassRound(p, b, x[1], x[2])]
           Unfold(f) == [i \in 1..n |-> ClassRound(p, b, f, i)]
           r == CHOOSE f : f = Unfold(f)
<1>1. n \in Nat /\ [next |-> 1, ok |-> FALSE] \in S
  BY DEF Counted, Taken
<1>2. ClassItems(p, b) = r
  BY Zenon DEF ClassItems, ClassRound
<1>3. ASSUME NEW i \in 1..n
      PROVE  /\ \A f \in T : ClassRound(p, b, f, i) \in S
             /\ \A f, g : (\A h \in i + 1..n : f[h] = g[h]) =>
                            ClassRound(p, b, f, i) = ClassRound(p, b, g, i)
  BY Zenon, ClassLooksAhead
<1> HIDE DEF n, S, T
<1>4. \A f \in T, i \in 1..n : step[<<f, i>>] = ClassRound(p, b, f, i)
  BY Zenon
<1>5. step \in [T \X (1..n) -> S]
  BY Zenon, <1>3
<1> HIDE DEF step
<1>6. LookAhead(S, n, step)
  <2>1. ASSUME NEW i \in 1..n, NEW f \in T, NEW g \in T, \A h \in i + 1..n : f[h] = g[h]
        PROVE  step[<<f, i>>] = step[<<g, i>>]
    <3>1. ClassRound(p, b, f, i) = ClassRound(p, b, g, i)
      BY Zenon, <1>3, <2>1
    <3> QED
      BY Zenon, <1>4, <3>1
  <2> QED
    BY Zenon, <1>5, <2>1 DEF LookAhead, T
<1>7. PICK f : Recurs(f, S, n, step)
  BY Zenon, <1>1, <1>6, DownRecursionExists
<1>8. f = Unfold(f)
  <2>1. f \in T /\ \A i \in 1..n : f[i] = step[<<f, i>>]
    BY Zenon, <1>7 DEF Recurs, T
  <2>2. \A i \in 1..n : f[i] = ClassRound(p, b, f, i)
    BY Zenon, <1>4, <2>1
  <2> QED
    BY Zenon, <2>1, <2>2 DEF T
<1>9. r = Unfold(r)
  <2> HIDE DEF Unfold
  <2> QED
    BY Zenon, <1>8
<1> HIDE DEF r
<1>10. \A i \in 1..n : r[i] = ClassRound(p, b, r, i)
  BY Zenon, <1>9
<1> QED
  BY Zenon, <1>2, <1>10 DEF n

\* From any index the class ends within the pattern, at a place that does not
\* depend on the byte.
LEMMA ClassEnds ==
  ASSUME NEW p, Counted(p), NEW i \in 1..Len(p) + 1
  PROVE  \A b, c : /\ ClassItems(p, b)[i] \in [next : i..Len(p) + 1, ok : BOOLEAN]
                   /\ ClassItems(p, b)[i].next = ClassItems(p, c)[i].next
<1> TAKE b, c
<1> DEFINE n == Len(p) + 1
           f == ClassItems(p, b)
           g == ClassItems(p, c)
           Ends(h) == /\ f[h] \in [next : h..n, ok : BOOLEAN]
                      /\ g[h] \in [next : h..n, ok : BOOLEAN]
                      /\ f[h].next = g[h].next
           A == {k \in 0..n : \A h \in 1..n : h > n - k => Ends(h)}
<1>1. n \in Nat /\ Len(p) \in Nat
  BY DEF Counted
<1>2. ASSUME NEW h \in 1..n
      PROVE  f[h] = ClassRound(p, b, f, h) /\ g[h] = ClassRound(p, c, g, h)
  BY Zenon, <1>2, ClassRecursion
<1>3. 0 \in A
  BY <1>1
<1>4. ASSUME NEW k \in 1..n, k - 1 \in A PROVE k \in A
  <2> DEFINE at == n - (k - 1)
  <2>1. at \in 1..n /\ \A h \in 1..n : h > n - k => h = at \/ h > n - (k - 1)
    BY <1>1
  <2>2. \A h \in 1..n : h > n - (k - 1) => Ends(h)
    BY <1>4
  <2> HIDE DEF at, Ends
  <2>3. Ends(at)
    <3>1. CASE at > Len(p)
      <4>1. at = n
        BY <1>1, <2>1, <3>1
      <4>2. f[at] = [next |-> at, ok |-> FALSE] /\ g[at] = [next |-> at, ok |-> FALSE]
        BY Zenon, <1>2, <2>1, <3>1 DEF ClassRound
      <4> QED
        BY <1>1, <2>1, <4>1, <4>2 DEF Ends
    <3>2. CASE ~(at > Len(p)) /\ p[at] = Close
      <4>1. at + 1 \in at..n
        BY <1>1, <2>1, <3>2
      <4>2. f[at] = [next |-> at + 1, ok |-> FALSE] /\ g[at] = [next |-> at + 1, ok |-> FALSE]
        BY Zenon, <1>2, <2>1, <3>2 DEF ClassRound
      <4> HIDE DEF n, f, g
      <4> QED
        BY <4>1, <4>2 DEF Ends
    <3>3. CASE ~(at > Len(p)) /\ p[at] # Close
      <4> DEFINE m == Item(p, at).next
                 bs == Item(p, at).bytes
      <4>1. at \in 1..Len(p)
        BY <1>1, <2>1, <3>3
      <4>2. m \in at + 1..n
        BY Zenon, <4>1, ItemAdvances
      <4>3. m \in 1..n /\ m > n - (k - 1) /\ \A x \in m..n : x \in at..n
        BY <1>1, <2>1, <4>2 DEF at
      <4>4. Ends(m)
        BY Zenon, <2>2, <4>3
      <4>5. /\ f[at] = [f[m] EXCEPT !.ok = @ \/ b \in bs]
            /\ g[at] = [g[m] EXCEPT !.ok = @ \/ c \in bs]
        BY Zenon, <1>2, <2>1, <3>3 DEF ClassRound
      <4> HIDE DEF n, f, g, m, bs
      <4>6. ASSUME NEW r \in [next : m..n, ok : BOOLEAN], NEW d
            PROVE  /\ [r EXCEPT !.ok = @ \/ d \in bs] \in [next : at..n, ok : BOOLEAN]
                   /\ [r EXCEPT !.ok = @ \/ d \in bs].next = r.next
        BY Zenon, <4>3
      <4> QED
        BY <4>4, <4>5, <4>6 DEF Ends
    <3> QED
      BY Zenon, <3>1, <3>2, <3>3
  <2>4. \A h \in 1..n : h > n - k => Ends(h)
    BY Zenon, <2>1, <2>2, <2>3
  <2>5. k \in 0..n
    BY <1>1
  <2> QED
    BY Zenon, <2>4, <2>5
<1>5. 0..n \subseteq A
  <2> HIDE DEF A, n
  <2> QED
    BY Zenon, <1>1, <1>3, <1>4, UptoInductionSet
<1>6. Ends(i)
  <2>1. n \in 0..n /\ i > n - n /\ i \in 1..n
    BY <1>1
  <2> HIDE DEF n, Ends
  <2>2. n \in A
    BY Zenon, <1>5, <2>1
  <2> QED
    BY Zenon, <2>1, <2>2
<1> HIDE DEF n, f, g
<1> QED
  BY Zenon, <1>6 DEF n, f, g

\* matchClass takes at least its bracket and stays within the pattern.
LEMMA ClassTakes ==
  ASSUME NEW p, Counted(p), NEW at \in 1..Len(p), NEW b, NEW c
  PROVE  /\ MatchClass(p, at, b).next \in at + 1..Len(p) + 1
         /\ MatchClass(p, at, b).ok \in BOOLEAN
         /\ MatchClass(p, at, b).next = MatchClass(p, at, c).next
<1> DEFINE n == Len(p)
           negated == at + 1 <= n /\ p[at + 1] = Caret
           i == IF negated THEN at + 2 ELSE at + 1
           Class(d) == ClassItems(p, d)[i]
<1>1. n \in Nat
  BY Zenon DEF Counted
<1>2. \A d : MatchClass(p, at, d) = [Class(d) EXCEPT !.ok = @ # negated]
  BY Zenon DEF MatchClass, ClassItems
<1>3. i \in 1..n + 1 /\ \A x \in i..n + 1 : x \in at + 1..n + 1
  BY <1>1
<1> HIDE DEF i, negated
<1>4. /\ Class(b) \in [next : i..n + 1, ok : BOOLEAN]
      /\ Class(c) \in [next : i..n + 1, ok : BOOLEAN]
      /\ Class(b).next = Class(c).next
  <2>1. \A d, e : /\ Class(d) \in [next : i..Len(p) + 1, ok : BOOLEAN]
                 /\ Class(d).next = Class(e).next
    BY Zenon, <1>3, ClassEnds
  <2> HIDE DEF Class
  <2> QED
    BY Zenon, <2>1
<1> HIDE DEF Class, n
<1>5. ASSUME NEW r \in [next : i..n + 1, ok : BOOLEAN]
      PROVE  /\ [r EXCEPT !.ok = @ # negated].next = r.next
             /\ [r EXCEPT !.ok = @ # negated].ok \in BOOLEAN
             /\ r.next \in i..n + 1
  OBVIOUS
<1> QED
  BY Zenon, <1>2, <1>3, <1>4, <1>5 DEF n

\* matchOne on an element: it takes one or more bytes of the pattern, how many
\* the element decides and not the byte that is matched.
LEMMA OneTakes ==
  ASSUME NEW p, Counted(p), NEW at \in 1..Len(p), NEW b, NEW c
  PROVE  /\ MatchOne(p, at, b).next \in at + 1..Len(p) + 1
         /\ MatchOne(p, at, b).ok \in BOOLEAN
         /\ MatchOne(p, at, b).next = MatchOne(p, at, c).next
<1>1. Len(p) \in Nat /\ ~(at > Len(p))
  BY DEF Counted
<1>2. /\ MatchClass(p, at, b).next \in at + 1..Len(p) + 1
      /\ MatchClass(p, at, b).ok \in BOOLEAN
      /\ MatchClass(p, at, b).next = MatchClass(p, at, c).next
  BY Zenon, ClassTakes
<1>3. at + 1 \in at + 1..Len(p) + 1
  BY <1>1
<1>4. CASE p[at] = Query
  BY Zenon, <1>1, <1>3, <1>4 DEF MatchOne
<1>5. CASE p[at] # Query /\ p[at] = Backslash /\ at + 1 <= Len(p)
  <2>1. at + 2 \in at + 1..Len(p) + 1
    BY <1>1, <1>5
  <2> QED
    BY Zenon, <1>1, <1>5, <2>1 DEF MatchOne
<1>6. CASE p[at] # Query /\ ~(p[at] = Backslash /\ at + 1 <= Len(p)) /\ p[at] = Open
  BY Zenon, <1>1, <1>2, <1>6 DEF MatchOne
<1>7. CASE p[at] # Query /\ ~(p[at] = Backslash /\ at + 1 <= Len(p)) /\ p[at] # Open
  BY Zenon, <1>1, <1>3, <1>7 DEF MatchOne
<1> QED
  BY Zenon, <1>4, <1>5, <1>6, <1>7

\* matchOne past the end of the pattern.
LEMMA OneEnds ==
  ASSUME NEW p, NEW at, at > Len(p), NEW b
  PROVE  MatchOne(p, at, b).ok = FALSE
  BY Zenon DEF MatchOne

\* There is a first index that holds no star.
LEMMA PastStarsHolds ==
  ASSUME NEW p, Counted(p), NEW i \in 1..Len(p) + 1
  PROVE  /\ PastStars(p, i) \in i..Len(p) + 1
         /\ \A h \in i..PastStars(p, i) - 1 : p[h] = Star
         /\ PastStars(p, i) <= Len(p) => p[PastStars(p, i)] # Star
<1> DEFINE n == Len(p)
           A == {j \in i..n + 1 : j <= n => p[j] # Star}
           Q(j) == /\ \A h \in i..j - 1 : p[h] = Star
                   /\ j <= n => p[j] # Star
<1>1. n \in Nat
  BY Zenon DEF Counted
<1>2. A \in SUBSET Nat /\ n + 1 \in A
  BY <1>1
<1>3. PICK m \in A : \A j \in A : m <= j
  <2> HIDE DEF A
  <2> QED
    BY Zenon, <1>2, SmallestExists
<1>4. m \in i..n + 1 /\ Q(m)
  BY <1>1, <1>3
<1> HIDE DEF Q
<1>5. PastStars(p, i) = CHOOSE j \in i..n + 1 : Q(j)
  BY Zenon DEF PastStars, Q
<1>6. PastStars(p, i) \in i..n + 1 /\ Q(PastStars(p, i))
  BY Zenon, <1>4, <1>5
<1> QED
  BY Zenon, <1>6 DEF Q, n

----------------------------------------------------------------------------
(***************************************************************************)
(* The reference.                                                          *)
(***************************************************************************)
\* From where does the rest of a pattern match the rest of a value?
From(p, v) ==
  LET from[i \in 1..Len(p) + 1] ==
        [j \in 1..Len(v) + 1 |->
           IF i > Len(p) THEN j > Len(v)
           ELSE IF p[i] = Star THEN \E n \in j..Len(v) + 1 : from[i + 1][n]
           ELSE /\ j <= Len(v) /\ MatchOne(p, i, v[j]).ok
                /\ from[MatchOne(p, i, v[j]).next][j + 1]]
  IN from

FromHere(p, v, f, i, j) ==
  IF i > Len(p) THEN j > Len(v)
  ELSE IF p[i] = Star THEN \E n \in j..Len(v) + 1 : f[i + 1][n]
  ELSE /\ j <= Len(v) /\ MatchOne(p, i, v[j]).ok
       /\ f[MatchOne(p, i, v[j]).next][j + 1]

\* It is a Boolean, and depends on what follows in the pattern.
LEMMA FromLooksAhead ==
  ASSUME NEW p, Counted(p), NEW v, Counted(v), NEW i \in 1..Len(p) + 1, NEW j \in 1..Len(v) + 1
  PROVE  /\ \A f : FromHere(p, v, f, i, j) \in BOOLEAN
         /\ \A f, g : (\A h \in i + 1..Len(p) + 1 : f[h] = g[h]) =>
                        FromHere(p, v, f, i, j) = FromHere(p, v, g, i, j)
<1> DEFINE n == Len(p)
<1>1. n \in Nat
  BY Zenon DEF Counted
<1>2. CASE i > n
  <2>1. (j > Len(v)) \in BOOLEAN
    BY DEF Counted
  <2> QED
    BY Zenon, <1>2, <2>1 DEF FromHere, n
<1>3. CASE ~(i > n) /\ p[i] = Star
  <2>1. i + 1 \in i + 1..n + 1
    BY <1>1, <1>3
  <2> QED
    BY Zenon, <1>3, <2>1 DEF FromHere, n
<1>4. CASE ~(i > n) /\ p[i] # Star
  <2> DEFINE m == MatchOne(p, i, v[j]).next
             ok == MatchOne(p, i, v[j]).ok
  <2>1. i \in 1..n
    BY <1>1, <1>4
  <2>2. m \in i + 1..n + 1 /\ ok \in BOOLEAN
    BY Zenon, <2>1, OneTakes
  <2>3. \A f : FromHere(p, v, f, i, j) = (j <= Len(v) /\ ok /\ f[m][j + 1])
    BY Zenon, <1>4 DEF FromHere, n
  <2> HIDE DEF m, ok, n
  <2> QED
    BY Zenon, <2>2, <2>3 DEF n
<1> QED
  BY Zenon, <1>2, <1>3, <1>4

\* The recursion defines the reference.
LEMMA FromRecursion ==
  ASSUME NEW p, Counted(p), NEW v, Counted(v)
  PROVE  /\ \A i \in 1..Len(p) + 1, j \in 1..Len(v) + 1 :
              /\ From(p, v)[i][j] = FromHere(p, v, From(p, v), i, j)
              /\ From(p, v)[i][j] \in BOOLEAN
         /\ Matches(p, v) = From(p, v)[1][1]
<1> DEFINE n == Len(p) + 1
           m == Len(v) + 1
           S == [1..m -> BOOLEAN]
           T == [1..n -> S]
           Row(f, i) == [j \in 1..m |-> FromHere(p, v, f, i, j)]
           step == [x \in T \X (1..n) |-> Row(x[1], x[2])]
           Unfold(f) == [i \in 1..n |-> Row(f, i)]
           r == CHOOSE f : f = Unfold(f)
<1>1. n \in Nat /\ [j \in 1..m |-> FALSE] \in S
  BY DEF Counted
<1>2. From(p, v) = r /\ Matches(p, v) = r[1][1]
  BY Zenon DEF From, Matches, FromHere
<1>3. ASSUME NEW i \in 1..n, NEW j \in 1..m
      PROVE  /\ \A f : FromHere(p, v, f, i, j) \in BOOLEAN
             /\ \A f, g : (\A h \in i + 1..n : f[h] = g[h]) =>
                            FromHere(p, v, f, i, j) = FromHere(p, v, g, i, j)
  BY Zenon, FromLooksAhead
<1> HIDE DEF n, m, T
<1>4. ASSUME NEW i \in 1..n
      PROVE  /\ \A f \in T : Row(f, i) \in S
             /\ \A f, g : (\A h \in i + 1..n : f[h] = g[h]) => Row(f, i) = Row(g, i)
  <2>1. ASSUME NEW f \in T PROVE Row(f, i) \in S
    BY Zenon, <1>3
  <2>2. ASSUME NEW f, NEW g, \A h \in i + 1..n : f[h] = g[h] PROVE Row(f, i) = Row(g, i)
    <3>1. \A j \in 1..m : FromHere(p, v, f, i, j) = FromHere(p, v, g, i, j)
      BY Zenon, <1>3, <2>2
    <3> QED
      BY Zenon, <3>1
  <2> QED
    BY Zenon, <2>1, <2>2
<1> HIDE DEF S
<1>5. \A f \in T, i \in 1..n : step[<<f, i>>] = Row(f, i)
  <2> HIDE DEF Row
  <2> QED
    BY Zenon
<1>6. step \in [T \X (1..n) -> S]
  <2> HIDE DEF Row
  <2> QED
    BY Zenon, <1>4
<1> HIDE DEF step, Row
<1>7. LookAhead(S, n, step)
  <2>1. ASSUME NEW i \in 1..n, NEW f \in T, NEW g \in T, \A h \in i + 1..n : f[h] = g[h]
        PROVE  step[<<f, i>>] = step[<<g, i>>]
    <3>1. Row(f, i) = Row(g, i)
      BY Zenon, <1>4, <2>1
    <3> QED
      BY Zenon, <1>5, <3>1
  <2> QED
    BY Zenon, <1>6, <2>1 DEF LookAhead, T
<1>8. PICK f : Recurs(f, S, n, step)
  BY Zenon, <1>1, <1>7, DownRecursionExists
<1>9. f = Unfold(f) /\ f \in T
  <2>1. f \in T /\ \A i \in 1..n : f[i] = step[<<f, i>>]
    BY Zenon, <1>8 DEF Recurs, T
  <2>2. \A i \in 1..n : f[i] = Row(f, i)
    BY Zenon, <1>5, <2>1
  <2> QED
    BY Zenon, <2>1, <2>2 DEF T
<1>10. r = Unfold(r)
  <2> HIDE DEF Unfold
  <2> QED
    BY Zenon, <1>9
<1> HIDE DEF r
<1>11. ASSUME NEW i \in 1..n, NEW j \in 1..m
       PROVE  r[i][j] = FromHere(p, v, r, i, j) /\ r[i][j] \in BOOLEAN
  <2>1. r[i] = Row(r, i)
    BY Zenon, <1>10
  <2>2. Row(r, i)[j] = FromHere(p, v, r, i, j)
    BY Zenon DEF Row
  <2>3. FromHere(p, v, r, i, j) \in BOOLEAN
    BY Zenon, <1>3
  <2> QED
    BY Zenon, <2>1, <2>2, <2>3
<1> QED
  BY Zenon, <1>2, <1>11 DEF n, m

\* Does the pattern from i on match the value from j on?
Reads(p, v, i, j) == From(p, v)[i][j]

LEMMA ReadsCases ==
  ASSUME NEW p, Counted(p), NEW v, Counted(v), NEW i \in 1..Len(p) + 1, NEW j \in 1..Len(v) + 1
  PROVE  /\ Reads(p, v, i, j) \in BOOLEAN
         /\ i > Len(p) => (Reads(p, v, i, j) <=> j > Len(v))
         /\ ~(i > Len(p)) /\ p[i] = Star =>
              (Reads(p, v, i, j) <=> \E n \in j..Len(v) + 1 : Reads(p, v, i + 1, n))
         /\ ~(i > Len(p)) /\ p[i] # Star =>
              (Reads(p, v, i, j) <=> /\ j <= Len(v) /\ MatchOne(p, i, v[j]).ok
                                     /\ Reads(p, v, MatchOne(p, i, v[j]).next, j + 1))
<1>1. From(p, v)[i][j] = FromHere(p, v, From(p, v), i, j) /\ From(p, v)[i][j] \in BOOLEAN
  BY Zenon, FromRecursion
<1> QED
  BY Zenon, <1>1 DEF Reads, FromHere

\* A row of stars is as good as one.
LEMMA StarsRead ==
  ASSUME NEW p, Counted(p), NEW v, Counted(v), NEW i \in 1..Len(p), p[i] = Star,
         NEW j \in 1..Len(v) + 1
  PROVE  /\ PastStars(p, i) \in i + 1..Len(p) + 1
         /\ Reads(p, v, i, j) <=> \E n \in j..Len(v) + 1 : Reads(p, v, PastStars(p, i), n)
<1> DEFINE q == PastStars(p, i)
           m == Len(v) + 1
           One(k) == \A h \in 1..m :
                       Reads(p, v, q - k, h) <=> \E n \in h..m : Reads(p, v, q, n)
           A == {k \in 0..q - i : k > 0 => One(k)}
<1>1. Len(p) \in Nat /\ m \in Nat /\ i \in 1..Len(p) + 1
  BY DEF Counted
<1>2. q \in i..Len(p) + 1 /\ (\A h \in i..q - 1 : p[h] = Star) /\ (q <= Len(p) => p[q] # Star)
  BY Zenon, <1>1, PastStarsHolds
<1>3. q \in i + 1..Len(p) + 1 /\ q - i \in Nat
  BY <1>1, <1>2
<1> HIDE DEF q
<1>4. 0 \in A
  BY <1>3
<1>5. ASSUME NEW k \in 1..q - i, k - 1 \in A PROVE k \in A
  <2> DEFINE a == q - k
  <2>1. /\ a \in 1..Len(p) + 1 /\ ~(a > Len(p)) /\ a \in i..q - 1 /\ a + 1 = q - (k - 1)
        /\ k \in 0..q - i /\ (k = 1 => a + 1 = q)
    BY <1>1, <1>3
  <2>2. p[a] = Star
    BY Zenon, <1>2, <2>1
  <2> HIDE DEF a
  <2>3. ASSUME NEW h \in 1..m
        PROVE  Reads(p, v, a, h) <=> \E n \in h..m : Reads(p, v, q, n)
    <3>1. Reads(p, v, a, h) <=> \E n \in h..m : Reads(p, v, a + 1, n)
      BY Zenon, <2>1, <2>2, ReadsCases
    <3>2. CASE k = 1
      BY Zenon, <2>1, <3>1, <3>2
    <3>3. CASE k # 1
      <4>1. One(k - 1)
        BY <1>5, <3>3
      <4>2. \A n \in h..m : n \in 1..m
        BY <1>1
      <4>3. \A n \in h..m : Reads(p, v, a + 1, n) <=> \E o \in n..m : Reads(p, v, q, o)
        BY Zenon, <2>1, <4>1, <4>2
      <4>4. (\A n \in h..m : n \in n..m) /\ \A n \in h..m : \A o \in n..m : o \in h..m
        BY <1>1
      <4> QED
        BY Zenon, <3>1, <4>3, <4>4
    <3> QED
      BY Zenon, <3>2, <3>3
  <2>4. One(k)
    BY Zenon, <2>3 DEF a
  <2> HIDE DEF One
  <2> QED
    BY <2>1, <2>4
<1>6. 0..q - i \subseteq A
  <2> HIDE DEF A
  <2> QED
    BY Zenon, <1>3, <1>4, <1>5, UptoInductionSet
<1>7. One(q - i)
  <2>1. q - i \in 0..q - i /\ q - i > 0
    BY <1>1, <1>3
  <2> HIDE DEF One
  <2> QED
    BY Zenon, <1>6, <2>1
<1>8. q - (q - i) = i
  BY <1>1, <1>3
<1> QED
  BY Zenon, <1>3, <1>7, <1>8 DEF q, m

\* At the end of the value the pattern matches if it holds only stars.
LEMMA EndReads ==
  ASSUME NEW p, Counted(p), NEW v, Counted(v), NEW i \in 1..Len(p) + 1
  PROVE  Reads(p, v, i, Len(v) + 1) <=> PastStars(p, i) > Len(p)
<1> DEFINE q == PastStars(p, i)
           m == Len(v) + 1
<1>1. Len(p) \in Nat /\ m \in Nat /\ m \in 1..m /\ (\A n : n \in m..m <=> n = m) /\ m > Len(v) /\ ~(m <= Len(v))
  BY DEF Counted
<1>2. q \in i..Len(p) + 1 /\ (\A h \in i..q - 1 : p[h] = Star) /\ (q <= Len(p) => p[q] # Star)
  BY Zenon, PastStarsHolds
<1> HIDE DEF q, m
<1>3. ASSUME NEW k \in 1..Len(p) + 1, k <= Len(p) => p[k] # Star
      PROVE  Reads(p, v, k, m) <=> k > Len(p)
  <2>1. CASE k > Len(p)
    BY Zenon, <1>1, <2>1, ReadsCases DEF m
  <2>2. CASE ~(k > Len(p))
    <3>1. k <= Len(p)
      BY <1>1, <2>2
    <3>2. p[k] # Star
      BY Zenon, <1>3, <3>1
    <3> QED
      BY Zenon, <1>1, <2>2, <3>2, ReadsCases DEF m
  <2> QED
    BY Zenon, <2>1, <2>2
<1>4. CASE i <= Len(p) /\ p[i] = Star
  <2>1. i \in 1..Len(p)
    BY <1>1, <1>4
  <2>2. q \in i + 1..Len(p) + 1 /\ (Reads(p, v, i, m) <=> \E n \in m..m : Reads(p, v, q, n))
    BY Zenon, <1>1, <1>4, <2>1, StarsRead DEF q, m
  <2>3. q \in 1..Len(p) + 1
    BY <1>1, <2>2
  <2>4. Reads(p, v, i, m) <=> Reads(p, v, q, m)
    BY Zenon, <1>1, <2>2
  <2>5. Reads(p, v, q, m) <=> q > Len(p)
    BY Zenon, <1>2, <1>3, <2>3
  <2> QED
    BY Zenon, <2>4, <2>5 DEF q, m
<1>5. CASE ~(i <= Len(p) /\ p[i] = Star)
  <2>1. q = i
    <3>1. i # q => i \in i..q - 1 /\ i <= Len(p)
      BY <1>1, <1>2
    <3> QED
      BY Zenon, <1>2, <1>5, <3>1
  <2> QED
    BY Zenon, <1>3, <1>5, <2>1 DEF q, m
<1> QED
  BY Zenon, <1>4, <1>5

----------------------------------------------------------------------------
(***************************************************************************)
(* The loop of Match.                                                      *)
(***************************************************************************)
\* What there is still to find out at a place in the loop: whether the rest
\* matches from here, or from a later byte after the last star.
Hoped(p, v, pi, vi, star, mark) ==
  \/ Reads(p, v, pi, vi)
  \/ star > 0 /\ \E m \in mark + 1..Len(v) + 1 : Reads(p, v, star, m)

\* The places the loop gets to.  What it matched since the last star would be
\* passed again, as many bytes further, if the rest matched from a later byte.
Reached(p, v, pi, vi, star, mark) ==
  /\ pi \in 1..Len(p) + 1 /\ vi \in 1..Len(v) + 1 /\ star \in 0..Len(p) /\ mark \in 0..Len(v) + 1
  /\ star <= pi /\ mark <= vi
  /\ star > 0 => \A m \in mark..Len(v) + 1 :
       m > 0 /\ Reads(p, v, star, m) =>
         m + (vi - mark) <= Len(v) + 1 /\ Reads(p, v, pi, m + (vi - mark))

\* How far it can still get.
Ahead(p, v, vi, star, mark) ==
  ((Len(p) - star) + ((Len(v) + 1) - mark)) * (Len(v) + 2) + ((Len(v) + 1) - vi)

\* The arithmetic of the measure.
LEMMA AheadFalls ==
  ASSUME NEW a \in Nat, NEW b \in Nat, NEW n \in Nat, NEW j \in 0..n, NEW k \in 0..n, b < a
  PROVE  b * (n + 1) + k < a * (n + 1) + j
<1>1. b + 1 <= a
  OBVIOUS
<1>2. (b + 1) * (n + 1) <= a * (n + 1)
  BY <1>1
<1>3. (b + 1) * (n + 1) = b * (n + 1) + (n + 1)
  OBVIOUS
<1> DEFINE x == b * (n + 1)
           y == a * (n + 1)
<1>4. x \in Int /\ y \in Int
  OBVIOUS
<1>5. x + (n + 1) <= y
  BY <1>2, <1>3
<1> HIDE DEF x, y
<1>6. x + k < y + j
  BY <1>4, <1>5
<1> QED
  BY <1>6 DEF x, y

\* The numbers of a place.
LEMMA ReachedType ==
  ASSUME NEW p, Counted(p), NEW v, Counted(v), NEW pi, NEW vi, NEW star, NEW mark,
         Reached(p, v, pi, vi, star, mark)
  PROVE  /\ Len(p) \in Nat /\ Len(v) \in Nat
         /\ pi \in 1..Len(p) + 1 /\ vi \in 1..Len(v) + 1 /\ star \in 0..Len(p) /\ mark \in 0..Len(v) + 1
         /\ star <= pi /\ mark <= vi
         /\ vi <= Len(v) => mark <= Len(v) /\ mark + 1 \in 1..Len(v) + 1
<1>1. /\ Len(p) \in Nat /\ Len(v) \in Nat
      /\ pi \in 1..Len(p) + 1 /\ vi \in 1..Len(v) + 1 /\ star \in 0..Len(p) /\ mark \in 0..Len(v) + 1
      /\ star <= pi /\ mark <= vi
  BY Zenon DEF Counted, Reached
<1> QED
  BY <1>1

\* If the rest matches from a later byte after the star, it does from here.
LEMMA LaterIsHere ==
  ASSUME NEW p, Counted(p), NEW v, Counted(v), NEW pi, NEW vi, NEW star, NEW mark,
         Reached(p, v, pi, vi, star, mark), star > 0, NEW m \in mark + 1..Len(v) + 1,
         Reads(p, v, star, m)
  PROVE  m + (vi - mark) \in vi + 1..Len(v) + 1 /\ Reads(p, v, pi, m + (vi - mark))
<1>1. Len(v) \in Nat /\ vi \in 1..Len(v) + 1 /\ mark \in 0..Len(v) + 1
  BY Zenon, ReachedType
<1>2. m \in mark..Len(v) + 1 /\ m > 0
  BY <1>1
<1>3. m + (vi - mark) <= Len(v) + 1 /\ Reads(p, v, pi, m + (vi - mark))
  BY Zenon, <1>2 DEF Reached
<1> QED
  BY <1>1, <1>3

\* The value is over.
LEMMA EndRound ==
  ASSUME NEW p, Counted(p), NEW v, Counted(v), NEW pi, NEW vi, NEW star, NEW mark,
         Reached(p, v, pi, vi, star, mark), vi > Len(v)
  PROVE  Hoped(p, v, pi, vi, star, mark) <=> PastStars(p, pi) > Len(p)
<1>1. Len(v) \in Nat /\ vi \in 1..Len(v) + 1 /\ pi \in 1..Len(p) + 1
  BY Zenon, ReachedType
<1>2. vi = Len(v) + 1 /\ vi + 1..Len(v) + 1 = {}
  BY <1>1
<1>3. ~(star > 0 /\ \E m \in mark + 1..Len(v) + 1 : Reads(p, v, star, m))
  BY Zenon, <1>2, LaterIsHere
<1>4. Reads(p, v, pi, vi) <=> PastStars(p, pi) > Len(p)
  BY Zenon, <1>1, <1>2, EndReads
<1> QED
  BY Zenon, <1>3, <1>4 DEF Hoped

\* A star, or several.
LEMMA StarRound ==
  ASSUME NEW p, Counted(p), NEW v, Counted(v), NEW pi, NEW vi, NEW star, NEW mark,
         Reached(p, v, pi, vi, star, mark), ~(vi > Len(v)), pi <= Len(p), p[pi] = Star,
         NEW q, q = PastStars(p, pi)
  PROVE  /\ q > Len(p) => Hoped(p, v, pi, vi, star, mark)
         /\ ~(q > Len(p)) =>
              /\ Hoped(p, v, pi, vi, star, mark) <=> Hoped(p, v, q, vi, q, vi)
              /\ Reached(p, v, q, vi, q, vi) /\ q > star
<1> DEFINE m == Len(v) + 1
           All(j) == \E n \in j..m : Reads(p, v, q, n)
<1>1. /\ Len(p) \in Nat /\ Len(v) \in Nat /\ pi \in 1..Len(p) + 1 /\ vi \in 1..m
      /\ star \in 0..Len(p) /\ mark \in 0..m /\ star <= pi /\ mark <= vi
  BY Zenon, ReachedType
<1>2. pi \in 1..Len(p) /\ m \in vi..m /\ vi \in vi..m /\ m \in 1..m /\ m > Len(v)
  BY <1>1
<1>3. ASSUME NEW j \in 1..m
      PROVE  q \in pi + 1..Len(p) + 1 /\ (Reads(p, v, pi, j) <=> All(j))
  BY Zenon, <1>2, StarsRead
<1>4. q \in pi + 1..Len(p) + 1 /\ (Reads(p, v, pi, vi) <=> All(vi))
  BY Zenon, <1>1, <1>3
<1>5. q \in 1..Len(p) + 1 /\ q > star /\ q > 0
  BY <1>1, <1>4
<1> HIDE DEF m
<1>6. ASSUME q > Len(p) PROVE Hoped(p, v, pi, vi, star, mark)
  <2>1. Reads(p, v, q, m)
    BY Zenon, <1>2, <1>5, <1>6, ReadsCases DEF m
  <2> QED
    BY Zenon, <1>2, <1>4, <2>1 DEF Hoped
<1>7. ASSUME ~(q > Len(p))
      PROVE  /\ Hoped(p, v, pi, vi, star, mark) <=> Hoped(p, v, q, vi, q, vi)
             /\ Reached(p, v, q, vi, q, vi)
  <2>1. Hoped(p, v, pi, vi, star, mark) <=> All(vi)
    <3>1. ASSUME star > 0, NEW n \in mark + 1..m, Reads(p, v, star, n) PROVE All(vi)
      <4> DEFINE o == n + (vi - mark)
      <4>1. o \in vi + 1..m /\ Reads(p, v, pi, o)
        BY Zenon, <3>1, LaterIsHere DEF m
      <4>2. o \in 1..m /\ \A x \in o..m : x \in vi..m
        BY <1>1, <4>1 DEF m
      <4> HIDE DEF o
      <4>3. All(o)
        BY Zenon, <1>3, <4>1, <4>2
      <4> QED
        BY Zenon, <4>2, <4>3
    <3> QED
      BY Zenon, <1>4, <3>1 DEF Hoped, m
  <2>2. Hoped(p, v, q, vi, q, vi) <=> All(vi)
    <3>1. \A n \in vi..m : n = vi \/ n \in vi + 1..m
      BY <1>1 DEF m
    <3>2. \A n \in vi + 1..m : n \in vi..m
      BY <1>1 DEF m
    <3> QED
      BY Zenon, <1>2, <1>5, <3>1, <3>2 DEF Hoped, m
  <2>3. Reached(p, v, q, vi, q, vi)
    <3>1. q \in 0..Len(p) /\ vi \in 0..m /\ q <= q /\ vi <= vi
      BY <1>1, <1>5, <1>7 DEF m
    <3>2. \A n \in vi..m : n <= m /\ n + (vi - vi) = n
      BY <1>1 DEF m
    <3> QED
      BY Zenon, <1>1, <1>5, <3>1, <3>2 DEF Reached, m
  <2> QED
    BY Zenon, <2>1, <2>2, <2>3
<1> QED
  BY Zenon, <1>5, <1>6, <1>7

\* An element that takes the byte.
LEMMA OneRound ==
  ASSUME NEW p, Counted(p), NEW v, Counted(v), NEW pi, NEW vi, NEW star, NEW mark,
         Reached(p, v, pi, vi, star, mark), ~(vi > Len(v)), ~(pi <= Len(p) /\ p[pi] = Star),
         NEW one, one = MatchOne(p, pi, v[vi]), one.ok
  PROVE  /\ Hoped(p, v, pi, vi, star, mark) <=> Hoped(p, v, one.next, vi + 1, star, mark)
         /\ Reached(p, v, one.next, vi + 1, star, mark)
<1> DEFINE m == Len(v) + 1
           next == one.next
<1>1. /\ Len(p) \in Nat /\ Len(v) \in Nat /\ pi \in 1..Len(p) + 1 /\ vi \in 1..m
      /\ star \in 0..Len(p) /\ mark \in 0..m /\ star <= pi /\ mark <= vi
  BY Zenon, ReachedType
<1>2. ~(pi > Len(p))
  BY Zenon, OneEnds
<1>3. pi \in 1..Len(p) /\ p[pi] # Star /\ vi <= Len(v)
  BY <1>1, <1>2
<1>4. next \in pi + 1..Len(p) + 1 /\ \A b : MatchOne(p, pi, b).next = next
  <2>1. ASSUME NEW b
        PROVE  /\ MatchOne(p, pi, v[vi]).next \in pi + 1..Len(p) + 1
               /\ MatchOne(p, pi, v[vi]).next = MatchOne(p, pi, b).next
    BY Zenon, <1>3, OneTakes
  <2> QED
    BY Zenon, <2>1
<1> HIDE DEF next, m
<1>5. ASSUME NEW j \in 1..m
      PROVE  Reads(p, v, pi, j) <=> j <= Len(v) /\ MatchOne(p, pi, v[j]).ok /\ Reads(p, v, next, j + 1)
  <2>1. Reads(p, v, pi, j) <=> /\ j <= Len(v) /\ MatchOne(p, pi, v[j]).ok
                               /\ Reads(p, v, MatchOne(p, pi, v[j]).next, j + 1)
    BY Zenon, <1>1, <1>2, <1>3, ReadsCases DEF m
  <2> QED
    BY Zenon, <1>4, <2>1
<1>6. Reads(p, v, pi, vi) <=> Reads(p, v, next, vi + 1)
  BY Zenon, <1>1, <1>3, <1>5 DEF m
<1>7. Hoped(p, v, pi, vi, star, mark) <=> Hoped(p, v, next, vi + 1, star, mark)
  BY Zenon, <1>6 DEF Hoped
<1>8. Reached(p, v, next, vi + 1, star, mark)
  <2>1. ASSUME star > 0, NEW n \in mark..m, n > 0, Reads(p, v, star, n)
        PROVE  n + ((vi + 1) - mark) <= m /\ Reads(p, v, next, n + ((vi + 1) - mark))
    <3> DEFINE o == n + (vi - mark)
    <3>1. o <= m /\ Reads(p, v, pi, o)
      BY Zenon, <2>1 DEF Reached, m
    <3>2. o \in 1..m /\ n + ((vi + 1) - mark) = o + 1
      BY <1>1, <2>1, <3>1 DEF m
    <3> HIDE DEF o
    <3>3. o <= Len(v) /\ Reads(p, v, next, o + 1)
      BY Zenon, <1>5, <3>1, <3>2
    <3>4. o + 1 <= m
      BY <1>1, <3>2, <3>3 DEF m
    <3> QED
      BY Zenon, <3>2, <3>3, <3>4
  <2>2. next \in 1..Len(p) + 1 /\ vi + 1 \in 1..m /\ star <= next /\ mark <= vi + 1
    BY <1>1, <1>3, <1>4 DEF m
  <2> QED
    BY Zenon, <1>1, <2>1, <2>2 DEF Reached, m
<1> QED
  BY Zenon, <1>7, <1>8 DEF next

\* An element that does not, or no element.
LEMMA RetryRound ==
  ASSUME NEW p, Counted(p), NEW v, Counted(v), NEW pi, NEW vi, NEW star, NEW mark,
         Reached(p, v, pi, vi, star, mark), ~(vi > Len(v)), ~(pi <= Len(p) /\ p[pi] = Star),
         ~MatchOne(p, pi, v[vi]).ok
  PROVE  /\ mark <= Len(v)
         /\ ~(star > 0) => ~Hoped(p, v, pi, vi, star, mark)
         /\ star > 0 =>
              /\ Hoped(p, v, pi, vi, star, mark) <=> Hoped(p, v, star, mark + 1, star, mark + 1)
              /\ Reached(p, v, star, mark + 1, star, mark + 1)
<1> DEFINE m == Len(v) + 1
<1>1. /\ Len(p) \in Nat /\ Len(v) \in Nat /\ pi \in 1..Len(p) + 1 /\ vi \in 1..m
      /\ star \in 0..Len(p) /\ mark \in 0..m /\ star <= pi /\ mark <= vi
  BY Zenon, ReachedType
<1>2. ~Reads(p, v, pi, vi)
  <2>1. CASE pi > Len(p)
    BY Zenon, <1>1, <2>1, ReadsCases
  <2>2. CASE ~(pi > Len(p))
    <3>1. p[pi] # Star
      BY <1>1, <2>2
    <3> QED
      BY Zenon, <1>1, <2>2, <3>1, ReadsCases
  <2> QED
    BY Zenon, <2>1, <2>2
<1>3. mark <= Len(v) /\ mark + 1 \in 1..m
  BY <1>1
<1> HIDE DEF m
<1>4. ASSUME star > 0
      PROVE  /\ Hoped(p, v, pi, vi, star, mark) <=> Hoped(p, v, star, mark + 1, star, mark + 1)
             /\ Reached(p, v, star, mark + 1, star, mark + 1)
  <2>1. /\ \A n \in mark + 1..m : n = mark + 1 \/ n \in (mark + 1) + 1..m
        /\ \A n \in (mark + 1) + 1..m : n \in mark + 1..m
        /\ mark + 1 \in mark + 1..m
    BY <1>1, <1>3 DEF m
  <2>2. Hoped(p, v, pi, vi, star, mark) <=> Hoped(p, v, star, mark + 1, star, mark + 1)
    BY Zenon, <1>2, <1>4, <2>1 DEF Hoped, m
  <2>3. \A n \in mark + 1..m : n <= m /\ n + ((mark + 1) - (mark + 1)) = n
    BY <1>1 DEF m
  <2>4. star \in 1..Len(p) + 1 /\ mark + 1 \in 0..m /\ star <= star /\ mark + 1 <= mark + 1
    BY <1>1, <1>3, <1>4 DEF m
  <2> QED
    BY Zenon, <1>1, <1>3, <2>2, <2>3, <2>4 DEF Reached, m
<1> QED
  BY Zenon, <1>2, <1>3, <1>4 DEF Hoped

\* A round finds out what there is to find out, if the rounds that follow do.
Decides(p, v, rest, n) ==
  \A pi, vi, star, mark : Reached(p, v, pi, vi, star, mark) /\ Ahead(p, v, vi, star, mark) < n =>
    (rest[[pi |-> pi, vi |-> vi, star |-> star, mark |-> mark]] <=> Hoped(p, v, pi, vi, star, mark))

LEMMA AheadType ==
  ASSUME NEW p, Counted(p), NEW v, Counted(v), NEW pi, NEW vi, NEW star, NEW mark,
         Reached(p, v, pi, vi, star, mark)
  PROVE  Ahead(p, v, vi, star, mark) \in Nat
<1> DEFINE a == (Len(p) - star) + ((Len(v) + 1) - mark)
           b == Len(v) + 2
           c == (Len(v) + 1) - vi
<1>1. /\ Len(p) \in Nat /\ Len(v) \in Nat /\ pi \in 1..Len(p) + 1 /\ vi \in 1..Len(v) + 1
      /\ star \in 0..Len(p) /\ mark \in 0..Len(v) + 1
  BY Zenon, ReachedType
<1>2. a \in Nat /\ b \in Nat /\ c \in Nat
  BY <1>1
<1> HIDE DEF a, b, c
<1>3. a * b + c \in Nat
  BY <1>2
<1> QED
  BY Zenon, <1>3 DEF Ahead, a, b, c

\* The three ways on come nearer to the end.
LEMMA RoundsFall ==
  ASSUME NEW p, Counted(p), NEW v, Counted(v), NEW pi, NEW vi, NEW star, NEW mark,
         Reached(p, v, pi, vi, star, mark), ~(vi > Len(v))
  PROVE  /\ \A q \in 1..Len(p) : q > star => Ahead(p, v, vi, q, vi) < Ahead(p, v, vi, star, mark)
         /\ Ahead(p, v, vi + 1, star, mark) < Ahead(p, v, vi, star, mark)
         /\ Ahead(p, v, mark + 1, star, mark + 1) < Ahead(p, v, vi, star, mark)
<1> DEFINE n == Len(v) + 1
           a(s, k) == (Len(p) - s) + (n - k)
<1>1. /\ Len(p) \in Nat /\ Len(v) \in Nat /\ pi \in 1..Len(p) + 1 /\ vi \in 1..n
      /\ star \in 0..Len(p) /\ mark \in 0..n /\ star <= pi /\ mark <= vi
  BY Zenon, ReachedType
<1>2. \A i, s, k : Ahead(p, v, i, s, k) = a(s, k) * (n + 1) + (n - i)
  <2>1. Len(v) + 2 = n + 1
    BY <1>1
  <2> QED
    BY Zenon, <2>1 DEF Ahead
<1>3. n \in Nat /\ n - vi \in 0..n /\ a(star, mark) \in Nat
  BY <1>1
<1>4. ASSUME NEW q \in 1..Len(p), q > star
      PROVE  Ahead(p, v, vi, q, vi) < Ahead(p, v, vi, star, mark)
  <2>1. a(q, vi) \in Nat /\ a(q, vi) < a(star, mark)
    BY <1>1, <1>4
  <2> HIDE DEF a, n
  <2>2. a(q, vi) * (n + 1) + (n - vi) < a(star, mark) * (n + 1) + (n - vi)
    BY Zenon, <1>3, <2>1, AheadFalls
  <2> QED
    BY Zenon, <1>2, <2>2
<1>5. Ahead(p, v, vi + 1, star, mark) < Ahead(p, v, vi, star, mark)
  <2> DEFINE x == a(star, mark) * (n + 1)
  <2>1. x \in Int
    BY <1>1, <1>3
  <2>2. n - (vi + 1) < n - vi /\ n - vi \in Int /\ n - (vi + 1) \in Int
    BY <1>1
  <2>3. Ahead(p, v, vi + 1, star, mark) = x + (n - (vi + 1)) /\ Ahead(p, v, vi, star, mark) = x + (n - vi)
    BY Zenon, <1>2
  <2> HIDE DEF x, n
  <2> QED
    BY <2>1, <2>2, <2>3
<1>6. Ahead(p, v, mark + 1, star, mark + 1) < Ahead(p, v, vi, star, mark)
  <2>1. a(star, mark + 1) \in Nat /\ a(star, mark + 1) < a(star, mark) /\ n - (mark + 1) \in 0..n
    BY <1>1
  <2> HIDE DEF a, n
  <2>2. a(star, mark + 1) * (n + 1) + (n - (mark + 1)) < a(star, mark) * (n + 1) + (n - vi)
    BY Zenon, <1>3, <2>1, AheadFalls
  <2> QED
    BY Zenon, <1>2, <2>2
<1> QED
  BY Zenon, <1>4, <1>5, <1>6

LEMMA RoundDecides ==
  ASSUME NEW p, Counted(p), NEW v, Counted(v), NEW rest, NEW n \in Nat, Decides(p, v, rest, n),
         NEW pi, NEW vi, NEW star, NEW mark, Reached(p, v, pi, vi, star, mark),
         Ahead(p, v, vi, star, mark) < n + 1
  PROVE  MatchRound(p, v, [pi |-> pi, vi |-> vi, star |-> star, mark |-> mark], rest)
           <=> Hoped(p, v, pi, vi, star, mark)
<1> DEFINE s == [pi |-> pi, vi |-> vi, star |-> star, mark |-> mark]
           place(a, b, c, d) == [pi |-> a, vi |-> b, star |-> c, mark |-> d]
           q == PastStars(p, pi)
           one == MatchOne(p, pi, v[vi])
           here == Ahead(p, v, vi, star, mark)
<1>1. s.pi = pi /\ s.vi = vi /\ s.star = star /\ s.mark = mark
  OBVIOUS
<1>3. ASSUME NEW a, NEW b, NEW c, NEW d, Reached(p, v, a, b, c, d), Ahead(p, v, b, c, d) < here
      PROVE  rest[place(a, b, c, d)] <=> Hoped(p, v, a, b, c, d)
  <2>1. Ahead(p, v, b, c, d) \in Nat /\ here \in Nat
    BY Zenon, <1>3, AheadType
  <2> HIDE DEF here
  <2>2. Ahead(p, v, b, c, d) < n
    BY <1>3, <2>1 DEF here
  <2> QED
    BY Zenon, <1>3, <2>2 DEF Decides
<1> HIDE DEF s, place, q, one, here
<1>4. CASE vi > Len(v)
  <2>1. MatchRound(p, v, s, rest) <=> q > Len(p)
    BY Zenon, <1>1, <1>4 DEF MatchRound, q
  <2> QED
    BY Zenon, <1>4, <2>1, EndRound DEF q, s
<1>5. CASE ~(vi > Len(v)) /\ pi <= Len(p) /\ p[pi] = Star
  <2>1. /\ q > Len(p) => Hoped(p, v, pi, vi, star, mark)
        /\ ~(q > Len(p)) =>
             /\ Hoped(p, v, pi, vi, star, mark) <=> Hoped(p, v, q, vi, q, vi)
             /\ Reached(p, v, q, vi, q, vi) /\ q > star
    BY Zenon, <1>5, StarRound DEF q
  <2>2. ASSUME ~(q > Len(p)) PROVE Ahead(p, v, vi, q, vi) < here
    <3>1. Len(p) \in Nat /\ q \in 1..Len(p) + 1
      BY Zenon, <2>1, <2>2, ReachedType
    <3>2. q \in 1..Len(p)
      BY <2>2, <3>1
    <3> QED
      BY Zenon, <1>5, <2>1, <2>2, <3>2, RoundsFall DEF here
  <2>3. ASSUME ~(q > Len(p)) PROVE rest[place(q, vi, q, vi)] <=> Hoped(p, v, q, vi, q, vi)
    BY Zenon, <1>3, <2>1, <2>2, <2>3
  <2>4. MatchRound(p, v, s, rest) <=> q > Len(p) \/ rest[place(q, vi, q, vi)]
    BY Zenon, <1>1, <1>5 DEF MatchRound, q, place
  <2> QED
    BY Zenon, <2>1, <2>3, <2>4 DEF s
<1>6. CASE ~(vi > Len(v)) /\ ~(pi <= Len(p) /\ p[pi] = Star) /\ one.ok
  <2>1. /\ Hoped(p, v, pi, vi, star, mark) <=> Hoped(p, v, one.next, vi + 1, star, mark)
        /\ Reached(p, v, one.next, vi + 1, star, mark)
    BY Zenon, <1>6, OneRound DEF one
  <2>2. Ahead(p, v, vi + 1, star, mark) < here
    BY Zenon, <1>6, RoundsFall DEF here
  <2>3. rest[place(one.next, vi + 1, star, mark)] <=> Hoped(p, v, one.next, vi + 1, star, mark)
    BY Zenon, <1>3, <2>1, <2>2
  <2>4. MatchRound(p, v, s, rest) <=> rest[place(one.next, vi + 1, star, mark)]
    BY Zenon, <1>1, <1>6 DEF MatchRound, one, place
  <2> QED
    BY Zenon, <2>1, <2>3, <2>4 DEF s
<1>7. CASE ~(vi > Len(v)) /\ ~(pi <= Len(p) /\ p[pi] = Star) /\ ~one.ok
  <2>1. /\ mark <= Len(v)
        /\ ~(star > 0) => ~Hoped(p, v, pi, vi, star, mark)
        /\ star > 0 =>
             /\ Hoped(p, v, pi, vi, star, mark) <=> Hoped(p, v, star, mark + 1, star, mark + 1)
             /\ Reached(p, v, star, mark + 1, star, mark + 1)
    BY Zenon, <1>7, RetryRound DEF one
  <2>2. Ahead(p, v, mark + 1, star, mark + 1) < here
    BY Zenon, <1>7, RoundsFall DEF here
  <2>3. ASSUME star > 0
        PROVE  rest[place(star, mark + 1, star, mark + 1)] <=> Hoped(p, v, star, mark + 1, star, mark + 1)
    BY Zenon, <1>3, <2>1, <2>2, <2>3
  <2>4. MatchRound(p, v, s, rest) <=>
          star > 0 /\ mark <= Len(v) /\ rest[place(star, mark + 1, star, mark + 1)]
    BY Zenon, <1>1, <1>7 DEF MatchRound, one, place
  <2> QED
    BY Zenon, <2>1, <2>3, <2>4 DEF s
<1> QED
  BY Zenon, <1>4, <1>5, <1>6, <1>7

\* The loop of Match, and the recursion that defines it.
MatchLoop(p, v) ==
  LET loop[n \in 0..MatchRounds(p, v)] ==
        [s \in Places(p, v) |-> n > 0 /\ MatchRound(p, v, s, loop[n - 1])]
  IN loop

LEMMA LoopRecursion ==
  ASSUME NEW p, Counted(p), NEW v, Counted(v)
  PROVE  /\ MatchRounds(p, v) \in Nat
         /\ \A n \in 1..MatchRounds(p, v), s \in Places(p, v) :
              MatchLoop(p, v)[n][s] <=> MatchRound(p, v, s, MatchLoop(p, v)[n - 1])
         /\ Match(p, v) = MatchLoop(p, v)[MatchRounds(p, v)][[pi |-> 1, vi |-> 1, star |-> 0, mark |-> 0]]
<1> DEFINE N == MatchRounds(p, v)
           S == [Places(p, v) -> BOOLEAN]
           Round(t, n) == [s \in Places(p, v) |-> n > 0 /\ MatchRound(p, v, s, t)]
           base == [s \in Places(p, v) |-> FALSE]
           step == [x \in S \X (1..N) |-> Round(x[1], x[2])]
           Unfold(f) == [n \in 0..N |-> Round(f[n - 1], n)]
           r == CHOOSE f : f = Unfold(f)
<1>1. N \in Nat
  <2> DEFINE a == Len(p) + Len(v) + 2
             b == Len(v) + 2
  <2>1. a \in Nat /\ b \in Nat
    BY DEF Counted
  <2> HIDE DEF a, b
  <2>2. a * b \in Nat
    BY <2>1
  <2> QED
    BY Zenon, <2>2 DEF MatchRounds, a, b
<1>2. MatchLoop(p, v) = r /\ Match(p, v) = r[N][[pi |-> 1, vi |-> 1, star |-> 0, mark |-> 0]]
  BY Zenon DEF MatchLoop, Match
<1> HIDE DEF N
<1>3. base \in S /\ \A t, n : Round(t, n) \in S
  BY Zenon
<1>4. \A t : Round(t, 0) = base
  <2>1. ~(0 > 0)
    OBVIOUS
  <2> QED
    BY Zenon, <2>1
<1> HIDE DEF S, base
<1>5. step \in Steps(S, N) /\ \A t \in S, n \in 1..N : step[<<t, n>>] = Round(t, n)
  <2> HIDE DEF Round
  <2> QED
    BY Zenon, <1>3 DEF Steps
<1> HIDE DEF step, Round
<1>6. PICK f : Iterates(f, S, base, step, N)
  BY Zenon, <1>1, <1>3, <1>5, IterationExists
<1>7. f \in [0..N -> S] /\ f[0] = base /\ \A n \in 1..N : f[n] = step[<<f[n - 1], n>>]
  BY Zenon, <1>6 DEF Iterates
<1>8. \A n \in 0..N : f[n] = Round(f[n - 1], n)
  <2>1. \A n \in 1..N : f[n - 1] \in S
    BY <1>1, <1>7
  <2>2. \A n \in 1..N : f[n] = Round(f[n - 1], n)
    BY Zenon, <1>5, <1>7, <2>1
  <2>3. \A n \in 0..N : n = 0 \/ n \in 1..N
    BY <1>1
  <2> QED
    BY Zenon, <1>4, <1>7, <2>2, <2>3
<1>9. f = Unfold(f)
  BY Zenon, <1>7, <1>8
<1>10. r = Unfold(r)
  <2> HIDE DEF Unfold
  <2> QED
    BY Zenon, <1>9
<1> HIDE DEF r
<1>11. ASSUME NEW n \in 1..N, NEW s \in Places(p, v)
       PROVE  r[n][s] <=> MatchRound(p, v, s, r[n - 1])
  <2>1. n \in 0..N /\ n > 0
    BY <1>1
  <2>2. r[n] = Round(r[n - 1], n)
    BY Zenon, <1>10, <2>1
  <2> QED
    BY Zenon, <2>1, <2>2 DEF Round
<1> QED
  BY Zenon, <1>1, <1>2, <1>11 DEF N

\* Match of the glob package, whose loop tries only the last star again, finds
\* out what the reference says: as many rounds as it has are enough.
THEOREM MatchIsMatches ==
  ASSUME NEW p, Counted(p), NEW v, Counted(v)
  PROVE  Match(p, v) <=> Matches(p, v)
<1> DEFINE N == MatchRounds(p, v)
           loop == MatchLoop(p, v)
           A == {n \in 0..N : Decides(p, v, loop[n], n)}
           m == Len(v) + 1
<1>1. /\ N \in Nat
      /\ \A n \in 1..N, s \in Places(p, v) : loop[n][s] <=> MatchRound(p, v, s, loop[n - 1])
      /\ Match(p, v) = loop[N][[pi |-> 1, vi |-> 1, star |-> 0, mark |-> 0]]
  BY Zenon, LoopRecursion
<1> HIDE DEF loop, N
<1>2. 0 \in A
  <2>1. ASSUME NEW pi, NEW vi, NEW star, NEW mark, Reached(p, v, pi, vi, star, mark)
        PROVE  ~(Ahead(p, v, vi, star, mark) < 0)
    <3>1. Ahead(p, v, vi, star, mark) \in Nat
      BY Zenon, <2>1, AheadType
    <3> QED
      BY <3>1
  <2>2. 0 \in 0..N
    BY <1>1
  <2> QED
    BY Zenon, <2>1, <2>2 DEF Decides
<1>3. ASSUME NEW n \in 1..N, n - 1 \in A PROVE n \in A
  <2>1. n - 1 \in Nat /\ (n - 1) + 1 = n /\ n \in 0..N
    BY <1>1
  <2>2. ASSUME NEW pi, NEW vi, NEW star, NEW mark,
               Reached(p, v, pi, vi, star, mark), Ahead(p, v, vi, star, mark) < n
        PROVE  loop[n][[pi |-> pi, vi |-> vi, star |-> star, mark |-> mark]]
                 <=> Hoped(p, v, pi, vi, star, mark)
    <3> DEFINE s == [pi |-> pi, vi |-> vi, star |-> star, mark |-> mark]
    <3>1. s \in Places(p, v)
      <4>1. pi \in 1..Len(p) + 1 /\ vi \in 1..Len(v) + 1 /\ star \in 0..Len(p) /\ mark \in 0..Len(v) + 1
        BY Zenon, <2>2 DEF Reached
      <4> QED
        BY <4>1 DEF Places
    <3>2. Decides(p, v, loop[n - 1], n - 1)
      BY Zenon, <1>3
    <3>3. MatchRound(p, v, s, loop[n - 1]) <=> Hoped(p, v, pi, vi, star, mark)
      BY Zenon, <2>1, <2>2, <3>2, RoundDecides
    <3> HIDE DEF s
    <3>4. loop[n][s] <=> MatchRound(p, v, s, loop[n - 1])
      BY Zenon, <1>1, <3>1
    <3> QED
      BY Zenon, <3>3, <3>4 DEF s
  <2>3. Decides(p, v, loop[n], n)
    BY Zenon, <2>2 DEF Decides
  <2> QED
    BY Zenon, <2>1, <2>3
<1>4. Decides(p, v, loop[N], N)
  <2> HIDE DEF A
  <2>1. 0..N \subseteq A
    BY Zenon, <1>1, <1>2, <1>3, UptoInductionSet
  <2>2. N \in 0..N
    BY <1>1
  <2> QED
    BY Zenon, <2>1, <2>2 DEF A
<1>5. Len(p) \in Nat /\ Len(v) \in Nat
  BY DEF Counted
<1>6. /\ 1 \in 1..Len(p) + 1 /\ 1 \in 1..Len(v) + 1 /\ 0 \in 0..Len(p) /\ 0 \in 0..Len(v) + 1
      /\ 0 <= 1 /\ ~(0 > 0)
  BY <1>5
<1>7. Reached(p, v, 1, 1, 0, 0)
  BY Zenon, <1>6 DEF Reached
<1>8. Ahead(p, v, 1, 0, 0) < N
  <2> DEFINE a == Len(p) + Len(v)
             b == Len(v) + 2
  <2>1. (Len(p) - 0) + ((Len(v) + 1) - 0) = a + 1 /\ (Len(v) + 1) - 1 = Len(v)
    BY <1>5
  <2>2. Ahead(p, v, 1, 0, 0) = (a + 1) * b + Len(v) /\ N = (a + 2) * b
    BY <2>1 DEF Ahead, MatchRounds, N
  <2>3. a \in Nat /\ b \in Nat /\ Len(v) < b
    BY <1>5
  <2> HIDE DEF a, b
  <2>4. (a + 2) * b = (a + 1) * b + b
    BY <2>3
  <2> DEFINE c == (a + 1) * b
  <2>5. c \in Nat
    BY <2>3
  <2> HIDE DEF c
  <2>6. c + Len(v) < c + b
    BY <1>5, <2>3, <2>5
  <2> QED
    BY Zenon, <2>2, <2>4, <2>6 DEF c
<1>9. Match(p, v) <=> Hoped(p, v, 1, 1, 0, 0)
  BY Zenon, <1>1, <1>4, <1>7, <1>8 DEF Decides
<1>10. Hoped(p, v, 1, 1, 0, 0) <=> Reads(p, v, 1, 1)
  BY Zenon, <1>6 DEF Hoped
<1>11. Matches(p, v) = Reads(p, v, 1, 1)
  BY Zenon, FromRecursion DEF Reads
<1> QED
  BY Zenon, <1>9, <1>10, <1>11
----------------------------------------------------------------------------
(***************************************************************************)
(* The order of names (sort.Strings).                                      *)
(***************************************************************************)
\* One sequence of bytes precedes another at i.
Before(a, b, i) ==
  /\ i \in 1..Len(b)
  /\ \A h \in 1..i - 1 : h <= Len(a) /\ a[h] = b[h]
  /\ i > Len(a) \/ a[i] < b[i]

LEMMA PrecedesAt == \A k, l : Precedes(k, l) <=> \E i : Before(Bytes[k], Bytes[l], i)
  BY Zenon DEF Precedes, Before

\* What Seq means to the proofs below.
LEMMA SequenceOf ==
  ASSUME NEW S, NEW a \in Seq(S)
  PROVE  /\ Len(a) \in Nat /\ a = [i \in 1..Len(a) |-> a[i]]
         /\ \A i \in 1..Len(a) : a[i] \in S
  OBVIOUS

LEMMA ByteSequence ==
  ASSUME NEW a \in Seq(0..255)
  PROVE  Len(a) \in Nat /\ \A i \in 1..Len(a) : a[i] \in Int
<1>1. Len(a) \in Nat /\ \A i \in 1..Len(a) : a[i] \in 0..255
  BY Zenon, SequenceOf
<1>2. \A x \in 0..255 : x \in Int
  OBVIOUS
<1> QED
  BY Zenon, <1>1, <1>2

LEMMA BeforeIsStrict ==
  ASSUME NEW a \in Seq(0..255), NEW i
  PROVE  ~Before(a, a, i)
<1>1. Len(a) \in Nat /\ \A h \in 1..Len(a) : a[h] \in Int
  BY ByteSequence
<1>2. ASSUME i \in 1..Len(a) PROVE ~(i > Len(a) \/ a[i] < a[i])
  BY <1>1, <1>2
<1> QED
  BY Zenon, <1>2 DEF Before

LEMMA BeforeIsTransitive ==
  ASSUME NEW a \in Seq(0..255), NEW b \in Seq(0..255), NEW c \in Seq(0..255), NEW i, NEW j,
         Before(a, b, i), Before(b, c, j)
  PROVE  \E m : Before(a, c, m)
<1>1. /\ Len(a) \in Nat /\ Len(b) \in Nat /\ Len(c) \in Nat
      /\ \A h \in 1..Len(a) : a[h] \in Int
      /\ \A h \in 1..Len(b) : b[h] \in Int
      /\ \A h \in 1..Len(c) : c[h] \in Int
  BY ByteSequence
<1>2. /\ i \in 1..Len(b) /\ \A h \in 1..i - 1 : h <= Len(a) /\ a[h] = b[h]
      /\ i > Len(a) \/ a[i] < b[i]
      /\ j \in 1..Len(c) /\ \A h \in 1..j - 1 : h <= Len(b) /\ b[h] = c[h]
      /\ j > Len(b) \/ b[j] < c[j]
  BY Zenon DEF Before
<1>3. CASE i < j
  <2>1. i \in 1..Len(c) /\ i \in 1..j - 1 /\ \A h \in 1..i - 1 : h \in 1..j - 1
    BY <1>1, <1>2, <1>3
  <2>2. \A h \in 1..i - 1 : h <= Len(a) /\ a[h] = c[h]
    BY Zenon, <1>2, <2>1
  <2>3. i > Len(a) \/ a[i] < c[i]
    BY Zenon, <1>2, <2>1
  <2> QED
    BY Zenon, <2>1, <2>2, <2>3 DEF Before
<1>4. CASE j <= i
  <2>1. j \in 1..Len(b) /\ \A h \in 1..j - 1 : h \in 1..i - 1
    BY <1>1, <1>2, <1>4
  <2>2. \A h \in 1..j - 1 : h <= Len(a) /\ a[h] = c[h]
    BY Zenon, <1>2, <2>1
  <2>3. b[j] < c[j]
    BY <1>1, <1>2, <2>1
  <2>4. j > Len(a) \/ a[j] < c[j]
    <3>1. CASE j = i
      <4>1. ASSUME j <= Len(a), a[j] < b[j] PROVE a[j] < c[j]
        <5>1. j \in 1..Len(a)
          BY <1>1, <1>2, <4>1
        <5> QED
          BY <1>1, <1>2, <2>1, <2>3, <4>1, <5>1
      <4> QED
        BY <1>1, <1>2, <3>1, <4>1
    <3>2. CASE j # i
      <4>1. j \in 1..i - 1
        BY <1>1, <1>2, <1>4, <3>2
      <4> QED
        BY Zenon, <1>2, <2>3, <4>1
    <3> QED
      BY Zenon, <3>1, <3>2
  <2> QED
    BY Zenon, <1>2, <2>2, <2>4 DEF Before
<1> QED
  BY <1>1, <1>2, <1>3, <1>4

\* Sequences that differ do so at a first place.
LEMMA BeforeIsTotal ==
  ASSUME NEW a \in Seq(0..255), NEW b \in Seq(0..255), a # b
  PROVE  \E i : Before(a, b, i) \/ Before(b, a, i)
<1> DEFINE differ(i) == i > Len(a) \/ i > Len(b) \/ a[i] # b[i]
           D == {i \in Nat : i \in 1..Len(a) + 1 /\ differ(i)}
<1>1. /\ Len(a) \in Nat /\ Len(b) \in Nat
      /\ \A h \in 1..Len(a) : a[h] \in Int
      /\ \A h \in 1..Len(b) : b[h] \in Int
  BY ByteSequence
<1>2. Len(a) + 1 \in D
  BY <1>1
<1>3. PICK m \in D : \A j \in D : m <= j
  BY Zenon, <1>2, SmallestExists
<1>4. ASSUME NEW h \in 1..m - 1 PROVE h <= Len(a) /\ h <= Len(b) /\ a[h] = b[h]
  <2>1. m \in Nat /\ m \in 1..Len(a) + 1
    BY Zenon, <1>3
  <2>2. h \in Nat /\ h \in 1..Len(a) + 1 /\ ~(m <= h) /\ ~(h > Len(a))
    BY <1>1, <2>1
  <2>3. ~differ(h)
    BY Zenon, <1>3, <2>2
  <2> QED
    BY <1>1, <2>2, <2>3
<1>5. m \in Nat /\ m \in 1..Len(a) + 1 /\ differ(m)
  BY Zenon, <1>3
<1>6. CASE m > Len(a)
  <2>1. m = Len(a) + 1
    BY <1>1, <1>5, <1>6
  <2>2. m \in 1..Len(b)
    <3>1. ASSUME m > Len(b) PROVE FALSE
      <4>1. Len(a) <= Len(b) /\ \A h \in 1..Len(a) : h \in 1..m - 1
        <5>1. CASE Len(a) = 0
          BY <1>1, <5>1
        <5>2. CASE Len(a) > 0
          <6>1. Len(a) \in 1..m - 1
            BY <1>1, <2>1, <5>2
          <6> QED
            BY <1>1, <1>4, <2>1, <6>1
        <5> QED
          BY <1>1, <5>1, <5>2
      <4>2. Len(a) = Len(b)
        BY <1>1, <2>1, <3>1, <4>1
      <4>3. \A h \in 1..Len(a) : a[h] = b[h]
        BY Zenon, <1>4, <4>1
      <4>4. a = [h \in 1..Len(a) |-> a[h]] /\ b = [h \in 1..Len(b) |-> b[h]]
        OBVIOUS
      <4> QED
        BY <4>2, <4>3, <4>4
    <3> QED
      BY <1>1, <1>5, <3>1
  <2> QED
    BY Zenon, <1>4, <1>6, <2>2 DEF Before
<1>7. CASE ~(m > Len(a)) /\ m > Len(b)
  <2>1. m \in 1..Len(a) /\ \A h \in 1..m - 1 : b[h] = a[h]
    BY <1>1, <1>4, <1>5, <1>7
  <2> QED
    BY Zenon, <1>4, <1>7, <2>1 DEF Before
<1>8. CASE ~(m > Len(a)) /\ ~(m > Len(b))
  <2>1. m \in 1..Len(a) /\ m \in 1..Len(b) /\ a[m] # b[m] /\ \A h \in 1..m - 1 : b[h] = a[h]
    BY <1>1, <1>4, <1>5, <1>8
  <2>2. a[m] < b[m] \/ b[m] < a[m]
    BY <1>1, <2>1
  <2> QED
    BY Zenon, <1>4, <2>1, <2>2 DEF Before
<1> QED
  BY Zenon, <1>6, <1>7, <1>8

LEMMA PrecedesOrders ==
  /\ \A k \in Keys : ~Precedes(k, k)
  /\ \A k, l, m \in Keys : Precedes(k, l) /\ Precedes(l, m) => Precedes(k, m)
  /\ \A k, l \in Keys : k = l \/ Precedes(k, l) \/ Precedes(l, k)
<1>1. \A k \in Keys : Bytes[k] \in Seq(0..255)
  BY Zenon, NamesAssumption
<1>2. ASSUME NEW k \in Keys PROVE ~Precedes(k, k)
  BY Zenon, <1>1, PrecedesAt, BeforeIsStrict
<1>3. ASSUME NEW k \in Keys, NEW l \in Keys, NEW m \in Keys, Precedes(k, l), Precedes(l, m)
      PROVE  Precedes(k, m)
  BY Zenon, <1>1, <1>3, PrecedesAt, BeforeIsTransitive
<1>4. ASSUME NEW k \in Keys, NEW l \in Keys, k # l PROVE Precedes(k, l) \/ Precedes(l, k)
  <2>1. Bytes[k] # Bytes[l]
    BY Zenon, <1>4, NamesAssumption
  <2> QED
    BY Zenon, <1>1, <2>1, PrecedesAt, BeforeIsTotal
<1> QED
  BY Zenon, <1>2, <1>3, <1>4

----------------------------------------------------------------------------
(***************************************************************************)
(* Sorting.                                                                *)
(***************************************************************************)
LEMMA UptoCardinality ==
  ASSUME NEW n \in Nat
  PROVE  IsFiniteSet(1..n) /\ Cardinality(1..n) = n
<1>1. IsFiniteSet(1..n) /\ Cardinality(1..n) = IF 1 > n THEN 0 ELSE n - 1 + 1
  BY FS_Interval
<1> QED
  BY <1>1

\* How many of the names S precede k.
Rank(S, k) == Cardinality({j \in S : Precedes(j, k)})

LEMMA RanksOrder ==
  ASSUME NEW S \in SUBSET Keys, NEW k \in S, NEW l \in S, Precedes(k, l)
  PROVE  Rank(S, k) \in Nat /\ Rank(S, l) \in Nat /\ Rank(S, k) < Rank(S, l)
<1> DEFINE A == {j \in S : Precedes(j, k)}
           B == {j \in S : Precedes(j, l)}
<1>1. IsFiniteSet(S)
  BY Zenon, NamesAssumption, FS_Subset
<1>2. A \in SUBSET S /\ B \in SUBSET S /\ A \in SUBSET B /\ k \in B /\ k \notin A
  BY Zenon, PrecedesOrders
<1> HIDE DEF A, B
<1>3. IsFiniteSet(A) /\ IsFiniteSet(B)
  BY Zenon, <1>1, <1>2, FS_Subset
<1>4. Cardinality(A) \in Nat /\ Cardinality(B) \in Nat
  BY Zenon, <1>3, FS_CardinalityType
<1>5. Cardinality(A) <= Cardinality(B) /\ (Cardinality(B) = Cardinality(A) => B = A)
  BY <1>2, <1>3, FS_Subset
<1>6. Cardinality(A) < Cardinality(B)
  <2>1. Cardinality(B) # Cardinality(A)
    BY Zenon, <1>2, <1>5
  <2> QED
    BY <1>4, <1>5, <2>1
<1> QED
  BY <1>4, <1>6 DEF Rank, A, B

\* No two names have as many before them.
LEMMA RanksDiffer ==
  ASSUME NEW S \in SUBSET Keys, NEW k \in S, NEW l \in S, Rank(S, k) = Rank(S, l)
  PROVE  k = l
<1>1. ~Precedes(k, l)
  <2>1. SUFFICES ASSUME Precedes(k, l) PROVE FALSE
    OBVIOUS
  <2>2. Rank(S, k) \in Nat /\ Rank(S, k) < Rank(S, k)
    BY Zenon, <2>1, RanksOrder
  <2> QED
    BY <2>2
<1>2. ~Precedes(l, k)
  <2>1. SUFFICES ASSUME Precedes(l, k) PROVE FALSE
    OBVIOUS
  <2>2. Rank(S, k) \in Nat /\ Rank(S, k) < Rank(S, k)
    BY Zenon, <2>1, RanksOrder
  <2> QED
    BY <2>2
<1>3. k \in Keys /\ l \in Keys
  OBVIOUS
<1> QED
  BY Zenon, <1>1, <1>2, <1>3, PrecedesOrders

\* A sequence lists a set of names in order.
Lists(s, T) ==
  /\ s \in Seq(Keys)
  /\ \A i \in 1..Len(s) : s[i] \in T
  /\ \A k \in T : \E i \in 1..Len(s) : s[i] = k
  /\ \A i, j \in 1..Len(s) : i < j => Precedes(s[i], s[j])

\* The i-th of them has i - 1 before it.
LEMMA ListedRank ==
  ASSUME NEW T \in SUBSET Keys, NEW s, Lists(s, T), NEW i \in 1..Len(s)
  PROVE  Rank(T, s[i]) = i - 1
<1> DEFINE A == {j \in T : Precedes(j, s[i])}
           R == 1..i - 1
           f == [h \in R |-> s[h]]
<1>1. /\ Len(s) \in Nat /\ \A h \in 1..Len(s) : s[h] \in T /\ s[h] \in Keys
      /\ \A h, j \in 1..Len(s) : h < j => Precedes(s[h], s[j])
      /\ \A k \in T : \E h \in 1..Len(s) : s[h] = k
  <2>1. Len(s) \in Nat
    BY DEF Lists
  <2> QED
    BY Zenon, <2>1 DEF Lists
<1>2. \A h \in R : h \in 1..Len(s) /\ h < i
  BY <1>1
<1>3. f \in [R -> A]
  BY Zenon, <1>1, <1>2
<1>4. ASSUME NEW g \in R, NEW h \in R, f[g] = f[h] PROVE g = h
  <2>1. s[g] = s[h] /\ s[g] \in Keys
    BY Zenon, <1>1, <1>2, <1>4
  <2>2. ~(g < h) /\ ~(h < g)
    BY Zenon, <1>1, <1>2, <2>1, PrecedesOrders
  <2> QED
    BY <2>2
<1>5. ASSUME NEW k \in A PROVE \E h \in R : f[h] = k
  <2>1. PICK h \in 1..Len(s) : s[h] = k
    BY Zenon, <1>1
  <2>2. Precedes(s[h], s[i]) /\ s[h] \in Keys /\ s[i] \in Keys
    BY Zenon, <1>1, <2>1
  <2>3. h # i /\ ~(i < h)
    BY Zenon, <1>1, <2>2, PrecedesOrders
  <2>4. h \in R
    BY <1>1, <2>3
  <2> QED
    BY Zenon, <2>1, <2>4
<1> HIDE DEF A, f
<1>6. f \in Bijection(R, A)
  BY Zenon, <1>3, <1>4, <1>5 DEF Bijection, Injection, Surjection, IsInjective
<1>7. IsFiniteSet(R) /\ Cardinality(R) = i - 1
  <2>1. i - 1 \in Nat
    BY <1>1
  <2> QED
    BY Zenon, <2>1, UptoCardinality
<1>8. Cardinality(A) = Cardinality(R)
  BY Zenon, <1>6, <1>7, FS_Bijection DEF ExistsBijection
<1> QED
  BY Zenon, <1>7, <1>8 DEF Rank, A

\* There is one such sequence, and sort.Strings makes it.
LEMMA ListedIsSorted ==
  ASSUME NEW T \in SUBSET Keys, NEW s, Lists(s, T)
  PROVE  s = Sorted(T)
<1> DEFINE R == 1..Len(s)
           f == [h \in R |-> s[h]]
<1>1. Len(s) \in Nat /\ s = [h \in 1..Len(s) |-> s[h]]
  BY DEF Lists
<1>2. \A h \in R : s[h] \in T
  BY Zenon DEF Lists
<1>3. ASSUME NEW g \in R, NEW h \in R, s[g] = s[h] PROVE g = h
  <2>1. s[g] \in Keys
    BY Zenon, <1>2
  <2>2. ~(g < h) /\ ~(h < g)
    BY Zenon, <1>3, <2>1, PrecedesOrders DEF Lists
  <2> QED
    BY <2>2
<1>4. f \in Bijection(R, T)
  <2>1. \A k \in T : \E h \in R : s[h] = k
    BY Zenon DEF Lists
  <2> HIDE DEF R
  <2> QED
    BY Zenon, <1>2, <1>3, <2>1 DEF Bijection, Injection, Surjection, IsInjective
<1>5. IsFiniteSet(R) /\ Cardinality(R) = Len(s)
  BY Zenon, <1>1, UptoCardinality
<1>6. Cardinality(T) = Len(s)
  <2> HIDE DEF f, R
  <2> QED
    BY Zenon, <1>4, <1>5, FS_Bijection DEF ExistsBijection
<1>7. ASSUME NEW i \in R PROVE s[i] = CHOOSE k \in T : Cardinality({j \in T : Precedes(j, k)}) = i - 1
  <2>1. s[i] \in T /\ Rank(T, s[i]) = i - 1
    BY Zenon, <1>2, ListedRank
  <2>2. ASSUME NEW k \in T, Rank(T, k) = i - 1 PROVE k = s[i]
    BY Zenon, <2>1, <2>2, RanksDiffer
  <2> QED
    BY Zenon, <2>1, <2>2 DEF Rank
<1> QED
  BY Zenon, <1>1, <1>6, <1>7 DEF Sorted

LEMMA SortedLists ==
  ASSUME NEW S \in SUBSET Keys
  PROVE  Lists(Sorted(S), S)
<1> DEFINE n == Cardinality(S)
           R == 0..n - 1
           r == [k \in S |-> Rank(S, k)]
           pick(i) == CHOOSE k \in S : Cardinality({j \in S : Precedes(j, k)}) = i - 1
           s == [i \in 1..n |-> pick(i)]
<1>1. IsFiniteSet(S)
  BY Zenon, NamesAssumption, FS_Subset
<1>2. n \in Nat
  BY Zenon, <1>1, FS_CardinalityType
<1>3. ASSUME NEW k \in S PROVE Rank(S, k) \in R
  <2> DEFINE A == {j \in S : Precedes(j, k)}
  <2>1. A \in SUBSET S /\ k \notin A
    BY Zenon, PrecedesOrders
  <2> HIDE DEF A
  <2>2. IsFiniteSet(A) /\ Cardinality(A) <= n /\ (n = Cardinality(A) => S = A)
    BY Zenon, <1>1, <2>1, FS_Subset
  <2>3. Cardinality(A) \in Nat
    BY Zenon, <2>2, FS_CardinalityType
  <2>4. Cardinality(A) # n
    BY Zenon, <2>1, <2>2
  <2> HIDE DEF n
  <2>5. Cardinality(A) \in R
    BY <1>2, <2>2, <2>3, <2>4
  <2> QED
    BY Zenon, <2>5 DEF Rank, A
<1>4. ASSUME NEW k \in S, NEW l \in S, Rank(S, k) = Rank(S, l) PROVE k = l
  BY Zenon, <1>4, RanksDiffer
<1>5. IsFiniteSet(R) /\ Cardinality(R) = n
  <2> HIDE DEF n
  <2>1. IsFiniteSet(0..(n - 1)) /\ Cardinality(0..(n - 1)) = IF 0 > n - 1 THEN 0 ELSE (n - 1) - 0 + 1
    BY <1>2, FS_Interval
  <2> QED
    BY <1>2, <2>1
<1>6. Sorted(S) = s
  BY Zenon DEF Sorted
<1> HIDE DEF n, R
<1>7. r \in Injection(S, R)
  BY Zenon, <1>3, <1>4 DEF Injection, IsInjective
<1>8. r \in Surjection(S, R)
  BY Zenon, <1>5, <1>7, FS_Injection DEF n
<1>9. \A i \in R : \E k \in S : Rank(S, k) = i
  BY Zenon, <1>8 DEF Surjection
<1>10. ASSUME NEW i \in 1..n PROVE s[i] \in S /\ Rank(S, s[i]) = i - 1
  <2>1. i - 1 \in R
    BY <1>2 DEF R
  <2>2. \E k \in S : Rank(S, k) = i - 1
    BY Zenon, <1>9, <2>1
  <2> QED
    BY Zenon, <2>2 DEF Rank
<1> HIDE DEF pick
<1>11. s \in [1..n -> Keys] /\ \A i \in 1..n : s[i] \in Keys
  BY Zenon, <1>10
<1> HIDE DEF s, r
<1>12. s \in Seq(Keys) /\ Len(s) = n
  BY <1>2, <1>11
<1>13. ASSUME NEW k \in S PROVE \E i \in 1..n : s[i] = k
  <2> DEFINE i == Rank(S, k) + 1
  <2>1. i \in 1..n /\ i - 1 = Rank(S, k)
    BY <1>2, <1>3 DEF R
  <2> HIDE DEF i
  <2>2. s[i] \in S /\ Rank(S, s[i]) = Rank(S, k)
    BY Zenon, <1>10, <2>1
  <2> QED
    BY Zenon, <1>4, <2>1, <2>2
<1>14. ASSUME NEW i \in 1..n, NEW j \in 1..n, i < j PROVE Precedes(s[i], s[j])
  <2>1. /\ s[i] \in S /\ s[j] \in S /\ s[i] \in Keys /\ s[j] \in Keys
        /\ Rank(S, s[i]) = i - 1 /\ Rank(S, s[j]) = j - 1
    BY Zenon, <1>10, <1>11
  <2>2. i - 1 < j - 1 /\ ~(j - 1 < i - 1) /\ i - 1 # j - 1
    BY <1>2, <1>14
  <2>3. ~Precedes(s[j], s[i]) /\ s[i] # s[j]
    BY Zenon, <2>1, <2>2, RanksOrder
  <2> QED
    BY Zenon, <2>1, <2>3, PrecedesOrders
<1> QED
  BY Zenon, <1>6, <1>10, <1>12, <1>13, <1>14 DEF Lists

----------------------------------------------------------------------------
(***************************************************************************)
(* filterSnapshot.                                                         *)
(***************************************************************************)
Filter(keys, pattern) ==
  LET out[i \in 0..Len(keys)] ==
        IF i = 0 THEN <<>>
        ELSE IF Match(pattern, Bytes[keys[i]]) THEN Append(out[i - 1], keys[i]) ELSE out[i - 1]
  IN out

LEMMA FilterRecursion ==
  ASSUME NEW keys \in Seq(Keys), NEW pattern
  PROVE  /\ Filter(keys, pattern)[0] = <<>>
         /\ \A i \in 1..Len(keys) :
              /\ Filter(keys, pattern)[i - 1] \in Seq(Keys)
              /\ Filter(keys, pattern)[i] =
                   IF Match(pattern, Bytes[keys[i]]) THEN Append(Filter(keys, pattern)[i - 1], keys[i])
                   ELSE Filter(keys, pattern)[i - 1]
         /\ FilterSnapshot(keys, pattern) = Filter(keys, pattern)[Len(keys)]
<1> DEFINE N == Len(keys)
           S == Seq(Keys)
           Round(t, i) == IF Match(pattern, Bytes[keys[i]]) THEN Append(t, keys[i]) ELSE t
           step == [x \in S \X (1..N) |-> Round(x[1], x[2])]
           Unfold(f) == [i \in 0..N |-> IF i = 0 THEN <<>> ELSE Round(f[i - 1], i)]
           r == CHOOSE f : f = Unfold(f)
<1>1. N \in Nat /\ \A i \in 1..N : keys[i] \in Keys
  BY Zenon, SequenceOf
<1>2. Filter(keys, pattern) = r /\ FilterSnapshot(keys, pattern) = r[N]
  BY Zenon DEF Filter, FilterSnapshot
<1> HIDE DEF N
<1>3. ASSUME NEW t \in S, NEW i \in 1..N PROVE Round(t, i) \in S
  <2>1. \A k \in Keys : Append(t, k) \in S
    OBVIOUS
  <2> HIDE DEF S
  <2> QED
    BY Zenon, <1>1, <2>1
<1>4. <<>> \in S
  OBVIOUS
<1> HIDE DEF S
<1>5. step \in Steps(S, N) /\ \A t \in S, i \in 1..N : step[<<t, i>>] = Round(t, i)
  <2> HIDE DEF Round
  <2> QED
    BY Zenon, <1>3 DEF Steps
<1> HIDE DEF step, Round
<1>6. PICK f : Iterates(f, S, <<>>, step, N)
  BY Zenon, <1>1, <1>4, <1>5, IterationExists
<1>7. f \in [0..N -> S] /\ f[0] = <<>> /\ \A i \in 1..N : f[i] = step[<<f[i - 1], i>>]
  BY Zenon, <1>6 DEF Iterates
<1>8. \A i \in 1..N : f[i - 1] \in S /\ f[i] = Round(f[i - 1], i)
  <2>1. \A i \in 1..N : f[i - 1] \in S
    BY <1>1, <1>7
  <2> QED
    BY Zenon, <1>5, <1>7, <2>1
<1>9. \A i \in 0..N : i = 0 \/ i \in 1..N
  BY <1>1
<1>10. f = Unfold(f)
  BY Zenon, <1>7, <1>8, <1>9
<1>11. r = Unfold(r)
  <2> HIDE DEF Unfold
  <2> QED
    BY Zenon, <1>10
<1> HIDE DEF r
<1>12. 0 \in 0..N /\ \A i \in 1..N : i \in 0..N /\ i # 0
  BY <1>1
<1>13. r[0] = <<>> /\ \A i \in 1..N : r[i] = Round(r[i - 1], i)
  BY Zenon, <1>11, <1>12
<1> DEFINE A == {i \in 0..N : r[i] \in S}
<1>14. 0..N \subseteq A
  <2>1. 0 \in A
    BY Zenon, <1>4, <1>12, <1>13
  <2>2. ASSUME NEW i \in 1..N, i - 1 \in A PROVE i \in A
    BY Zenon, <1>3, <1>12, <1>13, <2>2
  <2> HIDE DEF A
  <2> QED
    BY Zenon, <1>1, <2>1, <2>2, UptoInductionSet
<1>15. ASSUME NEW i \in 1..N PROVE r[i - 1] \in S
  <2>1. i - 1 \in 0..N
    BY <1>1
  <2> QED
    BY Zenon, <1>14, <2>1
<1> QED
  BY Zenon, <1>2, <1>13, <1>15 DEF N, S, Round

\* One name more.
LEMMA AppendLists ==
  ASSUME NEW s \in Seq(Keys), NEW T, Lists(s, T), NEW k \in Keys, \A l \in T : Precedes(l, k)
  PROVE  Lists(Append(s, k), T \cup {k})
<1> DEFINE n == Len(s)
           t == Append(s, k)
<1>1. /\ n \in Nat /\ \A i \in 1..n : s[i] \in T
      /\ \A l \in T : \E i \in 1..n : s[i] = l
      /\ \A i, j \in 1..n : i < j => Precedes(s[i], s[j])
  <2>1. n \in Nat
    BY Zenon, SequenceOf
  <2> QED
    BY Zenon, <2>1 DEF Lists
<1>2. t \in Seq(Keys) /\ Len(t) = n + 1 /\ t[n + 1] = k /\ \A i \in 1..n : t[i] = s[i]
  OBVIOUS
<1> HIDE DEF t, n
<1>3. /\ \A i \in 1..n + 1 : i \in 1..n \/ i = n + 1
      /\ n + 1 \in 1..n + 1 /\ \A i \in 1..n : i \in 1..n + 1 /\ ~(n + 1 < i)
      /\ ~(n + 1 < n + 1)
  BY <1>1
<1>4. \A i \in 1..n + 1 : t[i] \in T \cup {k}
  BY Zenon, <1>1, <1>2, <1>3
<1>5. \A l \in T \cup {k} : \E i \in 1..n + 1 : t[i] = l
  BY Zenon, <1>1, <1>2, <1>3
<1>6. ASSUME NEW i \in 1..n + 1, NEW j \in 1..n + 1, i < j PROVE Precedes(t[i], t[j])
  <2>1. i \in 1..n
    BY Zenon, <1>3, <1>6
  <2> QED
    BY Zenon, <1>1, <1>2, <1>3, <1>6, <2>1
<1> QED
  BY Zenon, <1>2, <1>4, <1>5, <1>6 DEF Lists, t

\* filterSnapshot keeps the names that match, and their order.
LEMMA FilterLists ==
  ASSUME NEW S \in SUBSET Keys, NEW keys, Lists(keys, S), NEW pattern
  PROVE  Lists(FilterSnapshot(keys, pattern), {k \in S : Match(pattern, Bytes[k])})
<1> DEFINE N == Len(keys)
           out == Filter(keys, pattern)
           kept(i) == {k \in S : Match(pattern, Bytes[k]) /\ \E h \in 1..i : keys[h] = k}
           A == {i \in 0..N : Lists(out[i], kept(i))}
<1>1. /\ keys \in Seq(Keys) /\ N \in Nat /\ \A i \in 1..N : keys[i] \in S
      /\ \A k \in S : \E i \in 1..N : keys[i] = k
      /\ \A i, j \in 1..N : i < j => Precedes(keys[i], keys[j])
  <2>1. N \in Nat
    BY Zenon, SequenceOf DEF Lists
  <2> QED
    BY Zenon, <2>1 DEF Lists
<1>2. /\ out[0] = <<>> /\ FilterSnapshot(keys, pattern) = out[N]
      /\ \A i \in 1..N :
           /\ out[i - 1] \in Seq(Keys)
           /\ out[i] = IF Match(pattern, Bytes[keys[i]]) THEN Append(out[i - 1], keys[i]) ELSE out[i - 1]
  BY Zenon, <1>1, FilterRecursion
<1> HIDE DEF out, N
<1>3. 0 \in A
  <2>1. 1..0 = {} /\ <<>> \in Seq(Keys) /\ Len(<<>>) = 0 /\ 0 \in 0..N
    BY <1>1
  <2>2. kept(0) = {}
    BY Zenon, <2>1
  <2>3. Lists(<<>>, {})
    BY Zenon, <2>1 DEF Lists
  <2> QED
    BY Zenon, <1>2, <2>1, <2>2, <2>3
<1>4. ASSUME NEW i \in 1..N, i - 1 \in A PROVE i \in A
  <2>1. i \in 0..N /\ \A h \in 1..i - 1 : h \in 1..N /\ h < i
    BY <1>1
  <2>2. \A h : h \in 1..i <=> h \in 1..i - 1 \/ h = i
    BY <1>1
  <2>3. out[i - 1] \in Seq(Keys) /\ Lists(out[i - 1], kept(i - 1)) /\ keys[i] \in S /\ keys[i] \in Keys
    BY Zenon, <1>1, <1>2, <1>4
  <2>4. CASE Match(pattern, Bytes[keys[i]])
    <3>1. \A l \in kept(i - 1) : Precedes(l, keys[i])
      BY Zenon, <1>1, <2>1
    <3>2. kept(i) = kept(i - 1) \cup {keys[i]}
      BY Zenon, <2>2, <2>3, <2>4
    <3> HIDE DEF kept
    <3>3. Lists(Append(out[i - 1], keys[i]), kept(i - 1) \cup {keys[i]})
      BY Zenon, <2>3, <3>1, AppendLists
    <3> QED
      BY Zenon, <1>2, <2>1, <2>4, <3>2, <3>3
  <2>5. CASE ~Match(pattern, Bytes[keys[i]])
    <3>1. kept(i) = kept(i - 1)
      BY Zenon, <2>2, <2>5
    <3> HIDE DEF kept
    <3> QED
      BY Zenon, <1>2, <2>1, <2>3, <2>5, <3>1
  <2> QED
    BY Zenon, <2>4, <2>5
<1>5. Lists(out[N], kept(N))
  <2> HIDE DEF A
  <2>1. 0..N \subseteq A
    BY Zenon, <1>1, <1>3, <1>4, UptoInductionSet
  <2>2. N \in 0..N
    BY <1>1
  <2> QED
    BY Zenon, <2>1, <2>2 DEF A
<1>6. kept(N) = {k \in S : Match(pattern, Bytes[k])}
  BY Zenon, <1>1
<1> QED
  BY Zenon, <1>2, <1>5, <1>6

\* Filtering the sorted names is sorting those that match.
LEMMA KeysFiltered ==
  ASSUME NEW S \in SUBSET Keys, NEW pattern \in Seq(0..255)
  PROVE  FilterSnapshot(Sorted(S), pattern) = Sorted({k \in S : Matches(pattern, Bytes[k])})
<1> DEFINE T == {k \in S : Match(pattern, Bytes[k])}
<1>1. \A k \in S : Match(pattern, Bytes[k]) <=> Matches(pattern, Bytes[k])
  <2>1. Counted(pattern)
    BY Zenon, ByteSequence DEF Counted
  <2>2. \A k \in S : Counted(Bytes[k])
    BY Zenon, NamesAssumption, ByteSequence DEF Counted
  <2> QED
    BY Zenon, <2>1, <2>2, MatchIsMatches
<1>2. T = {k \in S : Matches(pattern, Bytes[k])}
  BY Zenon, <1>1
<1>3. Lists(FilterSnapshot(Sorted(S), pattern), T)
  BY Zenon, SortedLists, FilterLists
<1>4. T \in SUBSET Keys
  OBVIOUS
<1> HIDE DEF T
<1>5. FilterSnapshot(Sorted(S), pattern) = Sorted(T)
  BY Zenon, <1>3, <1>4, ListedIsSorted
<1> QED
  BY Zenon, <1>2, <1>5

----------------------------------------------------------------------------
(***************************************************************************)
(* KEYS.                                                                   *)
(***************************************************************************)
\* While a KEYS request is being answered, the reply is the array it should be.
KeysInv ==
  Asked("KEYS") =>
    reply = Array(Sorted({k \in LiveKeys(store, now) : Matches(req[2], Bytes[k])}))

LEMMA KeysEnds ==
  ASSUME NEW args \in Requests, Dispatch(args), Upper[args[1]] = "KEYS", Len(args) \in Table["KEYS"]
  PROVE  /\ store' = store
         /\ reply' = Array(Sorted({k \in LiveKeys(store, now) : Matches(args[2], Bytes[k])}))
<1> DEFINE S == LiveKeys(store, now)
           name == Upper[args[1]]
<1>1. "KEYS" \in DOMAIN Table /\ Table["KEYS"] = 2..2
  BY DEF Table
<1>2. Run(name, args)
  BY Zenon, <1>1 DEF Dispatch
<1>3. CmdKeys(args)
  <2> HIDE DEF name
  <2> QED
    BY <1>2 DEF Run, name
<1>4. args[2] \in Seq(0..255)
  <2>1. Len(args) >= 2
    BY <1>1
  <2> QED
    BY Zenon, <2>1, RequestsAssumption
<1>5. S \in SUBSET Keys
  BY Zenon DEF LiveKeys
<1>6. store' = store /\ reply' = Array(FilterSnapshot(Sorted(S), args[2]))
  BY Zenon, <1>3 DEF CmdKeys, Answers
<1> HIDE DEF S
<1>7. FilterSnapshot(Sorted(S), args[2]) = Sorted({k \in S : Matches(args[2], Bytes[k])})
  BY Zenon, <1>4, <1>5, KeysFiltered
<1> QED
  BY Zenon, <1>6, <1>7 DEF S

\* cmdKeys, with Keys of the engine and the glob package: the live names that
\* the pattern matches by the reference definition, all of them, each once and
\* in order, for every pattern and every set of names.
THEOREM KeysAnswers == Spec => []KeysAreThoseMatching
<1>1. Init => KeysInv
  BY Zenon DEF Init, KeysInv, Asked
<1>2. ASSUME KeysInv, [Next]_vars PROVE KeysInv'
  <2>1. CASE req' = <<>>
    BY Zenon, <2>1 DEF KeysInv, Asked
  <2>2. CASE Request
    <3>1. SUFFICES ASSUME Asked("KEYS")' PROVE KeysInv'
      BY Zenon DEF KeysInv
    <3>2. PICK args \in Requests : req' = args /\ Dispatch(args)
      BY Zenon, <2>2 DEF Request
    <3>3. now' = now
      BY Zenon, <2>2 DEF Request
    <3>4. Upper[args[1]] = "KEYS" /\ Len(args) \in Table["KEYS"]
      BY Zenon, <3>1, <3>2 DEF Asked
    <3>5. /\ store' = store
          /\ reply' = Array(Sorted({k \in LiveKeys(store, now) : Matches(args[2], Bytes[k])}))
      BY Zenon, <3>2, <3>4, KeysEnds
    <3> QED
      BY Zenon, <3>2, <3>3, <3>5 DEF KeysInv
  <2>3. CASE Sent
    BY Zenon, <2>1, <2>3 DEF Sent
  <2>4. CASE Tick \/ Reclaim
    <3>1. reply = NoReply /\ req' = req
      BY Zenon, <2>4 DEF Tick, Reclaim
    <3>2. \A items : Array(items) # NoReply
      <4>1. \A items : Array(items).kind = "array"
        BY DEF Array
      <4>2. NoReply.kind = "none"
        BY DEF NoReply
      <4> QED
        BY <4>1, <4>2
    <3>3. ~Asked("KEYS")
      BY Zenon, <1>2, <3>1, <3>2 DEF KeysInv
    <3> QED
      BY Zenon, <3>1, <3>3 DEF KeysInv, Asked
  <2>5. CASE UNCHANGED vars
    <3>1. req' = req /\ reply' = reply /\ store' = store /\ now' = now
      BY Zenon, <2>5 DEF vars
    <3> QED
      BY Zenon, <1>2, <3>1 DEF KeysInv, Asked
  <2> QED
    BY Zenon, <1>2, <2>2, <2>3, <2>4, <2>5 DEF Next
<1>3. KeysInv => KeysAreThoseMatching
  <2>1. \A items : Array(items).items = items
    BY DEF Array
  <2> QED
    BY Zenon, <2>1 DEF KeysInv, KeysAreThoseMatching
<1> QED
  BY <1>1, <1>2, <1>3, PTL DEF Spec
=============================================================================
