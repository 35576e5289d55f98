-------------------------- MODULE CommandsProofs ---------------------------
(***************************************************************************)
(* Proofs about the command layer, for any requests, names, integer width  *)
(* and units of time.                                                      *)
(***************************************************************************)
EXTENDS Commands, Induction

----------------------------------------------------------------------------
(***************************************************************************)
(* Arithmetic.                                                             *)
(***************************************************************************)
\* Division with a remainder.
LEMMA Division ==
  ASSUME NEW a \in Int, NEW b \in Nat, b # 0, NEW q, q = a \div b
  PROVE  q \in Int /\ (0 <= a => 0 <= q) /\ q * b \in Int /\ q * b <= a /\ a < q * b + b
  OBVIOUS

\* A product that stays below a bound.
LEMMA ProductFits ==
  ASSUME NEW n \in Nat, NEW s \in Nat, s # 0, NEW m \in Nat
  PROVE  n <= m \div s <=> n * s <= m
  OBVIOUS

\* int64 arithmetic does nothing to an int64.
LEMMA Int64IsExact ==
  ASSUME NEW n \in Int, MinInt <= n, n <= MaxInt
  PROVE  Int64(n) = n
  BY IntAssumption DEF Int64

\* A multiple of an even number is even.
LEMMA MultipleOfEven ==
  ASSUME NEW a \in Nat, NEW b \in Nat, b # 0, a % (2 * b) = 0
  PROVE  a % 2 = 0
<1> DEFINE m == 2 * b
           q == a \div m
           c == b * q
<1>1. m \in Nat /\ m # 0
  OBVIOUS
<1>2. q \in Int /\ a = m * q
  <2> HIDE DEF m
  <2>1. a % m = 0
    BY DEF m
  <2> QED
    BY <1>1, <2>1
<1>3. c \in Int /\ a = 2 * c
  BY <1>2
<1> HIDE DEF c
<1> QED
  BY <1>3

\* The units of time, each for itself; half a second is a whole number.
LEMMA Units ==
  /\ Second \in Nat /\ Second # 0 /\ Millisecond \in Nat /\ Millisecond # 0 /\ Second <= MaxInt
  /\ Second = 2 * (Second \div 2) /\ Second \div 2 \in Nat
<1>1. /\ Second \in Nat /\ Second # 0 /\ Millisecond \in Nat /\ Millisecond # 0 /\ Second <= MaxInt
      /\ Second % (2 * Millisecond) = 0
  BY DurationAssumption
<1>2. Second % 2 = 0
  BY <1>1, MultipleOfEven
<1> QED
  BY <1>1, <1>2

\* The seconds that RoundSeconds makes of whole milliseconds, and how far they
\* are from the time it was given.
LEMMA RoundsToNearest ==
  ASSUME NEW d \in Nat
  PROVE  LET r == RoundSeconds(d \div Millisecond)
         IN /\ r \in Nat /\ 2 * (r * Second - d) <= Second
            /\ 2 * (r * Second - d) >= -Second - 2 * Millisecond
<1> DEFINE ms == d \div Millisecond
           a == ms * Millisecond
           h == Second \div 2
           b == a + h
           r == b \div Second
           x == r * Second
<1>1. ms \in Int /\ a \in Int /\ a <= d /\ d < a + Millisecond
  <2>1. d \in Int /\ Millisecond \in Nat /\ Millisecond # 0
    BY Units
  <2> QED
    BY Zenon, <2>1, Division
<1>2. a \in Nat
  <2>1. ms >= 0
    BY Units
  <2> QED
    BY <1>1, <2>1, Units
<1> HIDE DEF a
<1>3. h \in Nat /\ Second = 2 * h /\ b \in Nat
  BY <1>2, Units
<1> HIDE DEF h, b
<1>4. r \in Int /\ r >= 0 /\ x \in Int /\ x <= b /\ b < x + Second
  <2>1. b \in Int /\ 0 <= b /\ Second \in Nat /\ Second # 0
    BY <1>3, Units
  <2>2. 0 <= r /\ r \in Int
    BY <2>1
  <2> QED
    BY Zenon, <2>1, Division
<1>5. RoundSeconds(ms) = r
  BY Zenon DEF RoundSeconds, r, b, h, a
<1> HIDE DEF r, x
<1>6. 2 * (x - d) <= Second /\ 2 * (x - d) >= -Second - 2 * Millisecond
  BY <1>1, <1>2, <1>3, <1>4, Units DEF b
<1> QED
  BY <1>4, <1>5, <1>6 DEF x

\* A positive number passes the test of Expirable just if the duration fits, and
\* is that duration then.
LEMMA ExpirableFits ==
  ASSUME NEW n \in MinInt..MaxInt, NEW unit
  PROVE  /\ Step(unit) \in Nat /\ Step(unit) # 0 /\ Duration(n, unit) \in Int
         /\ Expirable(n, unit) <=> n > 0 /\ n * Step(unit) <= MaxInt
         /\ Expirable(n, unit) => Duration(n, unit) = n * Step(unit)
<1> DEFINE s == Step(unit)
<1>1. s \in Nat /\ s # 0
  BY Units DEF Step
<1>2. n \in Int /\ MaxInt \in Nat /\ MinInt \in Int /\ MinInt <= 0
  BY IntAssumption
<1> HIDE DEF s
<1>3. n * s \in Int
  BY <1>1, <1>2
<1>4. n > 0 => (n <= MaxInt \div s <=> n * s <= MaxInt)
  BY <1>1, <1>2, ProductFits
<1>5. n > 0 => MinInt <= n * s
  BY <1>1, <1>2
<1>6. n > 0 /\ n * s <= MaxInt => Int64(n * s) = n * s
  <2> DEFINE x == n * s
  <2> HIDE DEF x
  <2>1. x \in Int /\ (n > 0 => MinInt <= x)
    BY <1>3, <1>5 DEF x
  <2>2. n > 0 /\ x <= MaxInt => Int64(x) = x
    BY <2>1, Int64IsExact
  <2> QED
    BY <2>2 DEF x
<1>7. Int64(n * s) \in Int
  <2> DEFINE x == n * s
  <2> HIDE DEF x
  <2>1. x \in Int
    BY <1>3 DEF x
  <2>2. Int64(x) \in Int
    BY <1>2, <2>1 DEF Int64
  <2> QED
    BY <2>2 DEF x
<1> QED
  BY Zenon, <1>1, <1>4, <1>6, <1>7 DEF s, Expirable, Duration

----------------------------------------------------------------------------
(***************************************************************************)
(* The options of SET.                                                     *)
(***************************************************************************)
\* A sequence of words has a length.
Counted(words) == Len(words) \in Nat

\* The loop of parseSetOptions, and one round of it.
SetParse(opts) ==
  LET after[j \in 0..Len(opts)] ==
        IF j = 0 THEN [error |-> "", unit |-> "", ttl |-> NoDeadline]
        ELSE IF after[j - 1].error # "" \/ 2 * j - 1 > Len(opts) THEN after[j - 1]
        ELSE SetOption(after[j - 1], opts, 2 * j - 1)
  IN after

SetRound(p, opts, j) ==
  IF p.error # "" \/ 2 * j - 1 > Len(opts) THEN p ELSE SetOption(p, opts, 2 * j - 1)

SetParsed == [error : {"", "syntax", "not an integer", "invalid expire"}, unit : {"", "EX", "PX"},
              ttl : Int \cup {NoDeadline}]

\* A round makes a record of the parser of another.
LEMMA SetRoundType ==
  ASSUME NEW p \in SetParsed, NEW opts, NEW j
  PROVE  SetRound(p, opts, j) \in SetParsed
<1> DEFINE i == 2 * j - 1
           unit == Upper[opts[i]]
           n == IntOf[opts[i + 1]]
<1>1. CASE p.error # "" \/ i > Len(opts)
  BY Zenon, <1>1 DEF SetRound
<1>2. CASE ~(p.error # "" \/ i > Len(opts))
  <2>1. SetRound(p, opts, j) = SetOption(p, opts, i)
    BY Zenon, <1>2 DEF SetRound
  <2> HIDE DEF i
  <2>2. /\ [p EXCEPT !.error = "syntax"] \in SetParsed
        /\ [p EXCEPT !.error = "not an integer"] \in SetParsed
        /\ [p EXCEPT !.error = "invalid expire"] \in SetParsed
    BY Zenon DEF SetParsed
  <2>3. ASSUME unit \in {"EX", "PX"}, opts[i + 1] \in DOMAIN IntOf
        PROVE  [error |-> "", unit |-> unit, ttl |-> Duration(n, unit)] \in SetParsed
    <3>1. n \in MinInt..MaxInt
      BY Zenon, <2>3, WordsAssumption
    <3>2. Duration(n, unit) \in Int
      BY Zenon, <3>1, ExpirableFits
    <3> QED
      BY Zenon, <2>3, <3>2 DEF SetParsed
  <2> QED
    BY Zenon, <2>1, <2>2, <2>3 DEF SetOption
<1> QED
  BY Zenon, <1>1, <1>2

\* The loop is the iteration of its rounds.
LEMMA SetParseIterates ==
  ASSUME NEW opts, Counted(opts)
  PROVE  /\ SetParse(opts)[0] = [error |-> "", unit |-> "", ttl |-> NoDeadline]
         /\ \A j \in 1..Len(opts) : SetParse(opts)[j] = SetRound(SetParse(opts)[j - 1], opts, j)
         /\ \A j \in 0..Len(opts) : SetParse(opts)[j] \in SetParsed
         /\ ParseSetOptions(opts) = SetParse(opts)[Len(opts)]
<1> DEFINE n == Len(opts)
           base == [error |-> "", unit |-> "", ttl |-> NoDeadline]
           step == [p \in SetParsed \X (1..n) |-> SetRound(p[1], opts, p[2])]
           Unfold(f) == [j \in 0..n |-> IF j = 0 THEN base ELSE SetRound(f[j - 1], opts, j)]
           r == CHOOSE f : f = Unfold(f)
<1>1. n \in Nat /\ base \in SetParsed
  BY DEF SetParsed, Counted
<1>2. SetParse(opts) = r /\ ParseSetOptions(opts) = r[n]
  BY Zenon DEF SetParse, ParseSetOptions, SetRound
<1> HIDE DEF n, base
<1>3. step \in Steps(SetParsed, n) /\ \A p \in SetParsed, j \in 1..n : step[<<p, j>>] = SetRound(p, opts, j)
  BY Zenon, SetRoundType DEF Steps
<1> HIDE DEF step
<1>4. PICK f : Iterates(f, SetParsed, base, step, n)
  BY Zenon, <1>1, <1>3, IterationExists
<1>5. f \in [0..n -> SetParsed] /\ f[0] = base /\ \A j \in 1..n : f[j] = step[<<f[j - 1], j>>]
  BY Zenon, <1>4 DEF Iterates
<1>6. \A j \in 1..n : f[j] = SetRound(f[j - 1], opts, j)
  <2>1. \A j \in 1..n : f[j - 1] \in SetParsed
    BY <1>1, <1>5
  <2> QED
    BY Zenon, <1>3, <1>5, <2>1
<1>7. f = Unfold(f)
  BY <1>1, <1>5, <1>6
<1>8. r = Unfold(r)
  <2> HIDE DEF Unfold
  <2> QED
    BY Zenon, <1>7
<1> HIDE DEF r
<1>9. r[0] = base /\ \A j \in 1..n : r[j] = SetRound(r[j - 1], opts, j)
  BY <1>1, <1>8
<1>10. \A j \in 0..n : r[j] \in SetParsed
  <2> DEFINE A == {j \in 0..n : r[j] \in SetParsed}
  <2>1. 0 \in A
    BY <1>1, <1>9
  <2>2. ASSUME NEW j \in 1..n, j - 1 \in A
        PROVE  j \in A
    <3>1. r[j - 1] \in SetParsed /\ j \in 0..n
      BY <1>1, <2>2
    <3>2. r[j] \in SetParsed
      BY Zenon, <1>9, <3>1, SetRoundType
    <3> QED
      BY <3>1, <3>2
  <2>3. 0..n \subseteq A
    <3> HIDE DEF A
    <3> QED
      BY Zenon, <1>1, <2>1, <2>2, UptoInductionSet
  <2> QED
    BY <2>3
<1> QED
  BY Zenon, <1>2, <1>9, <1>10 DEF n, base

\* The options of the first j rounds, by number; an option that is well-formed.
Handled(opts, j) == {h \in 1..j : 2 * h - 1 <= Len(opts)}

GoodOption(opts, h, unit) ==
  /\ Upper[opts[2 * h - 1]] = unit /\ 2 * h - 1 < Len(opts)
  /\ opts[2 * h] \in DOMAIN IntOf /\ Expirable(IntOf[opts[2 * h]], unit)

\* What the parser knows after j rounds: without an error they were all good and
\* the last of them counts, and good ones of one unit made no error.
SetKnown(p, opts, j) ==
  /\ p.error = "" =>
       \/ Handled(opts, j) = {} /\ p.unit = "" /\ p.ttl = NoDeadline
       \/ /\ p.unit \in {"EX", "PX"} /\ \A h \in Handled(opts, j) : GoodOption(opts, h, p.unit)
          /\ \E m \in Handled(opts, j) :
               /\ \A h \in Handled(opts, j) : h <= m
               /\ p.ttl = Duration(IntOf[opts[2 * m]], p.unit)
  /\ \A unit \in {"EX", "PX"} :
       (\A h \in Handled(opts, j) : GoodOption(opts, h, unit)) =>
         p.error = "" /\ p.unit \in {"", unit}

\* The options of one round more.
LEMMA HandledGrows ==
  ASSUME NEW opts, Counted(opts), NEW j \in 1..Len(opts)
  PROVE  /\ 2 * j - 1 > Len(opts) => Handled(opts, j) = Handled(opts, j - 1)
         /\ 2 * j - 1 <= Len(opts) => Handled(opts, j) = Handled(opts, j - 1) \cup {j}
         /\ \A h \in Handled(opts, j - 1) : h <= j
  BY DEF Handled, Counted

\* One round more, of SET's options.
LEMMA SetKnownStep ==
  ASSUME NEW opts, Counted(opts), NEW j \in 1..Len(opts), NEW p \in SetParsed,
         SetKnown(p, opts, j - 1)
  PROVE  SetKnown(SetRound(p, opts, j), opts, j)
<1> DEFINE H == Handled(opts, j - 1)
           G == Handled(opts, j)
           q == SetRound(p, opts, j)
           i == 2 * j - 1
           unit == Upper[opts[i]]
           n == IntOf[opts[i + 1]]
<1> SUFFICES SetKnown(q, opts, j)
  BY Zenon DEF q
<1>1. /\ i > Len(opts) => G = H
      /\ i <= Len(opts) => G = H \cup {j}
      /\ \A h \in H : h <= j
  BY HandledGrows
<1>2. i \in Int /\ i + 1 = 2 * j /\ j \in Int /\ j <= j
  OBVIOUS
<1>a. ~(i > Len(opts)) => i <= Len(opts) /\ (i < Len(opts) <=> i # Len(opts))
  <2> DEFINE L == Len(opts)
  <2>1. L \in Nat
    BY Zenon DEF Counted
  <2> HIDE DEF L, i
  <2>2. ~(i > L) => i <= L /\ (i < L <=> i # L)
    BY <1>2, <2>1
  <2> QED
    BY Zenon, <2>2 DEF L
<1>3. CASE i > Len(opts)
  BY Zenon, <1>1, <1>3 DEF SetRound, SetKnown
<1>4. CASE ~(i > Len(opts)) /\ p.error # ""
  <2>1. q = p /\ H \subseteq G
    BY Zenon, <1>1, <1>a, <1>4 DEF SetRound
  <2> QED
    BY Zenon, <1>4, <2>1 DEF SetKnown
<1>5. CASE ~(i > Len(opts)) /\ p.error = ""
  <2>1. G = H \cup {j} /\ j \in G /\ H \subseteq G
    BY Zenon, <1>1, <1>a, <1>5
  <2>2. q = SetOption(p, opts, i)
    BY Zenon, <1>5 DEF SetRound
  <2>3. GoodOption(opts, j, unit) <=>
          i < Len(opts) /\ opts[i + 1] \in DOMAIN IntOf /\ Expirable(n, unit)
    BY Zenon, <1>2 DEF GoodOption
  <2>4. i < Len(opts) <=> i # Len(opts)
    BY Zenon, <1>a, <1>5
  <2>5. H = {} \/ p.unit \in {"EX", "PX"}
    BY Zenon, <1>5 DEF SetKnown
  <2>6. H = {} <=> p.unit = ""
    BY Zenon, <1>5 DEF SetKnown
  <2>7. \A h \in H : GoodOption(opts, h, p.unit)
    BY Zenon, <1>5, <2>6 DEF SetKnown
  <2> HIDE DEF H, G
  <2>8. CASE unit \in {"EX", "PX"} /\ p.unit \in {"", unit} /\ GoodOption(opts, j, unit)
    <3>1. q = [error |-> "", unit |-> unit, ttl |-> Duration(n, unit)]
      BY Zenon, <2>2, <2>3, <2>4, <2>8 DEF SetOption
    <3>2. \A h \in H : GoodOption(opts, h, unit)
      BY Zenon, <2>6, <2>7, <2>8
    <3>3. \A h \in G : GoodOption(opts, h, unit) /\ h <= j
      BY Zenon, <1>1, <1>2, <2>1, <2>8, <3>2 DEF H
    <3>a. n = IntOf[opts[2 * j]]
      BY Zenon, <1>2
    <3> HIDE DEF q, n
    <3>4. q.error = "" /\ q.unit = unit /\ q.ttl = Duration(IntOf[opts[2 * j]], unit)
      BY Zenon, <3>1, <3>a
    <3>5. \A u : GoodOption(opts, j, u) => u = unit
      BY Zenon DEF GoodOption
    <3> HIDE DEF i, unit
    <3>6. /\ q.unit \in {"EX", "PX"} /\ \A h \in G : GoodOption(opts, h, q.unit)
          /\ \E m \in G : (\A h \in G : h <= m) /\ q.ttl = Duration(IntOf[opts[2 * m]], q.unit)
      BY Zenon, <2>1, <2>8, <3>3, <3>4
    <3>7. ASSUME NEW u \in {"EX", "PX"}, \A h \in G : GoodOption(opts, h, u)
          PROVE  q.error = "" /\ q.unit \in {"", u}
      BY Zenon, <2>1, <3>4, <3>5, <3>7
    <3> QED
      BY Zenon, <3>6, <3>7 DEF SetKnown, G
  <2>9. CASE ~(unit \in {"EX", "PX"} /\ p.unit \in {"", unit} /\ GoodOption(opts, j, unit))
    <3>1. q.error # ""
      <4>1. /\ [p EXCEPT !.error = "syntax"].error = "syntax"
            /\ [p EXCEPT !.error = "not an integer"].error = "not an integer"
            /\ [p EXCEPT !.error = "invalid expire"].error = "invalid expire"
        BY Zenon DEF SetParsed
      <4>2. q \in {[p EXCEPT !.error = "syntax"], [p EXCEPT !.error = "not an integer"],
                   [p EXCEPT !.error = "invalid expire"]}
        BY Zenon, <2>2, <2>3, <2>4, <2>9 DEF SetOption
      <4> HIDE DEF q
      <4> QED
        BY Zenon, <4>1, <4>2
    <3>2. ASSUME NEW u \in {"EX", "PX"}, \A h \in G : GoodOption(opts, h, u)
          PROVE  FALSE
      <4>1. GoodOption(opts, j, u) /\ u = unit
        BY Zenon, <2>1, <3>2 DEF GoodOption
      <4>2. p.unit \in {"", u}
        BY Zenon, <2>1, <3>2 DEF SetKnown, H
      <4> QED
        BY Zenon, <2>9, <4>1, <4>2
    <3> HIDE DEF q
    <3> QED
      BY Zenon, <3>1, <3>2 DEF SetKnown, G
  <2> QED
    BY Zenon, <2>8, <2>9
<1> QED
  BY Zenon, <1>3, <1>4, <1>5

\* After the last round all options were handled.
LEMMA SetAllKnown ==
  ASSUME NEW opts, Counted(opts)
  PROVE  /\ ParseSetOptions(opts) \in SetParsed
         /\ SetKnown(ParseSetOptions(opts), opts, Len(opts))
<1> DEFINE L == Len(opts)
           r == SetParse(opts)
           base == [error |-> "", unit |-> "", ttl |-> NoDeadline]
           A == {j \in 0..L : SetKnown(r[j], opts, j)}
<1>1. L \in Nat
  BY Zenon DEF Counted
<1>2. /\ r[0] = base
      /\ \A j \in 1..L : r[j] = SetRound(r[j - 1], opts, j)
      /\ \A j \in 0..L : r[j] \in SetParsed
      /\ ParseSetOptions(opts) = r[L]
  BY Zenon, SetParseIterates
<1> HIDE DEF r, L
<1>3. SetKnown(r[0], opts, 0)
  <2>1. Handled(opts, 0) = {}
    BY DEF Handled, Counted
  <2>2. base.error = "" /\ base.unit = "" /\ base.ttl = NoDeadline
    BY Zenon
  <2> HIDE DEF base
  <2> QED
    BY Zenon, <1>2, <2>1, <2>2 DEF SetKnown
<1> HIDE DEF base
<1>4. 0 \in A
  BY <1>1, <1>3
<1>5. ASSUME NEW j \in 1..L, j - 1 \in A
      PROVE  j \in A
  <2>1. r[j - 1] \in SetParsed /\ SetKnown(r[j - 1], opts, j - 1) /\ j \in 0..L
    BY <1>1, <1>2, <1>5
  <2>2. SetKnown(SetRound(r[j - 1], opts, j), opts, j)
    BY Zenon, <2>1, SetKnownStep DEF L
  <2> QED
    BY Zenon, <1>2, <2>1, <2>2
<1>6. 0..L \subseteq A
  <2> HIDE DEF A
  <2> QED
    BY Zenon, <1>1, <1>4, <1>5, UptoInductionSet
<1>7. L \in 0..L
  BY <1>1
<1> QED
  BY Zenon, <1>2, <1>6, <1>7 DEF L

\* Options and their numbers, of an even number of words and of an odd one.
LEMMA OptionNumbers ==
  ASSUME NEW L \in Nat
  PROVE  /\ L % 2 # 0 => \E h \in 1..L : 2 * h - 1 = L
         /\ L % 2 = 0 => /\ \A h \in 1..L : 2 * h - 1 <= L => 2 * h - 1 < L /\ 2 * h \in 1..L
                         /\ L # 0 => \E h \in 1..L : 2 * h = L
         /\ \A j \in 1..L : j % 2 = 1 => \E h \in 1..L : j = 2 * h - 1 /\ 2 * h - 1 <= L
         /\ \A j \in 1..L : j % 2 # 1 => \E h \in 1..L : j = 2 * h /\ 2 * h - 1 <= L
         /\ \A h \in 1..L : (2 * h - 1) % 2 = 1 /\ (2 * h) % 2 # 1
<1>1. ASSUME NEW j \in 1..L, j % 2 = 1 PROVE \E h \in 1..L : j = 2 * h - 1 /\ 2 * h - 1 <= L
  <2>1. (j + 1) \div 2 \in 1..L /\ j = 2 * ((j + 1) \div 2) - 1
    BY <1>1
  <2> QED
    BY <2>1
<1>2. ASSUME NEW j \in 1..L, j % 2 # 1 PROVE \E h \in 1..L : j = 2 * h /\ 2 * h - 1 <= L
  <2>1. j \div 2 \in 1..L /\ j = 2 * (j \div 2)
    BY <1>2
  <2> QED
    BY <2>1
<1>3. ASSUME L % 2 # 0 PROVE \E h \in 1..L : 2 * h - 1 = L
  <2>1. L \in 1..L /\ L % 2 = 1
    BY <1>3
  <2> QED
    BY <1>1, <2>1
<1>4. ASSUME L % 2 = 0, L # 0 PROVE \E h \in 1..L : 2 * h = L
  <2>1. L \in 1..L /\ L % 2 # 1
    BY <1>4
  <2> QED
    BY <1>2, <2>1
<1>5. ASSUME L % 2 = 0, NEW h \in 1..L, 2 * h - 1 <= L PROVE 2 * h - 1 < L /\ 2 * h \in 1..L
  BY <1>5
<1>6. ASSUME NEW h \in 1..L PROVE (2 * h - 1) % 2 = 1 /\ (2 * h) % 2 # 1
  OBVIOUS
<1> QED
  BY Zenon, <1>1, <1>2, <1>3, <1>4, <1>5, <1>6

\* Good options are those each of which is good, and come in pairs.
LEMMA GoodOptionsEach ==
  ASSUME NEW opts, Counted(opts)
  PROVE  GoodOptions(opts) <=>
           \E unit \in {"EX", "PX"} : \A h \in Handled(opts, Len(opts)) : GoodOption(opts, h, unit)
<1> DEFINE L == Len(opts)
           H == Handled(opts, L)
<1>1. L \in Nat
  BY Zenon DEF Counted
<1>2. H = {h \in 1..L : 2 * h - 1 <= L}
  BY Zenon DEF Handled
<1>3. ASSUME NEW w \in DOMAIN IntOf, NEW unit
      PROVE  Expirable(IntOf[w], unit) <=> IntOf[w] > 0 /\ IntOf[w] * Step(unit) <= MaxInt
  <2>1. IntOf[w] \in MinInt..MaxInt
    BY Zenon, WordsAssumption
  <2> QED
    BY Zenon, <2>1, ExpirableFits
<1>4. GoodOptions(opts) <=>
        /\ L % 2 = 0
        /\ \E unit \in {"EX", "PX"} : \A j \in 1..L :
             IF j % 2 = 1 THEN Upper[opts[j]] = unit
             ELSE opts[j] \in DOMAIN IntOf /\ Expirable(IntOf[opts[j]], unit)
  BY Zenon, <1>3 DEF GoodOptions
<1>5. \A h, unit : GoodOption(opts, h, unit) <=>
        /\ Upper[opts[2 * h - 1]] = unit /\ 2 * h - 1 < L
        /\ opts[2 * h] \in DOMAIN IntOf /\ Expirable(IntOf[opts[2 * h]], unit)
  BY Zenon DEF GoodOption
<1> HIDE DEF L, H
<1>6. ASSUME L % 2 = 0, NEW unit,
             \A j \in 1..L : IF j % 2 = 1 THEN Upper[opts[j]] = unit
                             ELSE opts[j] \in DOMAIN IntOf /\ Expirable(IntOf[opts[j]], unit),
             NEW h \in H
      PROVE  GoodOption(opts, h, unit)
  <2>1. h \in 1..L /\ 2 * h - 1 <= L
    BY Zenon, <1>2
  <2>2. /\ 2 * h - 1 < L /\ 2 * h \in 1..L /\ 2 * h - 1 \in 1..L
        /\ (2 * h - 1) % 2 = 1 /\ (2 * h) % 2 # 1
    BY <1>1, <1>6, <2>1
  <2> QED
    BY Zenon, <1>5, <1>6, <2>2
<1>7. ASSUME NEW unit, \A h \in H : GoodOption(opts, h, unit)
      PROVE  /\ L % 2 = 0
             /\ \A j \in 1..L : IF j % 2 = 1 THEN Upper[opts[j]] = unit
                                ELSE opts[j] \in DOMAIN IntOf /\ Expirable(IntOf[opts[j]], unit)
  <2>1. L % 2 = 0
    <3>1. SUFFICES ASSUME L % 2 # 0 PROVE FALSE
      OBVIOUS
    <3>2. PICK h \in 1..L : 2 * h - 1 = L
      BY Zenon, <1>1, <3>1, OptionNumbers
    <3>3. h \in H /\ ~(2 * h - 1 < L)
      BY <1>1, <1>2, <3>2
    <3> QED
      BY Zenon, <1>5, <1>7, <3>3
  <2>2. ASSUME NEW j \in 1..L, j % 2 = 1 PROVE Upper[opts[j]] = unit
    <3>1. PICK h \in 1..L : j = 2 * h - 1 /\ 2 * h - 1 <= L
      BY Zenon, <1>1, <2>2, OptionNumbers
    <3>2. h \in H
      BY Zenon, <1>2, <3>1
    <3> QED
      BY Zenon, <1>5, <1>7, <3>1, <3>2
  <2>3. ASSUME NEW j \in 1..L, j % 2 # 1
        PROVE  opts[j] \in DOMAIN IntOf /\ Expirable(IntOf[opts[j]], unit)
    <3>1. PICK h \in 1..L : j = 2 * h /\ 2 * h - 1 <= L
      BY Zenon, <1>1, <2>3, OptionNumbers
    <3>2. h \in H
      BY Zenon, <1>2, <3>1
    <3> QED
      BY Zenon, <1>5, <1>7, <3>1, <3>2
  <2> QED
    BY Zenon, <2>1, <2>2, <2>3
<1> QED
  BY Zenon, <1>4, <1>6, <1>7 DEF L, H

\* parseSetOptions accepts the good options and no others, and the last of them,
\* if there is one, is the time to live.
LEMMA SetOptionsAsAsked ==
  ASSUME NEW opts, Counted(opts)
  PROVE  LET p == ParseSetOptions(opts)
         IN /\ p.error = "" <=> GoodOptions(opts)
            /\ p.ttl \in Int \cup {NoDeadline}
            /\ p.error = "" /\ Len(opts) = 0 => p.ttl = NoDeadline
            /\ p.error = "" /\ Len(opts) # 0 =>
                 p.ttl = IntOf[opts[Len(opts)]] * Step(Upper[opts[1]]) /\ p.ttl \in Int
<1> DEFINE L == Len(opts)
           p == ParseSetOptions(opts)
           H == Handled(opts, L)
<1>1. L \in Nat
  BY Zenon DEF Counted
<1>2. p \in SetParsed /\ SetKnown(p, opts, L)
  BY Zenon, SetAllKnown
<1>3. GoodOptions(opts) <=> \E unit \in {"EX", "PX"} : \A h \in H : GoodOption(opts, h, unit)
  BY Zenon, GoodOptionsEach
<1>4. H = {h \in 1..L : 2 * h - 1 <= L}
  BY Zenon DEF Handled
<1> HIDE DEF p, L
<1>5. p.ttl \in Int \cup {NoDeadline}
  BY Zenon, <1>2 DEF SetParsed
<1>6. p.error = "" <=> GoodOptions(opts)
  <2>1. p.error = "" => \E unit \in {"EX", "PX"} : \A h \in H : GoodOption(opts, h, unit)
    BY Zenon, <1>2 DEF SetKnown
  <2>2. ASSUME NEW unit \in {"EX", "PX"}, \A h \in H : GoodOption(opts, h, unit)
        PROVE  p.error = ""
    BY Zenon, <1>2, <2>2 DEF SetKnown
  <2> QED
    BY Zenon, <1>3, <2>1, <2>2
<1>a. (L = 0 => H = {}) /\ (L # 0 => 1 \in H)
  BY <1>1, <1>4
<1>7. ASSUME p.error = "", L = 0
      PROVE  p.ttl = NoDeadline
  BY Zenon, <1>2, <1>7, <1>a DEF SetKnown
<1>8. ASSUME p.error = "", L # 0
      PROVE  p.ttl = IntOf[opts[L]] * Step(Upper[opts[1]]) /\ p.ttl \in Int
  <2>1. 1 \in H
    BY Zenon, <1>8, <1>a
  <2>2. /\ p.unit \in {"EX", "PX"} /\ \A h \in H : GoodOption(opts, h, p.unit)
        /\ \E m \in H : (\A h \in H : h <= m) /\ p.ttl = Duration(IntOf[opts[2 * m]], p.unit)
    BY Zenon, <1>2, <1>8, <2>1 DEF SetKnown
  <2>3. PICK m \in H : (\A h \in H : h <= m) /\ p.ttl = Duration(IntOf[opts[2 * m]], p.unit)
    BY Zenon, <2>2
  <2>4. L % 2 = 0
    BY Zenon, <1>6, <1>8 DEF GoodOptions, L
  <2>5. 2 * m = L
    <3>1. PICK h \in 1..L : 2 * h = L
      BY Zenon, <1>1, <1>8, <2>4, OptionNumbers
    <3>2. h \in H
      BY <1>1, <1>4, <3>1
    <3>3. h <= m /\ m \in 1..L /\ 2 * m - 1 <= L
      BY Zenon, <1>4, <2>3, <3>2
    <3> QED
      BY <1>1, <3>1, <3>3
  <2>6. Upper[opts[1]] = p.unit
    <3>1. 2 * 1 - 1 = 1
      OBVIOUS
    <3> QED
      BY Zenon, <2>1, <2>2, <3>1 DEF GoodOption
  <2>7. opts[L] \in DOMAIN IntOf /\ Expirable(IntOf[opts[L]], p.unit)
    BY Zenon, <2>2, <2>5 DEF GoodOption
  <2>8. IntOf[opts[L]] \in MinInt..MaxInt
    BY Zenon, <2>7, WordsAssumption
  <2>9. /\ Duration(IntOf[opts[L]], p.unit) = IntOf[opts[L]] * Step(p.unit)
        /\ Duration(IntOf[opts[L]], p.unit) \in Int
    BY Zenon, <2>7, <2>8, ExpirableFits
  <2> QED
    BY Zenon, <2>3, <2>5, <2>6, <2>9
<1> QED
  BY Zenon, <1>5, <1>6, <1>7, <1>8 DEF p, L

----------------------------------------------------------------------------
(***************************************************************************)
(* The options of SCAN.                                                    *)
(***************************************************************************)
\* The loop of parseScan, where it starts, and one round of it.
ScanFirst(args) ==
  LET known == args[2] \in DOMAIN UintOf
  IN [error |-> IF known THEN "" ELSE "invalid cursor",
      cursor |-> IF known THEN UintOf[args[2]] ELSE 0, count |-> DefaultScanCount,
      pattern |-> "", patternSet |-> FALSE]

ScanRound(p, args, j) ==
  IF p.error # "" \/ 2 * j + 1 > Len(args) THEN p ELSE ScanOption(p, args, 2 * j + 1)

ScanParse(args) ==
  LET after[j \in 0..Len(args)] ==
        IF j = 0 THEN ScanFirst(args)
        ELSE IF after[j - 1].error # "" \/ 2 * j + 1 > Len(args) THEN after[j - 1]
        ELSE ScanOption(after[j - 1], args, 2 * j + 1)
  IN after

ScanParsed(args) ==
  [error : {"", "invalid cursor", "syntax", "not an integer"}, cursor : {0, UintOf[args[2]]},
   count : Int, pattern : {""} \cup {args[i] : i \in Int}, patternSet : BOOLEAN]

\* A round makes a record of the parser of another.
LEMMA ScanRoundType ==
  ASSUME NEW args, NEW p \in ScanParsed(args), NEW j \in Int
  PROVE  ScanRound(p, args, j) \in ScanParsed(args)
<1> DEFINE i == 2 * j + 1
           n == IntOf[args[i + 1]]
<1>1. i + 1 \in Int
  OBVIOUS
<1>2. /\ [p EXCEPT !.error = "syntax"] \in ScanParsed(args)
      /\ [p EXCEPT !.error = "not an integer"] \in ScanParsed(args)
      /\ [p EXCEPT !.pattern = args[i + 1], !.patternSet = TRUE] \in ScanParsed(args)
  <2> HIDE DEF i
  <2> QED
    BY Zenon, <1>1 DEF ScanParsed
<1>3. ASSUME args[i + 1] \in DOMAIN IntOf
      PROVE  [p EXCEPT !.count = n] \in ScanParsed(args)
  <2>1. n \in MinInt..MaxInt
    BY Zenon, <1>3, WordsAssumption
  <2>2. n \in Int
    BY <2>1, IntAssumption
  <2> HIDE DEF n
  <2> QED
    BY Zenon, <2>2 DEF ScanParsed
<1> HIDE DEF i
<1>4. ScanOption(p, args, i) \in ScanParsed(args)
  BY Zenon, <1>2, <1>3 DEF ScanOption
<1> QED
  BY Zenon, <1>4 DEF ScanRound, i

\* The loop is the iteration of its rounds.
LEMMA ScanParseIterates ==
  ASSUME NEW args, Counted(args)
  PROVE  /\ ScanParse(args)[0] = ScanFirst(args)
         /\ \A j \in 1..Len(args) : ScanParse(args)[j] = ScanRound(ScanParse(args)[j - 1], args, j)
         /\ \A j \in 0..Len(args) : ScanParse(args)[j] \in ScanParsed(args)
         /\ ParseScan(args) = ScanParse(args)[Len(args)]
<1> DEFINE n == Len(args)
           base == ScanFirst(args)
           S == ScanParsed(args)
           step == [p \in S \X (1..n) |-> ScanRound(p[1], args, p[2])]
           Unfold(f) == [j \in 0..n |-> IF j = 0 THEN base ELSE ScanRound(f[j - 1], args, j)]
           r == CHOOSE f : f = Unfold(f)
<1>1. n \in Nat
  BY Zenon DEF Counted
<1>2. base \in S
  <2>1. 10 \in Int
    OBVIOUS
  <2> QED
    BY Zenon, <2>1 DEF ScanParsed, ScanFirst, DefaultScanCount
<1>3. ScanParse(args) = r /\ ParseScan(args) = r[n]
  BY Zenon DEF ScanParse, ParseScan, ScanRound, ScanFirst
<1>4. \A j \in 1..n : j \in Int
  OBVIOUS
<1>5. \A p \in S, j \in 1..n : ScanRound(p, args, j) \in S
  BY Zenon, <1>4, ScanRoundType
<1> HIDE DEF n, base, S
<1>6. step \in Steps(S, n) /\ \A p \in S, j \in 1..n : step[<<p, j>>] = ScanRound(p, args, j)
  BY Zenon, <1>5 DEF Steps
<1> HIDE DEF step
<1>7. PICK f : Iterates(f, S, base, step, n)
  BY Zenon, <1>1, <1>2, <1>6, IterationExists
<1>8. f \in [0..n -> S] /\ f[0] = base /\ \A j \in 1..n : f[j] = step[<<f[j - 1], j>>]
  BY Zenon, <1>7 DEF Iterates
<1>9. \A j \in 1..n : f[j] = ScanRound(f[j - 1], args, j)
  <2>1. \A j \in 1..n : f[j - 1] \in S
    BY <1>1, <1>8
  <2> QED
    BY Zenon, <1>6, <1>8, <2>1
<1>10. f = Unfold(f)
  BY <1>1, <1>8, <1>9
<1>11. r = Unfold(r)
  <2> HIDE DEF Unfold
  <2> QED
    BY Zenon, <1>10
<1> HIDE DEF r
<1>12. r[0] = base /\ \A j \in 1..n : r[j] = ScanRound(r[j - 1], args, j)
  BY <1>1, <1>11
<1>13. \A j \in 0..n : r[j] \in S
  <2> DEFINE A == {j \in 0..n : r[j] \in S}
  <2>1. 0 \in A
    BY <1>1, <1>2, <1>12
  <2>2. ASSUME NEW j \in 1..n, j - 1 \in A
        PROVE  j \in A
    <3>1. r[j - 1] \in S /\ j \in 0..n
      BY <1>1, <2>2
    <3> QED
      BY Zenon, <1>5, <1>12, <3>1
  <2>3. 0..n \subseteq A
    <3> HIDE DEF A
    <3> QED
      BY Zenon, <1>1, <2>1, <2>2, UptoInductionSet
  <2> QED
    BY <2>3
<1> QED
  BY Zenon, <1>3, <1>12, <1>13 DEF n, base, S

\* The options of a name in the first j rounds, by their places, and the last.
At(args, j, name) ==
  {i \in 3..Len(args) : i % 2 = 1 /\ i <= 2 * j + 1 /\ Upper[args[i]] = name}
Highest(A, m) == m \in A /\ \A h \in A : h <= m

\* What the parser knows after j rounds without an error.
ScanKnown(p, args, j) ==
  p.error = "" =>
    /\ args[2] \in DOMAIN UintOf /\ p.cursor = UintOf[args[2]]
    /\ \A i \in 3..Len(args) : i % 2 = 1 /\ i <= 2 * j + 1 => i # Len(args)
    /\ p.count > 0
    /\ At(args, j, "COUNT") = {} => p.count = DefaultScanCount
    /\ \A m : Highest(At(args, j, "COUNT"), m) =>
                args[m + 1] \in DOMAIN IntOf /\ p.count = IntOf[args[m + 1]]
    /\ At(args, j, "MATCH") = {} => p.pattern = ""
    /\ \A m : Highest(At(args, j, "MATCH"), m) => p.pattern = args[m + 1]
    /\ p.patternSet <=> At(args, j, "MATCH") # {}

\* The options of one round more.
LEMMA AtGrows ==
  ASSUME NEW args, Counted(args), NEW j \in 1..Len(args), NEW name
  PROVE  /\ 2 * j + 1 > Len(args) => At(args, j, name) = At(args, j - 1, name)
         /\ Upper[args[2 * j + 1]] # name => At(args, j, name) = At(args, j - 1, name)
         /\ 2 * j + 1 <= Len(args) /\ Upper[args[2 * j + 1]] = name =>
              /\ At(args, j, name) = At(args, j - 1, name) \cup {2 * j + 1}
              /\ \A m : Highest(At(args, j, name), m) => m = 2 * j + 1
<1> DEFINE L == Len(args)
           i == 2 * j + 1
<1>1. L \in Nat /\ j \in 1..L
  BY Zenon DEF Counted
<1> HIDE DEF L
<1>2. ASSUME NEW k \in 3..L, k % 2 = 1
      PROVE  (k <= 2 * j + 1 <=> k <= 2 * (j - 1) + 1 \/ k = 2 * j + 1) /\ k \in Int
  BY <1>1, <1>2
<1>3. /\ At(args, j, name) = {k \in 3..L : k % 2 = 1 /\ k <= 2 * j + 1 /\ Upper[args[k]] = name}
      /\ At(args, j - 1, name) =
           {k \in 3..L : k % 2 = 1 /\ k <= 2 * (j - 1) + 1 /\ Upper[args[k]] = name}
  BY Zenon DEF At, L
<1>4. i > L => At(args, j, name) = At(args, j - 1, name)
  BY <1>1, <1>2, <1>3
<1>5. Upper[args[i]] # name => At(args, j, name) = At(args, j - 1, name)
  BY <1>2, <1>3
<1>6. ASSUME i <= L, Upper[args[i]] = name
      PROVE  /\ At(args, j, name) = At(args, j - 1, name) \cup {i}
             /\ \A m : Highest(At(args, j, name), m) => m = i
  <2>1. i \in 3..L /\ i % 2 = 1
    BY <1>1, <1>6
  <2>2. At(args, j, name) = At(args, j - 1, name) \cup {i}
    BY <1>2, <1>3, <1>6, <2>1
  <2>3. \A k \in At(args, j, name) : k <= i /\ k \in Int
    BY <1>3
  <2>4. ASSUME NEW m, Highest(At(args, j, name), m)
        PROVE  m = i
    <3>1. m \in At(args, j, name) /\ i <= m
      BY Zenon, <2>2, <2>4 DEF Highest
    <3> QED
      BY <1>1, <2>3, <3>1
  <2> QED
    BY Zenon, <2>2, <2>4
<1> QED
  BY Zenon, <1>4, <1>5, <1>6 DEF L

\* No option of the first j rounds is the last word.
Paired(L, j) == \A i \in 3..L : i % 2 = 1 /\ i <= 2 * j + 1 => i # L

\* One round more, of the pairs.
LEMMA PairedGrows ==
  ASSUME NEW L \in Nat, NEW j \in 1..L, Paired(L, j - 1), 2 * j + 1 > L \/ 2 * j + 1 # L
  PROVE  Paired(L, j)
<1> SUFFICES ASSUME NEW i \in 3..L, i % 2 = 1, i <= 2 * j + 1 PROVE i # L
  BY Zenon DEF Paired
<1>1. i <= 2 * (j - 1) + 1 \/ i = 2 * j + 1
  OBVIOUS
<1> QED
  BY <1>1 DEF Paired

\* A round keeps it so.
LEMMA ScanKnownStep ==
  ASSUME NEW args, Counted(args), NEW j \in 1..Len(args), NEW p \in ScanParsed(args),
         ScanKnown(p, args, j - 1)
  PROVE  ScanKnown(ScanRound(p, args, j), args, j)
<1> DEFINE q == ScanRound(p, args, j)
           i == 2 * j + 1
           name == Upper[args[i]]
           n == IntOf[args[i + 1]]
           B == At(args, j - 1, "COUNT")
           C == At(args, j, "COUNT")
           K == At(args, j - 1, "MATCH")
           M == At(args, j, "MATCH")
           L == Len(args)
<1>1. L \in Nat /\ j \in 1..L
  BY Zenon DEF Counted
<1>2. i > L \/ i # L => (Paired(L, j - 1) => Paired(L, j))
  BY Zenon, <1>1, PairedGrows
<1>3. \A m \in Int : m > 0 <=> ~(m <= 0)
  OBVIOUS
<1>4. ~(i > L) => i <= L
  BY <1>1
<1>5. /\ i > L => B = C /\ K = M
      /\ name # "COUNT" => B = C
      /\ name # "MATCH" => K = M
      /\ i <= L /\ name = "COUNT" => C # {} /\ \A m : Highest(C, m) => m = i
      /\ i <= L /\ name = "MATCH" => M # {} /\ \A m : Highest(M, m) => m = i
  <2>1. /\ i > L => C = B
        /\ name # "COUNT" => C = B
        /\ i <= L /\ name = "COUNT" => C = B \cup {i} /\ \A m : Highest(C, m) => m = i
    BY Zenon, AtGrows
  <2>2. /\ i > L => M = K
        /\ name # "MATCH" => M = K
        /\ i <= L /\ name = "MATCH" => M = K \cup {i} /\ \A m : Highest(M, m) => m = i
    BY Zenon, AtGrows
  <2> HIDE DEF B, C, K, M, i, L, name
  <2> QED
    BY Zenon, <2>1, <2>2
<1>6. ASSUME args[i + 1] \in DOMAIN IntOf
      PROVE  n \in Int
  <2>1. n \in MinInt..MaxInt
    BY Zenon, <1>6, WordsAssumption
  <2> QED
    BY <2>1, IntAssumption
<1> SUFFICES ASSUME q.error = "" PROVE ScanKnown(q, args, j)
  BY Zenon DEF ScanKnown
<1>7. p.error = ""
  BY Zenon DEF ScanRound
<1>8. /\ args[2] \in DOMAIN UintOf /\ p.cursor = UintOf[args[2]] /\ p.count > 0 /\ Paired(L, j - 1)
      /\ B = {} => p.count = DefaultScanCount
      /\ \A m : Highest(B, m) => args[m + 1] \in DOMAIN IntOf /\ p.count = IntOf[args[m + 1]]
      /\ K = {} => p.pattern = ""
      /\ \A m : Highest(K, m) => p.pattern = args[m + 1]
      /\ p.patternSet <=> K # {}
  BY Zenon, <1>7 DEF ScanKnown, Paired
<1>9. SUFFICES /\ q.cursor = p.cursor /\ q.count > 0 /\ Paired(L, j)
               /\ C = {} => q.count = DefaultScanCount
               /\ \A m : Highest(C, m) =>
                           args[m + 1] \in DOMAIN IntOf /\ q.count = IntOf[args[m + 1]]
               /\ M = {} => q.pattern = ""
               /\ \A m : Highest(M, m) => q.pattern = args[m + 1]
               /\ q.patternSet <=> M # {}
  <2> HIDE DEF q
  <2> QED
    BY Zenon, <1>8, <1>9 DEF ScanKnown, Paired
<1> HIDE DEF B, C, K, M, L, i
<1>10. CASE i > L
  <2>1. q = p
    BY Zenon, <1>10 DEF ScanRound, L, i
  <2> HIDE DEF q
  <2> QED
    BY Zenon, <1>2, <1>5, <1>8, <1>10, <2>1
<1>11. CASE ~(i > L)
  <2>1. q = ScanOption(p, args, i)
    BY Zenon, <1>7, <1>11 DEF ScanRound, L, i
  <2>2. /\ [p EXCEPT !.error = "syntax"].error # ""
        /\ [p EXCEPT !.error = "not an integer"].error # ""
    BY Zenon DEF ScanParsed
  <2>3. /\ name \in {"MATCH", "COUNT"} /\ i # L
        /\ \/ name = "MATCH" /\ q = [p EXCEPT !.pattern = args[i + 1], !.patternSet = TRUE]
           \/ /\ name = "COUNT" /\ args[i + 1] \in DOMAIN IntOf /\ ~(n <= 0)
              /\ q = [p EXCEPT !.count = n]
    BY Zenon, <2>1, <2>2 DEF ScanOption, L
  <2>4. CASE name = "MATCH" /\ q = [p EXCEPT !.pattern = args[i + 1], !.patternSet = TRUE]
    <3>1. /\ q.cursor = p.cursor /\ q.count = p.count /\ q.pattern = args[i + 1]
          /\ q.patternSet = TRUE
      BY Zenon, <2>4 DEF ScanParsed
    <3>2. name # "COUNT"
      BY Zenon, <2>4
    <3> HIDE DEF q, name
    <3> QED
      BY Zenon, <1>2, <1>4, <1>5, <1>8, <1>11, <2>3, <2>4, <3>1, <3>2
  <2>5. CASE /\ name = "COUNT" /\ args[i + 1] \in DOMAIN IntOf /\ ~(n <= 0)
             /\ q = [p EXCEPT !.count = n]
    <3>1. /\ q.cursor = p.cursor /\ q.count = n /\ q.pattern = p.pattern
          /\ q.patternSet = p.patternSet
      BY Zenon, <2>5 DEF ScanParsed
    <3>2. name # "MATCH" /\ n > 0
      BY Zenon, <1>3, <1>6, <2>5
    <3> HIDE DEF q, name
    <3> QED
      BY Zenon, <1>2, <1>4, <1>5, <1>8, <1>11, <2>3, <2>5, <3>1, <3>2
  <2> QED
    BY Zenon, <2>3, <2>4, <2>5
<1> QED
  BY Zenon, <1>10, <1>11

\* Options that are there have a last one.
LEMMA LastOptionExists ==
  ASSUME NEW args, Counted(args), NEW name
  PROVE  At(args, Len(args), name) = {} \/ \E m : Highest(At(args, Len(args), name), m)
<1> DEFINE L == Len(args)
           A == {j \in 0..L : At(args, j, name) = {} \/ \E m : Highest(At(args, j, name), m)}
<1>1. L \in Nat
  BY Zenon DEF Counted
<1>2. At(args, 0, name) = {}
  BY DEF At
<1>a. ASSUME NEW j \in 1..Len(args)
      PROVE  /\ 2 * j + 1 > Len(args) => At(args, j, name) = At(args, j - 1, name)
             /\ Upper[args[2 * j + 1]] # name => At(args, j, name) = At(args, j - 1, name)
             /\ 2 * j + 1 <= Len(args) /\ Upper[args[2 * j + 1]] = name =>
                  /\ At(args, j, name) = At(args, j - 1, name) \cup {2 * j + 1}
                  /\ \A m : Highest(At(args, j, name), m) => m = 2 * j + 1
  <2> HIDE DEF A, L
  <2> QED
    BY Zenon, AtGrows
<1> HIDE DEF L
<1>3. 0 \in A
  BY <1>1, <1>2
<1>4. ASSUME NEW j \in 1..L, j - 1 \in A
      PROVE  j \in A
  <2> DEFINE i == 2 * j + 1
             B == At(args, j - 1, name)
             C == At(args, j, name)
  <2>1. /\ i > L => C = B
        /\ Upper[args[i]] # name => C = B
        /\ i <= L /\ Upper[args[i]] = name => C = B \cup {i}
    BY Zenon, <1>a DEF L
  <2>2. \A h \in C : h <= i
    BY DEF At
  <2>3. i > L \/ i <= L
    BY <1>1
  <2>4. B = {} \/ \E m : Highest(B, m)
    BY Zenon, <1>4
  <2>5. j \in 0..L
    BY <1>1
  <2> HIDE DEF B, C, i
  <2>6. C = {} \/ \E m : Highest(C, m)
    <3>1. CASE C = B
      BY Zenon, <2>4, <3>1
    <3>2. CASE C = B \cup {i}
      <4>1. Highest(C, i)
        BY Zenon, <2>2, <3>2 DEF Highest
      <4> QED
        BY Zenon, <4>1
    <3> QED
      BY Zenon, <2>1, <2>3, <3>1, <3>2
  <2> QED
    BY Zenon, <2>5, <2>6 DEF C
<1>5. 0..L \subseteq A
  <2> HIDE DEF A
  <2> QED
    BY Zenon, <1>1, <1>3, <1>4, UptoInductionSet
<1>6. L \in 0..L
  BY <1>1
<1> QED
  BY Zenon, <1>5, <1>6 DEF L

\* What is known of the request that parseScan makes.
LEMMA ScanOptionsAsAsked ==
  ASSUME NEW args, Counted(args)
  PROVE  ScanKnown(ParseScan(args), args, Len(args)) /\ ParseScan(args) \in ScanParsed(args)
<1> DEFINE L == Len(args)
           r == ScanParse(args)
           A == {j \in 0..L : ScanKnown(r[j], args, j)}
<1>1. L \in Nat
  BY Zenon DEF Counted
<1>2. /\ r[0] = ScanFirst(args)
      /\ \A j \in 1..L : r[j] = ScanRound(r[j - 1], args, j)
      /\ \A j \in 0..L : r[j] \in ScanParsed(args)
      /\ ParseScan(args) = r[L]
  BY Zenon, ScanParseIterates
<1> HIDE DEF r, L
<1>3. /\ \A j \in 1..L : j - 1 \in 0..L /\ j \in 0..L
      /\ 0 \in 0..L /\ L \in 0..L
  BY <1>1
<1>4. ScanKnown(r[0], args, 0)
  <2> DEFINE p == ScanFirst(args)
  <2>1. At(args, 0, "COUNT") = {} /\ At(args, 0, "MATCH") = {}
    BY DEF At
  <2>2. /\ p.error = "" => args[2] \in DOMAIN UintOf /\ p.cursor = UintOf[args[2]]
        /\ p.count = DefaultScanCount /\ p.pattern = "" /\ p.patternSet = FALSE
    BY Zenon DEF ScanFirst
  <2>3. DefaultScanCount > 0
    BY DEF DefaultScanCount
  <2>4. \A i \in 3..Len(args) : i % 2 = 1 /\ i <= 2 * 0 + 1 => i # Len(args)
    OBVIOUS
  <2> HIDE DEF p
  <2> QED
    BY Zenon, <1>2, <2>1, <2>2, <2>3, <2>4 DEF ScanKnown, Highest, p
<1>5. 0 \in A
  BY Zenon, <1>3, <1>4
<1>6. ASSUME NEW j \in 1..L, j - 1 \in A
      PROVE  j \in A
  <2>1. r[j - 1] \in ScanParsed(args) /\ ScanKnown(r[j - 1], args, j - 1) /\ j \in 0..L
    BY Zenon, <1>2, <1>3, <1>6
  <2>2. ScanKnown(ScanRound(r[j - 1], args, j), args, j)
    BY Zenon, <2>1, ScanKnownStep DEF L
  <2> QED
    BY Zenon, <1>2, <2>1, <2>2
<1>7. 0..L \subseteq A
  <2> HIDE DEF A
  <2> QED
    BY Zenon, <1>1, <1>5, <1>6, UptoInductionSet
<1> QED
  BY Zenon, <1>2, <1>3, <1>7 DEF L

----------------------------------------------------------------------------
(***************************************************************************)
(* The steps.                                                              *)
(***************************************************************************)
Values == Text \cup {Absent}
Deadlines == Int \cup {NoDeadline}
Stores == [data : [Keys -> Values], expires : [Keys -> Deadlines]]

\* Between requests there is no request.
CommandsInv == store \in Stores /\ now \in Nat /\ (reply = NoReply => req = <<>>)

\* What every handler does: it answers, and with an error changes nothing unless
\* the log failed.
Outcome ==
  /\ store' \in Stores /\ reply'.kind # "none"
  /\ reply'.kind = "error" /\ reply' # Err("persistence unavailable") => store' = store

\* The operations of the store.
LEMMA StoreOperations ==
  ASSUME NEW s \in Stores, NEW k \in Keys
  PROVE  /\ \A v \in Values, at \in Deadlines : StoreSet(s, k, v, at) \in Stores
         /\ \A ks : StoreDelete(s, ks) \in Stores
         /\ \A at \in Deadlines : \A t : StoreExpire(s, k, at, t) \in Stores
         /\ \A t : StorePersist(s, k, t) \in Stores
         /\ s.expires[k] \in Deadlines /\ s.data[k] \in Values
<1>1. s.data \in [Keys -> Values] /\ s.expires \in [Keys -> Deadlines]
  BY DEF Stores
<1>2. Absent \in Values /\ NoDeadline \in Deadlines
  BY DEF Values, Deadlines
<1>3. ASSUME NEW v \in Values, NEW at \in Deadlines PROVE StoreSet(s, k, v, at) \in Stores
  BY Zenon, <1>1 DEF StoreSet, Stores
<1>4. ASSUME NEW ks PROVE StoreDelete(s, ks) \in Stores
  BY Zenon, <1>1, <1>2 DEF StoreDelete, Stores
<1>5. ASSUME NEW at \in Deadlines, NEW t PROVE StoreExpire(s, k, at, t) \in Stores
  BY <1>1 DEF StoreExpire, Stores
<1>6. ASSUME NEW t PROVE StorePersist(s, k, t) \in Stores
  BY <1>1, <1>2 DEF StorePersist, Stores
<1> QED
  BY Zenon, <1>1, <1>3, <1>4, <1>5, <1>6

\* Deletion needs no key to be named.
LEMMA DeletionType == ASSUME NEW s \in Stores, NEW ks PROVE StoreDelete(s, ks) \in Stores
<1>1. s.data \in [Keys -> Values] /\ s.expires \in [Keys -> Deadlines]
  BY DEF Stores
<1>2. Absent \in Values /\ NoDeadline \in Deadlines
  BY DEF Values, Deadlines
<1> QED
  BY Zenon, <1>1, <1>2 DEF StoreDelete, Stores

\* The kinds of answers.
LEMMA Kinds ==
  /\ \A s : Simple(s).kind = "simple"
  /\ \A n : IntReply(n).kind = "int"
  /\ \A b : BoolInt(b).kind = "int"
  /\ \A v : Bulk(v).kind \in {"null", "bulk"}
  /\ \A items : Array(items).kind = "array"
  /\ \A p : Page(p).kind = "page"
  /\ \A class : Err(class).kind = "error"
  /\ NoReply.kind = "none"
  BY Zenon DEF Simple, IntReply, BoolInt, Bulk, Array, Page, Err, NoReply

\* The three ways a handler ends.
LEMMA AnswersEnds ==
  ASSUME store \in Stores, NEW r, r.kind # "none", Answers(r)
  PROVE  Outcome /\ store' = store /\ reply' = r
  BY Zenon DEF Outcome, Answers

\* A mutation with an effect, ...
LEMMA CommitsEnds ==
  ASSUME store \in Stores, NEW s \in Stores, NEW r, r.kind \notin {"none", "error"}, Commits(s, r)
  PROVE  /\ Outcome
         /\ \/ store' = s /\ reply' = r
            \/ reply' \in {Err("shutting down"), Err("persistence unavailable")}
<1>1. CASE store' = s /\ reply' = r
  BY Zenon, <1>1 DEF Outcome
<1>2. CASE Answers(Err("shutting down"))
  <2>1. store' = store /\ reply' = Err("shutting down") /\ Err("shutting down").kind # "none"
    BY Zenon, <1>2, Kinds DEF Answers
  <2> QED
    BY Zenon, <2>1 DEF Outcome
<1>3. CASE store' \in {store, s} /\ reply' = Err("persistence unavailable")
  <2>1. Err("persistence unavailable").kind # "none"
    BY Zenon, Kinds
  <2> QED
    BY Zenon, <1>3, <2>1 DEF Outcome
<1> QED
  BY Zenon, <1>1, <1>2, <1>3 DEF Commits

\* ... a mutation without one, ...
LEMMA FindsEnds ==
  ASSUME store \in Stores, NEW s \in Stores, NEW r, r.kind # "none",
         r.kind # "error" \/ s = store, Finds(s, r)
  PROVE  Outcome
<1>1. CASE store' = s /\ reply' = r
  BY Zenon, <1>1 DEF Outcome
<1>2. CASE Answers(Err("shutting down"))
  <2>1. Err("shutting down").kind # "none"
    BY Zenon, Kinds
  <2> QED
    BY Zenon, <1>2, <2>1, AnswersEnds
<1> QED
  BY Zenon, <1>1, <1>2 DEF Finds

\* ... and a deletion.
LEMMA DeleteEnds ==
  ASSUME store \in Stores, NEW ks, NEW r, r.kind \notin {"none", "error"}, Delete(ks, r)
  PROVE  Outcome
<1> DEFINE s == StoreDelete(store, Range(ks))
<1>1. s \in Stores
  BY Zenon, DeletionType
<1>2. Commits(s, r) \/ Finds(s, r)
  BY Zenon DEF Delete
<1> HIDE DEF s
<1> QED
  BY Zenon, <1>1, <1>2, CommitsEnds, FindsEnds

\* The words of a request, and the options of a SET.
LEMMA RequestWords ==
  ASSUME NEW args \in Requests
  PROVE  /\ args \in Seq({args[i] : i \in 1..Len(args)}) /\ Len(args) \in Nat /\ Counted(args)
         /\ args # <<>>
<1>1. args = [i \in 1..Len(args) |-> args[i]] /\ Len(args) \in Nat /\ Len(args) # 0
  BY Zenon, RequestsAssumption
<1> DEFINE W == {args[i] : i \in 1..Len(args)}
           n == Len(args)
<1>2. args \in [1..n -> W]
  BY Zenon, <1>1
<1> HIDE DEF W, n
<1>3. n \in Nat
  BY Zenon, <1>1 DEF n
<1>4. args \in Seq(W)
  BY <1>2, <1>3
<1>5. args # <<>>
  BY <1>1
<1> QED
  BY Zenon, <1>1, <1>4, <1>5 DEF W, Counted

\* The options of SET, the words after the third.
LEMMA OptionWords ==
  ASSUME NEW args \in Requests, Len(args) >= 3
  PROVE  LET opts == SubSeq(args, 4, Len(args))
         IN Counted(opts) /\ (opts = <<>> <=> Len(opts) = 0)
<1> DEFINE W == {args[i] : i \in 1..Len(args)}
           n == Len(args)
<1>1. args \in Seq(W) /\ n \in Nat /\ n >= 3
  BY Zenon, RequestWords
<1> HIDE DEF W
<1>2. SubSeq(args, 4, n) \in Seq(W)
  BY <1>1
<1>3. ASSUME NEW opts \in Seq(W)
      PROVE  Len(opts) \in Nat /\ (opts = <<>> <=> Len(opts) = 0)
  OBVIOUS
<1> QED
  BY Zenon, <1>2, <1>3 DEF Counted

\* SET.
LEMMA SetEnds ==
  ASSUME CommandsInv, NEW args \in Requests, Upper[args[1]] = "SET", Len(args) >= 3, CmdSet(args)
  PROVE  LET opts == SubSeq(args, 4, Len(args))
             at == IF opts = <<>> THEN NoDeadline
                   ELSE now + IntOf[opts[Len(opts)]] * Step(Upper[opts[1]])
         IN /\ Outcome
            /\ reply' = Simple("OK") =>
                 /\ GoodOptions(opts) /\ store'.data[args[2]] = TextOf[args[3]]
                 /\ store'.expires[args[2]] = at
            /\ GoodOptions(opts) =>
                 reply' \in {Simple("OK"), Err("shutting down"), Err("persistence unavailable")}
<1> DEFINE opts == SubSeq(args, 4, Len(args))
           p == ParseSetOptions(opts)
           k == args[2]
           v == TextOf[args[3]]
           asked == IF opts = <<>> THEN NoDeadline
                    ELSE now + IntOf[opts[Len(opts)]] * Step(Upper[opts[1]])
           at == IF p.ttl = NoDeadline THEN NoDeadline ELSE now + p.ttl
           s == StoreSet(store, k, v, at)
<1>1. Len(args) \in Nat /\ Counted(opts) /\ (opts = <<>> <=> Len(opts) = 0)
  BY Zenon, RequestWords, OptionWords
<1>2. k \in Keys /\ v \in Text
  <2>1. Len(args) >= 2
    BY <1>1
  <2> QED
    BY Zenon, <2>1, RequestsAssumption
<1> HIDE DEF opts
<1>3. /\ p.error = "" <=> GoodOptions(opts)
      /\ p.ttl \in Int \cup {NoDeadline}
      /\ p.error = "" /\ Len(opts) = 0 => p.ttl = NoDeadline
      /\ p.error = "" /\ Len(opts) # 0 =>
           p.ttl = IntOf[opts[Len(opts)]] * Step(Upper[opts[1]]) /\ p.ttl \in Int
  BY Zenon, <1>1, SetOptionsAsAsked
<1> HIDE DEF p, k, v
<1>4. store \in Stores /\ now \in Nat
  BY Zenon DEF CommandsInv
<1>5. \A t \in Int : t # NoDeadline
  BY Zenon, MarksAssumption
<1>6. p.error = "" => at = asked
  BY Zenon, <1>1, <1>3, <1>5
<1>7. at \in Deadlines
  <2>1. p.ttl \in Int \cup {NoDeadline}
    BY Zenon, <1>3
  <2> QED
    BY <1>4, <2>1 DEF Deadlines
<1> HIDE DEF at, asked
<1>8. s \in Stores
  BY Zenon, <1>2, <1>4, <1>7, StoreOperations DEF Values
<1>9. s.data[k] = v /\ s.expires[k] = at
  <2>1. store.data \in [Keys -> Values] /\ store.expires \in [Keys -> Deadlines]
    BY <1>4 DEF Stores
  <2> QED
    BY <1>2, <1>4, <2>1 DEF StoreSet, Stores
<1> HIDE DEF s
<1>10. \/ p.error # "" /\ Answers(Err(p.error))
       \/ p.error = "" /\ Commits(s, Simple("OK"))
  BY Zenon DEF CmdSet, s, at, p, opts, k, v
<1>11. Simple("OK").kind = "simple" /\ Err(p.error).kind = "error"
  BY Zenon, Kinds
<1>12. CASE p.error # "" /\ Answers(Err(p.error))
  <2>1. Outcome /\ reply' = Err(p.error)
    BY Zenon, <1>4, <1>11, <1>12, AnswersEnds
  <2>2. reply' # Simple("OK") /\ ~GoodOptions(opts)
    BY Zenon, <1>3, <1>11, <1>12, <2>1
  <2> QED
    BY Zenon, <2>1, <2>2 DEF opts
<1>13. CASE p.error = "" /\ Commits(s, Simple("OK"))
  <2>1. /\ Outcome
        /\ \/ store' = s /\ reply' = Simple("OK")
           \/ reply' \in {Err("shutting down"), Err("persistence unavailable")}
    BY Zenon, <1>4, <1>8, <1>11, <1>13, CommitsEnds
  <2>2. Err("shutting down") # Simple("OK") /\ Err("persistence unavailable") # Simple("OK")
    BY Zenon, Kinds
  <2>3. reply' = Simple("OK") => store' = s
    BY Zenon, <2>1, <2>2
  <2>4. reply' = Simple("OK") =>
          GoodOptions(opts) /\ store'.data[k] = v /\ store'.expires[k] = asked
    BY Zenon, <1>3, <1>6, <1>9, <1>13, <2>3
  <2> QED
    BY Zenon, <2>1, <2>4 DEF opts, k, v, asked
<1> QED
  BY Zenon, <1>10, <1>12, <1>13

\* INCR and DECR.
LEMMA IncrByEnds ==
  ASSUME CommandsInv, NEW args, args[2] \in Keys, NEW delta \in Int, CmdIncrBy(args, delta)
  PROVE  Outcome
<1> DEFINE k == args[2]
           at == IF Live(k) THEN store.expires[k] ELSE NoDeadline
           nums == IF Live(k) THEN ParseStoredInt(Read(k)) ELSE {0}
<1>1. store \in Stores
  BY Zenon DEF CommandsInv
<1>2. at \in Deadlines
  BY Zenon, <1>1, StoreOperations DEF Deadlines
<1>3. \A n \in nums : n \in Int
  BY IntAssumption DEF ParseStoredInt
<1>4. \/ Finds(store, Err("not an integer"))
      \/ \E n \in nums : \/ Finds(store, Err("overflow"))
                         \/ Commits(StoreSet(store, k, FormatInt(n + delta), at), IntReply(n + delta))
  BY Zenon DEF CmdIncrBy
<1> HIDE DEF at, nums, k
<1>5. ASSUME NEW class, Finds(store, Err(class))
      PROVE  Outcome
  <2>1. Err(class).kind = "error"
    BY Zenon, Kinds
  <2> QED
    BY Zenon, <1>1, <1>5, <2>1, FindsEnds
<1>6. ASSUME NEW n \in nums, Commits(StoreSet(store, k, FormatInt(n + delta), at), IntReply(n + delta))
      PROVE  Outcome
  <2> DEFINE s == StoreSet(store, k, FormatInt(n + delta), at)
             r == IntReply(n + delta)
  <2>1. FormatInt(n + delta) \in Values
    BY <1>3 DEF FormatInt, Values, Text
  <2>2. s \in Stores
    BY Zenon, <1>1, <1>2, <2>1, StoreOperations DEF k
  <2>3. r.kind = "int"
    BY Zenon, Kinds
  <2>4. Commits(s, r)
    BY Zenon, <1>6
  <2> HIDE DEF s, r
  <2> QED
    BY Zenon, <1>1, <2>2, <2>3, <2>4, CommitsEnds
<1> QED
  BY Zenon, <1>4, <1>5, <1>6

\* EXPIRE.
LEMMA ExpireEnds ==
  ASSUME CommandsInv, NEW args, args[2] \in Keys, CmdExpire(args)
  PROVE  Outcome
<1> DEFINE k == args[2]
           n == IntOf[args[3]]
           at == now + Duration(n, "EX")
           s == StoreExpire(store, k, at, now)
           removed == IntReply(Removed(<<k>>))
           one == <<k>>
<1>1. store \in Stores /\ now \in Nat
  BY Zenon DEF CommandsInv
<1>2. \/ \E class : Answers(Err(class))
      \/ Delete(one, removed)
      \/ args[3] \in DOMAIN IntOf /\ Commits(s, BoolInt(TRUE))
      \/ Finds(store, BoolInt(FALSE))
  BY Zenon DEF CmdExpire
<1>3. ASSUME args[3] \in DOMAIN IntOf
      PROVE  s \in Stores
  <2>1. n \in MinInt..MaxInt
    BY Zenon, <1>3, WordsAssumption
  <2>2. Duration(n, "EX") \in Int
    BY Zenon, <2>1, ExpirableFits
  <2>3. at \in Deadlines
    BY <1>1, <2>2 DEF Deadlines
  <2> QED
    BY Zenon, <1>1, <2>3, StoreOperations
<1>4. /\ removed.kind = "int" /\ BoolInt(TRUE).kind = "int" /\ BoolInt(FALSE).kind = "int"
      /\ \A class : Err(class).kind = "error"
  BY Zenon, Kinds
<1> HIDE DEF s, removed, one
<1>5. CASE \E class : Answers(Err(class))
  <2>1. PICK class : Answers(Err(class))
    BY Zenon, <1>5
  <2>2. Err(class).kind # "none"
    BY Zenon, <1>4
  <2> QED
    BY Zenon, <1>1, <2>1, <2>2, AnswersEnds
<1>6. CASE Delete(one, removed)
  BY Zenon, <1>1, <1>4, <1>6, DeleteEnds
<1>7. CASE args[3] \in DOMAIN IntOf /\ Commits(s, BoolInt(TRUE))
  BY Zenon, <1>1, <1>3, <1>4, <1>7, CommitsEnds
<1>8. CASE Finds(store, BoolInt(FALSE))
  BY Zenon, <1>1, <1>4, <1>8, FindsEnds
<1> QED
  BY Zenon, <1>2, <1>5, <1>6, <1>7, <1>8

\* PERSIST.
LEMMA PersistEnds ==
  ASSUME CommandsInv, NEW args, args[2] \in Keys, CmdPersist(args)
  PROVE  Outcome
<1> DEFINE s == StorePersist(store, args[2], now)
<1>1. store \in Stores
  BY Zenon DEF CommandsInv
<1>2. s \in Stores
  BY Zenon, <1>1, StoreOperations
<1>3. BoolInt(TRUE).kind = "int" /\ BoolInt(FALSE).kind = "int"
  BY Zenon, Kinds
<1>4. Commits(s, BoolInt(TRUE)) \/ Finds(store, BoolInt(FALSE))
  BY Zenon DEF CmdPersist
<1> HIDE DEF s
<1> QED
  BY Zenon, <1>1, <1>2, <1>3, <1>4, CommitsEnds, FindsEnds

\* TTL.
LEMMA TTLEnds ==
  ASSUME CommandsInv, NEW args, args[2] \in Keys, CmdTTL(args)
  PROVE  LET k == args[2]
             off == reply'.n * Second - (store.expires[k] - now)
         IN /\ Outcome /\ store' = store
            /\ IF ~Live(k) THEN reply'.n = -2
               ELSE IF store.expires[k] = NoDeadline THEN reply'.n = -1
               ELSE reply'.n >= 0 /\ 2 * off <= Second /\ 2 * off >= -Second - 2 * Millisecond
<1> DEFINE k == args[2]
           d == StoreTTL(store, k, now)
           n == IF d = Absent THEN -2 ELSE IF d = NoDeadline THEN -1
                ELSE RoundSeconds(d \div Millisecond)
           at == store.expires[k]
<1>1. store \in Stores /\ now \in Nat
  BY Zenon DEF CommandsInv
<1>2. Answers(IntReply(n))
  BY Zenon DEF CmdTTL
<1>3. IntReply(n).kind = "int" /\ IntReply(n).n = n
  BY DEF IntReply
<1>4. Outcome /\ store' = store /\ reply' = IntReply(n)
  <2> HIDE DEF n
  <2> QED
    BY Zenon, <1>1, <1>2, <1>3, AnswersEnds
<1>5. reply'.n = n
  BY Zenon, <1>3, <1>4
<1>6. at \in Deadlines
  BY Zenon, <1>1, StoreOperations
<1> HIDE DEF k
<1>7. d = IF ~Live(k) THEN Absent ELSE IF at = NoDeadline THEN NoDeadline ELSE at - now
  BY Zenon DEF StoreTTL, Live
<1>8. CASE ~Live(k)
  BY Zenon, <1>4, <1>5, <1>7, <1>8 DEF k
<1>9. CASE Live(k) /\ at = NoDeadline
  <2>1. d = NoDeadline /\ d # Absent
    BY Zenon, <1>7, <1>9, MarksAssumption
  <2> QED
    BY Zenon, <1>4, <1>5, <1>9, <2>1 DEF k
<1>10. CASE Live(k) /\ at # NoDeadline
  <2>1. d = at - now /\ at \in Int
    BY <1>6, <1>7, <1>10 DEF Deadlines
  <2>2. ~(at <= now)
    BY Zenon, <1>10 DEF Live, IsLive, StoreGet, Expired
  <2> DEFINE e == at - now
             m == RoundSeconds(e \div Millisecond)
  <2>3. e \in Nat
    BY <1>1, <2>1, <2>2
  <2>4. d # Absent /\ d # NoDeadline
    <3>1. e \in Int
      BY <2>3
    <3> QED
      BY Zenon, <2>1, <3>1, MarksAssumption
  <2>5. n = m
    BY Zenon, <2>1, <2>4
  <2> HIDE DEF e
  <2>6. m \in Nat /\ 2 * (m * Second - e) <= Second /\ 2 * (m * Second - e) >= -Second - 2 * Millisecond
    BY Zenon, <2>3, RoundsToNearest
  <2>7. m >= 0
    BY <2>6
  <2> HIDE DEF m, n
  <2> QED
    BY Zenon, <1>4, <1>5, <1>10, <2>5, <2>6, <2>7 DEF e, k
<1> QED
  BY Zenon, <1>8, <1>9, <1>10

\* SCAN.  The page is that of the request as parsed.
LEMMA ScanEnds ==
  ASSUME CommandsInv, NEW args, CmdScan(args)
  PROVE  /\ Outcome
         /\ reply'.kind = "page" => reply'.of = ParseScan(args) /\ ParseScan(args).error = ""
<1> DEFINE p == ParseScan(args)
<1>1. store \in Stores
  BY Zenon DEF CommandsInv
<1>2. /\ \A class : Err(class).kind = "error"
      /\ Page(p).kind = "page" /\ Page(p).of = p
  BY Zenon DEF Err, Page
<1>3. \/ \E class : Answers(Err(class))
      \/ p.error = "" /\ Answers(Page(p))
  <2>1. CASE p.error # ""
    BY Zenon, <2>1 DEF CmdScan
  <2>2. CASE p.error = ""
    <3>1. PICK r \in {Page(p)} \cup {Err(e) : e \in ScanErrors(p)} : Answers(r)
      BY Zenon, <2>2 DEF CmdScan
    <3> QED
      BY Zenon, <2>2, <3>1
  <2> QED
    BY Zenon, <2>1, <2>2
<1> HIDE DEF p
<1>4. ASSUME NEW class, Answers(Err(class))
      PROVE  Outcome /\ reply'.kind = "error"
  <2>1. Err(class).kind # "none"
    BY Zenon, <1>2
  <2>2. Outcome /\ reply' = Err(class)
    BY Zenon, <1>1, <1>4, <2>1, AnswersEnds
  <2> QED
    BY Zenon, <1>2, <2>2
<1>5. ASSUME p.error = "", Answers(Page(p))
      PROVE  Outcome /\ reply'.of = p
  <2>1. Page(p).kind # "none"
    BY Zenon, <1>2
  <2>2. Outcome /\ reply' = Page(p)
    BY Zenon, <1>1, <1>5, <2>1, AnswersEnds
  <2> QED
    BY Zenon, <1>2, <2>2
<1>6. "error" # "page"
  OBVIOUS
<1> QED
  BY Zenon, <1>3, <1>4, <1>5, <1>6 DEF p

\* A handler that only reads.
LEMMA ReadEnds ==
  ASSUME CommandsInv, NEW args,
         \/ CmdPing(args) \/ CmdGet(args) \/ CmdMGet(args) \/ CmdExists(args)
         \/ CmdKeys(args) \/ CmdDBSize
  PROVE  Outcome
<1>1. store \in Stores
  BY Zenon DEF CommandsInv
<1>2. PICK r : r.kind # "none" /\ Answers(r)
  <2>1. ASSUME CmdPing(args) PROVE \E r : r.kind # "none" /\ Answers(r)
    <3>1. /\ Bulk(args[2]).kind # "none"
          /\ Simple("PONG").kind # "none"
      BY Zenon, Kinds
    <3> QED
      BY Zenon, <2>1, <3>1 DEF CmdPing
  <2>2. ASSUME CmdGet(args) PROVE \E r : r.kind # "none" /\ Answers(r)
    <3>1. Bulk(Read(args[2])).kind # "none"
      BY Zenon, Kinds
    <3> QED
      BY Zenon, <2>2, <3>1 DEF CmdGet
  <2>3. ASSUME NEW items, Answers(Array(items)) PROVE \E r : r.kind # "none" /\ Answers(r)
    <3>1. Array(items).kind # "none"
      BY Zenon, Kinds
    <3> QED
      BY Zenon, <2>3, <3>1
  <2>4. ASSUME NEW n, Answers(IntReply(n)) PROVE \E r : r.kind # "none" /\ Answers(r)
    <3>1. IntReply(n).kind # "none"
      BY Zenon, Kinds
    <3> QED
      BY Zenon, <2>4, <3>1
  <2>5. ASSUME CmdMGet(args) \/ CmdKeys(args) PROVE \E r : r.kind # "none" /\ Answers(r)
    BY Zenon, <2>3, <2>5 DEF CmdMGet, CmdKeys
  <2>6. ASSUME CmdExists(args) \/ CmdDBSize PROVE \E r : r.kind # "none" /\ Answers(r)
    BY Zenon, <2>4, <2>6 DEF CmdExists, CmdDBSize
  <2> QED
    BY Zenon, <2>1, <2>2, <2>5, <2>6
<1> QED
  BY Zenon, <1>1, <1>2, AnswersEnds

\* The arities of the table.
LEMMA Arities ==
  /\ Table["SET"] = 3..Unbounded /\ Table["SCAN"] = 2..Unbounded /\ Table["EXPIRE"] = 3..3
  /\ \A name \in {"INCR", "DECR", "TTL", "PERSIST"} : Table[name] = 2..2
  BY DEF Table

\* Every request is answered.
LEMMA DispatchEnds ==
  ASSUME CommandsInv, NEW args \in Requests, Dispatch(args)
  PROVE  Outcome
<1> DEFINE name == Upper[args[1]]
<1>1. store \in Stores /\ Len(args) \in Nat
  BY Zenon, RequestWords DEF CommandsInv
<1>2. ASSUME NEW class, Answers(Err(class)) PROVE Outcome
  <2>1. Err(class).kind # "none"
    BY Zenon, Kinds
  <2> QED
    BY Zenon, <1>1, <1>2, <2>1, AnswersEnds
<1>3. ASSUME Len(args) \in Table[name], Run(name, args) PROVE Outcome
  <2>1. CASE name = "SET" /\ CmdSet(args)
    <3>1. Len(args) >= 3
      BY <1>1, <1>3, <2>1, Arities
    <3> QED
      BY Zenon, <2>1, <3>1, SetEnds
  <2>2. ASSUME name \in {"INCR", "DECR", "EXPIRE", "TTL", "PERSIST"}
        PROVE  args[2] \in Keys
    <3>1. Len(args) >= 2
      BY <1>1, <1>3, <2>2, Arities
    <3> QED
      BY Zenon, <2>2, <3>1, RequestsAssumption
  <2>3. CASE name = "INCR" /\ CmdIncrBy(args, 1)
    <3>1. 1 \in Int
      OBVIOUS
    <3> QED
      BY Zenon, <2>2, <2>3, <3>1, IncrByEnds
  <2>4. CASE name = "DECR" /\ CmdIncrBy(args, -1)
    <3>1. -1 \in Int
      OBVIOUS
    <3> QED
      BY Zenon, <2>2, <2>4, <3>1, IncrByEnds
  <2>5. CASE name = "EXPIRE" /\ CmdExpire(args)
    BY Zenon, <2>2, <2>5, ExpireEnds
  <2>6. CASE name = "TTL" /\ CmdTTL(args)
    BY Zenon, <2>2, <2>6, TTLEnds
  <2>7. CASE name = "PERSIST" /\ CmdPersist(args)
    BY Zenon, <2>2, <2>7, PersistEnds
  <2>8. CASE CmdDel(args)
    <3>1. IntReply(Removed(Names(args))).kind = "int"
      BY Zenon, Kinds
    <3> QED
      BY Zenon, <1>1, <2>8, <3>1, DeleteEnds DEF CmdDel
  <2>9. CASE CmdScan(args)
    BY Zenon, <2>9, ScanEnds
  <2> HIDE DEF name
  <2> QED
    BY Zenon, <1>3, <2>1, <2>3, <2>4, <2>5, <2>6, <2>7, <2>8, <2>9, ReadEnds DEF Run
<1> QED
  BY Zenon, <1>2, <1>3 DEF Dispatch

\* Which handler answers a request of a name and an arity of the table.
LEMMA Dispatched ==
  ASSUME NEW args, Dispatch(args), Len(args) \in Table[Upper[args[1]]]
  PROVE  /\ Upper[args[1]] = "SET" => CmdSet(args)
         /\ Upper[args[1]] = "TTL" => CmdTTL(args)
         /\ Upper[args[1]] = "SCAN" => CmdScan(args)
         /\ Upper[args[1]] = "KEYS" => CmdKeys(args)
<1> DEFINE name == Upper[args[1]]
<1>1. {"SET", "TTL", "SCAN", "KEYS"} \subseteq DOMAIN Table
  BY Zenon DEF Table
<1>2. name \in {"SET", "TTL", "SCAN", "KEYS"} => Run(name, args)
  BY Zenon, <1>1 DEF Dispatch
<1> HIDE DEF name
<1> QED
  BY <1>2 DEF Run, name

----------------------------------------------------------------------------
(***************************************************************************)
(* The invariant, and what every step that is not a request leaves to say. *)
(***************************************************************************)
LEMMA InitCommands == Init => CommandsInv /\ req = <<>>
<1> SUFFICES ASSUME Init PROVE CommandsInv /\ req = <<>>
  OBVIOUS
<1>1. store = EmptyStore /\ now = 0 /\ req = <<>>
  BY Zenon DEF Init
<1>2. EmptyStore \in Stores
  BY DEF EmptyStore, Stores, Values, Deadlines
<1>3. 0 \in Nat
  OBVIOUS
<1> QED
  BY Zenon, <1>1, <1>2, <1>3 DEF CommandsInv

\* A step is a request, or leaves nothing asked, or changes nothing.
LEMMA CommandsStep ==
  ASSUME CommandsInv, [Next]_vars
  PROVE  /\ CommandsInv'
         /\ reply'.kind = "error" /\ reply' # Err("persistence unavailable") => store' = store
         /\ \/ \E args \in Requests : req' = args /\ now' = now /\ Dispatch(args)
            \/ req' = <<>>
            \/ UNCHANGED vars
<1>0. store \in Stores /\ now \in Nat /\ (reply = NoReply => req = <<>>)
  BY Zenon DEF CommandsInv
<1>1. CASE Request
  <2>1. PICK args \in Requests : req' = args /\ Dispatch(args)
    BY Zenon, <1>1 DEF Request
  <2>2. now' = now
    BY Zenon, <1>1 DEF Request
  <2>3. Outcome
    BY Zenon, <2>1, DispatchEnds
  <2>4. store' \in Stores /\ reply'.kind # "none"
    BY Zenon, <2>3 DEF Outcome
  <2>5. reply' # NoReply
    BY Zenon, <2>4, Kinds
  <2>6. CommandsInv'
    BY Zenon, <1>0, <2>2, <2>4, <2>5 DEF CommandsInv
  <2> QED
    BY Zenon, <2>1, <2>2, <2>3, <2>6 DEF Outcome
<1>2. CASE Sent
  <2>1. req' = <<>> /\ reply' = NoReply /\ store' = store /\ now' = now
    BY Zenon, <1>2 DEF Sent
  <2> QED
    BY Zenon, <1>0, <2>1 DEF CommandsInv
<1>3. CASE Tick
  <2>1. reply = NoReply /\ req' = req /\ reply' = reply /\ store' = store /\ now' = now + 1
    BY Zenon, <1>3 DEF Tick
  <2>2. now' \in Nat
    BY <1>0, <2>1
  <2> QED
    BY Zenon, <1>0, <2>1, <2>2 DEF CommandsInv
<1>4. CASE Reclaim
  <2>1. /\ reply = NoReply /\ req' = req /\ reply' = reply /\ now' = now
        /\ store' = ReclaimExpired(store, now, Keys)
    BY Zenon, <1>4 DEF Reclaim
  <2>2. store' \in Stores
    BY Zenon, <1>0, <2>1, DeletionType DEF ReclaimExpired
  <2>3. NoReply.kind # "error"
    <3>1. NoReply.kind = "none"
      BY Zenon, Kinds
    <3> QED
      BY <3>1
  <2> QED
    BY Zenon, <1>0, <2>1, <2>2, <2>3 DEF CommandsInv
<1>5. CASE UNCHANGED vars
  <2>1. req' = req /\ reply' = reply /\ store' = store /\ now' = now
    BY Zenon, <1>5 DEF vars
  <2> QED
    BY Zenon, <1>0, <1>5, <2>1 DEF CommandsInv
<1> QED
  BY Zenon, <1>1, <1>2, <1>3, <1>4, <1>5 DEF Next

----------------------------------------------------------------------------
(***************************************************************************)
(* The theorems.                                                           *)
(***************************************************************************)
\* The store holds values and deadlines of the right kinds, whatever the
\* clients ask; nothing is asked between a reply and the next request.
THEOREM CommandsInvariance == Spec => []CommandsInv
<1>1. Init => CommandsInv
  BY Zenon, InitCommands
<1>2. CommandsInv /\ [Next]_vars => CommandsInv'
  BY Zenon, CommandsStep
<1> QED
  BY <1>1, <1>2, PTL DEF Spec

\* An error other than the one that says that persistence failed leaves every
\* value and every deadline as it was, whichever handler it comes from.
THEOREM ErrorsLeaveTheStore == Spec => ErrorsChangeNothing
<1>1. CommandsInv /\ [Next]_vars =>
        [reply'.kind = "error" /\ reply' # Err("persistence unavailable") => UNCHANGED store]_vars
  BY Zenon, CommandsStep
<1> QED
  BY <1>1, CommandsInvariance, PTL DEF Spec, ErrorsChangeNothing

\* cmdTTL: the answer is within half a second, and a millisecond, of the time
\* that is left, for every duration of int64.
THEOREM TTLAnswers == Spec => []TTLIsNearest
<1>1. Init => TTLIsNearest
  BY Zenon, InitCommands DEF TTLIsNearest, Asked
<1>2. ASSUME CommandsInv, TTLIsNearest, [Next]_vars
      PROVE  TTLIsNearest'
  <2>1. CASE req' = <<>>
    BY Zenon, <2>1 DEF TTLIsNearest, Asked
  <2>2. CASE UNCHANGED vars
    <3>1. req' = req /\ reply' = reply /\ store' = store /\ now' = now
      BY Zenon, <2>2 DEF vars
    <3> QED
      BY Zenon, <1>2, <3>1 DEF TTLIsNearest, Asked, Live
  <2>3. ASSUME NEW args \in Requests, req' = args, now' = now, Dispatch(args), Asked("TTL")'
        PROVE  TTLIsNearest'
    <3>1. Upper[args[1]] = "TTL" /\ Len(args) \in Table["TTL"]
      BY Zenon, <2>3 DEF Asked
    <3>2. CmdTTL(args)
      BY Zenon, <2>3, <3>1, Dispatched
    <3>3. args[2] \in Keys
      <4>1. Len(args) >= 2
        BY <3>1, Arities
      <4> QED
        BY Zenon, <3>1, <4>1, RequestsAssumption
    <3>4. LET k == args[2]
              off == reply'.n * Second - (store.expires[k] - now)
          IN /\ Outcome /\ store' = store
             /\ IF ~Live(k) THEN reply'.n = -2
                ELSE IF store.expires[k] = NoDeadline THEN reply'.n = -1
                ELSE reply'.n >= 0 /\ 2 * off <= Second /\ 2 * off >= -Second - 2 * Millisecond
      BY Zenon, <1>2, <3>2, <3>3, TTLEnds
    <3> QED
      BY Zenon, <2>3, <3>4 DEF TTLIsNearest, Live
  <2> QED
    BY Zenon, <1>2, <2>1, <2>2, <2>3, CommandsStep DEF TTLIsNearest
<1> QED
  BY <1>1, <1>2, CommandsInvariance, PTL DEF Spec

\* cmdSet and parseSetOptions: OK is answered to a request whose options the
\* protocol allows and to no other, and then the key holds the value and the
\* deadline asked for, for any number of options.
THEOREM SetAnswers == Spec => []SetIsAsAsked
<1>1. Init => SetIsAsAsked
  BY Zenon, InitCommands DEF SetIsAsAsked, Asked
<1>2. ASSUME CommandsInv, SetIsAsAsked, [Next]_vars
      PROVE  SetIsAsAsked'
  <2>1. CASE req' = <<>>
    BY Zenon, <2>1 DEF SetIsAsAsked, Asked
  <2>2. CASE UNCHANGED vars
    <3>1. req' = req /\ reply' = reply /\ store' = store /\ now' = now
      BY Zenon, <2>2 DEF vars
    <3> QED
      BY Zenon, <1>2, <3>1 DEF SetIsAsAsked, Asked
  <2>3. ASSUME NEW args \in Requests, req' = args, now' = now, Dispatch(args), Asked("SET")'
        PROVE  SetIsAsAsked'
    <3>1. Upper[args[1]] = "SET" /\ Len(args) \in Table["SET"]
      BY Zenon, <2>3 DEF Asked
    <3>2. CmdSet(args)
      BY Zenon, <2>3, <3>1, Dispatched
    <3>3. Len(args) >= 3
      <4>1. Len(args) \in Nat
        BY Zenon, RequestWords
      <4> QED
        BY <3>1, <4>1, Arities
    <3>4. LET opts == SubSeq(args, 4, Len(args))
              at == IF opts = <<>> THEN NoDeadline
                    ELSE now + IntOf[opts[Len(opts)]] * Step(Upper[opts[1]])
          IN /\ Outcome
             /\ reply' = Simple("OK") =>
                  /\ GoodOptions(opts) /\ store'.data[args[2]] = TextOf[args[3]]
                  /\ store'.expires[args[2]] = at
             /\ GoodOptions(opts) =>
                  reply' \in {Simple("OK"), Err("shutting down"), Err("persistence unavailable")}
      BY Zenon, <1>2, <3>1, <3>2, <3>3, SetEnds
    <3> QED
      BY Zenon, <2>3, <3>4 DEF SetIsAsAsked
  <2> QED
    BY Zenon, <1>2, <2>1, <2>2, <2>3, CommandsStep DEF SetIsAsAsked
<1> QED
  BY <1>1, <1>2, CommandsInvariance, PTL DEF Spec

\* The options of a request, as ScanIsAsAsked names them.
LEMMA AllOptions ==
  ASSUME NEW args, Counted(args), NEW name
  PROVE  At(args, Len(args), name) = OptionsAt(args, name)
<1> DEFINE L == Len(args)
<1>1. L \in Nat
  BY Zenon DEF Counted
<1>2. At(args, L, name) = {i \in 3..L : i % 2 = 1 /\ i <= 2 * L + 1 /\ Upper[args[i]] = name}
  BY Zenon DEF At, L
<1> HIDE DEF L
<1>3. \A i \in 3..L : i <= 2 * L + 1
  BY <1>1
<1>4. At(args, L, name) = {i \in 3..L : i % 2 = 1 /\ Upper[args[i]] = name}
  BY Zenon, <1>2, <1>3
<1> QED
  BY Zenon, <1>4 DEF L, OptionsAt

\* The last option of a name is the one at its highest position.
LEMMA LastOptions ==
  ASSUME NEW args, Counted(args), NEW name, NEW default
  PROVE  /\ At(args, Len(args), name) = {} => LastOption(args, name, default) = default
         /\ At(args, Len(args), name) # {} =>
              \E m : /\ Highest(At(args, Len(args), name), m)
                     /\ LastOption(args, name, default) = args[m + 1]
<1> DEFINE A == OptionsAt(args, name)
           m == CHOOSE i \in A : \A h \in A : h <= i
<1>1. At(args, Len(args), name) = A
  BY Zenon, AllOptions
<1>2. A = {} \/ \E i : Highest(A, i)
  BY Zenon, <1>1, LastOptionExists
<1>3. LastOption(args, name, default) = IF A = {} THEN default ELSE args[1 + m]
  BY Zenon DEF LastOption
<1> HIDE DEF A
<1>4. ASSUME A # {} PROVE Highest(A, m) /\ 1 + m = m + 1
  <2>1. Highest(A, m)
    BY Zenon, <1>2, <1>4 DEF Highest
  <2> HIDE DEF m
  <2>2. m \in A
    BY Zenon, <2>1 DEF Highest
  <2>3. 1 + m = m + 1
    BY <2>2 DEF A, OptionsAt
  <2> QED
    BY Zenon, <2>1, <2>3
<1> HIDE DEF m
<1> QED
  BY Zenon, <1>1, <1>3, <1>4

\* A request in which every option has a word after it has an even length.
LEMMA NoOddEnd ==
  ASSUME NEW n \in Nat, n >= 2,
         \A i \in 3..n : i % 2 = 1 /\ i <= 2 * n + 1 => i # n
  PROVE  n % 2 = 0
<1>1. n \in 3..n => ~(n % 2 = 1 /\ n <= 2 * n + 1)
  BY Zenon
<1>2. n % 2 \in {0, 1} /\ 2 % 2 = 0
  OBVIOUS
<1> QED
  BY <1>1, <1>2

\* The page a request asks for.
LEMMA ScanAsAsked ==
  ASSUME NEW args, Counted(args), Len(args) >= 2, ParseScan(args).error = ""
  PROVE  LET p == ParseScan(args)
             counted == LastOption(args, "COUNT", "")
         IN /\ Len(args) % 2 = 0 /\ args[2] \in DOMAIN UintOf /\ p.cursor = UintOf[args[2]]
            /\ p.count > 0 /\ p.count = IF counted = "" THEN DefaultScanCount ELSE IntOf[counted]
            /\ p.pattern = LastOption(args, "MATCH", "")
            /\ p.patternSet <=> OptionsAt(args, "MATCH") # {}
<1> DEFINE p == ParseScan(args)
           L == Len(args)
           C == At(args, L, "COUNT")
           M == At(args, L, "MATCH")
           counted == LastOption(args, "COUNT", "")
           match == LastOption(args, "MATCH", "")
<1>1. L \in Nat /\ L >= 2
  BY Zenon DEF Counted
<1>2. /\ C = {} => counted = ""
      /\ C # {} => \E m : Highest(C, m) /\ counted = args[m + 1]
  BY Zenon, LastOptions
<1>3. /\ M = {} => match = ""
      /\ M # {} => \E m : Highest(M, m) /\ match = args[m + 1]
  BY Zenon, LastOptions
<1>4. ScanKnown(p, args, L) /\ p.error = ""
  BY Zenon, ScanOptionsAsAsked
<1>5. M = OptionsAt(args, "MATCH")
  BY Zenon, AllOptions
<1>6. /\ args[2] \in DOMAIN UintOf /\ p.cursor = UintOf[args[2]]
      /\ \A i \in 3..L : i % 2 = 1 /\ i <= 2 * L + 1 => i # L
      /\ p.count > 0
      /\ C = {} => p.count = DefaultScanCount
      /\ \A m : Highest(C, m) => args[m + 1] \in DOMAIN IntOf /\ p.count = IntOf[args[m + 1]]
      /\ M = {} => p.pattern = ""
      /\ \A m : Highest(M, m) => p.pattern = args[m + 1]
      /\ p.patternSet <=> M # {}
  BY Zenon, <1>4 DEF ScanKnown
<1> HIDE DEF p, C, M, counted, match
<1>7. L % 2 = 0
  <2> HIDE DEF L
  <2> QED
    BY Zenon, <1>1, <1>6, NoOddEnd
<1>8. p.count = IF counted = "" THEN DefaultScanCount ELSE IntOf[counted]
  <2>1. CASE C = {}
    BY Zenon, <1>2, <1>6, <2>1
  <2>2. CASE C # {}
    <3>1. PICK m : Highest(C, m) /\ counted = args[m + 1]
      BY Zenon, <1>2, <2>2
    <3>2. counted \in DOMAIN IntOf /\ p.count = IntOf[counted]
      BY Zenon, <1>6, <3>1
    <3>3. counted # ""
      BY Zenon, <3>2, WordsAssumption
    <3> QED
      BY Zenon, <3>2, <3>3
  <2> QED
    BY Zenon, <2>1, <2>2
<1>9. p.pattern = match
  BY Zenon, <1>3, <1>6
<1> QED
  BY Zenon, <1>5, <1>6, <1>7, <1>8, <1>9 DEF p, counted, match

\* cmdScan and parseScan: what the engine is asked for is the request's cursor,
\* the last COUNT and the last MATCH, for any number of options.
THEOREM ScanAnswers == Spec => []ScanIsAsAsked
<1>1. Init => ScanIsAsAsked
  BY Zenon, InitCommands DEF ScanIsAsAsked, Asked
<1>2. ASSUME CommandsInv, ScanIsAsAsked, [Next]_vars
      PROVE  ScanIsAsAsked'
  <2>1. CASE req' = <<>>
    BY Zenon, <2>1 DEF ScanIsAsAsked, Asked
  <2>2. CASE UNCHANGED vars
    <3>1. req' = req /\ reply' = reply
      BY Zenon, <2>2 DEF vars
    <3> QED
      BY Zenon, <1>2, <3>1 DEF ScanIsAsAsked, Asked
  <2>3. ASSUME NEW args \in Requests, req' = args, Dispatch(args), Asked("SCAN")',
               reply'.kind = "page"
        PROVE  ScanIsAsAsked'
    <3>1. Upper[args[1]] = "SCAN" /\ Len(args) \in Table["SCAN"]
      BY Zenon, <2>3 DEF Asked
    <3>2. CmdScan(args)
      BY Zenon, <2>3, <3>1, Dispatched
    <3>3. reply'.of = ParseScan(args) /\ ParseScan(args).error = ""
      BY Zenon, <1>2, <2>3, <3>2, ScanEnds
    <3>4. Counted(args) /\ Len(args) \in Nat
      BY Zenon, RequestWords
    <3>5. Len(args) >= 2
      BY <3>1, <3>4, Arities
    <3>6. LET p == ParseScan(args)
              counted == LastOption(args, "COUNT", "")
          IN /\ Len(args) % 2 = 0 /\ args[2] \in DOMAIN UintOf /\ p.cursor = UintOf[args[2]]
             /\ p.count > 0 /\ p.count = IF counted = "" THEN DefaultScanCount ELSE IntOf[counted]
             /\ p.pattern = LastOption(args, "MATCH", "")
             /\ p.patternSet <=> OptionsAt(args, "MATCH") # {}
      BY Zenon, <3>3, <3>4, <3>5, ScanAsAsked
    <3> QED
      BY Zenon, <2>3, <3>3, <3>6 DEF ScanIsAsAsked
  <2> QED
    BY Zenon, <1>2, <2>1, <2>2, <2>3, CommandsStep DEF ScanIsAsAsked
<1> QED
  BY <1>1, <1>2, CommandsInvariance, PTL DEF Spec
=============================================================================
