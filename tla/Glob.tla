-------------------------------- MODULE Glob --------------------------------
(***************************************************************************)
(* Byte glob matching (internal/glob), and what it should compute.  A      *)
(* pattern and a name are sequences of bytes, which are numbers; indices   *)
(* start at 1.                                                             *)
(***************************************************************************)
EXTENDS Integers, Sequences

Star == 42
Query == 63
Backslash == 92
Open == 91
Close == 93
Caret == 94
Hyphen == 45

\* int8(b): ranges compare signed bytes.
Int8(b) == IF b < 128 THEN b ELSE b - 256
Between(a, b) == {c \in 0..255 : \/ Int8(a) <= Int8(c) /\ Int8(c) <= Int8(b)
                                 \/ Int8(b) <= Int8(c) /\ Int8(c) <= Int8(a)}

\* matchClass.  An item of a class is an escaped byte, a range or a byte; the
\* class ends with a bracket, or with the pattern.
Item(p, i) ==
  IF p[i] = Backslash /\ i + 1 <= Len(p) THEN [next |-> i + 2, bytes |-> {p[i + 1]}]
  ELSE IF i + 2 <= Len(p) /\ p[i + 1] = Hyphen
  THEN [next |-> i + 3, bytes |-> Between(p[i], p[i + 2])]
  ELSE [next |-> i + 1, bytes |-> {p[i]}]

MatchClass(p, at, b) ==
  LET negated == at + 1 <= Len(p) /\ p[at + 1] = Caret
      items[i \in 1..Len(p) + 1] ==
        IF i > Len(p) THEN [next |-> i, ok |-> FALSE]
        ELSE IF p[i] = Close THEN [next |-> i + 1, ok |-> FALSE]
        ELSE LET rest == items[Item(p, i).next]
             IN [rest EXCEPT !.ok = @ \/ b \in Item(p, i).bytes]
      class == items[IF negated THEN at + 2 ELSE at + 1]
  IN [class EXCEPT !.ok = @ # negated]

MatchOne(p, at, b) ==
  IF at > Len(p) THEN [next |-> at, ok |-> FALSE]
  ELSE IF p[at] = Query THEN [next |-> at + 1, ok |-> TRUE]
  ELSE IF p[at] = Backslash /\ at + 1 <= Len(p)
  THEN [next |-> at + 2, ok |-> p[at + 1] = b]
  ELSE IF p[at] = Open THEN MatchClass(p, at, b)
  ELSE [next |-> at + 1, ok |-> p[at] = b]

\* The first index from i on that does not hold a star.
PastStars(p, i) == CHOOSE j \in i..Len(p) + 1 :
  /\ \A h \in i..j - 1 : p[h] = Star
  /\ j <= Len(p) => p[j] # Star

\* Match.  A place in its loop: the two indices, the last star passed (its end)
\* and the byte it was passed at.  Of the stars passed, only the last is tried
\* again, one byte further.  rest is the verdict of the rounds that follow.
Places(p, v) == [pi : 1..Len(p) + 1, vi : 1..Len(v) + 1, star : 0..Len(p), mark : 0..Len(v) + 1]

MatchRoundFirstStar(p, v, s, rest) ==
  IF s.vi > Len(v) THEN PastStars(p, s.pi) > Len(p)
  ELSE IF s.pi <= Len(p) /\ p[s.pi] = Star
  THEN LET q == PastStars(p, s.pi)
       IN \/ q > Len(p)
          \/ IF s.star > 0 THEN rest[[s EXCEPT !.pi = q]]
             ELSE rest[[pi |-> q, vi |-> s.vi, star |-> q, mark |-> s.vi]]
  ELSE LET one == MatchOne(p, s.pi, v[s.vi])
       IN IF one.ok THEN rest[[pi |-> one.next, vi |-> s.vi + 1, star |-> s.star, mark |-> s.mark]]
          ELSE /\ s.star > 0 /\ s.mark <= Len(v)
               /\ rest[[pi |-> s.star, vi |-> s.mark + 1, star |-> s.star, mark |-> s.mark + 1]]
MatchRound(p, v, s, rest) ==
  IF s.vi > Len(v) THEN PastStars(p, s.pi) > Len(p)
  ELSE IF s.pi <= Len(p) /\ p[s.pi] = Star
  THEN LET q == PastStars(p, s.pi)
       IN \/ q > Len(p)
          \/ rest[[pi |-> q, vi |-> s.vi, star |-> q, mark |-> s.vi]]
  ELSE LET one == MatchOne(p, s.pi, v[s.vi])
       IN IF one.ok THEN rest[[pi |-> one.next, vi |-> s.vi + 1, star |-> s.star, mark |-> s.mark]]
          ELSE /\ s.star > 0 /\ s.mark <= Len(v)
               /\ rest[[pi |-> s.star, vi |-> s.mark + 1, star |-> s.star, mark |-> s.mark + 1]]

\* A round that does not end the loop passes a star, goes on by a byte or gives
\* the last star one more, so that it ends within so many.
MatchRounds(p, v) == (Len(p) + Len(v) + 2) * (Len(v) + 2)
Match(p, v) ==
  LET loop[n \in 0..MatchRounds(p, v)] ==
        [s \in Places(p, v) |-> n > 0 /\ MatchRound(p, v, s, loop[n - 1])]
  IN loop[MatchRounds(p, v)][[pi |-> 1, vi |-> 1, star |-> 0, mark |-> 0]]

----------------------------------------------------------------------------
\* The reference: a star stands for any number of bytes, and any element
\* between stars for one.
Matches(p, v) ==
  LET from[i \in 1..Len(p) + 1] ==
        [j \in 1..Len(v) + 1 |->
           IF i > Len(p) THEN j > Len(v)
           ELSE IF p[i] = Star THEN \E n \in j..Len(v) + 1 : from[i + 1][n]
           ELSE /\ j <= Len(v) /\ MatchOne(p, i, v[j]).ok
                /\ from[MatchOne(p, i, v[j]).next][j + 1]]
  IN from[1][1]
=============================================================================
