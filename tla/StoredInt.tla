----------------------------- MODULE StoredInt -----------------------------
(***************************************************************************)
(* The values INCR works on (internal/engine/incr.go).  A stored value is  *)
(* a text.  All that INCR tells apart is how a text spells an integer: in  *)
(* canonical decimal, or in a way Redis does not accept ("+5", "07", "-0", *)
(* or no number at all), and whether the number fits in an int64, which is *)
(* MinInt..MaxInt here.                                                    *)
(***************************************************************************)
EXTENDS Integers

CONSTANTS MinInt, MaxInt

ASSUME IntAssumption == MinInt \in Int /\ MaxInt \in Int /\ MinInt <= 0 /\ 0 <= MaxInt

Text == [form : {"decimal", "other"}, n : Int]

FormatInt(n) == [form |-> "decimal", n |-> n]

\* The integers (none or one) that parseStoredInt reads in t.
ParseStoredInt(t) ==
  IF t.form = "decimal" /\ t.n \in MinInt..MaxInt THEN {t.n} ELSE {}

\* The test IncrBy makes before it adds, so that it never computes an overflow.
Overflows(current, delta) == \/ delta > 0 /\ current > MaxInt - delta
                             \/ delta < 0 /\ current < MinInt - delta
=============================================================================
