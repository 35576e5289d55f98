------------------------------ MODULE MCEngine ------------------------------
(***************************************************************************)
(* Small instances of Engine.                                              *)
(***************************************************************************)
EXTENDS Engine, TLC

CONSTANTS k1, k2

MCMinInt == -2
MCDeltas == {1, -2}
MCDecrement == {-1}

\* A counter at the top of its range, a number that does not fit in it, and one
\* that is not written as a counter is ("07").
MCValues == {FormatInt(MaxInt), FormatInt(MaxInt + 1), [form |-> "other", n |-> 1]}
MCNumber == {FormatInt(MaxInt)}
MCKeyLists == {<<k1>>, <<k1, k1>>, <<k1, k2>>}
MCBothKeys == {<<k1, k2>>}
MCOneKey == {<<k1>>}

Symmetry == Permutations(Callers)
=============================================================================
