------------------------------- MODULE MCLog -------------------------------
(***************************************************************************)
(* Small instances of Log.                                                 *)
(***************************************************************************)
EXTENDS Log, TLC

\* Callers are interchangeable, and so are records.
Symmetry == Permutations(Callers) \cup Permutations(Records)
=============================================================================
