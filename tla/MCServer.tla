------------------------------ MODULE MCServer ------------------------------
(***************************************************************************)
(* Small instances of Server.                                              *)
(***************************************************************************)
EXTENDS Server, TLC

\* Connections are interchangeable.
Symmetry == Permutations(Conns)
=============================================================================
