--------------------------- MODULE MCScanSessions ---------------------------
(***************************************************************************)
(* Small instances of ScanSessions.                                        *)
(***************************************************************************)
EXTENDS ScanSessions, TLC

CONSTANTS s1, s2

\* The last name is so long that its size overflows when others are added.
MCKeyLen == [k \in Keys |-> IF k = 4 THEN MaxUint - 1 ELSE k]
MCLiveSets == {{1, 2, 3}, {1, 4}}
MCPatterns == {Keys, Keys \ {1}}

Symmetry == Permutations(Scanners)
=============================================================================
