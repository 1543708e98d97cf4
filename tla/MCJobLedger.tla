---------------------------- MODULE MCJobLedger -----------------------------
(***************************************************************************)
(* Instances of JobLedger for TLC.                                         *)
(***************************************************************************)
EXTENDS JobLedger, TLC

CONSTANTS s1, s2, j1, j2, j3, j4, x, y

Symmetry == Permutations(Store) \cup Permutations(Job) \cup Permutations(Hash)

=============================================================================
