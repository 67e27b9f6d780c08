-------------------------- MODULE MCProjectRecords --------------------------
(* Small instances of ProjectRecords for TLC. *)
EXTENDS ProjectRecords, TLC

CONSTANTS s1, s2, u1, u2, p1, p2, i1, n1

\* every request names the same number
OneNumber == [p \in Projects |-> n1]

Interchangeable ==
  Permutations(Sessions) \cup Permutations(Users) \cup Permutations(Projects)
=============================================================================
