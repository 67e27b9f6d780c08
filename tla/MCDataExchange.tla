--------------------------- MODULE MCDataExchange ---------------------------
(* Small instances of DataExchange for TLC. *)
EXTENDS DataExchange, TLC

CONSTANTS i1, i2, e1, p1, h1, h2, a1, a2

\* requests and jobs are interchangeable
Interchangeable == Permutations(Handlers) \cup Permutations(Imports)
=============================================================================
