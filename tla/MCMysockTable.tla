--------------------------- MODULE MCMysockTable ---------------------------
(* An instance of MysockTable for TLC *)
EXTENDS MysockTable, TLC

Symmetry == Permutations(Blocks) \cup Permutations(Apps)

\* Bound of the exploration: nothing is explored behind a state in which two
\* mysockets share an entry of the table
NotClashed == ~clashed
=============================================================================
