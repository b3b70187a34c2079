----------------------------- MODULE MCFolders -----------------------------
(* Instances of Folders for TLC. *)
EXTENDS Folders, TLC

CONSTANTS c1, c2, a, b, r1, r2

\* A folder a at the top with b below it
TwoLevels == <<<<a, 0>>, <<b, 1>>>>
\* CREATE a/b and CREATE b
Paths == {<<a, b>>, <<b>>}
Symmetry == Permutations({c1, c2}) \union Permutations({r1, r2})
=============================================================================
