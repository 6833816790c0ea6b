----------------------------- MODULE MCNotebook -----------------------------
\* Small instances of Notebook for TLC.
EXTENDS Notebook, TLC

Symmetry == Permutations(Session) \cup Permutations(Book) \cup Permutations(Cell)
 \cup Permutations(Call)
=============================================================================
