--------------------------- MODULE MCIndexAliases ---------------------------
EXTENDS IndexAliases, TLC

Symmetry == Permutations(Indices) \cup Permutations(Workers) \cup Permutations(Events)

=============================================================================
