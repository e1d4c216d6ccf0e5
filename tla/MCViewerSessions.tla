--------------------------- MODULE MCViewerSessions ---------------------------
EXTENDS ViewerSessions, TLC

Symmetry == Permutations(Descriptors) \cup Permutations(Groups) \cup Permutations(Calls)
            \cup Permutations(Processes)

=============================================================================
