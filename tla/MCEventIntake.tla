----------------------------- MODULE MCEventIntake ---------------------------
EXTENDS EventIntake, TLC

Symmetry == Permutations(Events) \cup Permutations(Movers)
=============================================================================
