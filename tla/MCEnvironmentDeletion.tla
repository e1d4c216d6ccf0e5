------------------------ MODULE MCEnvironmentDeletion ------------------------
EXTENDS EnvironmentDeletion, TLC

Symmetry == Permutations(Users) \cup Permutations(Requests)

=============================================================================
