--------------------------- MODULE MCDailyReports ----------------------------
EXTENDS DailyReports, TLC

Symmetry == Permutations(Users) \cup Permutations(Slots)

\* Five and four hours west, for one whose clocks change; three hours, and five and
\* three quarters, east.
MCOffsets == {-20, -16, 12, 23}

\* As it happens, eight hours late, and twenty hours early.
MCDelays == {0, 32, -80}

=============================================================================
