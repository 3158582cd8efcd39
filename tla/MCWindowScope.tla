--------------------------- MODULE MCWindowScope ---------------------------
EXTENDS WindowScope

Symmetry == Permutations(Windows) \cup Permutations(Arrangements)
=============================================================================
