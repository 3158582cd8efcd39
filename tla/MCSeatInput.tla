---------------------------- MODULE MCSeatInput ----------------------------
EXTENDS SeatInput, TLC

\* Neither keyboards nor buttons are told apart.
Symmetry == Permutations(Keyboards) \cup Permutations(Buttons)
=============================================================================
