-------------------------- MODULE MCRequestLedger --------------------------
EXTENDS RequestLedger, TLC

\* Outcomes are told apart only by being equal or not.
Symmetry == Permutations(Controllers) \cup Permutations(Bodies) \cup Permutations(Outcomes)
=============================================================================
