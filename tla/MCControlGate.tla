--------------------------- MODULE MCControlGate ---------------------------
EXTENDS ControlGate, TLC

ControllerSymmetry == Permutations(Controllers)
============================================================================
