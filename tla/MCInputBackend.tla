--------------------------- MODULE MCInputBackend ---------------------------
EXTENDS InputBackend

\* The small and the capital letter of the paste chord's key.
Letters == {[key |-> V, mods |-> mods] : mods \in {{}, {42}}}
=============================================================================
