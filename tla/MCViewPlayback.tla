--------------------------- MODULE MCViewPlayback ---------------------------
EXTENDS ViewPlayback, TLC
Symmetry == Permutations(Streams)
=============================================================================
