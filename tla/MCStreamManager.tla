--------------------------- MODULE MCStreamManager ---------------------------
EXTENDS StreamManager, TLC
Symmetry == Permutations(Streams)
=============================================================================
