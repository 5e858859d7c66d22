---------------------------- MODULE MCAES67Device ----------------------------
EXTENDS AES67Device, TLC
Symmetry == Permutations(Streams)
=============================================================================
