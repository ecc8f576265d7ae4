--------------------------- MODULE MCLineageStore ---------------------------
EXTENDS LineageStore, TLC

MCSymmetry == Permutations(Boxes)
=============================================================================
