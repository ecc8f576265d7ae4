--------------------------- MODULE MCHelperRestart ---------------------------
EXTENDS HelperRestart, TLC

AllMethods == {"spawn", "kill", "cleanup", "drain"}
MCSymmetry == Permutations(BoxIds)
=============================================================================
