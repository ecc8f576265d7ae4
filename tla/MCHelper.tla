------------------------------ MODULE MCHelper ------------------------------
EXTENDS Helper, TLC

MCSymmetry == Permutations(BoxIds)
AllMethods == {"spawn", "kill", "cleanup", "drain"}
=============================================================================
