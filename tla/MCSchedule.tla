------------------------------ MODULE MCSchedule ------------------------------
EXTENDS Schedule, TLC

CONSTANTS s1, s2

IdSymmetry == Permutations(Ids)
=============================================================================
