------------------------------ MODULE MCCutover ------------------------------
EXTENDS Cutover, TLC

\* Tasks are interchangeable; used for safety only.
TaskSymmetry == Permutations(Threads)
=============================================================================
