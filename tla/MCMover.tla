------------------------------ MODULE MCMover ------------------------------
\* Instances of Mover for TLC: workers are interchangeable.
EXTENDS MoverInvariants, TLC
CONSTANTS w1, w2
OneWorker == {w1}
TwoWorkers == {w1, w2}
Symmetry == Permutations(Workers)
=============================================================================
