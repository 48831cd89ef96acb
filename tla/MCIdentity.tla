----------------------------- MODULE MCIdentity -----------------------------
(* Instances of Identity for TLC.                                          *)
EXTENDS Identity

CONSTANTS FastNumbers, SlowNumbers

MCKeys   == ({0} \X FastNumbers) \cup ({1} \X SlowNumbers)
Symmetry == Permutations(FastNumbers) \cup Permutations(SlowNumbers)
                \cup Permutations(Names) \cup Permutations(Tasks)
=============================================================================
