---------------------------- MODULE MCNamespace ----------------------------
(* Instances of Namespace for TLC.                                         *)
EXTENDS Namespace

CONSTANTS FastNumbers, SlowNumbers

MCNodes   == ({0} \X FastNumbers) \cup ({1} \X SlowNumbers)
Symmetry  == Permutations(FastNumbers) \cup Permutations(SlowNumbers)

MCOneDir  == {<<"d">>}
MCTwoDirs == {<<"d">>, <<"e">>}
MCFiles   == {<<"a">>, <<"d", "b">>, <<"d", "c">>}
MCPair    == {<<"a">>, <<"b">>}
MCTwins   == {<<"d", "b">>, <<"e", "b">>}
=============================================================================
