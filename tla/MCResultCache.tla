--------------------------- MODULE MCResultCache ---------------------------
(***************************************************************************)
(* Small instances of ResultCache: two readers, a clearer, two versions of *)
(* the source, a layer read (one file) and a network read (two files).     *)
(* The readers are interchangeable; the versions are not, for one of them  *)
(* has reads without rows.                                                 *)
(***************************************************************************)
EXTENDS ResultCache, TLC

CONSTANTS p1, p2, c1, v1, v2, layer, network

EmptyInV2 == {<<v2, layer>>, <<v2, network>>}
NetworkEmptyInV2 == {<<v2, network>>}

Symmetry == Permutations(Reader)
=============================================================================
