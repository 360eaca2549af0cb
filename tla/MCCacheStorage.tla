--------------------------- MODULE MCCacheStorage ---------------------------
(***************************************************************************)
(* Two fills of bodies of up to four units in pieces of one or two, a      *)
(* cap of three per object and of four for all fills, and two              *)
(* revalidations of the one key they race for.                             *)
(***************************************************************************)
EXTENDS CacheStorage, TLC

CONSTANTS f1, f2, r1, r2, k1

MCFills == {f1, f2}
MCRevalidations == {r1, r2}
MCKeys == {k1}
MCLengths == {0, 3, 4}
MCChunks == {1, 2}
Symmetry == Permutations(MCFills) \cup Permutations(MCRevalidations)

=============================================================================
