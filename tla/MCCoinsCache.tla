---------------------------- MODULE MCCoinsCache ----------------------------
(***************************************************************************)
(* CoinsCache for TLC: two outpoints, so that a flush moves one entry past *)
(* another, two coin values, so that an overwrite is visible, two hashes,  *)
(* so that a stale best block differs from the current one.  The three     *)
(* sets are interchangeable and no property is a liveness property, so     *)
(* symmetry is sound.                                                      *)
(***************************************************************************)
EXTENDS CoinsCache, TLC

Symmetry == Permutations(Outpoints) \cup Permutations(Coins) \cup Permutations(Hashes)
=============================================================================
