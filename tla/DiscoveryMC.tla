----------------------------- MODULE DiscoveryMC -----------------------------
(* A small instance of Discovery: a listing and a snapshot over two servers. *)
EXTENDS Discovery, TLC

CONSTANTS s1, s2, l1, a1

Symmetry == Permutations({s1, s2})
=============================================================================
