---------------------------- MODULE ConfigStoreMC ----------------------------
(***************************************************************************)
(* Instances of ConfigStore for TLC: two processes p and q; u and v are    *)
(* updates, r a replace, l a load.                                         *)
(***************************************************************************)
EXTENDS ConfigStore

CONSTANTS p, q, u, v, r, l

Placement == [c \in Calls |-> IF c \in {u, l} THEN p ELSE q]
=============================================================================
