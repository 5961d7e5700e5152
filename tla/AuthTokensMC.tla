---------------------------- MODULE AuthTokensMC ----------------------------
(***************************************************************************)
(* Instances of AuthTokens for TLC.  The daemon process d runs up to three *)
(* flows; the process m is a second gambi of the same user.                *)
(***************************************************************************)
EXTENDS AuthTokens, TLC

CONSTANTS d, m, t1, t2, t3, r1, r2, r3

AllInDaemon == [t \in Tasks |-> d]
OneInMcp == [t \in Tasks |-> IF t = t1 THEN m ELSE d]

\* Lock identities are interchangeable; so are tokens.
LockTokenSymmetry == Permutations(LockIds) \cup Permutations(Tokens)
=============================================================================
