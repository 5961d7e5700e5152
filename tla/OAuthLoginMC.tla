----------------------------- MODULE OAuthLoginMC -----------------------------
(* A small instance of OAuthLogin. *)
EXTENDS OAuthLogin, TLC

CONSTANTS s1, s2, start1, start2, back1, back2, boot, i1, i2, i3

Symmetry == Permutations({start1, start2}) \cup Permutations({back1, back2})
            \cup Permutations({i1, i2, i3})
=============================================================================
