----------------------------- MODULE MCProfile -----------------------------
(* Small instances of Profile.  Chains are alike. *)
EXTENDS Profile, TLC

CONSTANTS c1, c2

TwoCalls == {c1, c2}

Alike == Permutations(TwoCalls)
=============================================================================
