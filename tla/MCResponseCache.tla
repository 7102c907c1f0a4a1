--------------------------- MODULE MCResponseCache ---------------------------
(* An instance of ResponseCache for TLC: an administrator with two tabs open *)
(* and a colleague with a token of her own.                                 *)
EXTENDS ResponseCache, TLC

CONSTANTS r1, r2, w1, w2, mine, hers

WithColleague == r1 :> mine @@ r2 :> mine @@ w1 :> mine @@ w2 :> hers
SameTabs == Permutations({r1, r2})
=============================================================================
