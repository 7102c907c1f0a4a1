--------------------------- MODULE MCOperatorSignIn ---------------------------
(* An instance of OperatorSignIn for TLC: one ticket out, one to come.   *)
EXTENDS OperatorSignIn, TLC

CONSTANTS q1, q2, q3, t1, t2, nosecret, noticket, nocopy, nocode, oldsecret

Alike == Permutations(Requests)
=============================================================================
