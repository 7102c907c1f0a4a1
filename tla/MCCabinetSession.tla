-------------------------- MODULE MCCabinetSession --------------------------
(* Instances of CabinetSession for TLC: two users, of whom one administers *)
(* one of her two projects.                                                *)
EXTENDS CabinetSession, TLC

CONSTANTS q1, q2, q3, alice, bob, nobody, main, lab, noproject,
          k1, k2, k3, nokey, absent

Members == alice :> {main, lab} @@ bob :> {main}
AliceRoles == alice :> (main :> "ADMIN" @@ lab :> "USER" @@ noproject :> "USER")
BothRoles == AliceRoles @@ bob :> (main :> "USER" @@ lab :> "USER" @@ noproject :> "USER")
Alike == Permutations(Requests) \cup Permutations(Keys)
=============================================================================
