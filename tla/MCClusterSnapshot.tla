-------------------------- MODULE MCClusterSnapshot --------------------------
(* An instance of ClusterSnapshot for TLC: two accounts, one of which gets *)
(* its first project and a volume in it, and two lists.                    *)
EXTENDS ClusterSnapshot, TLC

CONSTANTS r1, r2, acme, nova, main, late, m1, d1, unknown, pending, nothing

Order == (acme :> 1) @@ (nova :> 2)
Owners == (main :> acme) @@ (late :> nova)
Homes == (m1 :> main) @@ (d1 :> late)
Kinds == (m1 :> "vms") @@ (d1 :> "volumes")
Hardware == [s \in Sources |-> IF s = "vms" THEN 2 ELSE 0]

Alike == Permutations(Workers)
=============================================================================
