----------------------------- MODULE MCUsageBills -----------------------------
(* An instance of CabinetPages and UsageBills for TLC: two projects of one   *)
(* account, another account that has none, a disk that comes, and prices and *)
(* sizes that do not come out even.                                          *)
EXTENDS CabinetPages, TLC

CONSTANTS c1, c2, acme, nova, nodomain, main, lab, vm, disk, copy, norow, noitem

Owners == (main :> acme) @@ (lab :> acme)
Kinds == (vm :> "machines") @@ (disk :> "volumes") @@ (copy :> "snapshots")
Homes == (vm :> lab) @@ (disk :> lab) @@ (copy :> main)
Sizes == (vm :> 1) @@ (disk :> 3) @@ (copy :> 2)
Memory == [i \in Items |-> IF i = vm THEN 1500 ELSE 0]
Media == [i \in Items |-> IF i = disk THEN "SSD" ELSE ""]
On == [i \in Items |-> IF i = disk THEN vm ELSE noitem]
Prices == [d \in Domains |-> [resource \in Resources |->
    IF resource = "ram_gb" THEN 333 ELSE IF resource = "elastic_ip" THEN 0 ELSE 105]]

Alike == Permutations(Passes)
=============================================================================
