----------------------------- MODULE MCCloudCalls -----------------------------
(* An instance of CloudCalls for TLC: a page of networks whose machines are a *)
(* gather inside its gather, a page that gathers one source and asks with the *)
(* service token, and a new rule of a firewall, whose group is looked up.     *)
EXTENDS CloudCalls, TLC

CONSTANTS net, vpcs, machines, vms, eips, quota, domains, act, groups, press, none

Tree == (net :> none) @@ (vpcs :> net) @@ (machines :> net) @@ (vms :> machines) @@ (eips :> machines)
     @@ (quota :> none) @@ (domains :> quota)
     @@ (act :> none) @@ (groups :> act) @@ (press :> act)
Order == [n \in Nodes |-> IF n = press THEN {groups} ELSE {}]
Needs == [n \in Nodes |->
    CASE n = net -> {{vpcs}}
      [] n = machines -> {{vms}}
      [] n = quota -> {{domains}}
      [] n = act -> {{groups}, {press}}
      [] OTHER -> {}]
=============================================================================
