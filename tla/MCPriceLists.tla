---------------------------- MODULE MCPriceLists ----------------------------
(* Instances of PriceLists for TLC: two spellings of one account, a second *)
(* account, two resources.                                                 *)
EXTENDS PriceLists, TLC

CONSTANTS acme, ACME, beta, none, vcpu, ssd, absent

MCSpellings == {acme, ACME, beta}
MCFold == acme :> "acme" @@ ACME :> "acme" @@ beta :> "beta" @@ none :> ""
MCCollate == none :> 0 @@ ACME :> 1 @@ acme :> 2 @@ beta :> 3
MCSeedPrices == vcpu :> 9 @@ ssd :> 9

\* A list with both prices, one that leaves ssd out, one that prices vcpu at
\* zero, one that names nothing, and set_tariff --keep-others.
Prices(currency, given, v, s, keep) ==
    [currency |-> currency, given |-> given, price |-> vcpu :> v @@ ssd :> s,
     keep |-> keep]
MCPayloads == {Prices("UZS", {vcpu, ssd}, 1, 2, FALSE), Prices("USD", {vcpu}, 3, 9, FALSE),
               Prices("UZS", {ssd}, 9, 4, TRUE), Prices("UZS", {vcpu}, 0, 9, FALSE),
               Prices("USD", {}, 9, 9, FALSE)}

Stored(account, v, s) ==
    [account |-> account, currency |-> "UZS", rates |-> vcpu :> v @@ ssd :> s]

\* Nothing yet, the usual deployment, and what two first PUTs at once leave.
AllTables == {<<>>, <<Stored(none, 5, 6), Stored(acme, 7, absent)>>,
              <<Stored(acme, 7, absent), Stored(acme, 5, 6)>>}
=============================================================================
