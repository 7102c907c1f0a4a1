----------------------------- MODULE MCInvoicing -----------------------------
(* Instances of Invoicing for TLC: a domain that is renamed, in case only   *)
(* or altogether, a second one, and two months in different years.          *)
EXTENDS Invoicing, TLC

CONSTANTS acme, ACME, nova, beta, none, vcpu, ssd, absent, nodoc,
          domA, domB, nodom

MCSpellings == {acme, ACME, nova, beta}
TwoSpellings == {acme, nova}
ThreeSpellings == {acme, ACME, beta}
MCFold == acme :> "acme" @@ ACME :> "acme" @@ nova :> "nova" @@ beta :> "beta"
          @@ none :> ""
MCCollate == none :> 0 @@ ACME :> 1 @@ acme :> 2 @@ beta :> 3 @@ nova :> 4
FoldOfTwo == acme :> "acme" @@ nova :> "nova" @@ none :> ""
CollateTwo == none :> 0 @@ acme :> 1 @@ nova :> 2
FoldOfThree == acme :> "acme" @@ ACME :> "acme" @@ beta :> "beta" @@ none :> ""
CollateThree == none :> 0 @@ ACME :> 1 @@ acme :> 2 @@ beta :> 3
MCSeedPrices == vcpu :> 9 @@ ssd :> 9
MCMonths == 1 .. 2
OneMonth == {1}
YearOfOne == 1 :> 2026
MCYearOf == 1 :> 2025 @@ 2 :> 2026
OneYear == 1 :> 2026 @@ 2 :> 2026
Respelled == domA :> {acme, ACME} @@ domB :> {beta}
Named == domA :> acme @@ domB :> beta
RenamedOnly == domA :> {acme, nova}
NamedOnly == domA :> acme

Prices(currency, given, v, s, keep) ==
    [currency |-> currency, given |-> given, price |-> vcpu :> v @@ ssd :> s,
     keep |-> keep]
NewPrices == {Prices("USD", {vcpu, ssd}, 3, 4, FALSE)}
AnyPrices == NewPrices \cup {Prices("UZS", {}, 0, 0, FALSE)}

Stored(account, v, s) ==
    [account |-> account, currency |-> "UZS", rates |-> vcpu :> v @@ ssd :> s]
DefaultList == {<<Stored(none, 1, 2)>>}
OneOrTwins == DefaultList \cup {<<Stored(none, 1, 2), Stored(none, 0, 0)>>}

Held(d, n, m) == [project |-> d, account |-> n, domain |-> d, month |-> m, held |-> {vcpu, ssd}]
BothMonths == {Held(domA, acme, 1), Held(domA, acme, 2), Held(domB, beta, 1), Held(domB, beta, 2)}
OnlyMonth == {Held(domA, acme, 1), Held(domB, beta, 1)}
FirstMonth == {Held(domA, acme, 1)}
AllComplete == {[n \in Spellings |-> "complete"]}
Interchangeable == Permutations(Requests)
AnyHeld == {{vcpu}, {}}
=============================================================================
