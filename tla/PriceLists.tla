----------------------------- MODULE PriceLists -----------------------------
(***************************************************************************)
(* The price lists of apps.billing: the tables `tariffs` and               *)
(* `tariff_rates`, the three writers that share one algorithm (the         *)
(* cabinet's PUT /admin/tariffs, the operators' PUT /platform/tariffs and  *)
(* the set_tariff command), the start-up seeding of a default list, and    *)
(* the reader that documents and cabinet share (resolve_tariff).           *)
(*                                                                         *)
(* No writer runs in a transaction of its own: every database statement is *)
(* one action, so the writers interleave statement by statement and each   *)
(* of them may stop after any statement.                                   *)
(***************************************************************************)
EXTENDS Integers, Sequences, FiniteSets

CONSTANTS
    Editors,     \* runs of a price-list writer, each used once
    Spellings,   \* account names as they are typed and stored
    NoName,      \* the empty account name: the shared default list
    Fold,        \* [Names -> folded name]: what iexact and lower() compare
    Collate,     \* [Names -> Nat]: the database's order of names
    Resources,   \* what can carry a price
    Currencies,
    NoRate,      \* "there is no tariff_rates row"
    Payloads,    \* validated PUT bodies and command lines
    SeedPrices,  \* [Resources -> Nat]: the shipped default prices
    SeedCurrency,
    InitialLists \* what the tables may hold at the start

Names == Spellings \cup {NoName}
Rates == [Resources -> Nat \cup {NoRate}]
Row == [account : Names, currency : Currencies, rates : Rates]
Body == [currency : Currencies, given : SUBSET Resources,
         price : [Resources -> Nat], keep : BOOLEAN]

ASSUME PriceListsAssumption ==
    /\ NoName \notin Spellings
    /\ NoRate \notin Nat
    /\ Collate \in [Names -> Nat]
    /\ SeedPrices \in [Resources -> Nat]
    /\ SeedCurrency \in Currencies
    /\ DOMAIN Fold = Names
    /\ \A n \in Spellings : Fold[n] # Fold[NoName]
    /\ Payloads \subseteq Body
    /\ InitialLists \subseteq Seq(Row)

VARIABLES
    lists,    \* the rows of `tariffs`, by id, each with its rates
    doing,    \* each writer's next statement
    target,   \* the account it writes
    body,     \* the payload it was given
    listId,   \* the list it has found or created
    todo,     \* the rates it has yet to store
    lastPut,  \* history: list -> resources the last writer to finish left alone
    cutShort  \* history: lists a writer stopped on before its last statement

writerVars == <<doing, target, body, listId, todo>>
priceVars == <<lists, writerVars, lastPut, cutShort>>

Statements == {"new", "find", "create", "rates", "seed", "seedRates", "done", "failed"}
Busy == Statements \ {"new", "done", "failed"}

NoBody == [currency |-> SeedCurrency, given |-> {}, price |-> SeedPrices, keep |-> FALSE]

PriceTypeOK ==
    /\ lists \in Seq(Row)
    /\ doing \in [Editors -> Statements]
    /\ target \in [Editors -> Names]
    /\ body \in [Editors -> Payloads \cup {NoBody}]
    /\ listId \in [Editors -> 0 .. Len(lists)]
    /\ \A e \in Editors : doing[e] \in {"rates", "seedRates"} => listId[e] # 0
    /\ todo \in [Editors -> SUBSET Resources]
    /\ lastPut \in Seq(SUBSET Resources) /\ Len(lastPut) = Len(lists)
    /\ cutShort \subseteq 1 .. Len(lists)

EmptyRates == [r \in Resources |-> NoRate]

PriceInit ==
    /\ lists \in InitialLists
    /\ doing = [e \in Editors |-> "new"]
    /\ target = [e \in Editors |-> NoName]
    /\ body = [e \in Editors |-> NoBody]
    /\ listId = [e \in Editors |-> 0]
    /\ todo = [e \in Editors |-> {}]
    /\ lastPut = [id \in 1 .. Len(lists) |-> Resources]
    /\ cutShort = {}

-----------------------------------------------------------------------------
(* Reading. *)

\* rate_map: a resource with no row, or a zero price, is not charged.
PricedIn(rates) == {r \in Resources : rates[r] \notin {NoRate, 0}}

\* The rows a query may return first in Meta.ordering ('account', 'name').
\* Rows of one account tie, and the database may return either first.
FirstOf(ids) ==
    {i \in ids : \A j \in ids : Collate[lists[i].account] <= Collate[lists[j].account]}

ListsOf(n) == {id \in DOMAIN lists : Fold[lists[id].account] = Fold[n]}

\* resolve_tariff: the account's own list, else the default one, else nothing.
ResolveTariff(n) ==
    IF ListsOf(n) # {} THEN FirstOf(ListsOf(n)) ELSE FirstOf(ListsOf(NoName))

\* Mutant: names are compared as they are written.
OverviewTariffExact(n) ==
    LET own == {id \in DOMAIN lists : n # NoName /\ lists[id].account = n}
        Last == {i \in own : \A j \in own : Collate[lists[j].account] <= Collate[lists[i].account]}
    IN  IF own # {} THEN Last ELSE FirstOf(ListsOf(NoName))

\* The operators' overview reads every list once, into a dictionary by folded
\* name, in which the last one stays.
OverviewTariff(n) ==
    LET own == IF n = NoName THEN {} ELSE ListsOf(n)
        Last == {i \in own : \A j \in own : Collate[lists[j].account] <= Collate[lists[i].account]}
    IN  IF own # {} THEN Last ELSE FirstOf(ListsOf(NoName))

\* What an account would be charged by, whichever of the tied rows is read.
Effective(n) == {<<lists[id].currency, lists[id].rates>> : id \in ResolveTariff(n)}

-----------------------------------------------------------------------------
(* The writers. *)

WithCurrency(row, c) == [account |-> row.account, currency |-> c, rates |-> row.rates]
WithRates(row, r) == [account |-> row.account, currency |-> row.currency, rates |-> r]

Go(e, statement) == doing' = [doing EXCEPT ![e] = statement]

\* A request or a command line whose payload passed validation. The cabinet
\* writes its own account's list, an operator any account's or the default.
BeginPut(e, n, p) ==
    /\ doing[e] = "new"
    /\ Go(e, "find")
    /\ target' = [target EXCEPT ![e] = n]
    /\ body' = [body EXCEPT ![e] = p]
    /\ todo' = [todo EXCEPT ![e] = p.given]
    /\ UNCHANGED <<lists, listId, lastPut, cutShort>>

\* Mutant: the list that prices the account is taken for its own.
FoundEffective(n) ==
    LET own == {id \in DOMAIN lists : lists[id].account = n} IN
    IF own = {} THEN {id \in DOMAIN lists : lists[id].account = NoName} ELSE own

Found(n) == {id \in DOMAIN lists : lists[id].account = n}

\* update_or_create, first statement: get(account=...) compares exactly. Two
\* matching rows are an error (MultipleObjectsReturned); one is locked and
\* saved in the same transaction.
FindList(e) ==
    /\ doing[e] = "find"
    /\ \/ /\ Found(target[e]) = {}
          /\ Go(e, "create")
          /\ UNCHANGED <<lists, listId>>
       \/ \E id \in DOMAIN lists :
          /\ Found(target[e]) = {id}
          /\ lists' = [lists EXCEPT ![id] = WithCurrency(@, body[e].currency)]
          /\ listId' = [listId EXCEPT ![e] = id]
          /\ Go(e, "rates")
       \/ /\ Cardinality(Found(target[e])) > 1
          /\ Go(e, "failed")
          /\ UNCHANGED <<lists, listId>>
    /\ UNCHANGED <<target, body, todo, lastPut, cutShort>>

NewList(e, account, currency) ==
    /\ lists' = Append(lists, [account |-> account, currency |-> currency,
                               rates |-> EmptyRates])
    /\ listId' = [listId EXCEPT ![e] = Len(lists) + 1]
    /\ lastPut' = Append(lastPut, {})
    /\ UNCHANGED <<target, body, todo, cutShort>>

\* Mutant: the created row is not kept for the statements that follow.
CreateListLost(e) ==
    /\ doing[e] = "create"
    /\ lists' = Append(lists, [account |-> target[e], currency |-> body[e].currency,
                               rates |-> EmptyRates])
    /\ lastPut' = Append(lastPut, {})
    /\ Go(e, "rates")
    /\ UNCHANGED <<target, body, listId, todo, cutShort>>

\* update_or_create, second statement: nothing makes `account` unique, so the
\* insert succeeds whatever was inserted since the first one.
CreateList(e) ==
    /\ doing[e] = "create"
    /\ NewList(e, target[e], body[e].currency)
    /\ Go(e, "rates")

\* One submitted rate is stored; (tariff, resource) is unique, so a
\* concurrent insert turns this one into an update.
StoreRate(e, r) ==
    /\ doing[e] = "rates"
    /\ r \in todo[e]
    /\ lists' = [lists EXCEPT ![listId[e]] =
                    WithRates(@, [@.rates EXCEPT ![r] = body[e].price[r]])]
    /\ todo' = [todo EXCEPT ![e] = @ \ {r}]
    /\ UNCHANGED <<doing, target, body, listId, lastPut, cutShort>>

\* The last statement: a resource left out of the payload is cleared
\* (set_tariff --keep-others leaves it alone).
Kept(e) == IF body[e].keep THEN Resources ELSE body[e].given

\* Mutant: what the payload leaves out is kept.
ClearNothing(e) ==
    /\ doing[e] = "rates"
    /\ todo[e] = {}
    /\ lastPut' = [lastPut EXCEPT ![listId[e]] = Kept(e)]
    /\ Go(e, "done")
    /\ UNCHANGED <<lists, target, body, listId, todo, cutShort>>

ClearOthers(e) ==
    /\ doing[e] = "rates"
    /\ todo[e] = {}
    /\ lists' = [lists EXCEPT ![listId[e]] =
                    WithRates(@, [r \in Resources |->
                                     IF r \in Kept(e) THEN @.rates[r] ELSE NoRate])]
    /\ lastPut' = [lastPut EXCEPT ![listId[e]] = Kept(e)]
    /\ Go(e, "done")
    /\ UNCHANGED <<target, body, listId, todo, cutShort>>

\* ensure_default_tariff, run at every start of the web container: nothing is
\* done unless the tariff table is empty.
EnsureDefault(e) ==
    /\ doing[e] = "new"
    /\ Go(e, IF lists = <<>> THEN "seed" ELSE "done")
    /\ UNCHANGED <<lists, target, body, listId, todo, lastPut, cutShort>>

SeedList(e) ==
    /\ doing[e] = "seed"
    /\ NewList(e, NoName, SeedCurrency)
    /\ Go(e, "seedRates")

\* bulk_create inserts every shipped price in one statement and fails as a
\* whole when any of the rows is already there.
SeedRates(e) ==
    /\ doing[e] = "seedRates"
    /\ \/ /\ lists[listId[e]].rates = EmptyRates
          /\ lists' = [lists EXCEPT ![listId[e]] = WithRates(@, SeedPrices)]
          /\ lastPut' = [lastPut EXCEPT ![listId[e]] = Resources]
          /\ Go(e, "done")
       \/ /\ lists[listId[e]].rates # EmptyRates
          /\ Go(e, "failed")
          /\ UNCHANGED <<lists, lastPut>>
    /\ UNCHANGED <<target, body, listId, todo, cutShort>>

\* The worker is killed or the database refuses a statement: what the earlier
\* statements stored stays.
StopShort(e) ==
    /\ doing[e] \in Busy
    /\ Go(e, "failed")
    /\ cutShort' = cutShort \cup ({listId[e]} \ {0})
    /\ UNCHANGED <<lists, target, body, listId, todo, lastPut>>

EditorStep(e) ==
    \/ \E n \in Names, p \in Payloads : BeginPut(e, n, p)
    \/ FindList(e)
    \/ CreateList(e)
    \/ \E r \in Resources : StoreRate(e, r)
    \/ ClearOthers(e)
    \/ EnsureDefault(e)
    \/ SeedList(e)
    \/ SeedRates(e)
    \/ StopShort(e)

PriceNext == \E e \in Editors : EditorStep(e)

PriceSpec == PriceInit /\ [][PriceNext]_priceVars

-----------------------------------------------------------------------------
(* Properties. *)

Writing(id) == {e \in Editors : listId[e] = id /\ doing[e] \in {"rates", "seedRates"}}

\* However PUTs to one list interleave, once they have all finished the list
\* prices only resources named by the one that finished last: "a resource left
\* out of the payload is cleared rather than kept" (TariffView.put). A writer
\* that was cut short is exempt: nothing cleans up after it.
LastPutDecides ==
    \A id \in DOMAIN lists :
        Writing(id) = {} /\ id \notin cutShort => PricedIn(lists[id].rates) \subseteq lastPut[id]

\* The overview and the account's invoice price it by the same list, unless two
\* first PUTs, or two spellings of its name, have made it several (_Tariffs: "same
\* rule, one query").
OverviewPricesAlike ==
    \A n \in Names :
        (n # NoName /\ Cardinality(ListsOf(n)) <= 1) => OverviewTariff(n) = ResolveTariff(n)

\* A step changes what an account is charged by only while somebody writes
\* that account's list or, for an account without one, the shared default:
\* "one account's admin must not be able to change what every other account
\* pays" (AdminTariffView).
EditsStayHome ==
    [][\A n \in Spellings :
          Effective(n)' # Effective(n) =>
             \E e \in Editors :
                /\ doing[e] \in Busy
                /\ \/ Fold[target[e]] = Fold[n]
                   \/ target[e] = NoName /\ ListsOf(n) = {}]_priceVars
=============================================================================
