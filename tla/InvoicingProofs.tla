--------------------------- MODULE InvoicingProofs ---------------------------
(***************************************************************************)
(* Proofs about PriceLists, and about Invoicing, which issues documents by *)
(* its lists, for any number of writers, requests, accounts, months, price *)
(* lists and attempts.  Of the lists: their types, and what the PUTs of    *)
(* several writers leave.  Of the documents: type correctness, the         *)
(* numbering invariant, that issuing implements InvoiceRegister and never  *)
(* stores a second document when repeated, and what an incomplete document *)
(* and a request that gave up go back to.                                  *)
(***************************************************************************)
EXTENDS Invoicing, SequenceTheorems, FiniteSetTheorems, TLAPS

(***************************************************************************)
(* Price lists.                                                            *)
(***************************************************************************)

LEMMA EmptyRatesType == EmptyRates \in Rates
  BY DEF EmptyRates, Rates

LEMMA SeedPricesType == SeedPrices \in Rates
  BY PriceListsAssumption DEF Rates

\* What a writer was given is well formed, also before it was given anything.
LEMMA BodyType ==
  ASSUME PriceTypeOK, NEW e \in Editors
  PROVE  /\ body[e].currency \in Currencies
         /\ body[e].given \subseteq Resources
         /\ body[e].price \in [Resources -> Nat]
<1>1. NoBody \in Body
  BY PriceListsAssumption DEF NoBody, Body
<1>2. body[e] \in Body
  BY <1>1, PriceListsAssumption DEF PriceTypeOK
<1> QED BY <1>2 DEF Body

LEMMA RowFields ==
  ASSUME NEW row \in Row
  PROVE  row.account \in Names /\ row.currency \in Currencies /\ row.rates \in Rates
  BY DEF Row

LEMMA RowUpdates ==
  ASSUME NEW row \in Row, NEW c \in Currencies, NEW r \in Rates
  PROVE  WithCurrency(row, c) \in Row /\ WithRates(row, r) \in Row
  BY RowFields DEF WithCurrency, WithRates, Row

LEMMA RatesOfRow == \A row, r : WithRates(row, r).rates = r
  BY DEF WithRates

\* The row that a writer holds the id of.
LEMMA RowType ==
  ASSUME PriceTypeOK, NEW id \in 1 .. Len(lists)
  PROVE  lists[id] \in Row
  BY ElementOfSeq DEF PriceTypeOK

\* A list without rates is appended, whoever appends it.
LEMMA NewListType ==
  ASSUME NEW e \in Editors, NEW account \in Names, NEW currency \in Currencies,
         PriceTypeOK, NewList(e, account, currency),
         doing' \in [Editors -> Statements],
         \A f \in Editors : f # e => doing'[f] = doing[f]
  PROVE  PriceTypeOK'
<1>1. [account |-> account, currency |-> currency, rates |-> EmptyRates] \in Row
  BY EmptyRatesType DEF Row
<1>2. lists' \in Seq(Row) /\ Len(lists') = Len(lists) + 1
  BY <1>1 DEF NewList, PriceTypeOK
<1>3. Len(lists) \in Nat
  BY DEF PriceTypeOK
<1>4. lastPut' \in Seq(SUBSET Resources) /\ Len(lastPut') = Len(lists')
  BY <1>2 DEF NewList, PriceTypeOK
<1>5. listId' \in [Editors -> 0 .. Len(lists')]
  BY <1>2, <1>3 DEF NewList, PriceTypeOK
<1>6. \A f \in Editors : doing'[f] \in {"rates", "seedRates"} => listId'[f] # 0
  BY <1>3 DEF NewList, PriceTypeOK
<1>7. cutShort' \subseteq 1 .. Len(lists')
  BY <1>2, <1>3 DEF NewList, PriceTypeOK
<1> QED BY <1>2, <1>4, <1>5, <1>6, <1>7 DEF NewList, PriceTypeOK

\* One row of the table is replaced by another.
LEMMA RowReplaced ==
  ASSUME PriceTypeOK, NEW id \in 1 .. Len(lists), NEW row \in Row,
         lists' = [lists EXCEPT ![id] = row]
  PROVE  lists' \in Seq(Row) /\ Len(lists') = Len(lists) /\ lists'[id] = row
  BY ExceptSeq DEF PriceTypeOK

LEMMA BeginPutType ==
  ASSUME PriceTypeOK, NEW e \in Editors, NEW n \in Names, NEW p \in Payloads,
         BeginPut(e, n, p)
  PROVE  PriceTypeOK'
<1>1. p.given \subseteq Resources
  BY PriceListsAssumption DEF Body
<1> QED BY <1>1 DEF BeginPut, Go, PriceTypeOK, Statements

LEMMA FindListType ==
  ASSUME PriceTypeOK, NEW e \in Editors, FindList(e)
  PROVE  PriceTypeOK'
<1>1. ASSUME NEW id \in DOMAIN lists,
             lists' = [lists EXCEPT ![id] = WithCurrency(@, body[e].currency)],
             listId' = [listId EXCEPT ![e] = id], Go(e, "rates")
      PROVE  PriceTypeOK'
  <2>1. id \in 1 .. Len(lists) /\ id # 0
    BY DEF PriceTypeOK
  <2>2. WithCurrency(lists[id], body[e].currency) \in Row
    BY <2>1, RowType, BodyType, RowUpdates, EmptyRatesType
  <2>3. lists' \in Seq(Row) /\ Len(lists') = Len(lists)
    BY <1>1, <2>1, <2>2, RowReplaced
  <2>4. listId' \in [Editors -> 0 .. Len(lists')]
    BY <1>1, <2>1, <2>3 DEF PriceTypeOK
  <2>5. \A f \in Editors : doing'[f] \in {"rates", "seedRates"} => listId'[f] # 0
    BY <1>1, <2>1 DEF Go, PriceTypeOK
  <2> QED BY <1>1, <2>3, <2>4, <2>5 DEF FindList, Go, PriceTypeOK, Statements
<1>2. CASE Go(e, "create") /\ UNCHANGED <<lists, listId>>
  BY <1>2 DEF FindList, Go, PriceTypeOK, Statements
<1>3. CASE Go(e, "failed") /\ UNCHANGED <<lists, listId>>
  BY <1>3 DEF FindList, Go, PriceTypeOK, Statements
<1> QED BY <1>1, <1>2, <1>3 DEF FindList

LEMMA StoreRateType ==
  ASSUME PriceTypeOK, NEW e \in Editors, NEW r \in Resources, StoreRate(e, r)
  PROVE  PriceTypeOK'
<1> DEFINE id == listId[e]
           rates == [lists[id].rates EXCEPT ![r] = body[e].price[r]]
<1>1. id \in 1 .. Len(lists)
  BY DEF StoreRate, PriceTypeOK
<1>2. rates \in Rates
  <2>1. lists[id].rates \in Rates
    BY <1>1, RowType, RowFields
  <2>2. body[e].price[r] \in Nat
    BY BodyType
  <2> QED BY <2>1, <2>2 DEF Rates
<1>3. WithRates(lists[id], rates) \in Row
  BY <1>1, <1>2, RowType, RowUpdates, PriceListsAssumption
<1>4. lists' = [lists EXCEPT ![id] = WithRates(lists[id], rates)]
  BY DEF StoreRate
<1> HIDE DEF rates
<1>5. lists' \in Seq(Row) /\ Len(lists') = Len(lists)
  BY <1>1, <1>3, <1>4, RowReplaced
<1> QED BY <1>5 DEF StoreRate, PriceTypeOK

LEMMA ClearOthersType ==
  ASSUME PriceTypeOK, NEW e \in Editors, ClearOthers(e)
  PROVE  PriceTypeOK'
<1> DEFINE id == listId[e]
           rates == [r \in Resources |-> IF r \in Kept(e) THEN lists[id].rates[r] ELSE NoRate]
<1>1. id \in 1 .. Len(lists)
  BY DEF ClearOthers, PriceTypeOK
<1>2. rates \in Rates
  <2>1. lists[id].rates \in Rates
    BY <1>1, RowType, RowFields
  <2> QED BY <2>1 DEF Rates
<1>3. WithRates(lists[id], rates) \in Row
  BY <1>1, <1>2, RowType, RowUpdates, PriceListsAssumption
<1>4. lists' = [lists EXCEPT ![id] = WithRates(lists[id], rates)]
  BY DEF ClearOthers
<1> HIDE DEF rates
<1>5. lists' \in Seq(Row) /\ Len(lists') = Len(lists)
  BY <1>1, <1>3, <1>4, RowReplaced
<1>6. Kept(e) \subseteq Resources
  BY BodyType DEF Kept
<1>7. lastPut' \in Seq(SUBSET Resources) /\ Len(lastPut') = Len(lastPut)
  <2>1. id \in 1 .. Len(lastPut) /\ lastPut \in Seq(SUBSET Resources)
    BY <1>1 DEF PriceTypeOK
  <2>2. lastPut' = [lastPut EXCEPT ![id] = Kept(e)]
    BY DEF ClearOthers
  <2> QED BY <1>6, <2>1, <2>2, ExceptSeq
<1> QED BY <1>5, <1>7 DEF ClearOthers, Go, PriceTypeOK, Statements

LEMMA SeedRatesType ==
  ASSUME PriceTypeOK, NEW e \in Editors, SeedRates(e)
  PROVE  PriceTypeOK'
<1> DEFINE id == listId[e]
<1>1. CASE /\ lists' = [lists EXCEPT ![id] = WithRates(@, SeedPrices)]
           /\ lastPut' = [lastPut EXCEPT ![id] = Resources]
           /\ Go(e, "done")
  <2>1. id \in 1 .. Len(lists)
    BY DEF SeedRates, PriceTypeOK
  <2>2. WithRates(lists[id], SeedPrices) \in Row
    BY <2>1, RowType, RowUpdates, SeedPricesType, PriceListsAssumption
  <2>3. lists' \in Seq(Row) /\ Len(lists') = Len(lists)
    BY <1>1, <2>1, <2>2, RowReplaced
  <2>4. lastPut' \in Seq(SUBSET Resources) /\ Len(lastPut') = Len(lastPut)
    <3>1. id \in 1 .. Len(lastPut) /\ lastPut \in Seq(SUBSET Resources)
      BY <2>1 DEF PriceTypeOK
    <3> QED BY <1>1, <3>1, ExceptSeq
  <2> QED BY <1>1, <2>3, <2>4 DEF SeedRates, Go, PriceTypeOK, Statements
<1>2. CASE UNCHANGED <<lists, lastPut>> /\ Go(e, "failed")
  BY <1>2 DEF SeedRates, Go, PriceTypeOK, Statements
<1> QED BY <1>1, <1>2 DEF SeedRates

LEMMA StopShortType ==
  ASSUME PriceTypeOK, NEW e \in Editors, StopShort(e)
  PROVE  PriceTypeOK'
<1>1. {listId[e]} \ {0} \subseteq 1 .. Len(lists)
  BY DEF PriceTypeOK
<1> QED BY <1>1 DEF StopShort, Go, PriceTypeOK, Statements

\* A step of a writer keeps the tables and the writers in their types.
LEMMA EditorStepType ==
  ASSUME PriceTypeOK, NEW e \in Editors, EditorStep(e)
  PROVE  PriceTypeOK'
<1>1. CASE CreateList(e)
  <2>1. target[e] \in Names
    BY DEF PriceTypeOK
  <2> QED BY <1>1, <2>1, BodyType, NewListType DEF CreateList, Go, PriceTypeOK, Statements
<1>2. CASE SeedList(e)
  BY <1>2, NewListType, PriceListsAssumption DEF SeedList, Go, PriceTypeOK, Statements, Names
<1>3. CASE EnsureDefault(e)
  BY <1>3 DEF EnsureDefault, Go, PriceTypeOK, Statements
<1> QED BY <1>1, <1>2, <1>3, BeginPutType, FindListType, StoreRateType, ClearOthersType,
           SeedRatesType, StopShortType DEF EditorStep

LEMMA PriceInitType == PriceInit => PriceTypeOK
<1> SUFFICES ASSUME PriceInit PROVE PriceTypeOK
  OBVIOUS
<1>1. lists \in Seq(Row) /\ Len(lists) \in Nat
  BY PriceListsAssumption DEF PriceInit
<1>2. lastPut \in Seq(SUBSET Resources) /\ Len(lastPut) = Len(lists)
  BY <1>1 DEF PriceInit
<1> QED BY <1>1, <1>2 DEF PriceInit, PriceTypeOK, Names, Statements

LEMMA PriceStepType == PriceTypeOK /\ [PriceNext]_priceVars => PriceTypeOK'
<1> SUFFICES ASSUME PriceTypeOK, [PriceNext]_priceVars PROVE PriceTypeOK'
  OBVIOUS
<1>1. CASE PriceNext
  BY <1>1, EditorStepType DEF PriceNext
<1>2. CASE UNCHANGED priceVars
  BY <1>2 DEF priceVars, writerVars, PriceTypeOK
<1> QED BY <1>1, <1>2

\* The tables `tariffs` and `tariff_rates` and their writers keep their types.
THEOREM PriceTypeCorrect == PriceSpec => []PriceTypeOK
  BY PriceInitType, PriceStepType, PTL DEF PriceSpec

-----------------------------------------------------------------------------
(* What a finished list holds. LastPutDecides speaks only of lists nobody is *)
(* writing; while somebody is, the prices not left alone by the last writer  *)
(* to finish belong to the payloads of the writers under way.                *)

AccountedFor(id, r) ==
    lists[id].rates[r] \notin {NoRate, 0} =>
        r \in lastPut[id] \/ \E e \in Writing(id) : r \in body[e].given

PutsAccounted ==
    /\ \A e \in Editors : todo[e] \subseteq body[e].given
    /\ \A e \in Editors : doing[e] \in {"new", "seed", "seedRates"} => body[e].given = {}
    /\ \A id \in 1 .. Len(lists), r \in Resources : id \notin cutShort => AccountedFor(id, r)

LEMMA PutsAccountedInit == PriceInit => PutsAccounted
<1> SUFFICES ASSUME PriceInit PROVE PutsAccounted
  OBVIOUS
<1>1. \A id \in 1 .. Len(lists), r \in Resources : AccountedFor(id, r)
  BY DEF PriceInit, AccountedFor
<1> QED BY <1>1 DEF PriceInit, PutsAccounted, NoBody

\* A writer that stays, joins or leaves without touching the tables.
LEMMA WriterMoves ==
  ASSUME PriceTypeOK, PutsAccounted, NEW e \in Editors,
         UNCHANGED <<lists, lastPut, listId, cutShort>>,
         \A f \in Editors : f # e => doing'[f] = doing[f] /\ body'[f] = body[f],
         doing[e] \notin {"rates", "seedRates"} \/ body[e].given = {}
  PROVE  \A id \in 1 .. Len(lists'), r \in Resources : id \notin cutShort' => AccountedFor(id, r)'
<1> SUFFICES ASSUME NEW id \in 1 .. Len(lists), NEW r \in Resources, id \notin cutShort
             PROVE  AccountedFor(id, r)'
  OBVIOUS
<1>1. AccountedFor(id, r)
  BY DEF PutsAccounted
<1>2. \A f \in Writing(id) : r \in body[f].given => f \in Writing(id)' /\ body'[f] = body[f]
  BY DEF Writing
<1> QED BY <1>1, <1>2 DEF AccountedFor

\* One list's prices change; every other list stays accounted for.
LEMMA OneListChanges ==
  ASSUME PriceTypeOK, PutsAccounted, NEW e \in Editors, NEW row \in Row,
         listId[e] # 0,
         lists' = [lists EXCEPT ![listId[e]] = row],
         \A id \in 1 .. Len(lists) : id # listId[e] => lastPut'[id] = lastPut[id],
         UNCHANGED <<listId, body, cutShort>>,
         \A f \in Editors : f # e => doing'[f] = doing[f],
         \A r \in Resources : listId[e] \notin cutShort => AccountedFor(listId[e], r)'
  PROVE  \A id \in 1 .. Len(lists'), r \in Resources : id \notin cutShort' => AccountedFor(id, r)'
<1>1. listId[e] \in 1 .. Len(lists)
  BY DEF PriceTypeOK
<1>2. Len(lists') = Len(lists)
  BY <1>1, RowReplaced
<1> SUFFICES ASSUME NEW id \in 1 .. Len(lists), NEW r \in Resources,
                    id \notin cutShort, id # listId[e]
             PROVE  AccountedFor(id, r)'
  BY <1>2
<1>3. lists'[id] = lists[id]
  BY <1>1 DEF PriceTypeOK
<1>4. \A f \in Writing(id) : f \in Writing(id)'
  BY DEF Writing
<1> QED BY <1>3, <1>4 DEF AccountedFor, PutsAccounted

LEMMA BeginPutAccounted ==
  ASSUME PriceTypeOK, PutsAccounted, NEW e \in Editors, NEW n \in Names, NEW p \in Payloads,
         BeginPut(e, n, p)
  PROVE  PutsAccounted'
<1>1. \A id \in 1 .. Len(lists'), r \in Resources : id \notin cutShort' => AccountedFor(id, r)'
  BY WriterMoves DEF BeginPut, Go, PriceTypeOK
<1>2. \A f \in Editors : todo'[f] \subseteq body'[f].given
  BY DEF BeginPut, PutsAccounted, PriceTypeOK
<1>3. \A f \in Editors : doing'[f] \in {"new", "seed", "seedRates"} => body'[f].given = {}
  BY DEF BeginPut, Go, PutsAccounted, PriceTypeOK
<1> QED BY <1>1, <1>2, <1>3 DEF PutsAccounted

LEMMA FindListAccounted ==
  ASSUME PriceTypeOK, PutsAccounted, NEW e \in Editors, FindList(e)
  PROVE  PutsAccounted'
<1>1. /\ \A f \in Editors : todo'[f] \subseteq body'[f].given
      /\ \A f \in Editors : doing'[f] \in {"new", "seed", "seedRates"} => body'[f].given = {}
  BY DEF FindList, Go, PutsAccounted, PriceTypeOK
<1>2. \A id \in 1 .. Len(lists'), r \in Resources : id \notin cutShort' => AccountedFor(id, r)'
  <2>1. ASSUME NEW id \in DOMAIN lists,
               lists' = [lists EXCEPT ![id] = WithCurrency(@, body[e].currency)],
               listId' = [listId EXCEPT ![e] = id], Go(e, "rates")
        PROVE  \A k \in 1 .. Len(lists'), r \in Resources : k \notin cutShort' => AccountedFor(k, r)'
    <3> DEFINE row == WithCurrency(lists[id], body[e].currency)
    <3>1. id \in 1 .. Len(lists) /\ row.rates = lists[id].rates
      BY DEF PriceTypeOK, WithCurrency
    <3>2. row \in Row
      BY <3>1, RowType, BodyType, RowUpdates, EmptyRatesType
    <3>3. lists' = [lists EXCEPT ![id] = row]
      BY <2>1
    <3>4. Len(lists') = Len(lists)
      BY <3>1, <3>2, <3>3, RowReplaced
    <3>5. \A k \in 1 .. Len(lists) : lists'[k].rates = lists[k].rates
      BY <3>1, <3>3 DEF PriceTypeOK
    <3>6. ASSUME NEW k \in 1 .. Len(lists), NEW f \in Writing(k)
          PROVE  f \in Writing(k)'
      <4>1. f # e
        BY DEF FindList, Writing
      <4>2. doing'[f] = doing[f] /\ listId'[f] = listId[f]
        BY <2>1, <4>1 DEF Go, PriceTypeOK, Writing
      <4> QED BY <4>2 DEF Writing
    <3>7. UNCHANGED <<body, lastPut, cutShort>>
      BY DEF FindList
    <3> QED
      <4> SUFFICES ASSUME NEW k \in 1 .. Len(lists), NEW r \in Resources, k \notin cutShort
                   PROVE  AccountedFor(k, r)'
        BY <3>4, <3>7
      <4>1. AccountedFor(k, r)
        BY DEF PutsAccounted
      <4> QED BY <3>5, <3>6, <3>7, <4>1 DEF AccountedFor
  <2>2. CASE UNCHANGED <<lists, listId>> /\ (Go(e, "create") \/ Go(e, "failed"))
    BY <2>2, WriterMoves DEF FindList, Go, PriceTypeOK
  <2> QED BY <2>1, <2>2 DEF FindList
<1> QED BY <1>1, <1>2 DEF PutsAccounted

LEMMA NewListAccounted ==
  ASSUME PriceTypeOK, PutsAccounted, NEW e \in Editors,
         NEW account \in Names, NEW currency \in Currencies,
         NewList(e, account, currency),
         doing[e] \notin {"rates", "seedRates"},
         \A f \in Editors : f # e => doing'[f] = doing[f]
  PROVE  \A id \in 1 .. Len(lists'), r \in Resources : id \notin cutShort' => AccountedFor(id, r)'
<1> DEFINE row == [account |-> account, currency |-> currency, rates |-> EmptyRates]
<1>1. Len(lists') = Len(lists) + 1 /\ Len(lists) \in Nat
  BY DEF NewList, PriceTypeOK
<1>2. \A id \in 1 .. Len(lists) : lists'[id] = lists[id] /\ lastPut'[id] = lastPut[id]
  BY DEF NewList, PriceTypeOK
<1>3. lists'[Len(lists) + 1] = row
  BY DEF NewList, PriceTypeOK
<1>4. ASSUME NEW id \in 1 .. Len(lists), NEW f \in Writing(id)
      PROVE  f \in Writing(id)'
  <2>1. f # e
    BY DEF Writing
  <2>2. doing'[f] = doing[f] /\ listId'[f] = listId[f]
    BY <2>1 DEF NewList, PriceTypeOK, Writing
  <2> QED BY <2>2 DEF Writing
<1>5. UNCHANGED <<body, cutShort>>
  BY DEF NewList
<1> SUFFICES ASSUME NEW id \in 1 .. Len(lists'), NEW r \in Resources, id \notin cutShort
             PROVE  AccountedFor(id, r)'
  BY <1>5
<1>6. CASE id = Len(lists) + 1
  BY <1>3, <1>6 DEF AccountedFor, EmptyRates
<1>7. CASE id # Len(lists) + 1
  <2>1. id \in 1 .. Len(lists)
    BY <1>1, <1>7
  <2>2. AccountedFor(id, r)
    BY <1>5, <2>1 DEF PutsAccounted
  <2> QED BY <1>2, <1>4, <1>5, <2>1, <2>2 DEF AccountedFor
<1> QED BY <1>6, <1>7

LEMMA CreateListAccounted ==
  ASSUME PriceTypeOK, PutsAccounted, NEW e \in Editors, CreateList(e)
  PROVE  PutsAccounted'
<1>1. target[e] \in Names /\ body[e].currency \in Currencies
  BY BodyType DEF PriceTypeOK
<1>2. \A f \in Editors : f # e => doing'[f] = doing[f]
  BY DEF CreateList, Go, PriceTypeOK
<1>3. \A id \in 1 .. Len(lists'), r \in Resources : id \notin cutShort' => AccountedFor(id, r)'
  BY <1>1, <1>2, NewListAccounted DEF CreateList
<1>4. /\ \A f \in Editors : todo'[f] \subseteq body'[f].given
      /\ \A f \in Editors : doing'[f] \in {"new", "seed", "seedRates"} => body'[f].given = {}
  BY DEF CreateList, NewList, Go, PutsAccounted, PriceTypeOK
<1> QED BY <1>3, <1>4 DEF PutsAccounted

LEMMA SeedListAccounted ==
  ASSUME PriceTypeOK, PutsAccounted, NEW e \in Editors, SeedList(e)
  PROVE  PutsAccounted'
<1>1. NoName \in Names /\ SeedCurrency \in Currencies
  BY PriceListsAssumption DEF Names
<1>2. \A f \in Editors : f # e => doing'[f] = doing[f]
  BY DEF SeedList, Go, PriceTypeOK
<1>3. \A id \in 1 .. Len(lists'), r \in Resources : id \notin cutShort' => AccountedFor(id, r)'
  BY <1>1, <1>2, NewListAccounted DEF SeedList
<1>4. /\ \A f \in Editors : todo'[f] \subseteq body'[f].given
      /\ \A f \in Editors : doing'[f] \in {"new", "seed", "seedRates"} => body'[f].given = {}
  BY DEF SeedList, NewList, Go, PutsAccounted, PriceTypeOK
<1> QED BY <1>3, <1>4 DEF PutsAccounted

LEMMA StoreRateAccounted ==
  ASSUME PriceTypeOK, PutsAccounted, NEW e \in Editors, NEW s \in Resources, StoreRate(e, s)
  PROVE  PutsAccounted'
<1> DEFINE id == listId[e]
           rates == [lists[id].rates EXCEPT ![s] = body[e].price[s]]
           row == WithRates(lists[id], rates)
<1>1. id \in 1 .. Len(lists) /\ id # 0
  BY DEF StoreRate, PriceTypeOK
<1>2. lists[id].rates \in Rates /\ body[e].price[s] \in Nat
  BY <1>1, RowType, RowFields, BodyType
<1>3. row \in Row
  BY <1>1, <1>2, RowType, RowUpdates, PriceListsAssumption DEF Rates
<1>4. lists' = [lists EXCEPT ![id] = row]
  BY DEF StoreRate
<1>5. lists'[id].rates = rates
  <2>1. lists'[id] = row
    <3> HIDE DEF row
    <3> QED BY <1>1, <1>3, <1>4, RowReplaced
  <2> HIDE DEF rates
  <2> QED BY <2>1, RatesOfRow
<1>6. ASSUME NEW r \in Resources, id \notin cutShort
      PROVE  AccountedFor(id, r)'
  <2>1. CASE r = s
    <3>1. e \in Writing(id)' /\ s \in body'[e].given
      BY DEF StoreRate, Writing, PutsAccounted
    <3> QED BY <2>1, <3>1 DEF AccountedFor
  <2>2. CASE r # s
    <3>1. lists'[id].rates[r] = lists[id].rates[r]
      BY <1>2, <1>5, <2>2 DEF Rates
    <3>2. AccountedFor(id, r)
      BY <1>1, <1>6 DEF PutsAccounted
    <3> QED BY <3>1, <3>2 DEF StoreRate, AccountedFor, Writing
  <2> QED BY <2>1, <2>2
<1>7. \A k \in 1 .. Len(lists'), r \in Resources : k \notin cutShort' => AccountedFor(k, r)'
  <2> HIDE DEF row
  <2> QED BY <1>1, <1>3, <1>4, <1>6, OneListChanges DEF StoreRate
<1>8. /\ \A f \in Editors : todo'[f] \subseteq body'[f].given
      /\ \A f \in Editors : doing'[f] \in {"new", "seed", "seedRates"} => body'[f].given = {}
  BY DEF StoreRate, PutsAccounted, PriceTypeOK
<1> QED BY <1>7, <1>8 DEF PutsAccounted

LEMMA ClearOthersAccounted ==
  ASSUME PriceTypeOK, PutsAccounted, NEW e \in Editors, ClearOthers(e)
  PROVE  PutsAccounted'
<1> DEFINE id == listId[e]
           rates == [r \in Resources |-> IF r \in Kept(e) THEN lists[id].rates[r] ELSE NoRate]
           row == WithRates(lists[id], rates)
<1>1. id \in 1 .. Len(lists) /\ id # 0
  BY DEF ClearOthers, PriceTypeOK
<1>2. row \in Row
  <2>1. lists[id].rates \in Rates
    BY <1>1, RowType, RowFields
  <2>2. rates \in Rates
    BY <2>1 DEF Rates
  <2> QED BY <1>1, <2>2, RowType, RowUpdates, PriceListsAssumption
<1>3. lists' = [lists EXCEPT ![id] = row]
  BY DEF ClearOthers
<1>4. lists'[id].rates = rates
  <2>1. lists'[id] = row
    <3> HIDE DEF row
    <3> QED BY <1>1, <1>2, <1>3, RowReplaced
  <2> HIDE DEF rates
  <2> QED BY <2>1, RatesOfRow
<1>5. lastPut'[id] = Kept(e)
  BY <1>1 DEF ClearOthers, PriceTypeOK
<1>6. ASSUME NEW r \in Resources
      PROVE  AccountedFor(id, r)'
  <2>1. rates[r] # NoRate => r \in Kept(e)
    OBVIOUS
  <2>2. id' = id
    BY DEF ClearOthers
  <2> HIDE DEF rates
  <2> QED BY <1>4, <1>5, <2>1, <2>2 DEF AccountedFor
<1>7. \A k \in 1 .. Len(lists) : k # id => lastPut'[k] = lastPut[k]
  BY DEF ClearOthers, PriceTypeOK
<1>8. \A f \in Editors : f # e => doing'[f] = doing[f]
  BY DEF ClearOthers, Go, PriceTypeOK
<1>9. \A k \in 1 .. Len(lists'), r \in Resources : k \notin cutShort' => AccountedFor(k, r)'
  <2> HIDE DEF row
  <2> QED BY <1>1, <1>2, <1>3, <1>6, <1>7, <1>8, OneListChanges DEF ClearOthers
<1>10. /\ \A f \in Editors : todo'[f] \subseteq body'[f].given
       /\ \A f \in Editors : doing'[f] \in {"new", "seed", "seedRates"} => body'[f].given = {}
  BY DEF ClearOthers, Go, PutsAccounted, PriceTypeOK
<1> QED BY <1>9, <1>10 DEF PutsAccounted

LEMMA SeedRatesAccounted ==
  ASSUME PriceTypeOK, PutsAccounted, NEW e \in Editors, SeedRates(e)
  PROVE  PutsAccounted'
<1> DEFINE id == listId[e]
           row == WithRates(lists[id], SeedPrices)
<1>1. id \in 1 .. Len(lists) /\ id # 0
  BY DEF SeedRates, PriceTypeOK
<1>2. \A f \in Editors : f # e => doing'[f] = doing[f]
  BY DEF SeedRates, Go, PriceTypeOK
<1>3. \A k \in 1 .. Len(lists'), r \in Resources : k \notin cutShort' => AccountedFor(k, r)'
  <2>1. CASE /\ lists' = [lists EXCEPT ![id] = WithRates(@, SeedPrices)]
             /\ lastPut' = [lastPut EXCEPT ![id] = Resources]
    <3>1. row \in Row
      BY <1>1, RowType, RowUpdates, SeedPricesType, PriceListsAssumption
    <3>2. lists' = [lists EXCEPT ![id] = row]
      BY <2>1
    <3>3. lastPut'[id] = Resources /\ \A k \in 1 .. Len(lists) : k # id => lastPut'[k] = lastPut[k]
      BY <1>1, <2>1 DEF PriceTypeOK
    <3>4. UNCHANGED <<listId, body, cutShort>>
      BY DEF SeedRates
    <3>5. \A r \in Resources : AccountedFor(id, r)'
      BY <3>3, <3>4 DEF AccountedFor
    <3> HIDE DEF row
    <3> QED BY <1>1, <1>2, <3>1, <3>2, <3>3, <3>4, <3>5, OneListChanges
  <2>2. CASE UNCHANGED <<lists, lastPut>>
    <3>1. body[e].given = {}
      BY DEF SeedRates, PutsAccounted
    <3> QED BY <1>2, <2>2, <3>1, WriterMoves DEF SeedRates
  <2> QED BY <2>1, <2>2 DEF SeedRates
<1>4. /\ \A f \in Editors : todo'[f] \subseteq body'[f].given
      /\ \A f \in Editors : doing'[f] \in {"new", "seed", "seedRates"} => body'[f].given = {}
  BY DEF SeedRates, Go, PutsAccounted, PriceTypeOK
<1> QED BY <1>3, <1>4 DEF PutsAccounted

LEMMA EnsureDefaultAccounted ==
  ASSUME PriceTypeOK, PutsAccounted, NEW e \in Editors, EnsureDefault(e)
  PROVE  PutsAccounted'
<1>1. \A id \in 1 .. Len(lists'), r \in Resources : id \notin cutShort' => AccountedFor(id, r)'
  BY WriterMoves DEF EnsureDefault, Go, PriceTypeOK
<1>2. /\ \A f \in Editors : todo'[f] \subseteq body'[f].given
      /\ \A f \in Editors : doing'[f] \in {"new", "seed", "seedRates"} => body'[f].given = {}
  BY DEF EnsureDefault, Go, PutsAccounted, PriceTypeOK
<1> QED BY <1>1, <1>2 DEF PutsAccounted

LEMMA StopShortAccounted ==
  ASSUME PriceTypeOK, PutsAccounted, NEW e \in Editors, StopShort(e)
  PROVE  PutsAccounted'
<1>1. ASSUME NEW id \in 1 .. Len(lists), NEW r \in Resources, id \notin cutShort'
      PROVE  AccountedFor(id, r)'
  <2>1. listId[e] # id /\ id \notin cutShort
    BY <1>1 DEF StopShort
  <2>2. AccountedFor(id, r)
    BY <2>1 DEF PutsAccounted
  <2>3. Writing(id) \subseteq Writing(id)'
    BY <2>1 DEF StopShort, Go, Writing, PriceTypeOK
  <2>4. UNCHANGED <<lists, lastPut, body>>
    BY DEF StopShort
  <2> QED BY <2>2, <2>3, <2>4 DEF AccountedFor
<1>2. /\ \A f \in Editors : todo'[f] \subseteq body'[f].given
      /\ \A f \in Editors : doing'[f] \in {"new", "seed", "seedRates"} => body'[f].given = {}
  BY DEF StopShort, Go, PutsAccounted, PriceTypeOK
<1>3. UNCHANGED lists
  BY DEF StopShort
<1> QED BY <1>1, <1>2, <1>3 DEF PutsAccounted

LEMMA PutsAccountedStep ==
  PriceTypeOK /\ PutsAccounted /\ [PriceNext]_priceVars => PutsAccounted'
<1> SUFFICES ASSUME PriceTypeOK, PutsAccounted, [PriceNext]_priceVars
             PROVE  PutsAccounted'
  OBVIOUS
<1>1. ASSUME NEW e \in Editors, EditorStep(e) PROVE PutsAccounted'
  BY <1>1, BeginPutAccounted, FindListAccounted, CreateListAccounted, StoreRateAccounted,
     ClearOthersAccounted, EnsureDefaultAccounted, SeedListAccounted, SeedRatesAccounted,
     StopShortAccounted DEF EditorStep
<1>2. CASE UNCHANGED priceVars
  BY <1>2 DEF priceVars, writerVars, PutsAccounted, AccountedFor, Writing
<1> QED BY <1>1, <1>2 DEF PriceNext

LEMMA AccountedListIsDecided == PriceTypeOK /\ PutsAccounted => LastPutDecides
<1> SUFFICES ASSUME PriceTypeOK, PutsAccounted, NEW id \in DOMAIN lists,
                    Writing(id) = {}, id \notin cutShort,
                    NEW r \in PricedIn(lists[id].rates)
             PROVE  r \in lastPut[id]
  BY DEF LastPutDecides
<1>1. id \in 1 .. Len(lists) /\ r \in Resources
  BY DEF PriceTypeOK, PricedIn
<1>2. AccountedFor(id, r)
  BY <1>1 DEF PutsAccounted
<1> QED BY <1>1, <1>2 DEF AccountedFor, PricedIn

\* When every PUT to a list has finished, the list prices only what the last
\* one to finish had submitted, for any number of writers, lists and prices.
THEOREM LastPutCorrect == PriceSpec => []LastPutDecides
<1>1. PriceSpec => []PutsAccounted
  BY PutsAccountedInit, PutsAccountedStep, PriceTypeCorrect, PTL DEF PriceSpec
<1> QED BY <1>1, PriceTypeCorrect, AccountedListIsDecided, PTL

-----------------------------------------------------------------------------
(* Whose list a writer writes. *)

\* The list a writer holds is its target's, and the seeding's is the default one.
TargetsHeld ==
    \A e \in Editors :
        /\ doing[e] \in {"rates", "seedRates"} =>
              listId[e] \in DOMAIN lists /\ lists[listId[e]].account = target[e]
        /\ doing[e] \in {"new", "seed", "seedRates"} => target[e] = NoName

\* What one step of a writer leaves of the table: accounts stay, and only lists of
\* its target change or come.
WritesOwn(e) ==
    /\ DOMAIN lists \subseteq DOMAIN lists'
    /\ \A id \in DOMAIN lists : lists'[id].account = lists[id].account
    /\ \A id \in DOMAIN lists' : lists'[id].account = target[e] \/ (id \in DOMAIN lists /\ lists'[id] = lists[id])

LEMMA AccountOfRow ==
  \A row, x : WithRates(row, x).account = row.account /\ WithCurrency(row, x).account = row.account
  BY DEF WithRates, WithCurrency

\* A row of the target's is replaced by another of its account's.
LEMMA OwnRowReplaced ==
  ASSUME PriceTypeOK, NEW e \in Editors, NEW id \in DOMAIN lists, NEW row,
         row.account = lists[id].account, lists[id].account = target[e],
         lists' = [lists EXCEPT ![id] = row]
  PROVE  WritesOwn(e) /\ DOMAIN lists' = DOMAIN lists /\ lists'[id].account = target[e]
<1>1. DOMAIN lists' = DOMAIN lists /\ lists'[id] = row
      /\ \A k \in DOMAIN lists : k # id => lists'[k] = lists[k]
  BY DEF PriceTypeOK
<1> QED BY <1>1 DEF WritesOwn

LEMMA OwnRowAdded ==
  ASSUME PriceTypeOK, NEW e \in Editors, NEW currency, NewList(e, target[e], currency)
  PROVE  /\ WritesOwn(e) /\ listId'[e] \in DOMAIN lists' /\ lists'[listId'[e]].account = target[e]
<1>1. lists \in Seq(Row) /\ Len(lists) \in Nat /\ DOMAIN lists = 1 .. Len(lists)
  BY DEF PriceTypeOK
<1> DEFINE row == [account |-> target[e], currency |-> currency, rates |-> EmptyRates]
<1>2. lists' = Append(lists, row) /\ row.account = target[e]
  BY DEF NewList
<1> HIDE DEF row
<1>3. /\ DOMAIN lists' = 1 .. (Len(lists) + 1)
      /\ lists'[Len(lists) + 1] = row
      /\ \A k \in DOMAIN lists : lists'[k] = lists[k]
  BY <1>1, <1>2
<1>4. listId'[e] = Len(lists) + 1
  BY DEF NewList, PriceTypeOK
<1> QED BY <1>1, <1>2, <1>3, <1>4 DEF WritesOwn

\* The other writers hold what they held.
LEMMA OthersHold ==
  ASSUME PriceTypeOK, TargetsHeld, NEW e \in Editors,
         UNCHANGED lists \/ WritesOwn(e),
         \A f \in Editors : f # e => /\ doing'[f] = doing[f] /\ listId'[f] = listId[f]
                                     /\ target'[f] = target[f],
         doing'[e] \in {"rates", "seedRates"} =>
              listId'[e] \in DOMAIN lists' /\ lists'[listId'[e]].account = target'[e],
         doing'[e] \in {"new", "seed", "seedRates"} => target'[e] = NoName
  PROVE  TargetsHeld'
<1> SUFFICES ASSUME NEW f \in Editors
             PROVE  /\ doing'[f] \in {"rates", "seedRates"} =>
                          listId'[f] \in DOMAIN lists' /\ lists'[listId'[f]].account = target'[f]
                    /\ doing'[f] \in {"new", "seed", "seedRates"} => target'[f] = NoName
  BY DEF TargetsHeld
<1>1. CASE f = e
  BY <1>1
<1>2. CASE f # e
  BY <1>2 DEF TargetsHeld, WritesOwn
<1> QED BY <1>1, <1>2

\* Every statement of a writer writes a list of its target's or none, and it is
\* busy when it does.
LEMMA StepHome ==
  ASSUME PriceTypeOK, TargetsHeld, NEW e \in Editors, EditorStep(e)
  PROVE  TargetsHeld' /\ (UNCHANGED lists \/ (WritesOwn(e) /\ doing[e] \in Busy))
<1> USE DEF Busy, Statements
<1>0. doing \in [Editors -> Statements] /\ listId \in [Editors -> 0 .. Len(lists)]
      /\ target \in [Editors -> Names] /\ DOMAIN lists = 1 .. Len(lists)
  BY DEF PriceTypeOK
<1>1. ASSUME NEW n \in Names, NEW p \in Payloads, BeginPut(e, n, p)
      PROVE  TargetsHeld' /\ UNCHANGED lists
  BY <1>0, <1>1, OthersHold DEF BeginPut, Go
<1>2. ASSUME FindList(e)
      PROVE  TargetsHeld' /\ (UNCHANGED lists \/ (WritesOwn(e) /\ doing[e] \in Busy))
  <2>1. CASE UNCHANGED <<lists, listId>> /\ (Go(e, "create") \/ Go(e, "failed"))
    BY <1>0, <1>2, <2>1, OthersHold DEF FindList, Go
  <2>2. ASSUME NEW id \in DOMAIN lists, Found(target[e]) = {id},
               lists' = [lists EXCEPT ![id] = WithCurrency(@, body[e].currency)],
               listId' = [listId EXCEPT ![e] = id], Go(e, "rates")
        PROVE  TargetsHeld' /\ WritesOwn(e) /\ doing[e] \in Busy
    <3> DEFINE row == WithCurrency(lists[id], body[e].currency)
    <3>1. lists' = [lists EXCEPT ![id] = row] /\ row.account = lists[id].account
      BY <2>2, AccountOfRow
    <3>2. lists[id].account = target[e]
      BY <2>2 DEF Found
    <3> HIDE DEF row
    <3>3. WritesOwn(e) /\ DOMAIN lists' = DOMAIN lists /\ lists'[id].account = target[e]
      BY <3>1, <3>2, OwnRowReplaced
    <3>4. /\ doing'[e] = "rates" /\ listId'[e] = id /\ target' = target /\ doing[e] = "find"
          /\ \A f \in Editors : f # e => doing'[f] = doing[f] /\ listId'[f] = listId[f]
      BY <1>0, <1>2, <2>2 DEF FindList, Go
    <3> QED BY <3>3, <3>4, OthersHold
  <2> QED BY <1>2, <2>1, <2>2 DEF FindList
<1>3. ASSUME CreateList(e) \/ SeedList(e)
      PROVE  TargetsHeld' /\ WritesOwn(e) /\ doing[e] \in Busy
  <2>1. doing[e] = "seed" => target[e] = NoName
    BY DEF TargetsHeld
  <2>2. PICK currency : NewList(e, target[e], currency)
    BY <1>3, <2>1 DEF CreateList, SeedList
  <2>3. WritesOwn(e) /\ listId'[e] \in DOMAIN lists' /\ lists'[listId'[e]].account = target[e]
    BY <2>2, OwnRowAdded
  <2>4. /\ target' = target /\ doing[e] \in Busy
        /\ \A f \in Editors : f # e => doing'[f] = doing[f] /\ listId'[f] = listId[f]
        /\ doing'[e] = "seedRates" => target[e] = NoName
        /\ doing'[e] \in {"rates", "seedRates"}
    BY <1>0, <1>3, <2>1, <2>2 DEF CreateList, SeedList, NewList, Go
  <2> QED BY <2>3, <2>4, OthersHold
<1>4. ASSUME (\E r \in Resources : StoreRate(e, r)) \/ ClearOthers(e) \/ SeedRates(e)
      PROVE  TargetsHeld' /\ (UNCHANGED lists \/ (WritesOwn(e) /\ doing[e] \in Busy))
  <2>1. doing[e] \in {"rates", "seedRates"} /\ doing[e] \in Busy
    BY <1>4 DEF StoreRate, ClearOthers, SeedRates
  <2>2. listId[e] \in DOMAIN lists /\ lists[listId[e]].account = target[e]
    BY <2>1 DEF TargetsHeld
  <2>3. UNCHANGED lists \/ \E rates : lists' = [lists EXCEPT ![listId[e]] = WithRates(@, rates)]
    BY <1>4 DEF StoreRate, ClearOthers, SeedRates
  <2>4. UNCHANGED lists \/ (WritesOwn(e) /\ DOMAIN lists' = DOMAIN lists /\ lists'[listId[e]].account = target[e])
    <3>1. ASSUME NEW rates, lists' = [lists EXCEPT ![listId[e]] = WithRates(@, rates)]
          PROVE  WritesOwn(e) /\ DOMAIN lists' = DOMAIN lists /\ lists'[listId[e]].account = target[e]
      <4>1. WithRates(lists[listId[e]], rates).account = lists[listId[e]].account
        BY AccountOfRow
      <4>2. lists' = [lists EXCEPT ![listId[e]] = WithRates(lists[listId[e]], rates)]
        BY <3>1
      <4> QED BY <2>2, <4>1, <4>2, OwnRowReplaced
    <3> QED BY <2>3, <3>1
  <2>5. /\ UNCHANGED <<listId, target>>
        /\ \A f \in Editors : f # e => doing'[f] = doing[f]
        /\ doing'[e] \in {doing[e], "done", "failed"}
    BY <1>0, <1>4 DEF StoreRate, ClearOthers, SeedRates, Go
  <2>6. doing[e] \in {"new", "seed", "seedRates"} => target[e] = NoName
    BY DEF TargetsHeld
  <2> QED BY <2>1, <2>2, <2>4, <2>5, <2>6, OthersHold
<1>5. ASSUME EnsureDefault(e) \/ StopShort(e)
      PROVE  TargetsHeld' /\ UNCHANGED lists
  <2>1. doing[e] = "new" => target[e] = NoName
    BY DEF TargetsHeld
  <2> QED BY <1>0, <1>5, <2>1, OthersHold DEF EnsureDefault, StopShort, Go
<1> QED BY <1>1, <1>2, <1>3, <1>4, <1>5 DEF EditorStep

\* The lists of another account stay as they are, and so does the one read first.
LEMMA OthersStay ==
  ASSUME NEW e \in Editors, WritesOwn(e), NEW n \in Names, Fold[target[e]] # Fold[n]
  PROVE  /\ ListsOf(n)' = ListsOf(n)
         /\ \A id \in ListsOf(n) : lists'[id] = lists[id]
         /\ FirstOf(ListsOf(n))' = FirstOf(ListsOf(n))
<1>1. ListsOf(n)' = ListsOf(n) /\ \A id \in ListsOf(n) : lists'[id] = lists[id]
  BY DEF WritesOwn, ListsOf
<1> QED BY <1>1 DEF FirstOf

LEMMA ChargedTheSame ==
  ASSUME PriceTypeOK, NEW e \in Editors, WritesOwn(e), NEW n \in Spellings,
         Fold[target[e]] # Fold[n], target[e] = NoName => ListsOf(n) # {}
  PROVE  Effective(n)' = Effective(n)
<1>1. n \in Names /\ NoName \in Names /\ target[e] \in Names
  BY DEF Names, PriceTypeOK
<1>2. CASE ListsOf(n) # {}
  <2>1. ResolveTariff(n)' = ResolveTariff(n) /\ ResolveTariff(n) \subseteq ListsOf(n)
    BY <1>1, <1>2, OthersStay DEF ResolveTariff, FirstOf
  <2> QED BY <1>1, <2>1, OthersStay DEF Effective
<1>3. CASE ListsOf(n) = {}
  <2>1. Fold[target[e]] # Fold[NoName]
    BY <1>1, <1>3, PriceListsAssumption DEF Names
  <2>2. ListsOf(n)' = {}
    BY <1>1, <1>3, OthersStay
  <2>3. ResolveTariff(n)' = ResolveTariff(n) /\ ResolveTariff(n) \subseteq ListsOf(NoName)
    BY <1>1, <1>3, <2>1, <2>2, OthersStay DEF ResolveTariff, FirstOf
  <2> QED BY <1>1, <2>1, <2>3, OthersStay DEF Effective
<1> QED BY <1>2, <1>3

LEMMA TargetsHeldInit == PriceInit => TargetsHeld
  BY DEF PriceInit, TargetsHeld

LEMMA TargetsHeldStep == PriceTypeOK /\ TargetsHeld /\ [PriceNext]_priceVars => TargetsHeld'
<1> SUFFICES ASSUME PriceTypeOK, TargetsHeld, [PriceNext]_priceVars PROVE TargetsHeld'
  OBVIOUS
<1>1. CASE PriceNext
  BY <1>1, StepHome DEF PriceNext
<1>2. CASE UNCHANGED priceVars
  BY <1>2 DEF priceVars, writerVars, TargetsHeld
<1> QED BY <1>1, <1>2

\* An edit changes what an account is charged by only through that account's own
\* list or, if it has none, the shared default (AdminTariffView, resolve_tariff).
THEOREM EditsStayHomeCorrect == PriceSpec => EditsStayHome
<1> DEFINE Home(n) ==
       \E e \in Editors :
          /\ doing[e] \in Busy
          /\ \/ Fold[target[e]] = Fold[n]
             \/ target[e] = NoName /\ ListsOf(n) = {}
<1>1. ASSUME PriceTypeOK, TargetsHeld, [PriceNext]_priceVars, NEW n \in Spellings,
             Effective(n)' # Effective(n)
      PROVE  Home(n)
  <2>1. CASE UNCHANGED lists
    <3>1. Effective(n)' = Effective(n)
      BY <2>1 DEF Effective, ResolveTariff, FirstOf, ListsOf
    <3> QED BY <1>1, <3>1
  <2>2. ASSUME NEW e \in Editors, EditorStep(e), lists' # lists
        PROVE  Home(n)
    <3>1. WritesOwn(e) /\ doing[e] \in Busy
      BY <1>1, <2>2, StepHome
    <3> QED BY <1>1, <3>1, ChargedTheSame
  <2> QED BY <1>1, <2>1, <2>2 DEF PriceNext, priceVars
<1>2. PriceTypeOK /\ TargetsHeld /\ [PriceNext]_priceVars =>
        [\A n \in Spellings : Effective(n)' # Effective(n) =>
            \E e \in Editors :
               /\ doing[e] \in Busy
               /\ \/ Fold[target[e]] = Fold[n]
                  \/ target[e] = NoName /\ ListsOf(n) = {}]_priceVars
  BY <1>1
<1>3. PriceSpec => []TargetsHeld
  BY TargetsHeldInit, TargetsHeldStep, PriceTypeCorrect, PTL DEF PriceSpec
<1> QED BY <1>2, <1>3, PriceTypeCorrect, PTL DEF PriceSpec, EditsStayHome

-----------------------------------------------------------------------------
(* The two readers. *)

\* An account with at most one list is priced by it in the overview and on its
\* documents, and one with none by the default on both (_Tariffs, resolve_tariff).
THEOREM OverviewCorrect == PriceSpec => []OverviewPricesAlike
<1>1. ASSUME PriceTypeOK, NEW n \in Names, n # NoName, Cardinality(ListsOf(n)) <= 1
      PROVE  OverviewTariff(n) = ResolveTariff(n)
  <2>1. IsFiniteSet(ListsOf(n))
    <3>1. ListsOf(n) \subseteq 1 .. Len(lists) /\ Len(lists) \in Nat
      BY DEF ListsOf, PriceTypeOK
    <3>2. IsFiniteSet(1 .. Len(lists))
      BY <3>1, FS_Interval
    <3> QED BY <3>1, <3>2, FS_Subset
  <2>2. CASE ListsOf(n) = {}
    BY <1>1, <2>2 DEF OverviewTariff, ResolveTariff
  <2>3. CASE ListsOf(n) # {}
    <3>1. Cardinality(ListsOf(n)) \in Nat /\ Cardinality(ListsOf(n)) # 0
      BY <2>1, <2>3, FS_EmptySet, FS_CardinalityType
    <3>2. Cardinality(ListsOf(n)) = 1
      BY <1>1, <3>1
    <3>3. PICK id : ListsOf(n) = {id}
      BY <2>1, <3>2, FS_Singleton
    <3>4. Collate[lists[id].account] <= Collate[lists[id].account]
      <4>1. id \in 1 .. Len(lists)
        BY <3>3 DEF ListsOf, PriceTypeOK
      <4>2. lists[id].account \in Names
        <5>1. lists[id] \in Row
          BY <1>1, <4>1, RowType
        <5> QED BY <5>1 DEF Row
      <4> QED BY <4>2, PriceListsAssumption
    <3> QED BY <1>1, <3>3, <3>4 DEF OverviewTariff, ResolveTariff, FirstOf
  <2> QED BY <2>2, <2>3
<1>2. PriceTypeOK => OverviewPricesAlike
  BY <1>1 DEF OverviewPricesAlike
<1> QED BY <1>2, PriceTypeCorrect, PTL

(***************************************************************************)
(* Invoices.                                                               *)
(***************************************************************************)

-----------------------------------------------------------------------------
(* Types. *)

LEMMA EmptyDraftType == EmptyDraft \in Draft
  BY EmptyRatesType, PriceListsAssumption DEF EmptyDraft, Draft, Requisites

LEMMA DraftFields ==
  ASSUME NEW d \in Draft
  PROVE  /\ d.rates \in Rates /\ d.currency \in Currencies
         /\ d.buyer \in Requisites /\ d.measured \in BOOLEAN /\ d.held \subseteq Resources
  BY DEF Draft

LEMMA KeyFields ==
  ASSUME NEW k \in Key
  PROVE  k.account \in Names /\ k.domain \in Domains \cup {NoDomain} /\ k.period \in Months
  BY DEF Key

LEMMA BuyerType ==
  ASSUME TypeOK, NEW n, NEW b \in BuyerOf(n)
  PROVE  b \in Requisites
  BY DEF BuyerOf, TypeOK, Requisites

\* Only priced resources carry a price, and a price is a number.
LEMMA PriceOnDocument ==
  ASSUME NEW d \in Draft, NEW r \in Resources
  PROVE  (IF r \in Billable(d) THEN d.rates[r] ELSE 0) \in Nat
<1>1. d.rates[r] \in Nat \cup {NoRate}
  BY DraftFields DEF Rates
<1> QED BY <1>1 DEF Billable, PricedIn

LEMMA NewDocumentType ==
  ASSUME TypeOK, NEW i \in Requests, at[i] = "insert"
  PROVE  NewDocument(i) \in Document /\ NewDocument(i) # NoDocument
<1>1. wanted[i] \in Key /\ draft[i] \in Draft /\ seq[i] \in Nat \ {0}
  BY DEF TypeOK
<1>2. [r \in Resources |-> IF r \in Billable(draft[i]) THEN draft[i].rates[r] ELSE 0]
        \in [Resources -> Nat]
  BY <1>1, PriceOnDocument
<1>3. YearOf[wanted[i].period] \in Years
  BY <1>1, KeyFields DEF Years
<1>4. NewDocument(i) \in Document
  BY <1>1, <1>2, <1>3, KeyFields, DraftFields DEF NewDocument, Document
<1> QED BY <1>4, InvoicingAssumption

LEMMA TypeInit == Init => TypeOK
<1> SUFFICES ASSUME Init PROVE TypeOK
  OBVIOUS
<1>1. PriceTypeOK
  BY PriceInitType DEF Init
<1> QED BY <1>1, EmptyDraftType, InvoicingAssumption DEF Init, TypeOK, Stages, Replies

\* Tables only grow under the price-list writers.
LEMMA ListsGrow ==
  ASSUME PriceTypeOK, PriceNext
  PROVE  Len(lists') \in Nat /\ Len(lists) \in Nat /\ Len(lists) <= Len(lists')
<1>1. PICK e \in Editors : EditorStep(e)
  BY DEF PriceNext
<1>2. lists \in Seq(Row) /\ Len(lists) \in Nat
  BY DEF PriceTypeOK
<1>3. \A id, row : Len([lists EXCEPT ![id] = row]) = Len(lists)
  BY <1>2
<1>4. ASSUME NEW account, NEW currency, NewList(e, account, currency)
      PROVE  Len(lists') = Len(lists) + 1
  BY <1>2, <1>4 DEF NewList
<1>5. \/ UNCHANGED lists
      \/ \E id, row : lists' = [lists EXCEPT ![id] = row]
      \/ \E account, currency : NewList(e, account, currency)
  <2>1. CASE FindList(e)
    BY <2>1 DEF FindList
  <2>2. CASE CreateList(e) \/ SeedList(e)
    BY <2>2 DEF CreateList, SeedList
  <2>3. ASSUME NEW r \in Resources, StoreRate(e, r)
        PROVE  \E id, row : lists' = [lists EXCEPT ![id] = row]
    BY <2>3 DEF StoreRate
  <2>4. CASE ClearOthers(e)
    BY <2>4 DEF ClearOthers
  <2>5. CASE SeedRates(e)
    BY <2>5 DEF SeedRates
  <2>6. CASE \/ \E n \in Names, p \in Payloads : BeginPut(e, n, p)
             \/ EnsureDefault(e) \/ StopShort(e)
    BY <2>6 DEF BeginPut, EnsureDefault, StopShort
  <2> QED BY <1>1, <2>1, <2>2, <2>3, <2>4, <2>5, <2>6 DEF EditorStep
<1> QED BY <1>2, <1>3, <1>4, <1>5

LEMMA DisturbType ==
  ASSUME Disturb PROVE disturbed' \in [Requests -> BOOLEAN]
  BY DEF Disturb

LEMMA EnvironmentType ==
  ASSUME TypeOK, Environment
  PROVE  TypeOK'
<1>1. CASE EditPrices
  <2>1. PriceTypeOK'
    BY <1>1, PriceStepType DEF EditPrices, TypeOK
  <2>2. Len(lists') \in Nat /\ Len(lists) \in Nat /\ Len(lists) <= Len(lists')
    BY <1>1, ListsGrow DEF EditPrices, TypeOK
  <2>3. UNCHANGED <<at, wanted, draft, tries, seq, pending>>
    BY <1>1 DEF EditPrices, requestVars, tableVars
  <2>4. \A i \in Requests : at'[i] = "rates" => draft'[i].list \in 1 .. Len(lists')
    BY <2>2, <2>3 DEF TypeOK
  <2> QED BY <1>1, <2>1, <2>3, <2>4, DisturbType
          DEF EditPrices, TypeOK, sourceVars, requestVars, tableVars
<1>2. CASE PutRequisites
  <2>1. changes' \in 0 .. MaxChanges
    BY <1>2, InvoicingAssumption DEF PutRequisites, Change, TypeOK
  <2>2. profiles' \in [Spellings -> Requisites]
    BY <1>2, InvoicingAssumption DEF PutRequisites, TypeOK
  <2>3. PriceTypeOK'
    BY <1>2 DEF PutRequisites, TypeOK, PriceTypeOK, priceVars, writerVars
  <2> QED BY <1>2, <2>1, <2>2, <2>3, DisturbType
          DEF PutRequisites, TypeOK, requestVars, tableVars, priceVars
<1>3. ASSUME NEW d \in Domains, Capture(d) PROVE TypeOK'
  <2>1. changes' \in 0 .. MaxChanges
    BY <1>3, InvoicingAssumption DEF Capture, Change, TypeOK
  <2>2. usage' \subseteq Measurement
    <3>1. PICK held \in HeldShapes, known \in BOOLEAN :
            LET row == [project |-> d, month |-> today, held |-> held,
                        account |-> IF known THEN names[d] ELSE NoName,
                        domain |-> IF known THEN d ELSE NoDomain]
                rerun == {r \in usage : r.project = d /\ r.month = today}
            IN \/ usage' = usage \cup {row}
               \/ \E old \in rerun : usage' = (usage \ {old}) \cup {row}
      BY <1>3 DEF Capture
    <3>2. [project |-> d, month |-> today, held |-> held,
           account |-> IF known THEN names[d] ELSE NoName,
           domain |-> IF known THEN d ELSE NoDomain] \in Measurement
      BY InvoicingAssumption DEF TypeOK, Measurement, Names
    <3> QED BY <3>1, <3>2 DEF TypeOK
  <2>3. PriceTypeOK'
    BY <1>3 DEF Capture, TypeOK, PriceTypeOK, priceVars, writerVars
  <2>4. UNCHANGED <<lists, profiles, names, today, requestVars, tableVars>> /\ Disturb
    BY <1>3 DEF Capture, priceVars
  <2> QED BY <2>1, <2>2, <2>3, <2>4, DisturbType DEF TypeOK, requestVars, tableVars
<1>4. ASSUME NEW d \in Domains, Rename(d) PROVE TypeOK'
  <2>1. changes' \in 0 .. MaxChanges
    BY <1>4, InvoicingAssumption DEF Rename, Change, TypeOK
  <2>2. names' \in [Domains -> Spellings]
    <3>1. PICK n \in NamesOf[d] : names' = [names EXCEPT ![d] = n]
      BY <1>4 DEF Rename
    <3>2. n \in Spellings
      BY InvoicingAssumption
    <3> QED BY <3>1, <3>2 DEF TypeOK
  <2>3. PriceTypeOK'
    BY <1>4 DEF Rename, TypeOK, PriceTypeOK, priceVars, writerVars
  <2> QED BY <1>4, <2>1, <2>2, <2>3 DEF Rename, TypeOK, requestVars, tableVars, priceVars
<1>5. CASE TurnMonth
  <2>1. changes' \in 0 .. MaxChanges
    BY <1>5, InvoicingAssumption DEF TurnMonth, Change, TypeOK
  <2>3. PriceTypeOK'
    BY <1>5 DEF TurnMonth, TypeOK, PriceTypeOK, priceVars, writerVars
  <2> QED BY <1>5, <2>1, <2>3 DEF TurnMonth, TypeOK, requestVars, tableVars, priceVars
<1> QED BY <1>1, <1>2, <1>3, <1>4, <1>5 DEF Environment

\* A request's step leaves everybody else's tables alone; what is left to show
\* is the types of what it changed.
RequestTypeOK ==
    /\ at \in [Requests -> Stages]
    /\ phase \in [Requests -> {"check", "issue"}]
    /\ wanted \in [Requests -> Key \cup {NoDocument}]
    /\ draft \in [Requests -> Draft]
    /\ tries \in [Requests -> 0 .. Attempts]
    /\ seq \in [Requests -> Nat]
    /\ reply \in [Requests -> Replies]
    /\ answer \in [Requests -> Document \cup {NoDocument}]
    /\ seen \in [Requests -> SUBSET Document]
    /\ issued \subseteq Document
    /\ pending \in [Requests -> Document \cup {NoDocument}]

StageTypeOK(i) ==
    /\ at[i] # "new" => wanted[i] \in Key
    /\ at[i] = "rates" => draft[i].list \in 1 .. Len(lists)
    /\ at[i] # "done" => tries[i] < Attempts
    /\ at[i] = "insert" => seq[i] # 0
    /\ at[i] = "commit" <=> pending[i] # NoDocument

LEMMA RequestStepType ==
  ASSUME TypeOK, NEW i \in Requests, UNCHANGED <<priceVars, sourceVars, disturbed>>,
         RequestTypeOK', StageTypeOK(i)',
         \A j \in Requests \ {i} :
            /\ at'[j] = at[j] /\ wanted'[j] = wanted[j] /\ draft'[j] = draft[j]
            /\ tries'[j] = tries[j] /\ seq'[j] = seq[j] /\ pending'[j] = pending[j]
  PROVE  TypeOK'
<1>1. PriceTypeOK' /\ Len(lists') = Len(lists)
  BY DEF TypeOK, PriceTypeOK, priceVars, writerVars
<1>2. \A j \in Requests : StageTypeOK(j)'
  <2> SUFFICES ASSUME NEW j \in Requests \ {i} PROVE StageTypeOK(j)'
    OBVIOUS
  <2>1. StageTypeOK(j)
    BY DEF TypeOK, StageTypeOK
  <2> QED BY <1>1, <2>1 DEF StageTypeOK
<1> QED BY <1>1, <1>2 DEF TypeOK, RequestTypeOK, StageTypeOK, sourceVars

\* A request that arrives holds the key of an account and a month, or is refused.
LEMMA ArriveType ==
  ASSUME TypeOK, NEW i \in Requests, Arrive(i)
  PROVE  TypeOK'
<1>1. ASSUME NEW account \in Names, NEW domain \in Domains \cup {NoDomain}, NEW m \in Months,
             Accept(i, account, domain, m)
      PROVE  TypeOK'
  <2>1. [account |-> account, domain |-> domain, period |-> m] \in Key
    BY DEF Key
  <2>2. RequestTypeOK'
    BY <1>1, <2>1 DEF Accept, RequestTypeOK, TypeOK, Stages, Replies, tableVars
  <2>3. StageTypeOK(i)'
    BY <1>1, <2>1 DEF Accept, StageTypeOK, TypeOK, tableVars
  <2> QED BY <1>1, <2>2, <2>3, RequestStepType DEF Accept, TypeOK, tableVars
<1>2. CASE CabinetPost(i)
  <2>1. PICK d \in Domains, m \in Months : \E n \in NamesOf[d] : Accept(i, n, d, m)
    BY <1>2 DEF CabinetPost
  <2>2. \A n \in NamesOf[d] : n \in Names
    BY InvoicingAssumption DEF Names
  <2> QED BY <1>1, <2>1, <2>2
<1>3. CASE OperatorPost(i)
  <2>1. \E typed \in Spellings, m \in Months :
           \/ \E r \in usage : Accept(i, r.account, r.domain, m)
           \/ Accept(i, typed, NoDomain, m)
    BY <1>3 DEF OperatorPost
  <2>2. \A r \in usage : r.account \in Names /\ r.domain \in Domains \cup {NoDomain}
    BY DEF TypeOK, Measurement
  <2> QED BY <1>1, <2>1, <2>2 DEF Names
<1> QED BY <1>2, <1>3 DEF Arrive

LEMMA ReadTariffType ==
  ASSUME TypeOK, NEW i \in Requests, ReadTariff(i)
  PROVE  TypeOK'
<1>1. CASE UNCHANGED draft /\ Proceed(i, "usage")
  <2>1. RequestTypeOK'
    BY <1>1 DEF ReadTariff, Proceed, RequestTypeOK, TypeOK, Stages, tableVars
  <2>2. StageTypeOK(i)'
    BY <1>1 DEF ReadTariff, Proceed, StageTypeOK, TypeOK, tableVars
  <2> QED BY <1>1, <2>1, <2>2, RequestStepType DEF ReadTariff, Proceed, TypeOK, tableVars
<1>2. ASSUME NEW id \in ResolveTariff(wanted[i].account),
             draft' = [draft EXCEPT ![i].list = id, ![i].currency = lists[id].currency],
             Proceed(i, "rates")
      PROVE  TypeOK'
  <2>1. id \in 1 .. Len(lists) /\ lists[id].currency \in Currencies /\ id \in Nat
    <3>1. id \in DOMAIN lists /\ lists \in Seq(Row)
      BY DEF ResolveTariff, FirstOf, ListsOf, TypeOK, PriceTypeOK
    <3>2. id \in 1 .. Len(lists) /\ id \in Nat
      BY <3>1
    <3> QED BY <3>1, <3>2, ElementOfSeq, RowFields
  <2>2. draft[i] \in Draft
    BY DEF TypeOK
  <2>3. [draft[i] EXCEPT !.list = id, !.currency = lists[id].currency] \in Draft
    BY <2>1, <2>2 DEF Draft
  <2>4. draft' = [draft EXCEPT ![i] =
                    [draft[i] EXCEPT !.list = id, !.currency = lists[id].currency]]
    BY <1>2
  <2>5. draft' \in [Requests -> Draft]
    BY <2>3, <2>4 DEF TypeOK
  <2>6. draft'[i].list = id
    BY <1>2, <2>2 DEF TypeOK, Draft
  <2>7. RequestTypeOK'
    BY <1>2, <2>5 DEF ReadTariff, Proceed, RequestTypeOK, TypeOK, Stages, tableVars
  <2>8. StageTypeOK(i)'
    BY <1>2, <2>1, <2>6 DEF ReadTariff, Proceed, StageTypeOK, TypeOK, tableVars, priceVars
  <2> QED BY <1>2, <2>7, <2>8, RequestStepType DEF ReadTariff, Proceed, TypeOK, tableVars
<1> QED BY <1>1, <1>2 DEF ReadTariff

LEMMA ReadRatesType ==
  ASSUME TypeOK, NEW i \in Requests, ReadRates(i)
  PROVE  TypeOK'
<1>1. draft[i] \in Draft /\ lists[draft[i].list].rates \in Rates
  <2>1. draft[i].list \in 1 .. Len(lists) /\ draft[i] \in Draft
    BY DEF ReadRates, TypeOK
  <2> QED BY <2>1, RowType, RowFields DEF TypeOK
<1>2. [draft[i] EXCEPT !.rates = lists[draft[i].list].rates] \in Draft
  BY <1>1 DEF Draft
<1>3. draft' \in [Requests -> Draft]
  BY <1>2 DEF ReadRates, TypeOK
<1>4. RequestTypeOK'
  BY <1>3 DEF ReadRates, Proceed, RequestTypeOK, TypeOK, Stages, tableVars
<1>5. StageTypeOK(i)'
  BY DEF ReadRates, Proceed, StageTypeOK, TypeOK, tableVars
<1> QED BY <1>4, <1>5, RequestStepType DEF ReadRates, Proceed, TypeOK, tableVars

LEMMA ReadUsageType ==
  ASSUME TypeOK, NEW i \in Requests, ReadUsage(i)
  PROVE  TypeOK'
<1> DEFINE rows == {r \in usage : r.domain = wanted[i].domain /\ r.month = wanted[i].period}
           held == UNION {r.held : r \in rows}
<1>1. held \subseteq Resources
  BY DEF TypeOK, Measurement
<1>2. draft[i] \in Draft
  BY DEF TypeOK
<1>3. draft' = [draft EXCEPT ![i] = [draft[i] EXCEPT !.measured = (rows # {}), !.held = held]]
  BY DEF ReadUsage
<1> HIDE DEF held
<1>4. (rows # {}) \in BOOLEAN
  OBVIOUS
<1>5. \A b \in BOOLEAN : [draft[i] EXCEPT !.measured = b, !.held = held] \in Draft
  BY <1>1, <1>2 DEF Draft
<1>6. [draft[i] EXCEPT !.measured = (rows # {}), !.held = held] \in Draft
  BY <1>4, <1>5, Zenon
<1>7. draft' \in [Requests -> Draft]
  BY <1>3, <1>6 DEF TypeOK
<1>8. RequestTypeOK'
  BY <1>7 DEF ReadUsage, Proceed, RequestTypeOK, TypeOK, Stages, tableVars
<1>9. StageTypeOK(i)'
  BY DEF ReadUsage, Proceed, StageTypeOK, TypeOK, tableVars
<1> QED BY <1>8, <1>9, RequestStepType DEF ReadUsage, Proceed, TypeOK, tableVars

LEMMA ReadBuyerType ==
  ASSUME TypeOK, NEW i \in Requests, ReadBuyer(i)
  PROVE  TypeOK'
<1>1. PICK b \in BuyerOf(wanted[i].account) :
        \/ /\ draft' = [draft EXCEPT ![i] = EmptyDraft]
           /\ \/ Proceed(i, "lookup") /\ UNCHANGED reply
              \/ Proceed(i, "done") /\ reply' = [reply EXCEPT ![i] = "refused"]
        \/ /\ draft' = [draft EXCEPT ![i] = [draft[i] EXCEPT !.buyer = b]]
           /\ Proceed(i, "number")
           /\ UNCHANGED reply
  BY DEF ReadBuyer
<1>2. b \in Requisites /\ draft[i] \in Draft
  BY BuyerType DEF TypeOK
<1>3. [draft[i] EXCEPT !.buyer = b] \in Draft
  BY <1>2 DEF Draft
<1>4. draft' \in [Requests -> Draft]
  BY <1>1, <1>3, EmptyDraftType DEF TypeOK
<1>5. \E stage \in {"lookup", "done", "number"} : Proceed(i, stage)
  BY <1>1
<1>6. reply' \in [Requests -> Replies]
  BY <1>1 DEF TypeOK, Replies
<1>7. RequestTypeOK'
  BY <1>4, <1>5, <1>6 DEF ReadBuyer, Proceed, RequestTypeOK, TypeOK, Stages, tableVars
<1>8. StageTypeOK(i)'
  BY <1>5 DEF ReadBuyer, Proceed, StageTypeOK, TypeOK, tableVars
<1> QED BY <1>1, <1>7, <1>8, RequestStepType DEF ReadBuyer, Proceed, TypeOK, tableVars

LEMMA LookUpType ==
  ASSUME TypeOK, NEW i \in Requests, LookUp(i)
  PROVE  TypeOK'
<1>1. \/ Proceed(i, "tariff") /\ UNCHANGED <<reply, answer>>
      \/ \E d \in issued : /\ Proceed(i, "report")
                           /\ reply' = [reply EXCEPT ![i] = "existing"]
                           /\ answer' = [answer EXCEPT ![i] = d]
  BY DEF LookUp, Existing
<1>2. RequestTypeOK'
  <2>1. answer' \in [Requests -> Document \cup {NoDocument}]
    BY <1>1 DEF TypeOK
  <2>2. at' \in [Requests -> Stages] /\ reply' \in [Requests -> Replies]
    BY <1>1 DEF Proceed, TypeOK, Stages, Replies
  <2>3. seen' \in [Requests -> SUBSET Document]
    BY DEF LookUp, TypeOK
  <2> QED BY <2>1, <2>2, <2>3 DEF LookUp, RequestTypeOK, TypeOK, tableVars
<1>3. StageTypeOK(i)'
  BY <1>1 DEF LookUp, Proceed, StageTypeOK, TypeOK, tableVars
<1> QED BY <1>1, <1>2, <1>3, RequestStepType DEF LookUp, Proceed, TypeOK, tableVars

\* The number read is one past a committed one, or 1.
LEMMA ReadNumberType ==
  ASSUME TypeOK, NEW i \in Requests, ReadNumber(i)
  PROVE  TypeOK'
<1>1. PICK n \in {0} \cup {d.seq : d \in {e \in issued : e.year = YearOf[wanted[i].period]}} :
        seq' = [seq EXCEPT ![i] = n + 1]
  BY DEF ReadNumber, NumbersTaken
<1>2. n \in Nat
  <2>1. \A d \in issued : d.seq \in Nat
    BY DEF TypeOK, Document
  <2> QED BY <2>1
<1>3. RequestTypeOK'
  BY <1>1, <1>2 DEF ReadNumber, Proceed, RequestTypeOK, TypeOK, Stages, tableVars
<1>4. StageTypeOK(i)'
  BY <1>1, <1>2 DEF ReadNumber, Proceed, StageTypeOK, TypeOK, tableVars
<1> QED BY <1>1, <1>3, <1>4, RequestStepType DEF ReadNumber, Proceed, TypeOK, tableVars

LEMMA InsertType ==
  ASSUME TypeOK, NEW i \in Requests, Insert(i)
  PROVE  TypeOK'
<1> DEFINE row == NewDocument(i)
<1>1. row \in Document /\ row # NoDocument
  BY NewDocumentType DEF Insert
<1>2. tries[i] \in Nat /\ tries[i] < Attempts /\ Attempts \in Nat
  BY InvoicingAssumption DEF Insert, TypeOK
<1>3. \/ /\ pending' = [pending EXCEPT ![i] = row]
         /\ Proceed(i, "commit")
         /\ UNCHANGED <<tries, reply, draft>>
      \/ /\ tries' = [tries EXCEPT ![i] = @ + 1]
         /\ tries[i] + 1 < Attempts
         /\ Proceed(i, "number")
         /\ UNCHANGED <<reply, draft, pending>>
      \/ /\ tries' = [tries EXCEPT ![i] = @ + 1]
         /\ Proceed(i, "done")
         /\ reply' = [reply EXCEPT ![i] = "clash"]
         /\ draft' = [draft EXCEPT ![i] = EmptyDraft]
         /\ UNCHANGED pending
  BY DEF Insert, Claim, Clash, TriesLeft
<1> HIDE DEF row
<1>4. UNCHANGED <<priceVars, sourceVars, phase, wanted, seq, answer, seen, issued, disturbed>>
  BY DEF Insert, Claim, Clash
<1>5. at[i] = "insert"
  BY DEF Insert
<1>6. RequestTypeOK'
  <2>1. tries' \in [Requests -> 0 .. Attempts]
    BY <1>2, <1>3 DEF TypeOK
  <2>2. draft' \in [Requests -> Draft]
    BY <1>3, EmptyDraftType DEF TypeOK
  <2>3. pending' \in [Requests -> Document \cup {NoDocument}]
    BY <1>1, <1>3 DEF TypeOK
  <2>4. at' \in [Requests -> Stages] /\ reply' \in [Requests -> Replies]
    BY <1>3 DEF Proceed, TypeOK, Stages, Replies
  <2> QED BY <1>4, <2>1, <2>2, <2>3, <2>4 DEF RequestTypeOK, TypeOK
<1>7. StageTypeOK(i)'
  BY <1>1, <1>2, <1>3, <1>4, <1>5 DEF Proceed, StageTypeOK, TypeOK
<1> QED BY <1>3, <1>4, <1>6, <1>7, RequestStepType DEF Proceed, TypeOK

LEMMA CommitType ==
  ASSUME TypeOK, NEW i \in Requests, Commit(i)
  PROVE  TypeOK'
<1>1. pending[i] \in Document
  BY DEF Commit, TypeOK
<1>2. RequestTypeOK'
  BY <1>1, EmptyDraftType DEF Commit, Proceed, RequestTypeOK, TypeOK, Stages, Replies
<1>3. StageTypeOK(i)'
  BY DEF Commit, Proceed, StageTypeOK, TypeOK
<1> QED BY <1>2, <1>3, RequestStepType DEF Commit, Proceed, TypeOK

LEMMA ReportType ==
  ASSUME TypeOK, NEW i \in Requests, Report(i)
  PROVE  TypeOK'
<1>1. RequestTypeOK'
  BY DEF Report, Proceed, RequestTypeOK, TypeOK, Stages, tableVars
<1>2. StageTypeOK(i)'
  BY DEF Report, Proceed, StageTypeOK, TypeOK, tableVars
<1> QED BY <1>1, <1>2, RequestStepType DEF Report, Proceed, TypeOK, tableVars

LEMMA FailType ==
  ASSUME TypeOK, NEW i \in Requests, Fail(i)
  PROVE  TypeOK'
<1>1. RequestTypeOK'
  BY EmptyDraftType DEF Fail, Proceed, RequestTypeOK, TypeOK, Stages, Replies
<1>2. StageTypeOK(i)'
  BY DEF Fail, Proceed, StageTypeOK, TypeOK
<1> QED BY <1>1, <1>2, RequestStepType DEF Fail, Proceed, TypeOK

LEMMA TypeStep == TypeOK /\ [Next]_vars => TypeOK'
<1> SUFFICES ASSUME TypeOK, [Next]_vars PROVE TypeOK'
  OBVIOUS
<1>1. ASSUME NEW i \in Requests, Work(i) PROVE TypeOK'
  BY <1>1, ReadTariffType, ReadRatesType, ReadUsageType, ReadBuyerType, LookUpType,
     ReadNumberType, InsertType, CommitType, ReportType DEF Work
<1>2. CASE UNCHANGED vars
  BY <1>2 DEF vars, priceVars, writerVars, sourceVars, requestVars, tableVars, TypeOK, PriceTypeOK
<1> QED BY <1>1, <1>2, ArriveType, FailType, EnvironmentType DEF Next

\* Tables, requests and what a request has read keep their types; a request
\* that is about to commit holds an inserted row, and only such a request does.
THEOREM TypeCorrect == Spec => []TypeOK
  BY TypeInit, TypeStep, PTL DEF Spec

-----------------------------------------------------------------------------
(* Numbers.  A claimed number stays claimable: everything below it has been  *)
(* committed, and nothing with that number, account or month joins the       *)
(* register before the row that claims it.                                   *)

LEMMA NumbersInit == Init => NumbersInOrder
  BY DEF Init, NumbersInOrder

\* A step that leaves the invoices alone, and every request that has claimed
\* a number as it is.
LEMMA NumbersUndisturbed ==
  ASSUME TypeOK, NumbersInOrder, UNCHANGED <<issued, pending>>,
         \A i \in Requests : at'[i] \in {"insert", "commit"} =>
            at[i] \in {"insert", "commit"} /\ wanted'[i] = wanted[i] /\ seq'[i] = seq[i],
         \A i \in Requests : at[i] = "commit" => wanted'[i] = wanted[i] /\ seq'[i] = seq[i]
  PROVE  NumbersInOrder'
<1>1. \A d \in issued : \A k \in 1 .. d.seq - 1 : \E e \in issued : e.year = d.year /\ e.seq = k
  BY DEF NumbersInOrder
<1>2. ASSUME NEW i \in Requests, at'[i] \in {"insert", "commit"}, NEW k \in 1 .. seq'[i] - 1
      PROVE  \E e \in issued : e.year = YearOf[wanted'[i].period] /\ e.seq = k
  BY <1>2 DEF NumbersInOrder
<1>3. ASSUME NEW i \in Requests, pending[i] # NoDocument
      PROVE  /\ pending[i].year = YearOf[wanted'[i].period]
             /\ pending[i].seq = seq'[i]
             /\ \A d \in issued : ~ Collide(d, pending[i])
             /\ \A j \in Requests \ {i} :
                   pending[j] # NoDocument => ~ Collide(pending[i], pending[j])
  <2>1. at[i] = "commit"
    BY <1>3 DEF TypeOK
  <2> QED BY <1>3, <2>1 DEF NumbersInOrder
<1> QED BY <1>1, <1>2, <1>3 DEF NumbersInOrder, Collide

\* The number read follows the highest committed one, below which none is
\* missing.
LEMMA ReadNumberInOrder ==
  ASSUME TypeOK, NumbersInOrder, NEW i \in Requests, ReadNumber(i)
  PROVE  NumbersInOrder'
<1> DEFINE year == YearOf[wanted[i].period]
           taken == {d.seq : d \in {e \in issued : e.year = year}}
<1>1. PICK n \in {0} \cup taken : /\ \A k \in taken : k <= n
                                  /\ seq' = [seq EXCEPT ![i] = n + 1]
  BY DEF ReadNumber, NumbersTaken
<1>2. n \in Nat /\ \A d \in issued : d.seq \in Nat
  <2>1. \A d \in issued : d.seq \in Nat
    BY DEF TypeOK, Document
  <2> QED BY <2>1
<1>3. ASSUME NEW k \in 1 .. n
      PROVE  \E e \in issued : e.year = year /\ e.seq = k
  <2>1. PICK d \in issued : d.year = year /\ d.seq = n
    BY <1>2
  <2>2. CASE k = n
    BY <2>1, <2>2
  <2>3. CASE k # n
    <3>1. k \in 1 .. d.seq - 1
      BY <1>2, <2>1, <2>3
    <3> QED BY <2>1, <3>1 DEF NumbersInOrder
  <2> QED BY <2>2, <2>3
<1>4. seq'[i] = n + 1 /\ \A j \in Requests \ {i} : seq'[j] = seq[j] /\ at'[j] = at[j]
  BY <1>1 DEF ReadNumber, Proceed, TypeOK
<1>5. UNCHANGED <<issued, pending, wanted>> /\ at[i] = "number"
  BY DEF ReadNumber, tableVars
<1>6. ASSUME NEW j \in Requests, at'[j] \in {"insert", "commit"}, NEW k \in 1 .. seq'[j] - 1
      PROVE  \E e \in issued : e.year = YearOf[wanted[j].period] /\ e.seq = k
  <2>1. CASE j = i
    <3>1. k \in 1 .. n
      BY <1>2, <1>4, <2>1
    <3> QED BY <1>3, <2>1, <3>1
  <2>2. CASE j # i
    BY <1>4, <1>6, <2>2 DEF NumbersInOrder
  <2> QED BY <2>1, <2>2
<1>7. ASSUME NEW j \in Requests, pending[j] # NoDocument
      PROVE  seq'[j] = seq[j]
  BY <1>4, <1>5, <1>7 DEF TypeOK
<1> QED BY <1>5, <1>6, <1>7 DEF NumbersInOrder, Collide

LEMMA CollideSymmetric == \A d, e : Collide(d, e) <=> Collide(e, d)
  BY DEF Collide

LEMMA InsertInOrder ==
  ASSUME TypeOK, NumbersInOrder, NEW i \in Requests, Insert(i)
  PROVE  NumbersInOrder'
<1> DEFINE row == NewDocument(i)
<1>1. /\ at[i] = "insert" /\ pending[i] = NoDocument
      /\ UNCHANGED <<issued, wanted, seq>>
  BY DEF Insert, Claim, Clash, TypeOK
<1>2. CASE /\ \A d \in issued : ~ Collide(d, row)
           /\ \A j \in Requests : pending[j] # NoDocument => ~ Collide(pending[j], row)
           /\ pending' = [pending EXCEPT ![i] = row]
           /\ Proceed(i, "commit")
  <2>1. pending'[i] = row /\ \A j \in Requests \ {i} : pending'[j] = pending[j]
    BY <1>2 DEF TypeOK
  <2>2. row.year = YearOf[wanted[i].period] /\ row.seq = seq[i]
    BY DEF NewDocument
  <2> HIDE DEF row
  <2>3. ASSUME NEW j \in Requests, at'[j] \in {"insert", "commit"}
        PROVE  at[j] \in {"insert", "commit"}
    BY <1>1, <1>2, <2>3 DEF Proceed, TypeOK
  <2>4. ASSUME NEW j \in Requests, pending'[j] # NoDocument
        PROVE  /\ pending'[j].year = YearOf[wanted[j].period]
               /\ pending'[j].seq = seq[j]
               /\ \A d \in issued : ~ Collide(d, pending'[j])
               /\ \A k \in Requests \ {j} :
                     pending'[k] # NoDocument => ~ Collide(pending'[j], pending'[k])
    <3>1. CASE j = i
      BY <1>2, <2>1, <2>2, <3>1, CollideSymmetric
    <3>2. CASE j # i
      <4>1. pending'[j] = pending[j] /\ pending[j] # NoDocument
        BY <2>1, <2>4, <3>2
      <4>2. ~ Collide(pending[j], row)
        BY <1>2, <4>1
      <4> QED BY <2>1, <4>1, <4>2 DEF NumbersInOrder
    <3> QED BY <3>1, <3>2
  <2> QED BY <1>1, <2>3, <2>4 DEF NumbersInOrder, Collide
<1>3. CASE UNCHANGED pending /\ (Proceed(i, "number") \/ Proceed(i, "done"))
  <2>1. \A j \in Requests : at'[j] \in {"insert", "commit"} => at[j] \in {"insert", "commit"}
    BY <1>3 DEF Proceed, TypeOK
  <2> QED BY <1>1, <1>3, <2>1, NumbersUndisturbed
<1> QED BY <1>2, <1>3 DEF Insert, Claim, Clash

\* Committing adds the row that everybody else's insert has kept clear of.
LEMMA CommitInOrder ==
  ASSUME TypeOK, NumbersInOrder, NEW i \in Requests, Commit(i)
  PROVE  NumbersInOrder'
<1> DEFINE row == pending[i]
<1>1. /\ at[i] = "commit" /\ row # NoDocument
      /\ issued' = issued \cup {row}
      /\ UNCHANGED <<wanted, seq>>
  BY DEF Commit, TypeOK
<1>2. \A j \in Requests \ {i} : pending'[j] = pending[j] /\ at'[j] = at[j]
  BY DEF Commit, Proceed, TypeOK
<1>3. pending'[i] = NoDocument /\ at'[i] = "report"
  BY DEF Commit, Proceed, TypeOK
<1>4. row.year = YearOf[wanted[i].period] /\ row.seq = seq[i]
  BY <1>1 DEF NumbersInOrder
<1>5. ASSUME NEW d \in issued', NEW k \in 1 .. d.seq - 1
      PROVE  \E e \in issued' : e.year = d.year /\ e.seq = k
  <2>1. CASE d \in issued
    BY <1>1, <2>1 DEF NumbersInOrder
  <2>2. CASE d = row
    BY <1>1, <1>4, <2>2 DEF NumbersInOrder
  <2> QED BY <1>1, <2>1, <2>2
<1>6. ASSUME NEW j \in Requests, at'[j] \in {"insert", "commit"}, NEW k \in 1 .. seq[j] - 1
      PROVE  \E e \in issued' : e.year = YearOf[wanted[j].period] /\ e.seq = k
  <2>1. j # i /\ at[j] \in {"insert", "commit"}
    BY <1>2, <1>3, <1>6
  <2> QED BY <1>1, <2>1 DEF NumbersInOrder
<1>7. ASSUME NEW j \in Requests, pending'[j] # NoDocument
      PROVE  /\ pending'[j].year = YearOf[wanted[j].period]
             /\ pending'[j].seq = seq[j]
             /\ \A d \in issued' : ~ Collide(d, pending'[j])
             /\ \A k \in Requests \ {j} :
                   pending'[k] # NoDocument => ~ Collide(pending'[j], pending'[k])
  <2>1. j # i /\ pending'[j] = pending[j] /\ pending[j] # NoDocument
    BY <1>2, <1>3, <1>7
  <2>2. ~ Collide(row, pending[j])
    BY <1>1, <2>1 DEF NumbersInOrder
  <2>3. \A k \in Requests : pending'[k] # NoDocument => pending'[k] = pending[k]
    BY <1>2, <1>3
  <2> QED BY <1>1, <2>1, <2>2, <2>3 DEF NumbersInOrder
<1> QED BY <1>1, <1>5, <1>6, <1>7 DEF NumbersInOrder, Collide

LEMMA FailInOrder ==
  ASSUME TypeOK, NumbersInOrder, NEW i \in Requests, Fail(i)
  PROVE  NumbersInOrder'
<1>1. UNCHANGED <<issued, wanted, seq>>
  BY DEF Fail
<1>2. \A j \in Requests : /\ pending'[j] # NoDocument => pending'[j] = pending[j]
                          /\ at'[j] \in {"insert", "commit"} => at'[j] = at[j]
  BY DEF Fail, Proceed, TypeOK
<1>3. ASSUME NEW j \in Requests, pending'[j] # NoDocument
      PROVE  /\ pending'[j].year = YearOf[wanted[j].period]
             /\ pending'[j].seq = seq[j]
             /\ \A d \in issued : ~ Collide(d, pending'[j])
             /\ \A k \in Requests \ {j} :
                   pending'[k] # NoDocument => ~ Collide(pending'[j], pending'[k])
  BY <1>2, <1>3 DEF NumbersInOrder
<1> QED BY <1>1, <1>2, <1>3 DEF NumbersInOrder, Collide

LEMMA NumbersStep == TypeOK /\ NumbersInOrder /\ [Next]_vars => NumbersInOrder'
<1> SUFFICES ASSUME TypeOK, NumbersInOrder, [Next]_vars PROVE NumbersInOrder'
  OBVIOUS
<1>1. ASSUME NEW i \in Requests, Arrive(i) PROVE NumbersInOrder'
  <2>1. PICK account, domain, m : Accept(i, account, domain, m)
    BY <1>1 DEF Arrive, CabinetPost, OperatorPost
  <2>2. /\ at[i] = "new" /\ at'[i] \in {"done", "tariff"}
        /\ UNCHANGED <<issued, pending, seq>>
        /\ \A j \in Requests \ {i} : at'[j] = at[j] /\ wanted'[j] = wanted[j]
    BY <2>1 DEF Accept, tableVars, TypeOK
  <2> QED BY <2>2, NumbersUndisturbed
<1>2. ASSUME NEW i \in Requests,
             ReadTariff(i) \/ ReadRates(i) \/ ReadUsage(i) \/ ReadBuyer(i) \/ LookUp(i) \/ Report(i)
      PROVE  NumbersInOrder'
  <2>1. /\ UNCHANGED <<issued, pending, seq, wanted>>
        /\ \E stage \in Stages \ {"insert", "commit"} : Proceed(i, stage)
    BY <1>2 DEF ReadTariff, ReadRates, ReadUsage, ReadBuyer, LookUp, Report, tableVars, Stages
  <2>2. \A j \in Requests : at'[j] \in {"insert", "commit"} => at'[j] = at[j]
    BY <2>1 DEF Proceed, TypeOK
  <2> QED BY <2>1, <2>2, NumbersUndisturbed
<1>3. CASE Environment \/ UNCHANGED vars
  <2>1. UNCHANGED <<issued, pending, at, wanted, seq>>
    BY <1>3 DEF Environment, EditPrices, PutRequisites, Capture, Rename, TurnMonth,
                requestVars, tableVars, vars
  <2> QED BY <2>1, NumbersUndisturbed
<1> QED BY <1>1, <1>2, <1>3, ReadNumberInOrder, InsertInOrder, CommitInOrder, FailInOrder
        DEF Next, Work

\* However many requests issue at once, a claimed number follows numbers that
\* are all in the register, and no two rows claim the same one (next_number,
\* issue).
THEOREM NumbersCorrect == Spec => []NumbersInOrder
  BY NumbersInit, NumbersStep, TypeCorrect, PTL DEF Spec

-----------------------------------------------------------------------------
(* Issuing implements the register. *)

\* Only a commit touches the register, and it enters the row it had inserted.
LEMMA CommitEnters ==
  ASSUME TypeOK, NumbersInOrder, NEW i \in Requests, Commit(i)
  PROVE  Register!Next
<1> DEFINE row == pending[i]
<1>1. row # NoDocument /\ issued' = issued \cup {row}
  BY DEF Commit, TypeOK
<1>2. \A d \in issued : ~ Collide(d, row)
  BY <1>1 DEF NumbersInOrder
<1>3. row \in Document /\ issued \subseteq Document
  BY <1>1 DEF TypeOK
<1>4. row.year = YearOf[wanted[i].period] /\ row.seq = seq[i] /\ at[i] = "commit"
  BY <1>1 DEF Commit, NumbersInOrder
<1>5. \A k \in 1 .. row.seq - 1 : \E e \in issued : e.year = row.year /\ e.seq = k
  BY <1>4 DEF NumbersInOrder
<1>6. ASSUME NEW d \in issued, d.year = row.year
      PROVE  d.seq < row.seq
  <2>1. d.seq \in Nat \ {0} /\ row.seq \in Nat \ {0}
    BY <1>3 DEF Document
  <2>2. d.seq # row.seq
    BY <1>2, <1>6 DEF Collide
  <2>3. ASSUME row.seq < d.seq PROVE FALSE
    <3>1. row.seq \in 1 .. d.seq - 1
      BY <2>1, <2>3
    <3>2. PICK e \in issued : e.year = d.year /\ e.seq = row.seq
      BY <3>1 DEF NumbersInOrder
    <3> QED BY <1>2, <1>6, <3>2 DEF Collide
  <2> QED BY <2>1, <2>2, <2>3
<1>7. Register!FollowsOn(row)
  BY <1>5, <1>6 DEF Register!FollowsOn, Register!InYear
<1>8. Register!FirstOfItsMonth(row)
  BY <1>2 DEF Register!FirstOfItsMonth, Collide
<1> QED BY <1>1, <1>7, <1>8 DEF Register!Next, Register!Enter

LEMMA RegisterStep ==
  TypeOK /\ NumbersInOrder /\ [Next]_vars => [Register!Next]_issued
<1> SUFFICES ASSUME TypeOK, NumbersInOrder, [Next]_vars
             PROVE  [Register!Next]_issued
  OBVIOUS
<1>1. ASSUME NEW i \in Requests, Arrive(i) PROVE UNCHANGED issued
  BY <1>1 DEF Arrive, CabinetPost, OperatorPost, Accept, tableVars
<1>2. ASSUME NEW i \in Requests, Work(i), ~ Commit(i) PROVE UNCHANGED issued
  BY <1>2 DEF Work, ReadTariff, ReadRates, ReadUsage, ReadBuyer, LookUp, ReadNumber,
              Insert, Claim, Clash, Report, tableVars
<1>3. ASSUME NEW i \in Requests, Fail(i) PROVE UNCHANGED issued
  BY <1>3 DEF Fail
<1>4. CASE Environment \/ UNCHANGED vars
  BY <1>4 DEF Environment, EditPrices, PutRequisites, Capture, Rename, TurnMonth, tableVars, vars
<1> QED BY <1>1, <1>2, <1>3, <1>4, CommitEnters DEF Next

\* The database and the requests together implement the register: documents
\* are only added, numbered without a gap, one per account name and month.
THEOREM ImplementsRegister == Spec => KeepsTheRegister
<1>1. Init => Register!Init
  BY DEF Init, Register!Init
<1> QED BY <1>1, RegisterStep, TypeCorrect, NumbersCorrect, PTL
        DEF Spec, KeepsTheRegister, Register!Spec

-----------------------------------------------------------------------------
(* Issuing again. *)

\* Past the look-up, a request goes on only for a month nobody it could see
\* had issued, and what it stores is for that month.
StillFresh(i) ==
    /\ phase[i] = "issue" /\ at[i] \notin {"report", "done"} =>
          \A d \in seen[i] : ~ SameMonth(d, wanted[i].account, wanted[i].period)
    /\ at[i] \in {"number", "insert", "commit"} => phase[i] = "issue"
    /\ at[i] \in {"new", "lookup"} => phase[i] = "check"
    /\ pending[i] # NoDocument =>
          pending[i].account = wanted[i].account /\ pending[i].period = wanted[i].period
    /\ reply[i] = "issued" =>
          \A d \in seen[i] : ~ SameMonth(d, answer[i].account, answer[i].period)
    /\ reply[i] = "issued" => at[i] \in {"report", "done"}

\* Nobody else's step touches what a request has read, stored or answered.
Untouched(j) ==
    /\ phase'[j] = phase[j] /\ at'[j] = at[j] /\ seen'[j] = seen[j]
    /\ wanted'[j] = wanted[j] /\ pending'[j] = pending[j]
    /\ reply'[j] = reply[j] /\ answer'[j] = answer[j]

LEMMA OthersUntouched ==
  ASSUME TypeOK, NEW i \in Requests, NEW j \in Requests \ {i}, Arrive(i) \/ Work(i) \/ Fail(i)
  PROVE  Untouched(j)
<1>1. CASE Arrive(i)
  <2>1. PICK account, domain, m : Accept(i, account, domain, m)
    BY <1>1 DEF Arrive, CabinetPost, OperatorPost
  <2> QED BY <2>1 DEF Accept, Untouched, TypeOK, tableVars
<1>2. CASE ReadTariff(i) \/ ReadRates(i) \/ ReadUsage(i) \/ ReadNumber(i) \/ Report(i)
  BY <1>2 DEF ReadTariff, ReadRates, ReadUsage, ReadNumber, Report, Proceed, Untouched,
              TypeOK, tableVars
<1>3. CASE ReadBuyer(i)
  BY <1>3 DEF ReadBuyer, Proceed, Untouched, TypeOK, tableVars
<1>4. CASE LookUp(i)
  BY <1>4 DEF LookUp, Proceed, Untouched, TypeOK, tableVars
<1>5. CASE Insert(i)
  BY <1>5 DEF Insert, Claim, Clash, Proceed, Untouched, TypeOK
<1>6. CASE Commit(i) \/ Fail(i)
  BY <1>6 DEF Commit, Fail, Proceed, Untouched, TypeOK
<1> QED BY <1>1, <1>2, <1>3, <1>4, <1>5, <1>6 DEF Work

LEMMA UntouchedStaysFresh ==
  ASSUME NEW j \in Requests, StillFresh(j), Untouched(j)
  PROVE  StillFresh(j)'
  BY DEF StillFresh, Untouched, SameMonth

LEMMA StillFreshStep ==
  ASSUME TypeOK, [Next]_vars, NEW j \in Requests, StillFresh(j)
  PROVE  StillFresh(j)'
<1>1. CASE Arrive(j)
  <2>1. PICK account, domain, m : Accept(j, account, domain, m)
    BY <1>1 DEF Arrive, CabinetPost, OperatorPost
  <2>2. at[j] = "new" /\ pending[j] = NoDocument /\ reply[j] # "issued"
    BY <2>1 DEF Accept, TypeOK, StillFresh
  <2>3. at'[j] \in {"done", "tariff"} /\ reply'[j] # "issued" /\ pending'[j] = NoDocument
    BY <2>1, <2>2 DEF Accept, TypeOK, tableVars
  <2>4. phase'[j] = "check"
    BY <2>1, <2>2 DEF Accept, StillFresh
  <2> QED BY <2>3, <2>4 DEF StillFresh
<1>2. CASE ReadTariff(j)
  <2>1. /\ at[j] = "tariff" /\ at'[j] \in {"rates", "usage"}
        /\ UNCHANGED <<phase, wanted, seen, reply, answer, pending>>
    BY <1>2 DEF ReadTariff, Proceed, TypeOK, tableVars
  <2> QED BY <2>1 DEF StillFresh, SameMonth
<1>3. CASE ReadRates(j) \/ ReadUsage(j)
  <2>1. /\ at[j] \in {"rates", "usage"} /\ at'[j] \in {"usage", "buyer"}
        /\ UNCHANGED <<phase, wanted, seen, reply, answer, pending>>
    BY <1>3 DEF ReadRates, ReadUsage, Proceed, TypeOK, tableVars
  <2> QED BY <2>1 DEF StillFresh, SameMonth
<1>4. CASE ReadBuyer(j)
  <2>1. /\ at[j] = "buyer" /\ UNCHANGED <<phase, wanted, seen, answer, pending>>
        /\ \/ at'[j] \in {"lookup", "done"} /\ phase[j] = "check"
           \/ at'[j] = "number" /\ phase[j] = "issue"
        /\ reply'[j] \in {reply[j], "refused"}
    BY <1>4 DEF ReadBuyer, Proceed, TypeOK, tableVars
  <2> QED BY <2>1 DEF StillFresh, SameMonth
<1>5. CASE LookUp(j)
  <2>1. /\ at[j] = "lookup" /\ seen'[j] = issued /\ phase'[j] = "issue"
        /\ pending[j] = NoDocument /\ reply[j] # "issued"
        /\ UNCHANGED <<wanted, pending>>
    BY <1>5 DEF LookUp, TypeOK, StillFresh, tableVars
  <2>2. \/ /\ {d \in issued : SameMonth(d, wanted[j].account, wanted[j].period)} = {}
           /\ at'[j] = "tariff" /\ reply'[j] = reply[j]
        \/ at'[j] = "report" /\ reply'[j] = "existing"
    BY <1>5 DEF LookUp, Existing, Proceed, TypeOK
  <2> QED BY <2>1, <2>2 DEF StillFresh, SameMonth
<1>6. CASE ReadNumber(j)
  <2>1. /\ at[j] = "number" /\ at'[j] = "insert"
        /\ UNCHANGED <<phase, wanted, seen, reply, answer, pending>>
    BY <1>6 DEF ReadNumber, Proceed, TypeOK, tableVars
  <2> QED BY <2>1 DEF StillFresh, SameMonth
<1>7. CASE Insert(j)
  <2>1. /\ at[j] = "insert" /\ pending[j] = NoDocument
        /\ UNCHANGED <<phase, wanted, seen, answer>>
        /\ at'[j] \in {"commit", "number", "done"}
        /\ reply'[j] \in {reply[j], "clash"}
        /\ pending'[j] \in {NewDocument(j), NoDocument}
    BY <1>7 DEF Insert, Claim, Clash, Proceed, TypeOK
  <2>2. NewDocument(j).account = wanted[j].account /\ NewDocument(j).period = wanted[j].period
    BY DEF NewDocument
  <2> QED BY <2>1, <2>2 DEF StillFresh, SameMonth
<1>8. CASE Commit(j)
  <2>1. /\ at[j] = "commit" /\ pending[j] # NoDocument
        /\ UNCHANGED <<phase, wanted, seen>>
        /\ at'[j] = "report" /\ answer'[j] = pending[j] /\ pending'[j] = NoDocument
    BY <1>8 DEF Commit, Proceed, TypeOK
  <2> QED BY <2>1 DEF StillFresh, SameMonth
<1>9. CASE Report(j) \/ Fail(j)
  <2>1. /\ at'[j] = "done" /\ at[j] # "new"
        /\ UNCHANGED <<phase, wanted, seen, answer>>
        /\ pending'[j] \in {pending[j], NoDocument} /\ reply'[j] \in {reply[j], "failed"}
    BY <1>9 DEF Report, Fail, Proceed, TypeOK, tableVars
  <2> QED BY <2>1 DEF StillFresh, SameMonth
<1>10. CASE Environment \/ UNCHANGED vars
  <2>1. Untouched(j)
    BY <1>10 DEF Environment, EditPrices, PutRequisites, Capture, Rename, TurnMonth, vars,
                 Untouched, requestVars, tableVars
  <2> QED BY <2>1, UntouchedStaysFresh
<1>11. ASSUME NEW i \in Requests, i # j, Arrive(i) \/ Work(i) \/ Fail(i)
       PROVE  StillFresh(j)'
  BY <1>11, OthersUntouched, UntouchedStaysFresh
<1> QED BY <1>1, <1>2, <1>3, <1>4, <1>5, <1>6, <1>7, <1>8, <1>9, <1>10, <1>11 DEF Next, Work

LEMMA FreshnessStep ==
  TypeOK /\ (\A i \in Requests : StillFresh(i)) /\ [Next]_vars
     => (\A i \in Requests : StillFresh(i))'
  BY StillFreshStep

\* Nobody who could see the month's document, under any spelling of the
\* account, stores another ("issuing twice returns the same document").
THEOREM ReissueCorrect == Spec => []ReissueReturnsOriginal
<1>1. Init => \A i \in Requests : StillFresh(i)
  BY DEF Init, StillFresh
<1>2. (\A i \in Requests : StillFresh(i)) => ReissueReturnsOriginal
  BY DEF StillFresh, ReissueReturnsOriginal
<1> QED BY <1>1, <1>2, FreshnessStep, TypeCorrect, PTL DEF Spec

-----------------------------------------------------------------------------
(* What the check let through is what is stored, if nothing changed. *)

\* The prices and the rows a draft of a request may read.
RatesRead(n) ==
    IF ResolveTariff(n) = {} THEN {EmptyRates} ELSE {lists[x].rates : x \in ResolveTariff(n)}
RowsRead(i) == {r \in usage : r.domain = wanted[i].domain /\ r.month = wanted[i].period}
HeldRead(i) == UNION {r.held : r \in RowsRead(i)}

\* Whatever a draft of it reads now can carry a number.
Sound(i) ==
    /\ \A b \in BuyerOf(wanted[i].account) : b = "complete"
    /\ \A rates \in RatesRead(wanted[i].account) : PricedIn(rates) \cap HeldRead(i) # {}

\* A draft under way has read what is there, and the second one reads what was
\* found good in the first.
HasRead(i) ==
    /\ at[i] = "rates" => draft[i].list \in ResolveTariff(wanted[i].account)
    /\ at[i] \in {"usage", "buyer"} => draft[i].rates \in RatesRead(wanted[i].account)
    /\ at[i] = "buyer" => draft[i].held = HeldRead(i)
    /\ at[i] = "lookup" \/ (phase[i] = "issue" /\ at[i] \in {"tariff", "rates", "usage", "buyer"})
          => Sound(i)
    /\ at[i] \in {"number", "insert", "commit"} =>
          draft[i].buyer = "complete" /\ Billable(draft[i]) # {}
    /\ at[i] = "commit" => Complete(pending[i])

Undisturbed(i) ==
    ~disturbed[i] /\ ~Ambiguous(wanted[i].account) /\ at[i] \notin {"new", "done"}

CheckedInv(i) ==
    /\ at[i] \in {"new", "tariff", "lookup"} => draft[i] = EmptyDraft
    /\ Undisturbed(i) => HasRead(i)

\* The tables a draft reads, and what a request had read, as they were.
SourcesStay == UNCHANGED <<lists, profiles, usage>>

LEMMA SourcesFacts ==
  ASSUME SourcesStay, NEW i \in Requests, wanted'[i] = wanted[i]
  PROVE  /\ BuyerOf(wanted[i].account)' = BuyerOf(wanted[i].account)
         /\ ResolveTariff(wanted[i].account)' = ResolveTariff(wanted[i].account)
         /\ RatesRead(wanted[i].account)' = RatesRead(wanted[i].account)
         /\ HeldRead(i)' = HeldRead(i)
         /\ Ambiguous(wanted[i].account)' = Ambiguous(wanted[i].account)
         /\ Sound(i)' = Sound(i)
<1>1. UNCHANGED <<lists, profiles, usage>>
  BY DEF SourcesStay
<1>2. BuyerOf(wanted[i].account)' = BuyerOf(wanted[i].account)
  BY <1>1 DEF BuyerOf
<1>3. ResolveTariff(wanted[i].account)' = ResolveTariff(wanted[i].account)
  BY <1>1 DEF ResolveTariff, FirstOf, ListsOf
<1>4. RatesRead(wanted[i].account)' = RatesRead(wanted[i].account)
  BY <1>1, <1>3 DEF RatesRead
<1>5. HeldRead(i)' = HeldRead(i)
  BY <1>1 DEF HeldRead, RowsRead
<1>6. Ambiguous(wanted[i].account)' = Ambiguous(wanted[i].account)
  BY <1>1, <1>2, <1>3 DEF Ambiguous
<1>7. Sound(i)' = Sound(i)
  BY <1>2, <1>4, <1>5 DEF Sound
<1> QED BY <1>2, <1>3, <1>4, <1>5, <1>6, <1>7

LEMMA RequestsReadOnly ==
  ASSUME NEW i \in Requests, Arrive(i) \/ Work(i) \/ Fail(i)
  PROVE  SourcesStay /\ disturbed' = disturbed
<1>1. CASE Arrive(i)
  <2>1. PICK account, domain, m : Accept(i, account, domain, m)
    BY <1>1 DEF Arrive, CabinetPost, OperatorPost
  <2> QED BY <2>1 DEF Accept, SourcesStay, priceVars, sourceVars
<1>2. CASE Work(i) \/ Fail(i)
  BY <1>2 DEF Work, ReadTariff, ReadRates, ReadUsage, ReadBuyer, LookUp, ReadNumber, Insert, Commit,
              Report, Fail, SourcesStay, priceVars, sourceVars
<1> QED BY <1>1, <1>2

LEMMA DraftsUntouched ==
  ASSUME TypeOK, NEW i \in Requests, NEW j \in Requests \ {i}, Arrive(i) \/ Work(i) \/ Fail(i)
  PROVE  draft'[j] = draft[j]
<1>1. CASE Arrive(i)
  <2>1. PICK account, domain, m : Accept(i, account, domain, m)
    BY <1>1 DEF Arrive, CabinetPost, OperatorPost
  <2> QED BY <2>1 DEF Accept
<1>2. CASE Work(i) \/ Fail(i)
  BY <1>2 DEF Work, ReadTariff, ReadRates, ReadUsage, ReadBuyer, LookUp, ReadNumber, Insert, Claim, Clash,
              Commit, Report, Fail, TypeOK
<1> QED BY <1>1, <1>2

\* A request nobody serves keeps what it had read, if its sources stay.
LEMMA CheckedStays ==
  ASSUME NEW j \in Requests, CheckedInv(j), Untouched(j), draft'[j] = draft[j],
         SourcesStay, disturbed'[j] = disturbed[j]
  PROVE  CheckedInv(j)'
<1>1. /\ at'[j] = at[j] /\ phase'[j] = phase[j] /\ wanted'[j] = wanted[j] /\ pending'[j] = pending[j]
  BY DEF Untouched
<1>2. CASE Undisturbed(j)'
  <2>1. Undisturbed(j)
    BY <1>1, <1>2, SourcesFacts DEF Undisturbed
  <2>2. HasRead(j)
    BY <2>1 DEF CheckedInv
  <2>3. HasRead(j)'
    BY <1>1, <2>2, SourcesFacts DEF HasRead, Complete, Billable
  <2> QED BY <1>1, <2>3 DEF CheckedInv, EmptyDraft
<1>3. CASE ~Undisturbed(j)'
  BY <1>1, <1>3 DEF CheckedInv, EmptyDraft
<1> QED BY <1>2, <1>3

\* What a step of the request itself has to establish.
LEMMA OwnStep ==
  ASSUME NEW i \in Requests, CheckedInv(i), SourcesStay, disturbed' = disturbed, wanted'[i] = wanted[i],
         at[i] \notin {"new", "done"},
         at'[i] \in {"tariff", "lookup"} => draft'[i] = EmptyDraft,
         at'[i] # "new",
         HasRead(i) /\ ~Ambiguous(wanted[i].account) => HasRead(i)'
  PROVE  CheckedInv(i)'
<1>1. Undisturbed(i)' => Undisturbed(i)
  BY SourcesFacts DEF Undisturbed
<1>2. Undisturbed(i)' => HasRead(i)'
  BY <1>1 DEF CheckedInv, Undisturbed
<1> QED BY <1>2 DEF CheckedInv, EmptyDraft

LEMMA ReadTariffChecked ==
  ASSUME TypeOK, NEW i \in Requests, CheckedInv(i), ReadTariff(i)
  PROVE  CheckedInv(i)'
<1>1. /\ SourcesStay /\ disturbed' = disturbed /\ at[i] = "tariff" /\ draft[i] = EmptyDraft
      /\ UNCHANGED <<wanted, phase, pending>>
  BY RequestsReadOnly DEF ReadTariff, Work, CheckedInv, tableVars
<1>2. CASE ResolveTariff(wanted[i].account) = {} /\ Proceed(i, "usage") /\ UNCHANGED draft
  <2>1. at'[i] = "usage" /\ draft'[i].rates = EmptyRates
    BY <1>1, <1>2 DEF Proceed, TypeOK, EmptyDraft
  <2>2. RatesRead(wanted[i].account) = {EmptyRates}
    BY <1>2 DEF RatesRead
  <2>3. HasRead(i) => HasRead(i)'
    BY <1>1, <2>1, <2>2, SourcesFacts DEF HasRead
  <2> QED BY <1>1, <2>1, <2>3, OwnStep
<1>3. ASSUME NEW id \in ResolveTariff(wanted[i].account),
             draft' = [draft EXCEPT ![i].list = id, ![i].currency = lists[id].currency],
             Proceed(i, "rates")
      PROVE  CheckedInv(i)'
  <2>1. at'[i] = "rates" /\ draft'[i].list = id
    BY <1>3 DEF Proceed, TypeOK, Draft
  <2>2. HasRead(i) => HasRead(i)'
    BY <1>1, <2>1, SourcesFacts DEF HasRead
  <2> QED BY <1>1, <2>1, <2>2, OwnStep
<1> QED BY <1>2, <1>3 DEF ReadTariff

LEMMA ReadRatesChecked ==
  ASSUME TypeOK, NEW i \in Requests, CheckedInv(i), ReadRates(i)
  PROVE  CheckedInv(i)'
<1>1. /\ SourcesStay /\ disturbed' = disturbed /\ at[i] = "rates"
      /\ UNCHANGED <<wanted, phase, pending>>
  BY RequestsReadOnly DEF ReadRates, Work, tableVars
<1>2. at'[i] = "usage" /\ draft'[i].rates = lists[draft[i].list].rates
  BY DEF ReadRates, Proceed, TypeOK, Draft
<1>3. draft[i].list \in ResolveTariff(wanted[i].account) =>
         lists[draft[i].list].rates \in RatesRead(wanted[i].account)
  BY DEF RatesRead
<1>4. HasRead(i) => HasRead(i)'
  BY <1>1, <1>2, <1>3, SourcesFacts DEF HasRead
<1> QED BY <1>1, <1>2, <1>4, OwnStep

LEMMA ReadUsageChecked ==
  ASSUME TypeOK, NEW i \in Requests, CheckedInv(i), ReadUsage(i)
  PROVE  CheckedInv(i)'
<1>1. /\ SourcesStay /\ disturbed' = disturbed /\ at[i] = "usage"
      /\ UNCHANGED <<wanted, phase, pending>>
  BY RequestsReadOnly DEF ReadUsage, Work, tableVars
<1>2. /\ at'[i] = "buyer" /\ draft'[i].held = HeldRead(i) /\ draft'[i].rates = draft[i].rates
  BY DEF ReadUsage, Proceed, TypeOK, Draft, HeldRead, RowsRead
<1>3. HasRead(i) => HasRead(i)'
  BY <1>1, <1>2, SourcesFacts DEF HasRead
<1> QED BY <1>1, <1>2, <1>3, OwnStep

\* What one draft found good, any other will.
LEMMA ValidIsSound ==
  ASSUME NEW i \in Requests, NEW b \in BuyerOf(wanted[i].account), ~Ambiguous(wanted[i].account),
         NEW d, d.rates \in RatesRead(wanted[i].account), d.held = HeldRead(i), d.buyer = b, Valid(d)
  PROVE  Sound(i)
<1>1. b = "complete" /\ PricedIn(d.rates) \cap HeldRead(i) # {}
  BY DEF Valid, Billable
<1>2. \A c \in BuyerOf(wanted[i].account) : c = b
  BY DEF Ambiguous
<1>3. \A rates \in RatesRead(wanted[i].account) : rates = d.rates
  BY DEF Ambiguous, RatesRead
<1> QED BY <1>1, <1>2, <1>3 DEF Sound

LEMMA ReadBuyerChecked ==
  ASSUME TypeOK, NEW i \in Requests, CheckedInv(i), ReadBuyer(i)
  PROVE  CheckedInv(i)'
<1>1. /\ SourcesStay /\ disturbed' = disturbed /\ at[i] = "buyer"
      /\ UNCHANGED <<wanted, phase, pending>>
  BY RequestsReadOnly DEF ReadBuyer, Work, tableVars
<1>2. PICK b \in BuyerOf(wanted[i].account) :
         \/ /\ phase[i] = "check" /\ draft' = [draft EXCEPT ![i] = EmptyDraft]
            /\ \/ Valid([draft[i] EXCEPT !.buyer = b]) /\ Proceed(i, "lookup")
               \/ Proceed(i, "done")
         \/ /\ phase[i] = "issue" /\ draft' = [draft EXCEPT ![i] = [draft[i] EXCEPT !.buyer = b]]
            /\ Proceed(i, "number")
  BY DEF ReadBuyer
<1> DEFINE drafted == [draft[i] EXCEPT !.buyer = b]
<1>3. drafted.buyer = b /\ drafted.rates = draft[i].rates /\ drafted.held = draft[i].held
  BY DEF TypeOK, Draft
<1>4. CASE /\ phase[i] = "check" /\ draft' = [draft EXCEPT ![i] = EmptyDraft]
           /\ Valid(drafted) /\ Proceed(i, "lookup")
  <2>1. at'[i] = "lookup" /\ draft'[i] = EmptyDraft
    BY <1>4 DEF Proceed, TypeOK
  <2> HIDE DEF drafted
  <2>2. HasRead(i) /\ ~Ambiguous(wanted[i].account) => Sound(i)
    BY <1>1, <1>3, <1>4, ValidIsSound DEF HasRead
  <2>3. HasRead(i) /\ ~Ambiguous(wanted[i].account) => HasRead(i)'
    BY <1>1, <2>1, <2>2, SourcesFacts DEF HasRead
  <2> QED BY <1>1, <2>1, <2>3, OwnStep
<1>5. CASE phase[i] = "check" /\ Proceed(i, "done")
  <2>1. at'[i] = "done"
    BY <1>5 DEF Proceed, TypeOK
  <2> QED BY <2>1 DEF CheckedInv, Undisturbed
<1>6. CASE phase[i] = "issue" /\ draft' = [draft EXCEPT ![i] = drafted] /\ Proceed(i, "number")
  <2>1. at'[i] = "number" /\ draft'[i] = drafted
    BY <1>6 DEF Proceed, TypeOK
  <2> HIDE DEF drafted
  <2>2. HasRead(i) => drafted.buyer = "complete" /\ Billable(drafted) # {}
    BY <1>1, <1>3, <1>6 DEF HasRead, Sound, Billable
  <2>3. HasRead(i) => HasRead(i)'
    BY <1>1, <2>1, <2>2 DEF HasRead, Billable, PricedIn
  <2> QED BY <1>1, <2>1, <2>3, OwnStep
<1> QED BY <1>2, <1>4, <1>5, <1>6

LEMMA LookUpChecked ==
  ASSUME TypeOK, NEW i \in Requests, CheckedInv(i), LookUp(i)
  PROVE  CheckedInv(i)'
<1>1. /\ SourcesStay /\ disturbed' = disturbed /\ at[i] = "lookup" /\ draft[i] = EmptyDraft
      /\ UNCHANGED <<wanted, draft, pending>> /\ at'[i] \in {"tariff", "report"}
  BY RequestsReadOnly DEF LookUp, Work, CheckedInv, Proceed, TypeOK, tableVars
<1>2. HasRead(i) => HasRead(i)'
  BY <1>1, SourcesFacts DEF HasRead
<1> QED BY <1>1, <1>2, OwnStep

LEMMA ReadNumberChecked ==
  ASSUME TypeOK, NEW i \in Requests, CheckedInv(i), ReadNumber(i)
  PROVE  CheckedInv(i)'
<1>1. /\ SourcesStay /\ disturbed' = disturbed /\ at[i] = "number" /\ at'[i] = "insert"
      /\ UNCHANGED <<wanted, draft, phase, pending>>
  BY RequestsReadOnly DEF ReadNumber, Work, Proceed, TypeOK, tableVars
<1>2. HasRead(i) => HasRead(i)'
  BY <1>1 DEF HasRead, Billable, PricedIn
<1> QED BY <1>1, <1>2, OwnStep

\* A billable draft makes a complete document.
LEMMA BillableIsComplete ==
  ASSUME TypeOK, NEW i \in Requests, draft[i].buyer = "complete", Billable(draft[i]) # {}
  PROVE  Complete(NewDocument(i))
<1>1. PICK r \in Resources : r \in Billable(draft[i])
  BY DEF Billable, PricedIn
<1>2. draft[i].rates \in Rates
  BY DraftFields DEF TypeOK
<1>3. draft[i].rates[r] \in Nat /\ draft[i].rates[r] > 0
  BY <1>1, <1>2 DEF Billable, PricedIn, Rates
<1>4. NewDocument(i).buyer = "complete" /\ NewDocument(i).price[r] = draft[i].rates[r]
  BY <1>1 DEF NewDocument
<1> QED BY <1>3, <1>4 DEF Complete

LEMMA InsertChecked ==
  ASSUME TypeOK, NEW i \in Requests, CheckedInv(i), Insert(i)
  PROVE  CheckedInv(i)'
<1>1. /\ SourcesStay /\ disturbed' = disturbed /\ at[i] = "insert" /\ UNCHANGED <<wanted, phase>>
  BY RequestsReadOnly DEF Insert, Work
<1>2. CASE Claim(i)
  <2>1. at'[i] = "commit" /\ pending'[i] = NewDocument(i) /\ draft' = draft
    BY <1>2 DEF Claim, Proceed, TypeOK
  <2>2. HasRead(i) => Complete(NewDocument(i))
    BY <1>1, BillableIsComplete DEF HasRead
  <2>3. ASSUME HasRead(i) PROVE HasRead(i)'
    <3>1. draft'[i].buyer = "complete" /\ Billable(draft[i]) # {} /\ Complete(pending'[i])
      BY <1>1, <2>1, <2>2, <2>3 DEF HasRead
    <3>2. Billable(draft[i])' # {}
      BY <2>1, <3>1 DEF Billable, PricedIn
    <3>3. Complete(pending[i])'
      BY <3>1 DEF Complete
    <3> QED BY <2>1, <3>1, <3>2, <3>3 DEF HasRead
  <2> QED BY <1>1, <2>1, <2>3, OwnStep
<1>3. CASE Clash(i)
  <2>1. CASE Proceed(i, "number") /\ UNCHANGED draft
    <3>1. at'[i] = "number"
      BY <2>1 DEF Proceed, TypeOK
    <3>2. HasRead(i) => HasRead(i)'
      BY <1>1, <2>1, <3>1 DEF HasRead, Billable, PricedIn
    <3> QED BY <1>1, <2>1, <3>1, <3>2, OwnStep
  <2>2. CASE Proceed(i, "done")
    <3>1. at'[i] = "done"
      BY <2>2 DEF Proceed, TypeOK
    <3> QED BY <3>1 DEF CheckedInv, Undisturbed
  <2> QED BY <1>3, <2>1, <2>2 DEF Clash
<1> QED BY <1>2, <1>3 DEF Insert

LEMMA EndsChecked ==
  ASSUME TypeOK, NEW i \in Requests, CheckedInv(i), Commit(i) \/ Report(i) \/ Fail(i)
  PROVE  CheckedInv(i)'
<1>1. at'[i] \in {"report", "done"}
  BY DEF Commit, Report, Fail, Proceed, TypeOK
<1> QED BY <1>1 DEF CheckedInv, HasRead

LEMMA ArriveChecked ==
  ASSUME TypeOK, NEW i \in Requests, CheckedInv(i), StillFresh(i), Arrive(i)
  PROVE  CheckedInv(i)'
<1>1. PICK account, domain, m : Accept(i, account, domain, m)
  BY DEF Arrive, CabinetPost, OperatorPost
<1>2. /\ at[i] = "new" /\ phase[i] = "check" /\ draft[i] = EmptyDraft
      /\ at'[i] \in {"tariff", "done"} /\ phase' = phase /\ draft' = draft
  BY <1>1 DEF Accept, StillFresh, CheckedInv, TypeOK
<1> QED BY <1>2 DEF CheckedInv, HasRead, Undisturbed, EmptyDraft

LEMMA CheckedStep ==
  ASSUME TypeOK, \A i \in Requests : StillFresh(i), [Next]_vars, NEW j \in Requests, CheckedInv(j)
  PROVE  CheckedInv(j)'
<1>1. CASE Arrive(j) \/ Work(j) \/ Fail(j)
  BY <1>1, ArriveChecked, ReadTariffChecked, ReadRatesChecked, ReadUsageChecked, ReadBuyerChecked,
     LookUpChecked, ReadNumberChecked, InsertChecked, EndsChecked DEF Work
<1>2. ASSUME NEW i \in Requests, i # j, Arrive(i) \/ Work(i) \/ Fail(i)
      PROVE  CheckedInv(j)'
  BY <1>2, OthersUntouched, DraftsUntouched, RequestsReadOnly, CheckedStays
\* A change of a source disturbs whoever is under way.
<1>3. CASE Disturb /\ UNCHANGED requestVars
  <2>1. /\ at' = at /\ draft' = draft
        /\ at[j] \notin {"new", "done"} => disturbed'[j]
    BY <1>3 DEF Disturb, requestVars
  <2> QED BY <2>1 DEF CheckedInv, Undisturbed, EmptyDraft
<1>4. CASE UNCHANGED <<lists, profiles, usage, requestVars, tableVars, disturbed>>
  <2>1. Untouched(j) /\ draft'[j] = draft[j] /\ SourcesStay /\ disturbed'[j] = disturbed[j]
    BY <1>4 DEF Untouched, SourcesStay, requestVars, tableVars
  <2> QED BY <2>1, CheckedStays
<1>5. CASE Environment
  <2>1. CASE EditPrices \/ PutRequisites \/ \E d \in Domains : Capture(d)
    BY <1>3, <2>1 DEF EditPrices, PutRequisites, Capture
  <2>2. CASE TurnMonth \/ \E d \in Domains : Rename(d)
    BY <1>4, <2>2 DEF TurnMonth, Rename, priceVars
  <2> QED BY <1>5, <2>1, <2>2 DEF Environment
<1>6. CASE UNCHANGED vars
  BY <1>4, <1>6 DEF vars, priceVars, sourceVars
<1> QED BY <1>1, <1>2, <1>5, <1>6 DEF Next

\* No document without requisites or a priced line is stored, unless something it
\* is drawn from changed meanwhile or there was a choice of it (both POST views,
\* issue).
THEOREM CompleteCorrect == Spec => []IncompleteOnlyIfDisturbed
<1>1. Init => \A i \in Requests : StillFresh(i) /\ CheckedInv(i)
  BY DEF Init, StillFresh, CheckedInv, Undisturbed
<1>2. TypeOK /\ (\A i \in Requests : StillFresh(i) /\ CheckedInv(i)) /\ [Next]_vars
         => (\A i \in Requests : StillFresh(i) /\ CheckedInv(i))'
  BY CheckedStep, StillFreshStep
<1>3. TypeOK /\ (\A i \in Requests : StillFresh(i) /\ CheckedInv(i)) => IncompleteOnlyIfDisturbed
  BY DEF TypeOK, CheckedInv, Undisturbed, HasRead, IncompleteOnlyIfDisturbed
<1> QED BY <1>1, <1>2, <1>3, TypeCorrect, PTL DEF Spec
-----------------------------------------------------------------------------
(* Giving up. Each failed attempt is owed to a document of the year that   *)
(* was issued since the look-up and was not there when the attempt's       *)
(* number was read: its number is that one, and those before are below.    *)

AtLeast(S, n) == Cardinality(S) >= n

Since(i) == {d \in issued \ seen[i] : d.year = YearOf[wanted[i].period]}

Below(i) == {d \in Since(i) : d.seq < seq[i]}

\* Somebody has issued the very month meanwhile.
Rival(i) ==
    \E d \in issued \ seen[i] : d.account = wanted[i].account /\ d.period = wanted[i].period

CrowdInv(i) ==
    /\ seen[i] \subseteq issued
    /\ at[i] \in {"new", "tariff", "rates", "usage", "buyer", "lookup"} => tries[i] = 0
    /\ at[i] = "number" => Rival(i) \/ AtLeast(Since(i), tries[i])
    /\ at[i] = "insert" => Rival(i) \/ AtLeast(Below(i), tries[i])
    /\ at[i] = "insert" =>
          \A d \in seen[i] : d.year = YearOf[wanted[i].period] => d.seq < seq[i]
    /\ reply[i] = "clash" => at[i] = "done" /\ (Rival(i) \/ AtLeast(Since(i), Attempts))

LEMMA AtLeastGrows ==
  ASSUME NEW S, NEW T, IsFiniteSet(T), S \subseteq T, NEW n \in Nat, AtLeast(S, n)
  PROVE  AtLeast(T, n)
<1>1. IsFiniteSet(S) /\ Cardinality(S) <= Cardinality(T)
  BY FS_Subset
<1>2. Cardinality(S) \in Nat
  BY <1>1, FS_CardinalityType
<1>3. Cardinality(T) \in Nat
  BY FS_CardinalityType
<1> QED BY <1>1, <1>2, <1>3 DEF AtLeast

LEMMA OneMore ==
  ASSUME NEW S, NEW T, IsFiniteSet(T), S \subseteq T, NEW x \in T, x \notin S,
         NEW n \in Nat, AtLeast(S, n)
  PROVE  AtLeast(T, n + 1)
<1>1. IsFiniteSet(S)
  BY FS_Subset
<1>2. IsFiniteSet(S \cup {x}) /\ Cardinality(S \cup {x}) = Cardinality(S) + 1
  BY <1>1, FS_AddElement
<1>3. Cardinality(S) \in Nat
  BY <1>1, FS_CardinalityType
<1>4. AtLeast(S \cup {x}, n + 1)
  BY <1>2, <1>3 DEF AtLeast
<1>5. S \cup {x} \subseteq T
  OBVIOUS
<1> QED BY <1>4, <1>5, AtLeastGrows

LEMMA AtLeastNone == ASSUME NEW S, IsFiniteSet(S) PROVE AtLeast(S, 0)
BY FS_CardinalityType DEF AtLeast

LEMMA SinceFinite ==
  ASSUME IsFiniteSet(issued), NEW i \in Requests
  PROVE  IsFiniteSet(Since(i)) /\ IsFiniteSet(Below(i))
<1>1. Since(i) \subseteq issued /\ Below(i) \subseteq issued
  BY DEF Since, Below
<1>2. IsFiniteSet(Since(i))
  BY <1>1, FS_Subset
<1>3. IsFiniteSet(Below(i))
  BY <1>1, FS_Subset
<1> QED BY <1>2, <1>3

\* What a request goes by.
SameCrowd(i) ==
    /\ seen'[i] = seen[i] /\ wanted'[i] = wanted[i] /\ seq'[i] = seq[i] /\ tries'[i] = tries[i]
    /\ issued \subseteq issued'

LEMMA CrowdGrows ==
  ASSUME TypeOK, NEW i \in Requests, SameCrowd(i), IsFiniteSet(issued')
  PROVE  /\ Rival(i) => Rival(i)'
         /\ \A n \in Nat : AtLeast(Since(i), n) => AtLeast(Since(i), n)'
         /\ \A n \in Nat : AtLeast(Below(i), n) => AtLeast(Below(i), n)'
<1>1. Rival(i) => Rival(i)'
  BY DEF SameCrowd, Rival
<1>2. Since(i) \subseteq Since(i)' /\ Below(i) \subseteq Below(i)'
  BY DEF SameCrowd, Since, Below
<1>3. IsFiniteSet(Since(i)')
  <2>1. Since(i)' \subseteq issued'
    BY DEF Since
  <2> QED BY <2>1, FS_Subset
<1>4. IsFiniteSet(Below(i)')
  <2>1. Below(i)' \subseteq issued'
    BY DEF Below, Since
  <2> QED BY <2>1, FS_Subset
<1>5. ASSUME NEW n \in Nat, AtLeast(Since(i), n) PROVE AtLeast(Since(i)', n)
  BY <1>2, <1>3, <1>5, AtLeastGrows
<1>6. ASSUME NEW n \in Nat, AtLeast(Below(i), n) PROVE AtLeast(Below(i)', n)
  BY <1>2, <1>4, <1>6, AtLeastGrows
<1> QED BY <1>1, <1>5, <1>6 DEF AtLeast

\* A step that is no attempt: the request stays where it is or goes on to a
\* statement at which nothing is owed.
LEMMA CrowdStays ==
  ASSUME TypeOK, NEW i \in Requests, CrowdInv(i), SameCrowd(i), IsFiniteSet(issued'),
         \/ at'[i] = at[i] /\ reply'[i] = reply[i]
         \/ /\ at'[i] \in {"tariff", "rates", "usage", "buyer", "lookup"}
            /\ at[i] \in {"new", "tariff", "rates", "usage", "buyer", "lookup"}
            /\ reply'[i] = reply[i]
         \/ /\ at'[i] \in {"commit", "report", "done"} /\ at[i] # "done"
            /\ reply'[i] # "clash"
  PROVE  CrowdInv(i)'
<1>1. tries[i] \in Nat /\ Attempts \in Nat
  BY InvoicingAssumption DEF TypeOK
<1>2. seen'[i] \subseteq issued'
  BY DEF CrowdInv, SameCrowd
<1>3. CASE at'[i] = at[i] /\ reply'[i] = reply[i]
  <2>1. at[i] = "number" => Rival(i)' \/ AtLeast(Since(i), tries[i])'
    BY <1>1, CrowdGrows DEF CrowdInv, SameCrowd, AtLeast
  <2>2. at[i] = "insert" => Rival(i)' \/ AtLeast(Below(i), tries[i])'
    BY <1>1, CrowdGrows DEF CrowdInv, SameCrowd, AtLeast
  <2>3. reply[i] = "clash" => Rival(i)' \/ AtLeast(Since(i), Attempts)'
    BY <1>1, CrowdGrows DEF CrowdInv
  <2> QED BY <1>2, <1>3, <2>1, <2>2, <2>3 DEF CrowdInv, SameCrowd
<1>4. CASE ~ (at'[i] = at[i] /\ reply'[i] = reply[i])
  <2>1. reply'[i] # "clash" /\ at'[i] \notin {"number", "insert", "new"}
    BY <1>4 DEF CrowdInv
  <2>2. at'[i] \in {"tariff", "rates", "usage", "buyer", "lookup"} => tries'[i] = 0
    BY <1>4 DEF CrowdInv, SameCrowd
  <2> QED BY <1>2, <2>1, <2>2 DEF CrowdInv
<1> QED BY <1>3, <1>4

LEMMA ReadNumberCrowd ==
  ASSUME TypeOK, NEW i \in Requests, CrowdInv(i), IsFiniteSet(issued), ReadNumber(i)
  PROVE  CrowdInv(i)'
<1>1. /\ at[i] = "number" /\ at'[i] = "insert"
      /\ UNCHANGED <<wanted, tries, reply, seen, issued>>
  BY DEF ReadNumber, Proceed, TypeOK, tableVars
<1>2. \A d \in issued : d.year = YearOf[wanted[i].period] => d.seq < seq'[i]
  <2>1. PICK n \in {0} \cup NumbersTaken(i) :
           (\A k \in NumbersTaken(i) : k <= n) /\ seq'[i] = n + 1
    BY DEF ReadNumber, TypeOK
  <2> SUFFICES ASSUME NEW d \in issued, d.year = YearOf[wanted[i].period] PROVE d.seq < seq'[i]
    OBVIOUS
  <2>2. d.seq \in NumbersTaken(i) /\ NumbersTaken(i) \subseteq Nat
    BY DEF NumbersTaken, TypeOK, Document
  <2> QED BY <2>1, <2>2
<1>3. Below(i)' = Since(i)
  BY <1>1, <1>2 DEF Below, Since
<1>4. Rival(i)' = Rival(i)
  BY <1>1 DEF Rival
<1>5. Rival(i)' \/ AtLeast(Below(i), tries[i])'
  BY <1>1, <1>3, <1>4 DEF CrowdInv, AtLeast
<1> QED BY <1>1, <1>2, <1>5 DEF CrowdInv

LEMMA ClashCrowd ==
  ASSUME TypeOK, NEW i \in Requests, CrowdInv(i), StillFresh(i), IsFiniteSet(issued),
         at[i] = "insert", Clash(i), UNCHANGED <<wanted, seq, seen, issued>>
  PROVE  CrowdInv(i)'
<1>1. /\ tries[i] \in Nat /\ Attempts \in Nat /\ tries'[i] = tries[i] + 1
      /\ \/ at'[i] = "number" /\ reply'[i] = reply[i]
         \/ at'[i] = "done" /\ reply'[i] = "clash" /\ Attempts <= tries'[i]
  BY InvoicingAssumption DEF Clash, Proceed, TriesLeft, TypeOK
<1>2. PICK d \in issued : Collide(d, NewDocument(i))
  BY DEF Clash
<1>3. \/ d.year = YearOf[wanted[i].period] /\ d.seq = seq[i]
      \/ d.account = wanted[i].account /\ d.period = wanted[i].period
  BY <1>2 DEF Collide, NewDocument
<1>4. Rival(i) \/ AtLeast(Since(i), tries[i] + 1)
  <2>1. CASE d.account = wanted[i].account /\ d.period = wanted[i].period
    <3>1. SameMonth(d, wanted[i].account, wanted[i].period)
      BY <2>1 DEF SameMonth
    <3>2. d \notin seen[i]
      BY <3>1 DEF StillFresh
    <3> QED BY <2>1, <3>2 DEF Rival
  <2>2. CASE d.year = YearOf[wanted[i].period] /\ d.seq = seq[i] /\ ~ Rival(i)
    <3>1. seq[i] \in Nat /\ Below(i) \subseteq Since(i) /\ AtLeast(Below(i), tries[i])
      BY <2>2 DEF CrowdInv, Below, TypeOK
    <3>2. d \notin seen[i]
      BY <2>2, <3>1 DEF CrowdInv
    <3>3. d \in Since(i) /\ d \notin Below(i)
      BY <2>2, <3>1, <3>2 DEF Since, Below
    <3>4. IsFiniteSet(Since(i))
      BY SinceFinite
    <3> QED BY <1>1, <3>1, <3>3, <3>4, OneMore
  <2> QED BY <1>3, <2>1, <2>2
<1>5. Rival(i)' = Rival(i) /\ Since(i)' = Since(i)
  BY DEF Rival, Since
<1>6. CASE at'[i] = "number" /\ reply'[i] = reply[i]
  <2>1. reply'[i] # "clash"
    BY <1>6 DEF CrowdInv
  <2>2. Rival(i)' \/ AtLeast(Since(i), tries[i])'
    BY <1>1, <1>4, <1>5 DEF AtLeast
  <2> QED BY <1>6, <2>1, <2>2 DEF CrowdInv
<1>7. CASE at'[i] = "done" /\ reply'[i] = "clash" /\ Attempts <= tries'[i]
  <2>1. IsFiniteSet(Since(i))
    BY SinceFinite
  <2>2. Cardinality(Since(i)) \in Nat
    BY <2>1, FS_CardinalityType
  <2>3. Rival(i)' \/ AtLeast(Since(i), Attempts)'
    BY <1>1, <1>4, <1>5, <1>7, <2>2 DEF AtLeast
  <2> QED BY <1>7, <2>3 DEF CrowdInv
<1> QED BY <1>1, <1>6, <1>7

\* The steps of a request other than reading a number and colliding.
LEMMA OwnCrowd ==
  ASSUME TypeOK, NEW i \in Requests, CrowdInv(i), StillFresh(i), IsFiniteSet(issued'),
         IsFiniteSet(issued), Arrive(i) \/ Work(i) \/ Fail(i)
  PROVE  CrowdInv(i)'
<1>1. CASE Arrive(i)
  <2>1. PICK account, domain, m : Accept(i, account, domain, m)
    BY <1>1 DEF Arrive, CabinetPost, OperatorPost
  <2>2. /\ at[i] = "new" /\ UNCHANGED <<tries, seq, seen, issued>>
        /\ at'[i] \in {"done", "tariff"} /\ reply'[i] \in {reply[i], "refused"}
    BY <2>1 DEF Accept, TypeOK, tableVars
  <2>3. reply'[i] # "clash"
    BY <2>2 DEF CrowdInv
  <2> QED BY <2>2, <2>3 DEF CrowdInv
<1>2. CASE ReadTariff(i) \/ ReadRates(i) \/ ReadUsage(i)
  <2>1. /\ SameCrowd(i) /\ reply' = reply /\ at[i] \in {"tariff", "rates", "usage"}
        /\ at'[i] \in {"rates", "usage", "buyer"}
    BY <1>2 DEF ReadTariff, ReadRates, ReadUsage, Proceed, SameCrowd, TypeOK, tableVars
  <2> QED BY <2>1, CrowdStays
<1>3. CASE ReadBuyer(i)
  <2>1. /\ SameCrowd(i) /\ at[i] = "buyer" /\ reply'[i] \in {reply[i], "refused"}
        /\ at'[i] \in {"lookup", "done", "number"} /\ issued' = issued
    BY <1>3 DEF ReadBuyer, Proceed, SameCrowd, TypeOK, tableVars
  <2>2. reply'[i] # "clash" /\ tries'[i] = 0
    BY <2>1 DEF CrowdInv, SameCrowd
  <2>3. AtLeast(Since(i), tries[i])'
    <3>1. Since(i)' = Since(i)
      BY <2>1 DEF Since, SameCrowd
    <3> QED BY <2>2, <3>1, SinceFinite, AtLeastNone DEF AtLeast
  <2> QED BY <2>1, <2>2, <2>3 DEF CrowdInv, SameCrowd
<1>4. CASE LookUp(i)
  <2>1. /\ at[i] = "lookup" /\ seen'[i] = issued /\ issued' = issued /\ tries' = tries
        /\ at'[i] \in {"tariff", "report"} /\ reply'[i] \in {reply[i], "existing"}
    BY <1>4 DEF LookUp, Proceed, TypeOK, tableVars
  <2>2. reply'[i] # "clash" /\ tries'[i] = 0
    BY <2>1 DEF CrowdInv
  <2> QED BY <2>1, <2>2 DEF CrowdInv
<1>5. CASE Insert(i)
  <2>1. CASE Clash(i)
    BY <1>5, <2>1, ClashCrowd DEF Insert
  <2>2. CASE Claim(i)
    <3>1. SameCrowd(i) /\ at[i] = "insert" /\ at'[i] = "commit" /\ reply' = reply
      BY <1>5, <2>2 DEF Insert, Claim, Proceed, SameCrowd, TypeOK
    <3>2. reply'[i] # "clash"
      BY <3>1 DEF CrowdInv
    <3> QED BY <3>1, <3>2, CrowdStays
  <2> QED BY <1>5, <2>1, <2>2 DEF Insert
<1>6. CASE Commit(i) \/ Report(i) \/ Fail(i)
  <2>1. /\ SameCrowd(i) /\ at[i] # "done" /\ at'[i] \in {"report", "done"}
        /\ reply'[i] \in {reply[i], "issued", "failed"}
    BY <1>6 DEF Commit, Report, Fail, Proceed, SameCrowd, TypeOK, tableVars
  <2>2. reply'[i] # "clash"
    BY <2>1 DEF CrowdInv
  <2> QED BY <2>1, <2>2, CrowdStays
<1> QED BY <1>1, <1>2, <1>3, <1>4, <1>5, <1>6, ReadNumberCrowd DEF Work

LEMMA FinitelyMany ==
  ASSUME IsFiniteSet(issued), [Next]_vars
  PROVE  IsFiniteSet(issued') /\ issued \subseteq issued'
<1>1. CASE \E i \in Requests : Commit(i)
  <2>1. PICK i \in Requests : issued' = issued \cup {pending[i]}
    BY <1>1 DEF Commit
  <2> QED BY <2>1, FS_AddElement
<1>2. CASE ~ \E i \in Requests : Commit(i)
  <2>1. issued' = issued
    BY <1>2
    DEF Next, Environment, EditPrices, PutRequisites, Capture, Rename, TurnMonth, vars, tableVars,
        Arrive, CabinetPost, OperatorPost, Accept, Work, ReadTariff, ReadRates, ReadUsage, ReadBuyer,
        LookUp, ReadNumber, Insert, Report, Fail
  <2> QED BY <2>1
<1> QED BY <1>1, <1>2

LEMMA CrowdStep ==
  ASSUME TypeOK, \A i \in Requests : StillFresh(i), IsFiniteSet(issued), [Next]_vars,
         NEW j \in Requests, CrowdInv(j)
  PROVE  CrowdInv(j)'
<1>1. IsFiniteSet(issued') /\ issued \subseteq issued'
  BY FinitelyMany
<1>2. CASE Arrive(j) \/ Work(j) \/ Fail(j)
  BY <1>1, <1>2, OwnCrowd
<1>3. ASSUME NEW i \in Requests, i # j, Arrive(i) \/ Work(i) \/ Fail(i)
      PROVE  CrowdInv(j)'
  <2>1. seq'[j] = seq[j] /\ tries'[j] = tries[j]
    BY <1>3
    DEF Arrive, CabinetPost, OperatorPost, Accept, Work, ReadTariff, ReadRates, ReadUsage, ReadBuyer,
        LookUp, ReadNumber, Insert, Claim, Clash, Commit, Report, Fail, TypeOK
  <2>2. Untouched(j)
    BY <1>3, OthersUntouched
  <2> QED BY <1>1, <2>1, <2>2, CrowdStays DEF Untouched, SameCrowd
<1>4. CASE Environment \/ UNCHANGED vars
  <2>1. UNCHANGED <<at, reply, seen, wanted, seq, tries>>
    BY <1>4 DEF Environment, EditPrices, PutRequisites, Capture, Rename, TurnMonth, vars,
                requestVars
  <2> QED BY <1>1, <2>1, CrowdStays DEF SameCrowd
<1> QED BY <1>2, <1>3, <1>4 DEF Next

\* A request gives up for want of a number only against as many others as it
\* had attempts, or against one that issued the very month ("a clash simply
\* takes the next one", issue).
THEOREM CrowdCorrect == Spec => []ClashMeansCrowd
<1> DEFINE Inv == /\ IsFiniteSet(issued)
                  /\ \A i \in Requests : StillFresh(i) /\ CrowdInv(i)
<1>1. Init => Inv
  <2> SUFFICES ASSUME Init PROVE Inv
    OBVIOUS
  <2>1. IsFiniteSet(issued)
    BY FS_EmptySet DEF Init
  <2>2. \A i \in Requests : StillFresh(i) /\ CrowdInv(i)
    BY DEF Init, StillFresh, CrowdInv
  <2> QED BY <2>1, <2>2
<1>2. TypeOK /\ Inv /\ [Next]_vars => Inv'
  <2> SUFFICES ASSUME TypeOK, Inv, [Next]_vars PROVE Inv'
    OBVIOUS
  <2>1. IsFiniteSet(issued')
    BY FinitelyMany
  <2>2. (\A i \in Requests : StillFresh(i) /\ CrowdInv(i))'
    BY CrowdStep, StillFreshStep
  <2> QED BY <2>1, <2>2
<1>3. Inv => ClashMeansCrowd
  BY DEF CrowdInv, Rival, AtLeast, Since, ClashMeansCrowd
<1> QED BY <1>1, <1>2, <1>3, TypeCorrect, PTL DEF Spec
=============================================================================
