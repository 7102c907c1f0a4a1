------------------------------ MODULE UsageBills ------------------------------
(***************************************************************************)
(* What the measurements cost: the arithmetic of apps.billing.rates and of *)
(* the invoice's draft, and the pages that price one month's rows, over    *)
(* the rows UsageCollector writes.                                         *)
(*                                                                         *)
(* Whether scheduled backups are billed is a switch of the account, read   *)
(* whenever rows are priced: `off` is the set of the accounts that have    *)
(* theirs off, whichever they are.  The days of the model are one month's. *)
(*                                                                         *)
(* Quantities are in hundredths and money in hundredths (tiyin), both      *)
(* rounded half up, as the code's decimals are.                            *)
(***************************************************************************)
EXTENDS UsageCollector, FiniteSetsExt

CONSTANTS
    SizeOf,        \* vCPUs of a machine, GiB of a volume or a snapshot
    RamOf,         \* MB of a machine
    Running,       \* machines that run
    MediaOf,       \* of a volume: "SSD", "HDD" or what else its type says
    PriceOf,       \* an account's prices a month, its own or the default list's
    VatPercent,    \* BILLING_VAT_RATE
    PricesInclude  \* BILLING_PRICES_INCLUDE_VAT

Resources == {"vcpu", "ram_gb", "ssd_gb", "hdd_gb", "elastic_ip", "snapshot_gb"}

ASSUME BillsAssumption ==
    /\ IsFiniteSet(Projects) /\ IsFiniteSet(Items)
    /\ SizeOf \in [Items -> Nat] /\ RamOf \in [Items -> Nat]
    /\ Running \subseteq Items
    /\ PriceOf \in [Domains -> [Resources -> Nat]]
    /\ VatPercent \in Nat /\ PricesInclude \in BOOLEAN

-----------------------------------------------------------------------------
(* Quantities. *)

\* Decimal.quantize(0.01, ROUND_HALF_UP) of n / d, which is not negative, in
\* hundredths of what n / d is in.
RoundHalfUp(n, d) == (2 * n + d) \div (2 * d)

\* The columns an item adds to.  A machine that does not run holds no compute, and a
\* volume of neither medium is not priced.
Adds(i, resource) ==
    CASE resource \in {"vcpu", "ram_gb"} -> ListOf[i] = "machines" /\ i \in Running
      [] resource = "ssd_gb" -> ListOf[i] = "volumes" /\ MediaOf[i] = "SSD"
      [] resource = "hdd_gb" -> ListOf[i] = "volumes" /\ MediaOf[i] = "HDD"
      [] resource = "elastic_ip" -> ListOf[i] = "addresses"
      [] resource = "snapshot_gb" -> ListOf[i] = "snapshots"

Amount(resource) ==
    CASE resource = "ram_gb" -> RamOf
      [] resource = "elastic_ip" -> [i \in Items |-> 1]
      [] OTHER -> SizeOf

\* The measurement of one project.
Column(held, resource) ==
    SumFunctionOnSet(Amount(resource), {i \in held : Adds(i, resource)})

\* Memory is measured in MB and billed in GB.
Divisor(resource) == IF resource = "ram_gb" THEN 1024 ELSE 1

\* A row with the project and the day it is about.
RowAt(q, d) == [project |-> q, day |-> d, owner |-> rows[q][d].owner, seen |-> rows[q][d].seen,
                backups |-> rows[q][d].backups]

Stored == UNION {{RowAt(q, d) : d \in {d \in Days : rows[q][d] # NoRow}} : q \in Projects}

\* backups.uncounted: a row without an account has no setting.
WithBackups(row, off) == row.owner \notin off

\* snapshot_gib: the backups' column is taken off the snapshots'.
SnapshotGib(row, with) ==
    Column(row.seen, "snapshot_gb") - (IF with THEN 0 ELSE Column(row.backups, "snapshot_gb"))

Quantity(row, resource, with) ==
    IF resource = "snapshot_gb" THEN SnapshotGib(row, with) ELSE Column(row.seen, resource)

UnitDays(some, resource, off) ==
    SumFunction([row \in some |-> Quantity(row, resource, WithBackups(row, off))])

-----------------------------------------------------------------------------
(* Money. *)

\* What is charged is what is shown: the rounded quantity, at the month's price.
Line(unitDays, over, resource, price) ==
    LET quantity == RoundHalfUp(100 * unitDays, Divisor(resource) * over)
    IN  [quantity |-> quantity, unitDays |-> unitDays, cost |-> RoundHalfUp(quantity * price, 100),
         priced |-> price > 0]

Sum(lines, some) == SumFunction([resource \in some |-> lines[resource].cost])

Priced(lines, days) == [lines |-> lines, days |-> days, total |-> Sum(lines, DOMAIN lines)]

HeldIn(some, off) == {resource \in Resources : UnitDays(some, resource, off) # 0}

DaysOf(some) == {row.day : row \in some}

\* Mutant: the average is over the rows.
CostOfByRow(some, prices, off) ==
    Priced([resource \in HeldIn(some, off) |->
               Line(UnitDays(some, resource, off), Cardinality(some), resource, prices[resource])],
           Cardinality(DaysOf(some)))

\* cost_of: the average over the days measured.
CostOf(some, prices, off) ==
    Priced([resource \in HeldIn(some, off) |->
               Line(UnitDays(some, resource, off), Cardinality(DaysOf(some)), resource, prices[resource])],
           Cardinality(DaysOf(some)))

\* Mutant: what is shown is rounded and what is charged is not.
EstimateUnrounded(held, prices) ==
    LET some == {resource \in Resources : Column(held, resource) # 0}
        lines == [resource \in some |->
            [quantity |-> RoundHalfUp(100 * Column(held, resource), Divisor(resource)),
             cost |-> RoundHalfUp(Column(held, resource) * prices[resource], Divisor(resource))]]
    IN  [lines |-> lines, total |-> Sum(lines, some)]

\* estimate_month: what a project holds now, for a month.
EstimateMonth(held, prices) ==
    LET some == {resource \in Resources : Column(held, resource) # 0}
        Held(resource) == RoundHalfUp(100 * Column(held, resource), Divisor(resource))
        lines == [resource \in some |->
            [quantity |-> Held(resource), cost |-> RoundHalfUp(Held(resource) * prices[resource], 100)]]
    IN  [lines |-> lines, total |-> Sum(lines, some)]

\* Mutant: tax on prices that include it is added all the same.
SplitVatTwice(amount) ==
    LET tax == RoundHalfUp(amount * VatPercent, 100)
    IN  [subtotal |-> amount, vat |-> tax, total |-> amount + tax]

\* split_vat
SplitVat(amount) ==
    IF PricesInclude
    THEN LET subtotal == RoundHalfUp(100 * amount, 100 + VatPercent)
         IN  [subtotal |-> subtotal, vat |-> amount - subtotal, total |-> amount]
    ELSE LET tax == RoundHalfUp(amount * VatPercent, 100)
         IN  [subtotal |-> amount, vat |-> tax, total |-> amount + tax]

-----------------------------------------------------------------------------
(* The pages. *)

\* The account's administrator and its own page group by the owner written with
\* the rows.
RowsOf(d) == {row \in Stored : row.owner = d}

\* The operators' page knows an account by its measurements: one that was never
\* measured has no domain.
ResolveAccount(d) == IF RowsOf(d) # {} THEN d ELSE NoDomain

\* Only priced lines are on the document.
DraftOf(cost) ==
    LET billable == {resource \in DOMAIN cost.lines : cost.lines[resource].priced}
        vat == SplitVat(Sum(cost.lines, billable))
    IN  [days |-> cost.days, billable |-> billable, subtotal |-> vat.subtotal, vat |-> vat.vat,
         total |-> vat.total]

\* What one account, or nobody, owes: draft.
Draft(account, domain, off) == DraftOf(CostOf(RowsOf(domain), PriceOf[account], off))

\* Every account with rows in the month, on the operators' overview.
Overview(off) ==
    [d \in {row.owner : row \in Stored} \ {NoDomain} |-> CostOf(RowsOf(d), PriceOf[d], off).total]

\* Mutant: the token is trusted to show its own project only.
LiveMeasurementsTrusting(q, with, answer, refused) ==
    Labelled({i \in answer : with \/ i \notin Backups}, refused)

\* Today's shape of one project, out of what the cloud answers to a token;
\* scheduled backups are left out at the source, and volumes without a type are
\* unlabelled here too.
LiveMeasurements(q, with, answer, refused) ==
    Labelled({i \in answer : ProjectOf[i] = q /\ (with \/ i \notin Backups)}, refused)

\* Mutant: the file has the snapshots as they were measured.
ExportOfAll(d, off) ==
    [row \in RowsOf(d) |-> Column(row.seen, "snapshot_gb")]

\* The column of the exported file that is not simply a row's.
Export(d, off) ==
    [row \in RowsOf(d) |-> SnapshotGib(row, WithBackups(row, off))]

-----------------------------------------------------------------------------
(* Correctness.  The pages read the rows and no pass: what is said of them is said
   between passes, where one that was killed leaves all its rows half written. *)

Quiet == \A p \in Passes : at[p] = "idle"

\* The estimate and the bill cannot drift apart (rates.py 129): what a project
\* holds now, measured once and billed to its account, costs what the estimate says.
EstimateIsOneDayBill ==
    Quiet => \A q \in Projects, off \in SUBSET Domains :
       LET d == DomainOf[q]
           row == [project |-> q, day |-> today, owner |-> d, seen |-> HeldBy(q, items),
                   backups |-> HeldBy(q, items) \cap Backups]
           bill == CostOf({row}, PriceOf[d], off)
           estimate == EstimateMonth(LiveMeasurements(q, d \notin off, items, {}), PriceOf[d])
       IN  /\ bill.total = estimate.total
           /\ DOMAIN bill.lines = DOMAIN estimate.lines
           /\ \A resource \in DOMAIN bill.lines :
                 bill.lines[resource].quantity = estimate.lines[resource].quantity

\* On paper and on the pages the same money: the draft's columns close, and where
\* prices include the tax the client pays what the overview says.
DraftCloses ==
    Quiet => \A off \in SUBSET Domains : \A overview \in {Overview(off)} :
       \A d \in DOMAIN overview : \A draft \in {Draft(d, d, off)} :
          /\ draft.subtotal + draft.vat = draft.total
          /\ overview[d] = IF PricesInclude THEN draft.total ELSE draft.subtotal

\* The exported file, summed, is what the bill counted, and has no backup in it
\* that the account is not to see.
ExportAgrees ==
    Quiet => \A d \in Domains, off \in SUBSET Domains :
       LET file == Export(d, off)
       IN  /\ UnitDays(RowsOf(d), "snapshot_gb", off) = SumFunction(file)
           /\ d \in off => \A row \in RowsOf(d) :
                 file[row] = Column(row.seen \ Backups, "snapshot_gb")

\* However often a day is measured again, the backups of a row are some of its
\* snapshots: nothing taken off a bill leaves less than nothing.
NothingNegative ==
    Quiet => \A row \in Stored : row.backups \subseteq row.seen /\ SnapshotGib(row, FALSE) >= 0

\* A project's average is over its days and the account's over all of its own: the
\* projects' page adds up to the account's where they were measured on the same
\* days, and to no less elsewhere, but for the rounding of each.
AccountWithinProjects ==
    Quiet => \A d \in Domains, resource \in Resources :
       LET of == {row.project : row \in RowsOf(d)}
           Rows(q) == {row \in RowsOf(d) : row.project = q}
           Average(some) ==
              LET lines == CostOf(some, PriceOf[d], {}).lines
              IN  IF resource \in DOMAIN lines THEN lines[resource].quantity ELSE 0
           together == \A q \in of : DaysOf(Rows(q)) = DaysOf(RowsOf(d))
           slack == Cardinality(of) + 1
       IN  \A sum \in {2 * Average(RowsOf(d))}, parts \in {2 * SumFunction([q \in of |-> Average(Rows(q))])} :
              /\ sum <= parts + slack
              /\ together => parts <= sum + slack

\* The same quantities and the same money, wherever they are shown.
BillsAgree ==
    EstimateIsOneDayBill /\ DraftCloses /\ ExportAgrees /\ NothingNegative /\ AccountWithinProjects

\* An account that was never measured has nothing to invoice (billing_views.py 235).
UnmeasuredOwesNothing ==
    Quiet => \A d \in Domains : RowsOf(d) = {} => Draft(d, ResolveAccount(d), {}).days = 0
=============================================================================
