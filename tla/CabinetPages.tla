----------------------------- MODULE CabinetPages -----------------------------
(***************************************************************************)
(* The cabinet's pages: what each of them makes of the lists the cloud     *)
(* answers and of the rows UsageCollector writes.  None keeps any state, so *)
(* a page is an operator of what a token may see (`scope`, a set of         *)
(* projects), of what the cloud refuses it (`refused`) and of the           *)
(* accounts whose backups are not counted (`off`).                          *)
(*                                                                         *)
(* A user's token sees the project it was issued for, or the whole cluster  *)
(* if the user's rights are wider; the service token sees the cluster.  A   *)
(* section that could not be read, or a page that is an error, is the empty *)
(* set; otherwise it is the set of one record.                              *)
(***************************************************************************)
EXTENDS UsageBills

CONSTANTS
    OnItem,   \* machine of a volume or an address, volume of a snapshot
    NoItem    \* of none, or of one that is gone

ASSUME PagesAssumption ==
    NoItem \notin Items /\ OnItem \in [Items -> {NoItem} \cup Items]

-----------------------------------------------------------------------------
(* Lists. *)

\* What the cloud answers to a token.
Seen(scope, refused) ==
    {i \in items : ProjectOf[i] \in scope /\ ListOf[i] \notin refused}

Of(answer, list) == {i \in answer : ListOf[i] = list}

Section(list, refused, figures) == IF list \in refused THEN {} ELSE {figures}

Gib(volumes) == SumFunctionOnSet(SizeOf, volumes)

\* label_volume_media, with what safe_volume_type_index has.
MediumOf(i, refused) == IF "types" \in refused THEN "" ELSE MediaOf[i]

\* media_totals
MediaTotals(volumes, refused) ==
    [medium \in {MediumOf(i, refused) : i \in volumes} |->
        LET some == {i \in volumes : MediumOf(i, refused) = medium}
        IN  [volumes |-> Cardinality(some), gib |-> Gib(some)]]

\* Every machine holds its compute here, whether it runs or not.
Compute(machines) ==
    [total |-> Cardinality(machines), running |-> Cardinality(machines \cap Running),
     vcpus |-> Gib(machines), ram |-> SumFunctionOnSet(RamOf, machines)]

PublicIps(answer, i) == {a \in Of(answer, "addresses") : OnItem[a] = i}

\* list_vms with its disks: addresses that are refused read as none, volumes that
\* are refused as not known.
MachineRows(answer, refused) ==
    {LET disks == {v \in Of(answer, "volumes") : OnItem[v] = i}
     IN  [id |-> i, project |-> ProjectOf[i], publicIps |-> PublicIps(answer, i),
          disks |-> Section("volumes", refused, Gib(disks)), media |-> MediaTotals(disks, refused)] :
        i \in Of(answer, "machines")}

-----------------------------------------------------------------------------
(* The user's pages. *)

\* Mutant: a list that was refused is an empty one.
DashboardOfZeroes(scope, refused) ==
    LET answer == Seen(scope, refused)
        machines == Of(answer, "machines")
        volumes == Of(answer, "volumes")
    IN  [vms |-> Section("machines", refused,
                    [compute |-> Compute(machines),
                     withPublicIp |-> Cardinality({i \in machines : PublicIps(answer, i) # {}})]),
         storage |-> {[volumes |-> Cardinality(volumes), gib |-> Gib(volumes),
                       attached |-> Cardinality({v \in volumes : OnItem[v] # NoItem}),
                       media |-> MediaTotals(volumes, refused)]},
         unavailable |-> refused \cap {"machines"}]

\* The dashboard, but for its networks and alarms.
Dashboard(scope, refused) ==
    LET answer == Seen(scope, refused)
        machines == Of(answer, "machines")
        volumes == Of(answer, "volumes")
    IN  [vms |-> Section("machines", refused,
                    [compute |-> Compute(machines),
                     withPublicIp |-> Cardinality({i \in machines : PublicIps(answer, i) # {}})]),
         storage |-> Section("volumes", refused,
                    [volumes |-> Cardinality(volumes), gib |-> Gib(volumes),
                     attached |-> Cardinality({v \in volumes : OnItem[v] # NoItem}),
                     media |-> MediaTotals(volumes, refused)]),
         unavailable |-> refused \cap {"machines", "volumes"}]

\* Nothing without the volumes; the machines only give a volume its label.
VolumePage(scope, refused) ==
    LET answer == Seen(scope, refused)
        volumes == Of(answer, "volumes")
        attached == Cardinality({v \in volumes : OnItem[v] # NoItem})
    IN  Section("volumes", refused,
            [rows |-> {[id |-> v, on |-> IF OnItem[v] \in Of(answer, "machines")
                                         THEN OnItem[v] ELSE NoItem] : v \in volumes},
             attached |-> attached, unattached |-> Cardinality(volumes) - attached,
             gib |-> Gib(volumes), media |-> MediaTotals(volumes, refused)])

\* The snapshots of volumes; machines' are filtered alike.  A snapshot has the
\* medium of its volume, while that is there.
SnapshotPage(scope, refused, with) ==
    LET answer == Seen(scope, refused)
        shown == {i \in Of(answer, "snapshots") : with \/ i \notin Backups}
    IN  Section("snapshots", refused,
            [rows |-> {[id |-> i, media |-> IF OnItem[i] \in Of(answer, "volumes")
                                            THEN MediumOf(OnItem[i], refused) ELSE ""] : i \in shown},
             gib |-> Gib(shown)])

\* What a project costs: its rows, whosever they are, and its shape now.
UserBilling(q, scope, refused, off) ==
    LET d == DomainOf[q]
        current == LiveMeasurements(q, d \notin off, Seen(scope, refused), refused)
    IN  [accrued |-> CostOf({row \in Stored : row.project = q}, PriceOf[d], off),
         current |-> current, estimate |-> EstimateMonth(current, PriceOf[d]),
         unavailable |-> refused \cap ListNames]

-----------------------------------------------------------------------------
(* The account administrator's pages. *)

ProjectsOf(d) == {q \in Projects : DomainOf[q] = d}

\* Mutant: the project asked for is believed.
AllowedAsked(d, asked) == IF asked = {} THEN ProjectsOf(d) ELSE asked

\* A project asked for narrows the page to it, if it is the account's.
Allowed(d, asked) == IF asked = {} THEN ProjectsOf(d) ELSE asked \cap ProjectsOf(d)

AdminResources(d, asked, refused) ==
    Section("machines", refused,
        {vm \in MachineRows(Seen(Projects, refused), refused) : vm.project \in Allowed(d, asked)})

AdminTenants(d, refused) ==
    Section("machines", refused,
        [q \in ProjectsOf(d) |->
            Compute({i \in Of(Seen(Projects, refused), "machines") : ProjectOf[i] = q})])

\* Mutant: the last measurement is shown as it was taken.
AdminBillingRaw(d, off) ==
    [q \in {row.project : row \in RowsOf(d)} |->
        LET some == {row \in RowsOf(d) : row.project = q}
            last == CHOOSE row \in some : \A other \in some : other.day <= row.day
        IN  [cost |-> CostOf(some, PriceOf[d], off), day |-> last.day,
             snapshotGib |-> SnapshotGib(last, TRUE)]]

\* The account's bill, by project, and the last measurement of each.
AdminBilling(d, off) ==
    [q \in {row.project : row \in RowsOf(d)} |->
        LET some == {row \in RowsOf(d) : row.project = q}
            last == CHOOSE row \in some : \A other \in some : other.day <= row.day
        IN  [cost |-> CostOf(some, PriceOf[d], off), day |-> last.day,
             snapshotGib |-> SnapshotGib(last, d \notin off)]]

-----------------------------------------------------------------------------
(* Correctness.  As in UsageBills, of the states between passes. *)

\* The service token sees every machine there is, and each of them is on the pages
\* of exactly one account, whatever project anybody asks for ("an id from someone
\* else's account returns nothing", admin_api/views.py 42); what the projects' page
\* counts is what the machines' page lists.
EachMachineOnOneAccount ==
    Quiet =>
       LET Ids(d, asked) == UNION {{vm.id : vm \in page} : page \in AdminResources(d, asked, {})}
           Counts(d) == CHOOSE page \in AdminTenants(d, {}) : TRUE
       IN  /\ \A i \in Of(items, "machines") :
                 Cardinality({d \in Domains : i \in Ids(d, {})}) = 1
           /\ \A d \in Domains, q \in Projects : Ids(d, {q}) \subseteq Ids(d, {})
           /\ \A d \in Domains :
                 Cardinality(Ids(d, {})) = SumFunction([q \in ProjectsOf(d) |-> Counts(d)[q].total])

\* The price of a project does not depend on how much more its reader may see
\* (billing/views.py 77), and what is priced is what the dashboard of a token for
\* that project alone counts, the machines that are stopped apart.
PricedIsOwn ==
    Quiet => \A q \in Projects, off \in SUBSET Domains :
       LET narrow == UserBilling(q, {q}, {}, off)
           shown == Dashboard({q}, {})
       IN  /\ UserBilling(q, Projects, {}, off) = narrow
           /\ \A vms \in shown.vms :
                 Column(narrow.current, "vcpu") <= vms.compute.vcpus
           /\ \A storage \in shown.storage :
                 Column(narrow.current, "ssd_gb") + Column(narrow.current, "hdd_gb") <= storage.gib

\* However much its token sees, a page that is priced or that lists an account is
\* about its own account or project (admin_api/views.py 42, billing/views.py 77).  The
\* dashboard and the pages of volumes and snapshots are not among those: they show all
\* that their token sees.
OwnAccountOnly == EachMachineOnOneAccount /\ PricedIsOwn

\* An account set not to count its backups has them on none of its pages
\* (accounts/backups.py 4), and in no figure of one.  What a project accrued is
\* priced by its rows' own accounts: a row that has none is outside the setting.
BackupsUnseen ==
    Quiet => \A off \in SUBSET Domains : \A d \in off : \A q \in ProjectsOf(d) :
       LET some == {row \in Stored : row.project = q}
           user == UserBilling(q, {q}, {}, off)
           Shown(row) == Column(row.seen \ Backups, "snapshot_gb")
           Charged(cost) ==
              IF "snapshot_gb" \in DOMAIN cost.lines THEN cost.lines["snapshot_gb"].unitDays ELSE 0
       IN  /\ \A refused \in SUBSET Refusable : \A page \in SnapshotPage({q}, refused, FALSE) :
                 \A row \in page.rows : row.id \notin Backups
           /\ user.current \cap Backups = {}
           /\ (\A row \in some : row.owner = d) =>
                 Charged(user.accrued) = SumFunction([row \in some |-> Shown(row)])
           /\ q \in DOMAIN AdminBilling(d, off) =>
                 LET row == AdminBilling(d, off)[q]
                 IN  /\ row.snapshotGib = Shown([seen |-> rows[q][row.day].seen])
                     /\ Charged(row.cost) = SumFunction([r \in {r \in some : r.owner = d} |-> Shown(r)])

\* A page that names nothing as unavailable and has all its sections shows what
\* there is, whatever the cloud refused: "a refusal degrades that section only"
\* (dashboard/views.py 22).  Machines' addresses and the labels that volumes and
\* snapshots get from another list are not part of that, and a page that lacks
\* something asks for no more money than a whole one.
\*
\* The types of volumes are named nowhere when they are refused, and then this is so
\* but for the media: the dashboard still has every volume and all its size, and the
\* estimate lacks the volumes, which no column that has a price holds, and only them.
WholeIfNothingNamed ==
    Quiet => \A q \in Projects :
       LET all == Dashboard({q}, {})
           full == UserBilling(q, {q}, {}, {})
           Counts(sections) == {[compute |-> vms.compute] : vms \in sections}
           Sizes(sections) == {[volumes |-> s.volumes, gib |-> s.gib, attached |-> s.attached] :
                                 s \in sections}
           Ids(pages) == UNION {{row.id : row \in page.rows} : page \in pages}
           Disks(pages) == UNION {{<<vm.id, vm.disks>> : vm \in page} : page \in pages}
           disks == Disks(AdminResources(DomainOf[q], {}, {}))
       IN  \A refused \in SUBSET Refusable :
              LET board == Dashboard({q}, refused)
                  bill == UserBilling(q, {q}, refused, {})
              IN  /\ board.unavailable = {} =>
                        /\ Counts(board.vms) = Counts(all.vms)
                        /\ Sizes(board.storage) = Sizes(all.storage)
                        /\ "types" \notin refused => board.storage = all.storage
                  /\ bill.unavailable = {} =>
                        /\ bill.accrued = full.accrued
                        /\ \A resource \in Resources \ {"ssd_gb", "hdd_gb"} :
                              Column(bill.current, resource) = Column(full.current, resource)
                        /\ "types" \notin refused => bill = full
                  /\ bill.estimate.total <= full.estimate.total
                  /\ \A page \in VolumePage({q}, refused) :
                        Ids({page}) = Of(HeldBy(q, items), "volumes")
                  /\ \A page \in SnapshotPage({q}, refused, TRUE) :
                        Ids({page}) = Of(HeldBy(q, items), "snapshots")
                  /\ \A vm \in Disks(AdminResources(DomainOf[q], {}, refused)) :
                        vm[2] # {} => vm \in disks
=============================================================================
