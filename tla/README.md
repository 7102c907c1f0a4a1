# opencloud-backend in TLA+

The backend is a Django/DRF service in front of a Zadara zCompute cloud. It has two faces - the
customers' *cabinet* and the operators' *panel* - and little state of its own: price lists, daily
measurements, issued invoices, operators and audit rows in PostgreSQL; sessions in PostgreSQL; the
users' cloud tokens, cached lists, tickets and pictures of the cluster in Redis. Several web workers
serve requests at once, a Celery beat takes one measurement a day, and everything else is read from
the cloud when a page asks for it. What is hard in it is therefore neither algorithms nor protocols
between nodes, but requests that interleave: between two statements of one database
transaction or of none, between a read and a write of the cache, between an answer of the cloud and
the use that is made of it.

This directory models that part of the system. Every module names the source it is a model of;
`PROJECT.json` maps each definition to the lines it stands for.

## Inventory

| component | state | operations | interacts with | what is hard | what makes it correct | module |
|---|---|---|---|---|---|---|
| Price lists (`billing/models.py`, `rates.py`, the tariff views, `set_tariff`, `ensure_default_tariff`) | `tariffs`, `tariff_rates` | PUT by a cabinet administrator, by an operator, by a command; seeding at start-up; three readers | invoicing, overview | no writer is in a transaction; `account` is not unique; readers fold case, writers do not | the last PUT decides; nobody's PUT changes what others pay | `PriceLists` |
| Invoicing (`billing/invoices.py`, the invoice views) | `invoices`, `invoice_lines`, `buyer_profiles` | issue, draft, read, PUT requisites | price lists, measurements, cloud directory | a number claimed by a unique constraint inside a transaction, drafts read statement by statement, names as keys | numbers without gap or repeat, documents only added, one per account and month, none incomplete | `InvoiceRegister`, `Invoicing` |
| Usage collector (`billing/collector.py`, `tasks.py`, `capture_usage`) | `usage_snapshots` | capture a day | cloud lists, directory, invoicing | partial reads, reruns, passes that overlap, unknown projects | a row falls short only by what was refused; a measured day stays measured | `UsageCollector` |
| Pricing (`billing/rates.py`, `split_vat`, the billing pages) | none | cost of a period, estimate, tax, export | collector's rows, invoices | rounding order, averages over days, a switch read at pricing time | the same quantities and money on every page | `UsageBills` |
| Response cache (`integrations/zadara/resources.py`) | versions and lists in Redis | read a list, write and invalidate | every page | four cache commands per read and two per invalidation, at once in many workers | stale for a bounded time; own writes show | `ResponseCache` |
| HTTP gate, parallel reads, service token (`integrations/zadara/http.py`, `service.py`, `common/concurrency.py`) | a semaphore, thread pools, a process-wide token, threads' database connections | call with retries, gather, renew on 401 | everything | nested fan-out, sleeping outside the gate, lost answers | everything lent out comes back; a write happens once; every request ends | `CloudCalls` |
| Cluster picture (`platform_admin/snapshot.py`) | two cache keys, the cached directory | get, refresh | panel pages | overlapping builds, unreadable sources | unknown is never zero; the picture does not go back | `ClusterSnapshot` |
| Cabinet sign-in (`authentication/*`, `tenants/views.py`) | session row, token vault, `users.app_role` | sign in (with second factor), switch project, sign out, show a page | the cloud's tokens | scope, token and role are stored in three places; a request saves its session when it ends | a session's token is its user's, of its project and of its age; sign-out is final | `CabinetSession` |
| Operator sign-in (`platform_admin/auth_views.py`, `models.py`, `tickets.py`, `totp.py`) | failure count and lock, tickets, used codes | password, second factor, enrolment | panel | read-modify-write of the row; a ticket that can be loaded twice | a code and a ticket are used once; wrong answers count; a lock stands | `OperatorSignIn` |
| User administration and switches (`admin_api/views.py`, `platform_admin/views.py`, `accounts/*`) | users in the cloud, `users.status`, account settings, a cached list per account | create, change, delete, switch, set | cloud, audit, sign-in | several calls, any of which can fail; a list deleted while it is being fetched | what was changed is recorded and shows; a blocked user stays out | `UserAdmin` |
| Audit trails (`audit/*`, `platform_admin/services.py`) | two tables | insert, never raising | all writers | best effort, last step of everything | what the trail says happened | in `UserAdmin`, `CloudCalls` |
| VM actions, networking writes | none | one call, one record, one invalidation | cloud, cache, audit | lost answers | once at most; recorded | in `CloudCalls`, `ResponseCache` |
| Read-only pages (`compute`, `networking`, `storage`, `dashboard`, `admin_api`, `quotas`, `monitoring`) | none | joins of lists | cloud | tokens that see too much, lists refused one by one | nobody else's data; a page that lacks something says so | `CabinetPages` |
| Framework glue | none | | | | | - |

The hazards, each at its line, are in `PROJECT.json`.

## How the modules hang together

    PriceLists <- Invoicing -> InvoiceRegister (refinement)       ResponseCache     CabinetSession
    UsageCollector <- UsageBills <- CabinetPages                  CloudCalls        OperatorSignIn
                                                                  ClusterSnapshot   UserAdmin

`<-` is EXTENDS: `Invoicing` composes the price-list writers with the documents drawn from them;
`UsageBills` prices the rows that `UsageCollector` writes, and `CabinetPages` adds every page made from
those rows and from the cloud's lists. `Invoicing!Capture` is the collector seen from a document: a row that appears,
with or without its account; `UsageCollector` is how it comes about. Each `MC` module instantiates a module
of its name for TLC (`MCUsageBills` instantiates `CabinetPages`, and with it the two below), and each `Proofs`
module extends the one it is about (`InvoicingProofs` is also about `PriceLists`, and `UsageProofs` about the three from `UsageCollector` to
`CabinetPages`). The properties a run checks are sometimes a conjunction; its parts are definitions
of their own, with the sentence they state.

Left of the plan: the operators' own password change and sign-out; the tickets of the cabinet's second factor.

## Modules

### PriceLists

`lists` is the table `tariffs` by id, each row with its `tariff_rates`. Three writers share one
algorithm - `AdminTariffView.put`, `TariffView.put` and `set_tariff` - and are the actions
`BeginPut`, `FindList`, `CreateList`, `StoreRate` (once per submitted rate, in any order) and
`ClearOthers`. `update_or_create` is two statements: the `get`, which compares the account exactly
and fails when two rows match, and the insert, which nothing prevents from repeating a concurrent
one. `EnsureDefault`, `SeedList` and `SeedRates` are the seeding that runs at each start of the web
container. `StopShort` is a killed worker or a refused statement, after any statement; what the
earlier ones stored stays, because `ATOMIC_REQUESTS` is off.

`ResolveTariff` is the reader behind documents and cabinet: it folds case and takes the first of several
lists by `Meta.ordering`. `OverviewTariff` is the one behind the operators' overview, which keeps the last list of
a folded name; `OverviewPricesAlike` says where the two must agree. It returns a set because rows that tie may come in either order. The model's data are a currency and a price per resource; zero and missing are
different rows and the same answer (`PricedIn`). `lastPut` and `cutShort` are history.

`MCPriceLists` has two spellings of one account and another account, two resources, five payloads
(full, partial, with a zero price, empty, `--keep-others`) and three starting tables.

### InvoiceRegister and Invoicing

`InvoiceRegister` is the promise: a set of documents to which one is added at a time, numbered without
gap or repetition in its year, one per account name and month.

`Invoicing` extends `PriceLists`. A request (`Accept`) comes from the cabinet, with the account as it was
spelled when its session signed in, or from the panel, with the account the newest matching
measurement names. Then:

| action | code |
|---|---|
| `ReadTariff`, `ReadRates`, `ReadUsage`, `ReadBuyer` in phase `check` | the view's `draft()` and its refusals |
| `LookUp` | `issue()` opens its transaction and looks for the month's document |
| the same four in phase `issue` | `issue()`'s own `draft()` |
| `ReadNumber` | `next_number` |
| `Insert` = `Claim` or `Clash` | the insert under a savepoint, at most five times |
| `Commit`, `Report` | the lines, the commit; the record and the answer |
| `Fail` | a dead worker, a lost connection, a refused statement: rollback |

The database is PostgreSQL in READ COMMITTED: every statement reads what is committed. An inserted row
is in `pending` until its transaction ends; an insert that collides with a pending row is not enabled
(it waits inside the database), one that collides with a committed row is a `Clash`. Both unique
constraints of `invoices` are in `Collide`.

The environment is everything the draft reads: the price-list writers, `PutRequisites`, `Capture` (the
collector's row for a project, with or without its account), `Rename` (the cloud's own doing, external)
and `TurnMonth`. Documents carry what the properties tell apart: year and number, account, domain,
period, the month of issue, currency, prices, and the requisites as absent, blank or complete.

### ResponseCache

A list is modelled by the writes it shows. A reader (`_cached_get`) takes four steps - `Ask` reads the
version, `LookUp` the list under it, `Fetch` gets the cloud's answer, `Store` keeps it under the
version it was looked for under. A writer (`vm_action`, the firewall-rule calls) takes three - `Post`, then
`invalidate` as `ReadVersion` and `WriteVersion`. `Post` may be carried out and its answer lost, which
raises before the invalidation. `Tick` is time; `Save` and `Restart` are the Redis server of
`docker-compose.prod.yml`, which keeps snapshots and no log. One list stands for all paths, which share
nothing but the version. The cloud shows a write as soon as it has accepted it; that it applies it
later is left out, so the model's lists are never staler than the real ones on that account.
The settings without Redis (`LocMemCache`, one cache per process) are not modelled: there an
invalidation reaches its own process only.

### CabinetSession

`rows` are Django's session rows by key, `vault` the tokens in the cache by the same keys, `appRole` the
column of the user's row. `vault` also has an entry for no key (`NoKey`): `vault.store(None, ...)`
writes one. A request reads the session's row and the user's when it comes (`Arrive`), works on
its own copies (`held`, `role`), and writes the row back when its response goes out (`Save`).

| action | code |
|---|---|
| `Authenticate`, `Upsert`, `LogIn`, `Store`, `ApplyScope`, `Save` | `LoginView`: the cloud's answer, `upsert_user` and the question whether she is blocked, Django's `login`, `vault.store`, the response |
| `ReadToken`, `Exchange`, `Store`, `ApplyScope`, `Save` | `ProjectSwitchView` |
| `ReadToken` | any page: the project comes from the copy of the session, the token from the vault |
| `DropToken`, `Flush` | `LogoutView`, and the end of `PasswordChangeView` |
| `Die` | a worker killed, a statement refused: no session is saved |

`LoginView` applies the scope before it stores the token and the switch after it. `LogIn` therefore puts the
scope into the copy already, and `ApplyScope` repeats it after the store without effect: the user's row was
written from the same answer. Django's part is modelled from its use: `login` gives an anonymous session a key and a row at
once, keeps the same user's, and deletes another user's, whose successor gets a key in `Save`. Keys are
never drawn twice. A row that is nobody's is only ever the trace of a sign-in that died, and no browser has its key.

History: `torn` are keys for which two requests stored and saved across each other, or one died in
between; `bare` keys whose token was deleted or never stored; `crossed` pages that a switch stored its token
under; `muddled` users who did two things at once or had two sessions; `astray` users whose role was last set by a
request that saved no session, because it died first or because it refused the sign-in as blocked after updating the row -
until they next sign in or switch. The properties that need one of
them say so, and what they except is what the code really gets wrong then.

### UserAdmin

Users exist in the cloud (`cloud`), in a row of the cabinet's own (`rows`), in the cached list of their account
(`kept`, with the writes it shows) and in two trails (`log`). A request turns out to be one of the kinds of `Bodies` when it
arrives, and then takes one step per statement:

| actions | code |
|---|---|
| `LookUp`, `Fetch`, `Store` | the operators' list of an account's users, read through a cache of its own |
| `SwitchCloud`, `SwitchCabinet`, `Forget`, `Record` | the operators' PATCH: the cloud's `enabled`, the cabinet's `status`, the list dropped, the record |
| `SetCounted`, `Record` | an account's setting |
| `Create`, `Grant` / `FindUser`, `Change` / `FindUser`, `Delete`, `Drop` | the account administrator's POST, PATCH and DELETE, each step with its record |
| `Authenticate`, `Upsert` | a sign-in of the cabinet: the cloud's answer, then the row it finds or makes |
| `Die` | a dead worker between any two of these |

`TrailsTell` ties the trails to what was done, whoever failed when; `ListTells` bounds how old the list may be and lets a switch
show unless an older list was stored over it (`restored`); `RowsFollow` keeps a user that an operator blocked out of the
cabinet, and rows behind the cloud's users. Renames and the roles a user already has are not modelled: the properties do not
tell them apart.

### OperatorSignIn

One operator, several requests. A request reads the operator's row once (`copy`) and writes back columns computed from
that copy, as Django's `save(update_fields=...)` does. `ReadOperator`, `CheckPassword`, `IssueTicket` are the first step;
`LoadTicket`, `ReadAgain`, `Refuse`, `CheckFactor`, `MarkCode`, `Enrol`, `Revoke`, `Succeed`, `SaveSession` the second; `CountFailure` is
either's failure. A tick is one step of TOTP, so a code of a neighbouring step is accepted (`Window`) and its mark lives for
`ReplayTTL`. `totp.verify` is two steps, as it is two statements: `CheckFactor` finds the code in time and keeps it in `shown`,
`MarkCode` does the `cache.add`, and time may pass in between. Cache keys end only by their lifetimes; a cache that loses them is not
modelled here. Tickets are loaded without being taken, as in the code. A code is a secret and a step; a wrong one
is a nondeterministic choice.

### ClusterSnapshot

A request looks the short key up, asks the cloud, collects one list per source in any order (`ReadList`) and one project list
per account (`ReadProjects`, itself cached), makes the `Picture`, and writes the two keys one after the other (`Keep`,
`KeepFallback`); without the machines' list it gives up and falls back. Where the code counts, the model keeps the set of what is
counted, so that "the totals add up" is an equality of sets. `Totals`, `Unattributed`, `Marked`, `Utilisation` are the code's
functions of the same purpose. Ticks do not fall inside a build; the health page, which reads one key, is left out.

### UsageCollector, UsageBills and CabinetPages

`UsageCollector` is a pass: `Begin` fixes the day and reads the first list, `ReadList` the others (each may be refused, which is
not fatal), `ReadDirectory` the owners, `WriteRow` one row per project, `Die` in between. Passes may overlap and be rerun for an
earlier day. A row keeps the sets of what was summed, and `missed`, what its pass was refused (history). Beside the four lists
that can be "types", the list a volume's medium is looked up in (`safe_volume_type_index`): when it is refused the
volumes are read all the same and are unlabelled, hence in no column that has a price (`Labelled`), and nobody is told.
`whole` is history too: the days a pass was ended for, with the lists it had read.
Rows measured before the backups' column existed hold 0 in it (`models.py:114`); they are not modelled, and the statements about backups
are about rows written since.

`UsageBills` has no state of its own. It is the arithmetic: `Column` (measurement), `RoundHalfUp`, `CostOf`,
`EstimateMonth`, `SplitVat`, `Draft`, `Export`, `Overview`, with integer quantities and money in hundredths, rounded where
the code rounds. Its properties relate what two pages say of the same rows, for every choice of accounts that have
backups switched off (`off`).

`CabinetPages` is the pages as operators of what a token may see, what the cloud refuses (the types of volumes
among it, `MediumOf`), and the rows. Their properties are quantified over all of these. `OwnAccountOnly` is about the pages that
are priced or that list an account; the dashboard and the pages of volumes and snapshots show all that their token sees.

### CloudCalls

One process as a forest: roots are browser requests, inner nodes functions that make several calls - at once if they are
gathers, in threads of a pool bounded by `MaxWorkers` - and leaves calls. `Acquire` takes a place at the gate, `Answer`
gives it back with whatever came of the call: an answer (`Succeeds`), a service sign-in (`SignedIn`), a 401 that renews the token
(`Renews`), or something spoilt (`Spoils`): no answer, a 5xx that a read tries again (502, 503, 504: "unwell") or does not ("broken"),
429, a refusal, 401. A retry gives its place back
and wants it again, since the code sleeps outside the gate. `Record` writes a write's audit row, with the code the error was given
(`CodeOf`: 429 and every 5xx are one `upstream_error`), or cannot store it and goes on, as `audit/services.py` does;
`CacheRefuses` is an `invalidate` that raises between the write and its row, which then is not written either. `Closes` is the pool's
wrapper that closes its thread's database connection. `Revoke` and `Die` come from outside; of the writes in flight when a process is killed
the cloud may have carried out any.

The instance has the networks page, which gathers a list that is itself a gather; a page with one source,
which `gather` runs inline, over the service token; and a new firewall rule, whose group is looked up first. The
production image runs synchronous gunicorn workers, each with one request at a time and a gate of its own; the
development server threads. `Requests = 2` is the harder case.

## Runs

| run | asks | result |
|---|---|---|
| `price_lists` | two writers of any kind, every interleaving and interruption | holds: types, `LastPutDecides`, `EditsStayHome`, `OverviewPricesAlike` |
| `invoicing_numbers` | three requests for one month, two spellings of an account | holds: numbers, reissue, clashes, refinement of `InvoiceRegister` |
| `invoicing_disturbed` | one request while everything it reads changes | holds: types, `IncompleteOnlyIfDisturbed` |
| `invoicing_answered` | does every request end? | holds under fairness |
| `cache_reads` | two tokens, time, a crash of the cache server | holds: types, staleness bounded by TTL and the time an answer is under way, and a list misses its own token's earlier write only if the version was set back |
| `cabinet_session` | sign-ins over each other, switches, sign-outs and pages on shared keys, with time and failures | holds: types, `OwnToken`, `TokenCoversSession`, `ScopeAgrees`, `RoleAgrees`, `PageUndivided`, `SignedOutForGood`, `SignInLeavesToken` |
| `user_admin` | three requests from both sides about the same users, any of which dies | holds: `TrailsTell`, `ListTells`, `RowsFollow` |
| `operator_sign_in` | three requests on one operator, earlier tickets, enrolment, a changed factor, time passing between any two statements | holds: `UsedOnce`, `WrongAnswersCount`, `LockAndSecretStand` |
| `cluster_snapshot` | two workers building, a changing cluster, refused lists and accounts, outages | holds: `FiguresTell`, `NoGoingBack`, `OutageTells` |
| `usage_bills` | two passes over two days, and every page of bills and cabinet after each, for whatever lists or types are refused | holds: `MeasuredRight`, `BillsAgree`, `OwnAccountOnly`, `BackupsUnseen`, `WholeIfNothingNamed` |
| `cloud_calls` | two requests at once through a gate of two, with answers, audit rows and invalidations that fail | holds: `NothingLeaks`, `WritesTold`, `RefusedOnlyIfRevoked`, and `Answered` under fairness |
| `usage_unmeasured` | does an account nobody measured owe nothing? | violated: it resolves to the owner of unattributed rows |

`CHECK_DEADLOCK FALSE` in all of them: requests, writers, passes and time are used up, and a run ends when they are.
Where a run shows `Answered`, that property is what a deadlock would violate.

### Bounds

* Two price-list writers: each property is about one list, and what another writer can have done to it
  between two statements a second one can do; twin lists, which need two more, are a starting table.
* Three requests in `invoicing_numbers`, with two attempts in place of five: one wins, one collides with it
  and retries, the third takes the number in between - the shortest way to use up attempts honestly.
  The proofs cover any number.
* `invoicing_disturbed` has one request, one writer and two more changes; a draft is four
  statements, so two changes can fall on either side of any pair of them. It starts with the default list
  or with two of them, one without prices, of which each draft may read another.
* `cache_reads`: two readers and one writer of one token and a writer of another; TTL 1, one tick for an
  answer under way, three ticks: an answer stored late, served until it expires, and one tick in
  which a list kept too long would show; one crash, which is what sets a version back here.
* `cabinet_session`: three requests, because a session takes one to come about and two to be crossed; three
  keys, one for each; two users, one of whom is an administrator in one of her two projects, so
  that scopes and roles can differ; TTL 1 and one tick, which may fall
  between store and save (`Lag`): a session and its token can expire, together or apart.
* `user_admin`: three requests - one to fetch a list, one to switch, one to look again, or two that cross and one
  that follows; `Bodies` names what each may be; TTL 1, `Lag` 1, three ticks, as in `cache_reads`.
* `operator_sign_in`: a lock after two failures needs two requests and a third meets it; two tickets, one of which may
  be from before; lifetimes of two steps and three ticks or changes of the operator together, so that a ticket, a lock and a used code's
  mark each end inside the run; the codes entered are those of three steps (`Presented`), each of which is still good at some tick. A code of the next step can be checked at the end of its window and marked when
  an earlier mark has ended, so the second acceptance that `UsedOnce` excepts does happen here; that a mark lives as long as
  its code is the mutant `ReplayTTLShort`.
* `cluster_snapshot`: two workers, because two builds cross; the short key lives one tick, the long one and
  the directory two; one change and one refusal, wherever they fall.
* `usage_bills`: two passes overlap and rerun each other; two days, so that averages have different days; one refusal,
  one disk that comes, a machine with memory that is no whole number of GB, prices that do not come out even; of the two
  accounts one has no project. The pages are evaluated whenever no pass is under way, for all sets of refused lists.
* `cloud_calls`: a gate of two under a gather of a gather, which is enough to starve it if places were held while
  waiting (`BeginHolding`); one retry, one spoilt answer, three tokens.
* `MaxChanges`, `MaxRefusals`, `MaxTroubles`, `MaxTokens`, `MaxTime`, `MaxDay`, `MaxCrashes`, `Lag`, `Attempts`, `Presented` and `Fleeting` are
  constants in the guards; requests, editors, readers and writers are used once each, so nothing else grows.

### Fairness

`Invoicing!FairSpec` assumes weak fairness of each request's own work and of nothing else: a worker that has begun
a request executes its statements, and PostgreSQL resumes an insert that waits for another
transaction once that one ends. Weak fairness is enough because the wait ends for good: the other
transaction commits or is rolled back by its own steps, and collisions that remain are with committed
rows, where the attempts run out. Arrivals, price changes, failures and renames are not assumed to
happen.

`CloudCalls!Spec` assumes weak fairness of the process as a whole: while one of its threads can go on, some thread does.
The cloud answers or the call times out (`ZADARA_TIMEOUT`), and a sleep ends. Nothing is assumed of which thread gets a place at the gate:
the semaphore is not fair, and need not be, since each call wants it a bounded number of times.
Requests arriving, revocations and kills are not assumed to happen.

## Proofs

Checked by TLAPS for every value of the constants that satisfies the named assumptions
(`PriceListsAssumption`, `InvoicingAssumption`, `CacheAssumption`, `SessionAssumption`, `UsageAssumption`,
`BillsAssumption`, `PagesAssumption`, `SignInAssumption`, `SnapshotAssumption`, `UserAdminAssumption`, `CallsAssumption`: names are distinct, functions have their domains, limits are
naturals, the starting state is of the right type; in `UsageAssumption` also that the set of accounts is finite and in `BillsAssumption` those of projects and items,
in `UserAdminAssumption` that nobody who is gone from the cloud at the start has a row in the cabinet, and in `CallsAssumption`
that calls are nested: nothing is a part of itself).

* `InvoicingProofs`, on the price lists - `PriceTypeCorrect`, `LastPutCorrect`, `EditsStayHomeCorrect`, `OverviewCorrect`. `LastPutDecides` speaks of lists nobody
  writes; what makes it inductive is an account of every priced resource while somebody does
  (`PutsAccounted`): it was named by the last writer to finish, or by a writer still under way, which has
  not cleared yet and whose own clearing or failing will settle it. `EditsStayHome` needs that a writer holds, from
  the statement that found or made it, a list of the account it was asked for (`TargetsHeld`), and writes no other
  (`WritesOwn`). `OverviewPricesAlike` is an argument about the two readers: where a folded name has one
  list, the overview's fold and the resolver's filter come to the same one, or both to the default.
* `InvoicingProofs`, on the documents - `TypeCorrect`, `NumbersCorrect`, `ImplementsRegister`, `ReissueCorrect`, `CompleteCorrect`, `CrowdCorrect`. The type
  invariant includes what each stage has in hand. `NumbersInOrder` is itself the strengthening the register needs: a
  pending row's number follows on from committed ones and collides with no row committed or pending, so
  that committing it is an `Enter` of the abstract register, and every other step leaves the register
  alone. `ReissueCorrect` needs that the documents seen at `LookUp` are still those that were looked through when
  the row is built. `CompleteCorrect` needs that, as long as a request is undisturbed, what either draft has read is
  still there to be read and the first one was found complete (`CheckedInv`): where there is only one list and one buyer to read,
  the second draft then reads what the first did. For `CrowdCorrect` each failed attempt is owed to a document (`CrowdInv`):
  one of the year, issued since the look-up, whose number is the one the attempt had read; every number read later is above it, so
  no document is counted twice.
* `ResponseCacheProofs` - `CacheTypeCorrect`, `StaleCorrect`, `FreshCorrect`. The first argument is about
  ages (`AgeInv`): a list misses only writes that are younger than TTL and the time under way when it
  expires, and Redis keeps expiries as points in time, so a snapshot cannot make a list older. The second
  (`FreshInv`) is about versions: a write that has read version v had been carried out by then, so whatever
  is kept above v was fetched later - as long as versions only rise, which is exactly what the code
  does not ensure.
* `CabinetSessionProofs` - `SessionTypeCorrect`, `OwnTokenCorrect`, `SignedOutCorrect`, `ScopeAgreesCorrect`,
  `TokenCoversCorrect`, `PageCorrect`, `TokenLeftCorrect`, `RoleCorrect`. `OwnToken` becomes inductive by giving each key one owner for good (`Owned`), in the
  row, in the vault and in the hands of every request that knows the key, even after the row is gone; with
  that, `SignedOutForGood` follows from the few ways in which a step can write a row (`RowsMove`). For scopes
  (`ScopeInv`): while a token is ahead of its row, exactly one request is between store and save and will name
  that token's project. For times (`CoverInv`): no row expires later than a token stored now would, and a
  request that has stored its token saves within `Lag`. A page under way finds the token its session agreed with when it
  came (`Whole`), or is crossed. For roles (`WorkInv`): one request at most works for a user, and it knows her only session; up to the
  statement that sets the role a switch leaves it that of the session's project, a sign-in has set it from the start. Who is in `astray` has
  no such session to agree with, and leaves it by the statement that next sets her role.
* `UsageProofs`, on the passes - `MeasuredCorrect`. A pass under way has everything steady in the lists it has been
  through, except those it was refused (`HasRead`; without the types the volumes are read, and go unlabelled into the row), and every project of what it measured that it no longer has to
  write has a row (`HasWritten`). With that, a row falls short only by what its own pass was refused, whoever wrote it last: an
  overlapping pass or a rerun may replace a row, and what it puts there is accounted for.
* `UsageProofs`, on sums. What a column, a bill or a page adds up is `SumFunctionOnSet`, which the library defines by a recursive
  function on the subsets of a set. The lemmas from `SmallerFirst` to `SumParts` say that there is such a function, that the order
  in which it goes does not matter, and the laws of sums: adding an element, comparing, scaling, splitting, leaving
  out what is zero, summing by parts. Each is shown without an induction theorem: a finite set's subsets are well-founded,
  so if some subset did not have the property there would be a smallest one, from which one element can be taken.
* `UsageProofs`, on the bills - `BillsCorrect`. The one fact about behaviours it needs beside the types is `BackupsInv`: the backups of a row are
  exactly those among what was seen, however often a day is measured again, because a pass writes the whole row. Everything
  else is arithmetic about any such rows. `QuantityIs` turns each subtraction of backups into a column of the
  other snapshots; `Rounds` is that what is rounded is within a half of what it was, from which follow that more is
  not rounded to less, that a line without a price is charged nothing, so that the overview's total and the draft's subtotal are the same sum, and
  (`RoundedApart`) that averages over days, rounded one by one, add up to no less than the account's but for a half each.
* `UsageProofs`, on the pages - `OwnAccountCorrect`, `BackupsUnseenCorrect`, `WholeCorrect`. `MachinesShown` says what ids the administrator's page
  shows, for whatever project is asked for; the accounts' pages then divide the machines, and `SumParts` makes the projects' counts add up to them.
  What is priced of a project is a part of what its dashboard shows (`PricedWithinShown`), and fewer things are estimated at no more
  money, each rounding included (`EstimateWithin`). The last row of a project, which the page picks with a `CHOOSE`, exists because finitely many
  days have a greatest (`LastDay`). Refused types change the media a page names and the volumes an estimate prices, and no other column.
* `OperatorSignInProofs` - `UsedOnceCorrect`, `WrongAnswersCorrect`, `StandsCorrect`. `Inv` has four parts beside the
  types: a code found in time is of a step no further ahead than the window reaches, so that the mark made of it lasts until the
  code's window has closed (`MarkInv`), and who finds no mark any more has held the code for longer; a ticket that was dropped is not issued again, and requests that hold one ticket are recorded as having
  loaded it together or one is done with it (`TicketInv`); a copy in hand was read unlocked, and a secret in hand is
  that of a ticket issued before enrolment (`InHand`); and as long as no two copies were in hand at once, a copy's count
  is the row's (`CountInv`).
* `ClusterSnapshotProofs` - `FiguresCorrect`, `NoGoingBackCorrect`, `OutageCorrect`. That a picture adds up is an argument
  about `Picture` alone (`Figured`: each figure, from what was read), for any lists and directories of the right type; that
  what is missing is young needs `DirectoryInv` and `BuildInv`: a directory, kept or in a build's hands, lacks only
  projects born in its life. `KeptInv` ties each key's expiry to the picture's age, and `BridgeInv` the second key's to when
  somebody was last shown his own picture, which is what keeps errors off. For the order (`OrderInv`): as long as
  `disturbed` does not hold there is one builder, whose picture will be at least as new as both keys and all screens, and outside
  his two writes both keys hold the same one.
* `UserAdminProofs` - `RowsCorrect`, `ListCorrect`, `TypeCorrect`, `TrailsCorrect`. For the rows (`RowsInv`): requests about one user that are
  under way together are on record as having crossed (`CrossInv`), a deletion that still has the row to drop has done the cloud's
  part (`DeletionInv`), and a sign-in that is past the cloud's answer and finds the user gone crossed the deletion (`UpsertInv`). So
  a block is lost only to a deletion, and a row that is left or made again has one to answer for it. For the lists
  (`ListInv`): a kept list shows every switch that dropped it and was not stored over, and expires no later than TTL and the
  time under way after any write it misses (`KeptAs`), because a list in hand misses only what was done after it was fetched (`ViewOK`).
  For the trails (`TellInv`): what the last success on record says is a choice over a growing sequence, and that there is a last one
  (`HasLast`) is carried along with the sequence, so that no induction over it is needed. As long as nothing crossed and nothing was cut
  short, the cloud's switch, the cabinet's row and the account's setting are what that last one asked for, or what the request asks that
  has done its part and not yet recorded it (`CloudTold`, `RowTold`, `CountedTold`); a creation that granted no role has said so (`GrantInv`).
* `CloudCallsProofs` - `LeaksCorrect`, `WritesToldCorrect`, `RefusedCorrect`, for any forest of calls. `Top` and `ThreadOf` are
  recursive functions; that they are defined at all is a lemma (`ClimbExists`: the way up from a node is the least set that is
  closed under `Parent`), and what holds of a node whenever it holds of its parent holds of all (`UpTheTree`), which
  takes the place of an induction over depth. Whatever is under way is part of something that is (`ParentInv`), hence belongs to
  a request and a thread that run (`LiveAbove`), so that a kill forgets all of it, and the gate has lent exactly the places of the calls in
  flight (`GateInv`). A connection is a running thread's (`LinkInv`). A write is repeated only after a refusal that
  did not carry it out (`Once`), its row tells the code it ended with or is on record as unwritten, and a call that has renewed its token can be refused only for a revocation made
  meanwhile (`RenewInv`).

Only model-checked: liveness, `Answered` in `Invoicing` and in `CloudCalls`. Liveness under fairness and `ENABLED` are out of the
prover's reach, and so are the library's induction theorems, in place of which the proofs about sums, about forests of calls and about
trails take a smallest counterexample, a least closed set, or carry the fact along with the state. The run `usage_unmeasured`
refutes its property and has no theorem.

## Findings

One sentence of the repository is checked by a run that TLC finds violated (`usage_unmeasured`, quoted in
`PROJECT.json`): `billing_views.py:235` says an account that was never measured has nothing to invoice, but it resolves to the
empty domain id, and `draft` bills it the measurements that have none - those of projects that could not be placed.

The others were met while modelling. Where a property excepts one of them, it is named.

*Prices and documents.*
Two first PUTs of one account make twin lists, after which neither can be put again (`billing_views.py:561`);
two seedings make two default lists (`ensure_default_tariff.py:39`).
With lists under two spellings of an account, the overview and `resolve_tariff` may pick different ones,
while `billing_views.py:76` says "Same rule" (`OverviewPricesAlike` asks for one list per folded name).
The view checks one draft and `issue()` stores another, read later, so that a document without prices, usage or
requisites can get a number (`invoices.py:239`): because something changed in between, or because there are twin lists, or
requisites under two spellings, of which each draft may read another (`IncompleteOnlyIfDisturbed` excepts both).
Two requests for a month end in one document and one server error: the loser's five attempts collide with the winner's row
each time (`invoices.py:273`; `ClashMeansCrowd`).
A renamed account is invoiced twice for one month (`invoices.py:235`).
December's document, issued in January, is numbered in the billed year (`invoices.py:268`), while `models.py:164` speaks of the issuing
year.
Requisites are cut to 500 characters (`views.py:617`), while two of their columns are shorter.

*Measurements and bills.*
A rerun of a day in which a list is refused overwrites good figures with zeroes, and one in which the directory
fails takes the account off them (`collector.py:48`, `collector.py:140`; `MeasuredRight` excepts what was refused).
A user's bill filters the accrued figures by project, so the rows that have no owner price backups the account is not to
see (`BackupsUnseen` excepts them).
The types of volumes that could not be read (`resources.py:509`) are in nobody's `unavailable`, though without them every volume is
unlabelled: the estimate then leaves out all disks (`billing/views.py:117`), the dashboard shows no media
(`dashboard/views.py:22` says that a refusal degrades a section only), and the collector measures the day's disks as unlabelled, which
nothing prices (`collector.py:84`). `WholeIfNothingNamed` and `ShortOnlyIfRefused` say what still holds then.
Elastic addresses that could not be read are shown as "no public address" and as a count of 0, and the failing `sources` of
the snapshots page is not named in `unavailable`, so that its rows lose name and medium (`WholeIfNothingNamed` leaves those fields
out).
The dashboard's comment relies on the token being limited to the project, while `billing/views.py:77` says that a wide
token returns the whole cluster.

*Cache and pictures.*
A slow invalidation sets the version back and brings old lists with it (`resources.py:89`; `FreshUnlessRegressed`).
An account whose projects cannot be listed has a project count of 0 and the total falls short, while `snapshot.py:187` says
"unknown - not zero" (`FiguresTell` speaks of what is marked).
A refresh that fails between another build's two writes answers with an older picture than the one just kept, or an error.

*Signing in.*
A code can be accepted twice. Its mark lives exactly as long as the window of three steps, while `totp.py:27` says "held just past the
window" and `totp.py:55` "True once per code": a request that is held between the check (`totp.py:60`) and the mark
(`totp.py:64`) until the first acceptance's mark has ended adds its own (`UsedOnce` excepts a code held past its window).
The role of a user is in her row and the project in her session. A switch or sign-in whose worker dies between saving the two leaves her
with the role of another project than her session's (`services.py:40`), and so does a sign-in that is refused as blocked, because
`upsert_user` has by then set the role (`authentication/views.py:89`), until she next signs in or switches (`RoleAgrees` excepts
`astray`, and users with two sessions or two requests at once).
Signing in where another user is signed in stores the token under no key, so that the new session has none
(`authentication/views.py:95`; `SignInLeavesToken` excepts it).
`note_failure` writes back the lock it had read and can so undo a newer one, and `note_success` clears one set meanwhile
(`LockStands`). A ticket issued before enrolment can still replace a confirmed secret (`ConfirmedStays`). Two requests that
load a ticket at once can both end in a session (`TicketOnce`).

*Administration.*
The comment at `platform_admin/views.py:231` says that a switch shows on the next look; a list fetched before the switch and stored
after it shows the old state until it expires (`SwitchShows` excepts `restored`).
An unknown cabinet status in a PATCH is refused only after the cloud's switch was flipped, which is then not recorded
(`views.py:295`). Blocking a user who has no row is recorded as done. After a crash between a change and its record, the change is
not in the trail (`TrailsTell` excepts what a `Die` interrupted).

*Calls.*
A write whose answer is lost is recorded as failed though it may have been carried out, and invalidates nothing
(`http.py:113`, `resources.py:117`). A record with `upstream_error` - 429 and every 5xx alike (`resources.py:127`) - leaves open whether the
write was carried out.
A write that succeeded can be missing from the trail, when its row cannot be stored, which `audit/services.py:49` swallows on purpose,
or when `invalidate` raises between the write and the record (`resources.py:1003`), which the user sees as a server error
(`WritesTold` excepts both).

## Not modelled

* Serialisers, renderers, pagination, routing, permissions and settings keep no state. Where a component depends on a setting (a
  lifetime, the schedule), that line is mapped there.
* Texts - names, notes, labels, requisites beyond their presence - are abstracted, and with them lengths and formats.
* Of the cabinet's sign-in: the tickets of the second factor, which are used as the operators' are, and the reset of a password.
* Of the operators' panel: their own password change, signing out, the authentication of each page, and the health page.
* Of user administration: renames, the roles of a user who exists, the filters of the lists.
* The pages that pass one call on (events, metrics, alarms, quotas, console, a machine's password), and `SnapshotListView`'s machine
  snapshots. How the quota and network pages fan out is in `CloudCalls`.
* Two merged steps, which no property tells apart: the two statements of `resolve_tariff` are one read (`Invoicing!ReadTariff`), and a cached
  directory's look-up, fetch and store are one step (`ClusterSnapshot!ReadProjects`).
* The cloud itself, Redis and PostgreSQL are modelled from their use, and so are Django's sessions and `update_or_create`.
