------------------------------ MODULE Invoicing ------------------------------
(***************************************************************************)
(* Issuing a month's invoice (apps.billing.invoices and the two POST views *)
(* that call it), against a database in READ COMMITTED isolation, while    *)
(* price lists, requisites and measurements change underneath it.          *)
(*                                                                         *)
(* A request first drafts the document and refuses what cannot be one;     *)
(* then issue() opens a transaction, looks for an existing invoice, drafts *)
(* again, and claims a number through the unique constraints.  Every       *)
(* database statement is an action.  An inserted row is visible to other   *)
(* transactions only after commit, but an insert that collides with it     *)
(* waits until it is known whether that row stays.                         *)
(***************************************************************************)
EXTENDS PriceLists

CONSTANTS
    Requests,     \* POSTs, each used once
    Domains,      \* the cloud's account ids; one project each
    NoDomain,     \* the empty domain id of an unattributed measurement
    Months,       \* billing periods, in order
    YearOf,       \* [Months -> year]
    NamesOf,      \* [Domains -> the spellings a domain bears over time]
    HeldShapes,   \* what a measurement may find: sets of resources held
    Attempts,     \* how often a clashing number is tried again (5 in the code)
    NoDocument,
    InitialUsage, \* the measurements already taken
    InitialNames, \* [Domains -> Spellings]
    InitialProfiles, \* the requisites that may be stored at the start
    RequisiteEdits,  \* the requisites a PUT may store
    MaxChanges       \* bound: changes of requisites, measurements, names, month

Requisites == {"absent", "blank", "complete"}
Years == {YearOf[m] : m \in Months}
Measurement == [project : Domains, account : Names, domain : Domains \cup {NoDomain},
                month : Months, held : SUBSET Resources]

Document ==
    [year : Years, seq : Nat \ {0}, account : Names, domain : Domains \cup {NoDomain},
     period : Months, currency : Currencies,
     price : [Resources -> Nat], buyer : Requisites]

Draft == [list : Nat, currency : Currencies, rates : Rates, measured : BOOLEAN,
          held : SUBSET Resources, buyer : Requisites]

Key == [account : Names, domain : Domains \cup {NoDomain}, period : Months]

ASSUME InvoicingAssumption ==
    /\ Months \subseteq Nat
    /\ DOMAIN YearOf = Months
    /\ NoDomain \notin Domains
    /\ NamesOf \in [Domains -> SUBSET Spellings]
    /\ HeldShapes \subseteq SUBSET Resources
    /\ Attempts \in Nat \ {0}
    /\ InitialUsage \subseteq Measurement
    /\ InitialNames \in [Domains -> Spellings]
    /\ InitialProfiles \subseteq [Spellings -> Requisites]
    /\ RequisiteEdits \subseteq Requisites
    /\ MaxChanges \in Nat
    /\ NoDocument \notin Document

VARIABLES
    \* the tables, and the cloud's name for each domain
    profiles, usage, names, today,
    issued,    \* committed rows of `invoices`, lines included
    pending,   \* the row a request has inserted and not committed
    \* the requests
    at,        \* the next statement
    phase,     \* "check": the view's draft; "issue": inside issue()'s transaction
    wanted,    \* account, domain and period of the request
    draft,     \* what the draft under way has read
    tries, seq, reply, answer,
    \* history
    seen,      \* the invoices committed when issue() looked for an existing one
    disturbed, \* something a draft reads changed after the request came in
    changes    \* how many changes there have been, for MaxChanges

sourceVars == <<profiles, usage, names, today, changes>>
requestVars == <<at, phase, wanted, draft, tries, seq, reply, answer, seen>>
tableVars == <<issued, pending>>
vars == <<priceVars, sourceVars, requestVars, tableVars, disturbed>>

Stages == {"new", "tariff", "rates", "usage", "buyer", "lookup",
           "number", "insert", "commit", "report", "done"}
Replies == {"none", "refused", "existing", "issued", "clash", "failed"}

TypeOK ==
    /\ PriceTypeOK
    /\ profiles \in [Spellings -> Requisites]
    /\ usage \subseteq Measurement
    /\ names \in [Domains -> Spellings]
    /\ today \in Months
    /\ changes \in 0 .. MaxChanges
    /\ issued \subseteq Document
    /\ pending \in [Requests -> Document \cup {NoDocument}]
    /\ at \in [Requests -> Stages]
    /\ phase \in [Requests -> {"check", "issue"}]
    /\ wanted \in [Requests -> Key \cup {NoDocument}]
    /\ draft \in [Requests -> Draft]
    /\ tries \in [Requests -> 0 .. Attempts]
    /\ seq \in [Requests -> Nat]
    /\ reply \in [Requests -> Replies]
    /\ answer \in [Requests -> Document \cup {NoDocument}]
    /\ seen \in [Requests -> SUBSET Document]
    /\ disturbed \in [Requests -> BOOLEAN]
    /\ \A i \in Requests :
        /\ at[i] # "new" => wanted[i] \in Key
        /\ at[i] = "rates" => draft[i].list \in 1 .. Len(lists)
        /\ at[i] # "done" => tries[i] < Attempts
        /\ at[i] = "insert" => seq[i] # 0
        /\ at[i] = "commit" <=> pending[i] # NoDocument

EmptyDraft == [list |-> 0, currency |-> SeedCurrency, rates |-> EmptyRates,
               measured |-> FALSE, held |-> {}, buyer |-> "absent"]

Init ==
    /\ PriceInit
    /\ profiles \in InitialProfiles
    /\ usage = InitialUsage
    /\ names = InitialNames
    /\ today \in Months
    /\ changes = 0
    /\ issued = {}
    /\ pending = [i \in Requests |-> NoDocument]
    /\ at = [i \in Requests |-> "new"]
    /\ phase = [i \in Requests |-> "check"]
    /\ wanted = [i \in Requests |-> NoDocument]
    /\ draft = [i \in Requests |-> EmptyDraft]
    /\ tries = [i \in Requests |-> 0]
    /\ seq = [i \in Requests |-> 0]
    /\ reply = [i \in Requests |-> "none"]
    /\ answer = [i \in Requests |-> NoDocument]
    /\ seen = [i \in Requests |-> {}]
    /\ disturbed = [i \in Requests |-> FALSE]

-----------------------------------------------------------------------------
(* What a draft reads changes. *)

Disturb == disturbed' = [i \in Requests |-> disturbed[i] \/ at[i] \notin {"new", "done"}]

Change == changes < MaxChanges /\ changes' = changes + 1

EditPrices ==
    /\ PriceNext
    /\ Disturb
    /\ UNCHANGED <<sourceVars, requestVars, tableVars>>

\* PUT of the buyer's requisites: one update_or_create on a unique name.
PutRequisites ==
    /\ Change
    /\ \E n \in Spellings, r \in RequisiteEdits : profiles' = [profiles EXCEPT ![n] = r]
    /\ Disturb
    /\ UNCHANGED <<priceVars, usage, names, today, requestVars, tableVars>>

\* One row of the collector. The directory may not know the project, and then
\* the row names nobody; running a day again replaces that day's row.
Capture(d) ==
    /\ Change
    /\ \E held \in HeldShapes, known \in BOOLEAN :
        LET row == [project |-> d, month |-> today, held |-> held,
                    account |-> IF known THEN names[d] ELSE NoName,
                    domain |-> IF known THEN d ELSE NoDomain]
            rerun == {r \in usage : r.project = d /\ r.month = today}
        IN \/ usage' = usage \cup {row}
           \/ \E old \in rerun : usage' = (usage \ {old}) \cup {row}
    /\ Disturb
    /\ UNCHANGED <<priceVars, profiles, names, today, requestVars, tableVars>>

\* The cloud renames an account.
Rename(d) ==
    /\ Change
    /\ \E n \in NamesOf[d] \ {names[d]} : names' = [names EXCEPT ![d] = n]
    /\ UNCHANGED <<priceVars, profiles, usage, today, requestVars, tableVars, disturbed>>

TurnMonth ==
    /\ Change
    /\ today + 1 \in Months
    /\ today' = today + 1
    /\ UNCHANGED <<priceVars, profiles, usage, names, requestVars, tableVars, disturbed>>

-----------------------------------------------------------------------------
(* A request arrives. *)

Accept(i, account, domain, period) ==
    /\ at[i] = "new"
    /\ wanted' = [wanted EXCEPT ![i] = [account |-> account, domain |-> domain,
                                        period |-> period]]
    /\ IF period > today   \* "That month has not started yet."
       THEN /\ at' = [at EXCEPT ![i] = "done"]
            /\ reply' = [reply EXCEPT ![i] = "refused"]
       ELSE /\ at' = [at EXCEPT ![i] = "tariff"]
            /\ UNCHANGED reply
    /\ UNCHANGED <<priceVars, sourceVars, phase, draft, tries, seq, answer, seen,
                   tableVars, disturbed>>

\* The cabinet: the account as it was spelled when this session signed in,
\* its domain looked up by name without regard to case (account_domain).
CabinetPost(i) ==
    \E d \in Domains, m \in Months : \E n \in NamesOf[d] :
        /\ Fold[n] = Fold[names[d]]
        /\ Accept(i, n, d, m)

\* The operators' panel: the account as the newest matching measurement names
\* it (_resolve_account), or as typed and with no domain when there is none.
OperatorPost(i) ==
    \E typed \in Spellings, m \in Months :
        LET known == {r \in usage : Fold[r.account] = Fold[typed]} IN
        \/ \E r \in known : /\ \A s \in known : s.month <= r.month
                            /\ Accept(i, r.account, r.domain, m)
        \/ known = {} /\ Accept(i, typed, NoDomain, m)

-----------------------------------------------------------------------------
(* draft(): the view runs it to check, issue() runs it again to store. *)

Proceed(i, stage) == at' = [at EXCEPT ![i] = stage]

ReadTariff(i) ==
    LET found == ResolveTariff(wanted[i].account) IN
    /\ at[i] = "tariff"
    /\ \/ /\ found = {}
          /\ Proceed(i, "usage")
          /\ UNCHANGED draft
       \/ \E id \in found :
          /\ draft' = [draft EXCEPT ![i].list = id, ![i].currency = lists[id].currency]
          /\ Proceed(i, "rates")
    /\ UNCHANGED <<priceVars, sourceVars, phase, wanted, tries, seq, reply, answer,
                   seen, tableVars, disturbed>>

ReadRates(i) ==
    /\ at[i] = "rates"
    /\ draft' = [draft EXCEPT ![i].rates = lists[draft[i].list].rates]
    /\ Proceed(i, "usage")
    /\ UNCHANGED <<priceVars, sourceVars, phase, wanted, tries, seq, reply, answer,
                   seen, tableVars, disturbed>>

\* The month's measurements are taken by domain id, whatever it is.
ReadUsage(i) ==
    LET rows == {r \in usage : r.domain = wanted[i].domain /\ r.month = wanted[i].period} IN
    /\ at[i] = "usage"
    /\ draft' = [draft EXCEPT ![i].measured = (rows # {}),
                              ![i].held = UNION {r.held : r \in rows}]
    /\ Proceed(i, "buyer")
    /\ UNCHANGED <<priceVars, sourceVars, phase, wanted, tries, seq, reply, answer,
                   seen, tableVars, disturbed>>

\* The requisites under any spelling of the name; .first() of several is any.
BuyerOf(n) ==
    LET found == {profiles[m] : m \in {k \in Spellings : Fold[k] = Fold[n]}} \ {"absent"}
    IN IF found = {} THEN {"absent"} ELSE found

Billable(d) == PricedIn(d.rates) \cap d.held

\* Mutant: a document without a priced line passes.
ValidUnpriced(d) == d.buyer = "complete" /\ d.measured

\* What the views refuse: missing requisites, nothing measured, nothing priced.
Valid(d) == d.buyer = "complete" /\ d.measured /\ Billable(d) # {}

ReadBuyer(i) ==
    /\ at[i] = "buyer"
    /\ \E b \in BuyerOf(wanted[i].account) :
        LET drafted == [draft[i] EXCEPT !.buyer = b] IN
        \/ /\ phase[i] = "check"   \* the view's draft is thrown away
           /\ draft' = [draft EXCEPT ![i] = EmptyDraft]
           /\ IF Valid(drafted)
              THEN Proceed(i, "lookup") /\ UNCHANGED reply
              ELSE Proceed(i, "done") /\ reply' = [reply EXCEPT ![i] = "refused"]
        \/ /\ phase[i] = "issue"
           /\ draft' = [draft EXCEPT ![i] = drafted]
           /\ Proceed(i, "number")
           /\ UNCHANGED reply
    /\ UNCHANGED <<priceVars, sourceVars, phase, wanted, tries, seq, answer, seen,
                   tableVars, disturbed>>
-----------------------------------------------------------------------------
(* issue(): one transaction from here on. *)

SameMonth(d, n, m) == Fold[d.account] = Fold[n] /\ d.period = m

\* Mutant: the account's name is compared as it is spelled.
ExistingAsSpelled(i) ==
    {d \in issued : d.account = wanted[i].account /\ d.period = wanted[i].period}

Existing(i) == {d \in issued : SameMonth(d, wanted[i].account, wanted[i].period)}

LookUp(i) ==
    /\ at[i] = "lookup"
    /\ seen' = [seen EXCEPT ![i] = issued]
    /\ phase' = [phase EXCEPT ![i] = "issue"]
    /\ \/ /\ Existing(i) = {}
          /\ Proceed(i, "tariff")
          /\ UNCHANGED <<reply, answer>>
       \/ \E d \in Existing(i) :
          /\ Proceed(i, "report")
          /\ reply' = [reply EXCEPT ![i] = "existing"]
          /\ answer' = [answer EXCEPT ![i] = d]
    /\ UNCHANGED <<priceVars, sourceVars, wanted, draft, tries, seq, tableVars, disturbed>>

\* Mutant: the number comes from a sequence, which a rollback does not return.
NumbersHandedOut(i) ==
    {d.seq : d \in {e \in issued \cup ({pending[j] : j \in Requests} \ {NoDocument}) :
                    e.year = YearOf[wanted[i].period]}}

NumbersTaken(i) == {d.seq : d \in {e \in issued : e.year = YearOf[wanted[i].period]}}

\* next_number: one past the highest committed number of the billed year.
ReadNumber(i) ==
    /\ at[i] = "number"
    /\ \E n \in {0} \cup NumbersTaken(i) :
        /\ \A k \in NumbersTaken(i) : k <= n
        /\ seq' = [seq EXCEPT ![i] = n + 1]
    /\ Proceed(i, "insert")
    /\ UNCHANGED <<priceVars, sourceVars, phase, wanted, draft, tries, reply, answer,
                   seen, tableVars, disturbed>>

\* The row and its lines. Only priced lines go on the document.
NewDocument(i) ==
    [year |-> YearOf[wanted[i].period], seq |-> seq[i], account |-> wanted[i].account,
     domain |-> wanted[i].domain, period |-> wanted[i].period,
     currency |-> draft[i].currency, buyer |-> draft[i].buyer,
     price |-> [r \in Resources |-> IF r \in Billable(draft[i]) THEN draft[i].rates[r] ELSE 0]]

\* Mutant: nothing makes the number unique.
CollideByMonth(d, e) == d.account = e.account /\ d.period = e.period

\* The unique constraints: the number, and (account, period) as spelled.
Collide(d, e) ==
    \/ d.year = e.year /\ d.seq = e.seq
    \/ d.account = e.account /\ d.period = e.period

\* The row is stored when nothing collides with it, also not a row another
\* transaction has inserted: until that one ends, this insert waits.
Claim(i) ==
    LET row == NewDocument(i) IN
    /\ \A d \in issued : ~ Collide(d, row)
    /\ \A j \in Requests : pending[j] # NoDocument => ~ Collide(pending[j], row)
    /\ pending' = [pending EXCEPT ![i] = row]
    /\ Proceed(i, "commit")
    /\ UNCHANGED <<tries, reply, draft>>

\* Mutant: one attempt too few.
TriesLeftShort(i) == tries[i] + 2 < Attempts

TriesLeft(i) == tries[i] + 1 < Attempts

\* Mutant: a clash is tried again for ever.
ClashForever(i) ==
    /\ \E d \in issued : Collide(d, NewDocument(i))
    /\ Proceed(i, "number")
    /\ UNCHANGED <<tries, reply, draft, pending>>

\* IntegrityError: the savepoint is undone and the next number is tried.
Clash(i) ==
    /\ \E d \in issued : Collide(d, NewDocument(i))
    /\ tries' = [tries EXCEPT ![i] = @ + 1]
    /\ IF TriesLeft(i)
       THEN Proceed(i, "number") /\ UNCHANGED <<reply, draft>>
       ELSE /\ Proceed(i, "done")
            /\ reply' = [reply EXCEPT ![i] = "clash"]
            /\ draft' = [draft EXCEPT ![i] = EmptyDraft]
    /\ UNCHANGED pending

Insert(i) ==
    /\ at[i] = "insert"
    /\ Claim(i) \/ Clash(i)
    /\ UNCHANGED <<priceVars, sourceVars, phase, wanted, seq, answer, seen,
                   issued, disturbed>>

\* The lines are inserted and the transaction commits.
Commit(i) ==
    /\ at[i] = "commit"
    /\ issued' = issued \cup {pending[i]}
    /\ pending' = [pending EXCEPT ![i] = NoDocument]
    /\ reply' = [reply EXCEPT ![i] = "issued"]
    /\ answer' = [answer EXCEPT ![i] = pending[i]]
    /\ draft' = [draft EXCEPT ![i] = EmptyDraft]
    /\ Proceed(i, "report")
    /\ UNCHANGED <<priceVars, sourceVars, phase, wanted, tries, seq, seen, disturbed>>

\* The view records the action and answers.
Report(i) ==
    /\ at[i] = "report"
    /\ Proceed(i, "done")
    /\ UNCHANGED <<priceVars, sourceVars, phase, wanted, draft, tries, seq, reply, answer,
                   seen, tableVars, disturbed>>

\* Mutant: without a transaction the inserted row stays behind, half written.
FailHalfway(i) ==
    /\ at[i] \notin {"new", "done"}
    /\ reply' = [reply EXCEPT ![i] = "failed"]
    /\ draft' = [draft EXCEPT ![i] = EmptyDraft]
    /\ Proceed(i, "done")
    /\ UNCHANGED <<priceVars, sourceVars, phase, wanted, tries, seq, answer, seen,
                   tableVars, disturbed>>

\* The worker dies, the database refuses a statement or the connection is
\* lost: an open transaction is rolled back, a committed one stays.
Fail(i) ==
    /\ at[i] \notin {"new", "done"}
    /\ pending' = [pending EXCEPT ![i] = NoDocument]
    /\ reply' = [reply EXCEPT ![i] = "failed"]
    /\ draft' = [draft EXCEPT ![i] = EmptyDraft]
    /\ Proceed(i, "done")
    /\ UNCHANGED <<priceVars, sourceVars, phase, wanted, tries, seq, answer, seen,
                   issued, disturbed>>

-----------------------------------------------------------------------------
Arrive(i) == CabinetPost(i) \/ OperatorPost(i)

Work(i) ==
    \/ ReadTariff(i) \/ ReadRates(i) \/ ReadUsage(i) \/ ReadBuyer(i)
    \/ LookUp(i) \/ ReadNumber(i) \/ Insert(i) \/ Commit(i) \/ Report(i)

Environment ==
    \/ EditPrices
    \/ PutRequisites
    \/ \E d \in Domains : Capture(d) \/ Rename(d)
    \/ TurnMonth

Next ==
    \/ \E i \in Requests : Arrive(i) \/ Work(i) \/ Fail(i)
    \/ Environment

Spec == Init /\ [][Next]_vars

\* A worker runs its request to the end; nothing makes requests arrive.
FairSpec == Spec /\ \A i \in Requests : WF_vars(Work(i))

-----------------------------------------------------------------------------
(* Properties. *)

\* Issuing keeps the register's promise whatever transactions interleave, wait
\* for each other or are rolled back: documents are only added, numbers run
\* without a gap within their year and are never shared, and no account name
\* has two documents for a month ("from then on the document is frozen",
\* "two invoices sharing a number would not be forgivable", invoices.py).
Register == INSTANCE InvoiceRegister WITH register <- issued
KeepsTheRegister == Register!Spec

\* The strengthening that makes the register's promise inductive: a number
\* claimed stays claimable until its row is committed.
NumbersInOrder ==
    /\ \A d \in issued : \A k \in 1 .. d.seq - 1 :
          \E e \in issued : e.year = d.year /\ e.seq = k
    /\ \A i \in Requests : at[i] \in {"insert", "commit"} =>
          \A k \in 1 .. seq[i] - 1 :
             \E e \in issued : e.year = YearOf[wanted[i].period] /\ e.seq = k
    /\ \A i \in Requests : pending[i] # NoDocument =>
          /\ pending[i].year = YearOf[wanted[i].period]
          /\ pending[i].seq = seq[i]
          /\ \A d \in issued : ~ Collide(d, pending[i])
          /\ \A j \in Requests \ {i} :
                pending[j] # NoDocument => ~ Collide(pending[i], pending[j])

\* Issuing again returns the same document: nobody who could see the month's
\* invoice, under any spelling of the account, stores another one.
ReissueReturnsOriginal ==
    \A i \in Requests : reply[i] = "issued" =>
        \A d \in seen[i] : ~ SameMonth(d, answer[i].account, answer[i].period)

\* "A clash simply takes the next one" (issue): a request gives up for want of
\* a number only when that many others were issued in the meantime, or when
\* the month it was to issue was issued by another.
ClashMeansCrowd ==
    \A i \in Requests : reply[i] = "clash" =>
        LET since == issued \ seen[i] IN
        \/ \E d \in since : d.account = wanted[i].account /\ d.period = wanted[i].period
        \/ Cardinality({d \in since : d.year = YearOf[wanted[i].period]}) >= Attempts

\* What makes a document one that may carry a number (the refusals of both
\* POST views): requisites, and at least one priced line.
Complete(d) == d.buyer = "complete" /\ \E r \in Resources : d.price[r] > 0

\* Several lists, or several requisites, of one name, of which a draft may read any.
Ambiguous(n) ==
    \/ \E x, y \in ResolveTariff(n) : lists[x].rates # lists[y].rates
    \/ \E x, y \in BuyerOf(n) : x # y

\* An incomplete document is stored only if something the draft reads changed
\* while the request was under way, or if there is more than one thing to read:
\* the check itself lets none through.
IncompleteOnlyIfDisturbed ==
    \A i \in Requests : pending[i] # NoDocument /\ ~ Complete(pending[i]) =>
        disturbed[i] \/ Ambiguous(wanted[i].account)

\* Every request is answered: waiting for another transaction's row ends, and
\* the retries end.
Answered == \A i \in Requests : at[i] # "new" ~> at[i] = "done"
=============================================================================
