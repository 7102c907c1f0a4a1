---------------------------- MODULE UsageCollector ----------------------------
(***************************************************************************)
(* The daily measurement (apps.billing.collector): one pass over four      *)
(* lists of the cloud and its directory of projects, then one row per      *)
(* project that holds anything.                                            *)
(*                                                                         *)
(* A pass is a worker's task or an operator's command; nothing keeps two   *)
(* from running at once, a pass may be repeated, and it writes row by row, *)
(* outside a transaction.  What it reads is not read at one instant.       *)
(*                                                                         *)
(* Where a row has sums, the model has the set of the things summed.  The  *)
(* accounts keep their names here; Invoicing renames them.                 *)
(***************************************************************************)
EXTENDS Integers, Sequences, FiniteSets

CONSTANTS
    Passes,        \* workers and consoles
    Domains,       \* accounts
    NoDomain,      \* the owner of a row nobody could place
    Projects,
    DomainOf,      \* of a project
    Items,         \* machines, volumes, addresses, snapshots
    Items0,        \* those there are at first
    ListOf,        \* of an item
    Backups,       \* snapshots a protection group took
    ProjectOf,     \* of an item
    NoRow,
    MaxRefusals,   \* bound: calls the cloud fails
    Fleeting,      \* bound: items that come or go, each of them once
    MaxDay         \* bound: days in a run

\* In the order they are asked for.
Lists == <<"machines", "volumes", "addresses", "snapshots">>

ListNames == {Lists[n] : n \in DOMAIN Lists}

\* What the cloud may refuse: the lists, and the types of volumes, which only say what
\* medium a volume is on.
Refusable == ListNames \cup {"types"}

\* `missed` says how a row came about, and is not in the code's.
Row == [seen : SUBSET Items, backups : SUBSET Items, owner : Domains \cup {NoDomain},
        missed : SUBSET Refusable]

ASSUME UsageAssumption ==
    /\ IsFiniteSet(Domains) /\ NoDomain \notin Domains
    /\ DomainOf \in [Projects -> Domains]
    /\ Items0 \subseteq Items
    /\ ListOf \in [Items -> ListNames]
    /\ ProjectOf \in [Items -> Projects]
    /\ \A i \in Backups : i \in Items /\ ListOf[i] = "snapshots"
    /\ NoRow \notin Row
    /\ Fleeting \subseteq Items /\ MaxRefusals \in Nat /\ MaxDay \in Nat \ {0}

VARIABLES
    today,
    items,     \* what the cluster holds
    rows,      \* usage_snapshots
    \* passes
    at,        \* what is next: a list, the directory or the rows
    taken,     \* the day the rows are for
    measured,  \* what the lists held
    known,     \* accounts whose projects could be listed
    todo,      \* projects whose rows are still to be written
    \* the rest
    refusals,  \* calls the cloud has failed
    changed,   \* items that have come or gone
    \* history
    missed,    \* what a pass was refused
    whole      \* days of which a pass was ended, with the lists it had read

Days == 1..MaxDay
cloudVars == <<items, changed, refusals>>
passVars == <<at, taken, measured, known, todo, missed>>
vars == <<today, cloudVars, rows, passVars, whole>>

Stages == ListNames \cup {"idle", "directory", "rows"}

UsageTypeOK ==
    /\ today \in Days
    /\ items \subseteq Items
    /\ \A q \in Projects, d \in Days : rows[q][d] # NoRow => rows[q][d] \in Row
    /\ at \in [Passes -> Stages]
    /\ taken \in [Passes -> Days]
    /\ measured \in [Passes -> SUBSET Items]
    /\ known \in [Passes -> SUBSET Domains]
    /\ todo \in [Passes -> SUBSET Projects]
    /\ \A p \in Passes : (at[p] = "rows") <=> (todo[p] # {})
    /\ refusals \in Nat /\ changed \subseteq Fleeting
    /\ missed \in [Passes -> SUBSET Refusable]
    /\ whole \subseteq Days \X ListNames

Init ==
    /\ today = 1
    /\ items = Items0
    /\ rows = [q \in Projects |-> [d \in Days |-> NoRow]]
    /\ at = [p \in Passes |-> "idle"]
    /\ taken = [p \in Passes |-> 1]
    /\ measured = [p \in Passes |-> {}]
    /\ known = [p \in Passes |-> {}]
    /\ todo = [p \in Passes |-> {}]
    /\ refusals = 0 /\ changed = {}
    /\ missed = [p \in Passes |-> {}]
    /\ whole = {}

-----------------------------------------------------------------------------
(* capture. *)

Goes(p, stage) == at' = [at EXCEPT ![p] = stage]

\* A call the cloud answers, and one it does not.
Answered == UNCHANGED refusals
Refused == refusals < MaxRefusals /\ refusals' = refusals + 1

HeldBy(q, held) == {i \in held : ProjectOf[i] = q}

\* What of `held` is in a column that has a price: without the types every volume is
\* unlabelled, and nobody is told.
Labelled(held, refused) == {i \in held : "types" \in refused => ListOf[i] # "volumes"}

\* Mutant: what was left to do is kept for the next pass.
EndsHalfway(p) ==
    /\ Goes(p, "idle")
    /\ measured' = [measured EXCEPT ![p] = {}]
    /\ known' = [known EXCEPT ![p] = {}]
    /\ missed' = [missed EXCEPT ![p] = {}]
    /\ taken' = [taken EXCEPT ![p] = 1]
    /\ UNCHANGED todo

\* The pass is over, and what it had read is forgotten.
Ends(p) ==
    /\ Goes(p, "idle")
    /\ measured' = [measured EXCEPT ![p] = {}]
    /\ known' = [known EXCEPT ![p] = {}]
    /\ todo' = [todo EXCEPT ![p] = {}]
    /\ missed' = [missed EXCEPT ![p] = {}]
    /\ taken' = [taken EXCEPT ![p] = 1]

\* Its last row is written.
Finishes(p) ==
    /\ whole' = whole \cup ({taken[p]} \X (ListNames \ missed[p]))
    /\ Ends(p)

After(list) ==
    LET n == CHOOSE k \in DOMAIN Lists : Lists[k] = list
    IN  IF n < Len(Lists) THEN Lists[n + 1] ELSE "directory"

\* One list.  Losing it must not throw the others away.
ReadsList(p, list) ==
    /\ \/ /\ Answered
          /\ measured' = [measured EXCEPT ![p] = @ \cup {i \in items : ListOf[i] = list}]
          /\ UNCHANGED missed
       \/ /\ list = "volumes" /\ Refused
          /\ measured' = [measured EXCEPT ![p] = @ \cup {i \in items : ListOf[i] = list}]
          /\ missed' = [missed EXCEPT ![p] = @ \cup {"types"}]
       \/ /\ Refused
          /\ missed' = [missed EXCEPT ![p] = @ \cup {list}]
          /\ UNCHANGED measured
    /\ UNCHANGED <<today, items, changed, rows, known, todo, whole>>

\* The day is fixed here, whatever the time when the rows are written: today, or
\* the one the command asked for.
Begin(p) ==
    /\ at[p] = "idle"
    /\ \E d \in 1..today : taken' = [taken EXCEPT ![p] = d]
    /\ Goes(p, After(Lists[1]))
    /\ ReadsList(p, Lists[1])

\* Mutant: one refused list is the end of the measuring.
ReadListOrStop(p) ==
    /\ at[p] \in ListNames
    /\ ReadsList(p, at[p])
    /\ Goes(p, IF measured'[p] = measured[p] /\ missed'[p] # missed[p] THEN "directory" ELSE After(at[p]))
    /\ UNCHANGED taken

ReadList(p) ==
    /\ at[p] \in ListNames
    /\ ReadsList(p, at[p])
    /\ Goes(p, After(at[p]))
    /\ UNCHANGED taken

\* Whose project is whose.  An account that cannot be read is left out; without
\* the list of accounts the pass ends, and what it measured is lost.  A cluster
\* that holds nothing has no rows.
ReadDirectory(p) ==
    /\ at[p] = "directory"
    /\ \/ \E lost \in SUBSET Domains :
             /\ refusals' = refusals + Cardinality(lost) /\ refusals' <= MaxRefusals
             /\ \/ /\ measured[p] # {}
                   /\ known' = [known EXCEPT ![p] = Domains \ lost]
                   /\ Goes(p, "rows")
                   /\ todo' = [todo EXCEPT ![p] = {ProjectOf[i] : i \in measured[p]}]
                   /\ UNCHANGED <<taken, measured, missed, whole>>
                \/ measured[p] = {} /\ Finishes(p)
       \/ /\ Refused
          /\ Ends(p)
          /\ UNCHANGED whole
    /\ UNCHANGED <<today, items, changed, rows>>

\* What a pass makes of a project.
RowOf(p, q) ==
    [seen |-> Labelled(HeldBy(q, measured[p]), missed[p]),
     backups |-> HeldBy(q, measured[p]) \cap Backups,
     owner |-> IF DomainOf[q] \in known[p] THEN DomainOf[q] ELSE NoDomain,
     missed |-> missed[p]]

Wrote(p, q) ==
    /\ \/ /\ todo[p] # {q}
          /\ todo' = [todo EXCEPT ![p] = @ \ {q}]
          /\ UNCHANGED <<at, taken, measured, known, missed, whole>>
       \/ todo[p] = {q} /\ Finishes(p)
    /\ UNCHANGED <<today, cloudVars>>

\* Mutant: a project whose account is not known is left out.
WriteRowIfKnown(p, q) ==
    /\ at[p] = "rows" /\ q \in todo[p]
    /\ rows' = IF DomainOf[q] \in known[p] THEN [rows EXCEPT ![q][taken[p]] = RowOf(p, q)] ELSE rows
    /\ Wrote(p, q)

\* Mutant: a column added later is written with new rows only.
WriteRowPartly(p, q) ==
    /\ at[p] = "rows" /\ q \in todo[p]
    /\ LET old == rows[q][taken[p]]
           new == RowOf(p, q)
       IN  rows' = [rows EXCEPT ![q][taken[p]] =
                       IF old = NoRow THEN new ELSE [new EXCEPT !.backups = old.backups]]
    /\ Wrote(p, q)

\* update_or_create: a row of that day is written over, with or without an account.
WriteRow(p, q) ==
    /\ at[p] = "rows" /\ q \in todo[p]
    /\ rows' = [rows EXCEPT ![q][taken[p]] = RowOf(p, q)]
    /\ Wrote(p, q)

\* A worker is killed, or the database refuses: the rows written stay.
Die(p) ==
    /\ at[p] # "idle"
    /\ Ends(p)
    /\ UNCHANGED <<today, cloudVars, rows, whole>>

-----------------------------------------------------------------------------
(* The cluster, and midnight. *)

ItemChanges(i) ==
    /\ i \in Fleeting \ changed
    /\ changed' = changed \cup {i}
    /\ items' = IF i \in items THEN items \ {i} ELSE items \cup {i}
    /\ UNCHANGED <<today, rows, passVars, refusals, whole>>

Midnight ==
    /\ today < MaxDay
    /\ today' = today + 1
    /\ UNCHANGED <<cloudVars, rows, passVars, whole>>

Next ==
    \/ \E p \in Passes :
          \/ Begin(p) \/ ReadList(p) \/ ReadDirectory(p) \/ Die(p)
          \/ \E q \in Projects : WriteRow(p, q)
    \/ \E i \in Items : ItemChanges(i)
    \/ Midnight

Spec == Init /\ [][Next]_vars

-----------------------------------------------------------------------------
(* Correctness. *)

\* What was there from the first day to now.
Steady == Items0 \ changed

\* A row falls short of what its project held only by what was in a list its own
\* pass was refused (collector.py 48), or by its volumes if the pass was refused
\* their types, and holds nothing of another project.
ShortOnlyIfRefused ==
    \A q \in Projects, d \in Days :
       LET row == rows[q][d]
       IN  row # NoRow =>
             /\ Labelled({i \in HeldBy(q, Steady) : ListOf[i] \notin row.missed}, row.missed)
                   \subseteq row.seen
             /\ row.seen \subseteq HeldBy(q, Items0 \cup changed)
             /\ row.owner \in {DomainOf[q], NoDomain}

\* A pass that was not killed leaves every project that held something a row of
\* its day, with an account or without, and nothing takes it away afterwards
\* (collector.py 136).
DayIsMeasured ==
    \A d \in Days, i \in Steady :
       <<d, ListOf[i]>> \in whole => rows[ProjectOf[i]][d] # NoRow

\* What passes leave behind is what there was: the types, and the two above.
MeasuredRight == UsageTypeOK /\ ShortOnlyIfRefused /\ DayIsMeasured
=============================================================================
