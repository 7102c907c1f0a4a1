------------------------------ MODULE UsageProofs ------------------------------
(***************************************************************************)
(* Theorems about UsageCollector, UsageBills and CabinetPages, for any     *)
(* passes, days, accounts, projects and items, and any number of refusals. *)
(*                                                                         *)
(* In this order: what a pass has measured and what it writes, the laws of *)
(* sums over finite sets, the rows as the pages read them and their        *)
(* columns, rounding, the bills, and the cabinet's pages.                  *)
(***************************************************************************)
EXTENDS CabinetPages, FiniteSetTheorems, TLAPS

-----------------------------------------------------------------------------
(* The four lists, in their order. *)

LEMMA ListFacts ==
  /\ Len(Lists) = 4 /\ DOMAIN Lists = 1..4
  /\ Lists[1] = "machines" /\ Lists[2] = "volumes"
  /\ Lists[3] = "addresses" /\ Lists[4] = "snapshots"
BY DEF Lists

LEMMA Names == ListNames = {"machines", "volumes", "addresses", "snapshots"}
<1>1. 1..4 = {1, 2, 3, 4}
  OBVIOUS
<1> QED
  BY <1>1, ListFacts DEF ListNames

LEMMA Places ==
  ASSUME NEW n \in 1..4
  PROVE  (CHOOSE k \in DOMAIN Lists : Lists[k] = Lists[n]) = n
<1>1. \A k \in DOMAIN Lists : Lists[k] = Lists[n] => k = n
  BY ListFacts
<1> QED
  BY <1>1, ListFacts

LEMMA AfterEach ==
  /\ After("machines") = "volumes" /\ After("volumes") = "addresses"
  /\ After("addresses") = "snapshots" /\ After("snapshots") = "directory"
<1>1. /\ (CHOOSE k \in DOMAIN Lists : Lists[k] = "machines") = 1
      /\ (CHOOSE k \in DOMAIN Lists : Lists[k] = "volumes") = 2
      /\ (CHOOSE k \in DOMAIN Lists : Lists[k] = "addresses") = 3
      /\ (CHOOSE k \in DOMAIN Lists : Lists[k] = "snapshots") = 4
  BY Places, ListFacts
<1> QED
  BY <1>1, ListFacts DEF After

-----------------------------------------------------------------------------
(* The invariant. *)

RowsOK == rows \in [Projects -> [Days -> Row \cup {NoRow}]]

\* The lists a pass has been through when it is at a stage.
Through(stage) ==
    CASE stage \in {"idle", "machines"} -> {}
      [] stage = "volumes" -> {"machines"}
      [] stage = "addresses" -> {"machines", "volumes"}
      [] stage = "snapshots" -> {"machines", "volumes", "addresses"}
      [] OTHER -> ListNames

\* A pass has all that was in the lists it has been through, but for those it was
\* refused, and nothing that never was.
HasRead(p) ==
    /\ measured[p] \subseteq Items0 \cup changed
    /\ \A i \in Steady : ListOf[i] \in Through(at[p]) => i \in measured[p] \/ ListOf[i] \in missed[p]

\* What it does not have to write any more is written.
HasWritten(p) ==
    at[p] = "rows" => \A i \in measured[p] : ProjectOf[i] \in todo[p] \/ rows[ProjectOf[i]][taken[p]] # NoRow

ItemsInv == Steady \subseteq items /\ items \subseteq Items0 \cup changed

TypeInv == UsageTypeOK /\ RowsOK

Inv == /\ TypeInv
       /\ ItemsInv
       /\ \A p \in Passes : HasRead(p) /\ HasWritten(p)
       /\ ShortOnlyIfRefused
       /\ DayIsMeasured

-----------------------------------------------------------------------------
(* Types. *)

LEMMA InitType == Init => TypeInv
<1> SUFFICES ASSUME Init PROVE TypeInv
  OBVIOUS
<1>1. 1 \in Days
  BY UsageAssumption DEF Days
<1>2. "idle" \in Stages
  BY DEF Stages
<1> QED
  BY <1>1, <1>2, UsageAssumption DEF Init, TypeInv, UsageTypeOK, RowsOK

LEMMA AfterStages == \A list \in ListNames : After(list) \in Stages \ {"idle", "rows"}
  BY AfterEach, Names DEF Stages

LEMMA EndsType ==
  ASSUME TypeInv, NEW p \in Passes, Ends(p),
         UNCHANGED <<today, items, changed>>, refusals' \in Nat,
         RowsOK', whole' \subseteq Days \X ListNames
  PROVE  TypeInv'
<1>1. 1 \in Days
  BY UsageAssumption DEF Days
<1>2. /\ at' \in [Passes -> Stages] /\ taken' \in [Passes -> Days]
      /\ measured' \in [Passes -> SUBSET Items] /\ known' \in [Passes -> SUBSET Domains]
      /\ todo' \in [Passes -> SUBSET Projects] /\ missed' \in [Passes -> SUBSET Refusable]
  BY <1>1 DEF TypeInv, UsageTypeOK, Ends, Goes, Stages
<1>3. \A r \in Passes : (at'[r] = "rows") <=> (todo'[r] # {})
  BY DEF TypeInv, UsageTypeOK, Ends, Goes
<1>4. \A q \in Projects, d \in Days : rows'[q][d] # NoRow => rows'[q][d] \in Row
  BY DEF RowsOK, Days
<1> QED
  BY <1>2, <1>3, <1>4 DEF TypeInv, UsageTypeOK, Days

LEMMA ReadsListType ==
  ASSUME TypeInv, NEW p \in Passes, NEW list \in ListNames, ReadsList(p, list),
         at[p] # "rows", Goes(p, After(list)), taken' \in [Passes -> Days]
  PROVE  TypeInv'
<1>1. refusals' \in Nat
  BY DEF TypeInv, UsageTypeOK, ReadsList, Answered, Refused
<1>2. measured' \in [Passes -> SUBSET Items] /\ missed' \in [Passes -> SUBSET Refusable]
  BY DEF TypeInv, UsageTypeOK, ReadsList, Refusable
<1>3. at' \in [Passes -> Stages] /\ at'[p] # "rows" /\ at' = [at EXCEPT ![p] = at'[p]]
  BY AfterStages DEF TypeInv, UsageTypeOK, Goes
<1>4. todo' = todo /\ rows' = rows
  BY DEF ReadsList
<1>5. \A r \in Passes : (at'[r] = "rows") <=> (todo'[r] # {})
  BY <1>3, <1>4 DEF TypeInv, UsageTypeOK
<1> QED
  BY <1>1, <1>2, <1>3, <1>4, <1>5 DEF TypeInv, UsageTypeOK, RowsOK, ReadsList, Days

LEMMA RowOfType ==
  ASSUME TypeInv, NEW p \in Passes, NEW q \in Projects
  PROVE  RowOf(p, q) \in Row
  BY UsageAssumption DEF TypeInv, UsageTypeOK, RowOf, Row, HeldBy, Labelled

LEMMA FinishesWhole ==
  ASSUME TypeInv, NEW p \in Passes, Finishes(p)
  PROVE  whole' \subseteq Days \X ListNames
  BY DEF TypeInv, UsageTypeOK, Finishes

LEMMA DirectoryType ==
  ASSUME TypeInv, NEW p \in Passes, ReadDirectory(p)
  PROVE  TypeInv'
<1>u. UNCHANGED <<today, items, changed, rows>> /\ RowsOK' /\ at[p] = "directory"
  BY DEF ReadDirectory, TypeInv, RowsOK, Days
<1>r. refusals' \in Nat
  <2>1. \A lost \in SUBSET Domains : Cardinality(lost) \in Nat
    BY UsageAssumption, FS_Subset, FS_CardinalityType
  <2> QED
    BY <2>1 DEF ReadDirectory, TypeInv, UsageTypeOK, Refused
<1>1. ASSUME NEW lost \in SUBSET Domains, measured[p] # {},
             known' = [known EXCEPT ![p] = Domains \ lost], Goes(p, "rows"),
             todo' = [todo EXCEPT ![p] = {ProjectOf[i] : i \in measured[p]}],
             UNCHANGED <<taken, measured, missed, whole>>
      PROVE  TypeInv'
  <2>1. measured[p] \subseteq Items
    BY DEF TypeInv, UsageTypeOK
  <2>2. {ProjectOf[i] : i \in measured[p]} \in (SUBSET Projects) \ {{}}
    BY <2>1, <1>1, UsageAssumption
  <2>3. at' \in [Passes -> Stages] /\ known' \in [Passes -> SUBSET Domains]
        /\ todo' \in [Passes -> SUBSET Projects]
    BY <2>2, <1>1 DEF TypeInv, UsageTypeOK, Goes, Stages
  <2>4. \A r \in Passes : (at'[r] = "rows") <=> (todo'[r] # {})
    BY <2>2, <1>1 DEF TypeInv, UsageTypeOK, Goes
  <2> QED
    BY <2>3, <2>4, <1>1, <1>u, <1>r DEF TypeInv, UsageTypeOK, Days
<1>2. ASSUME Finishes(p) PROVE TypeInv'
  BY <1>2, <1>u, <1>r, EndsType, FinishesWhole DEF Finishes
<1>3. ASSUME Ends(p), UNCHANGED whole PROVE TypeInv'
  <2>1. whole' \subseteq Days \X ListNames
    BY <1>3 DEF TypeInv, UsageTypeOK
  <2> QED
    BY <1>3, <2>1, <1>u, <1>r, EndsType
<1> QED
  BY <1>1, <1>2, <1>3 DEF ReadDirectory

LEMMA WriteType ==
  ASSUME TypeInv, NEW p \in Passes, NEW q \in Projects, WriteRow(p, q)
  PROVE  TypeInv'
<1>1. RowsOK'
  BY RowOfType DEF WriteRow, TypeInv, UsageTypeOK, RowsOK, Days
<1>2. UNCHANGED <<today, items, changed, refusals>> /\ refusals' \in Nat
  BY DEF WriteRow, Wrote, cloudVars, TypeInv, UsageTypeOK
<1>3. CASE todo[p] # {q} /\ todo' = [todo EXCEPT ![p] = @ \ {q}]
           /\ UNCHANGED <<at, taken, measured, known, missed, whole>>
  <2>1. todo' \in [Passes -> SUBSET Projects]
    BY <1>3 DEF TypeInv, UsageTypeOK
  <2>2. todo'[p] # {}
    BY <1>3 DEF TypeInv, UsageTypeOK, WriteRow
  <2>3. \A r \in Passes : (at'[r] = "rows") <=> (todo'[r] # {})
    BY <2>2, <1>3 DEF TypeInv, UsageTypeOK, WriteRow
  <2>4. \A r \in Projects, d \in Days : rows'[r][d] # NoRow => rows'[r][d] \in Row
    BY <1>1 DEF RowsOK, Days
  <2> QED
    BY <2>1, <2>3, <2>4, <1>1, <1>2, <1>3 DEF TypeInv, UsageTypeOK, Days
<1>4. CASE Finishes(p)
  BY <1>4, <1>1, <1>2, EndsType, FinishesWhole DEF Finishes
<1> QED
  BY <1>3, <1>4 DEF WriteRow, Wrote

LEMMA TypeStep ==
  ASSUME TypeInv, [Next]_vars
  PROVE  TypeInv'
<1>1. ASSUME NEW p \in Passes, Begin(p) PROVE TypeInv'
  <2>1. taken' \in [Passes -> Days]
    BY <1>1, UsageAssumption DEF Begin, TypeInv, UsageTypeOK, Days
  <2>2. Lists[1] \in ListNames
    BY ListFacts, Names
  <2> QED
    BY <1>1, <2>1, <2>2, ReadsListType DEF Begin
<1>2. ASSUME NEW p \in Passes, ReadList(p) PROVE TypeInv'
  <2>1. taken' \in [Passes -> Days] /\ at[p] # "rows"
    BY <1>2, Names DEF ReadList, TypeInv, UsageTypeOK, Days
  <2> QED
    BY <1>2, <2>1, ReadsListType DEF ReadList
<1>3. ASSUME NEW p \in Passes, Die(p) PROVE TypeInv'
  <2>1. /\ UNCHANGED <<today, items, changed>> /\ refusals' \in Nat
        /\ RowsOK' /\ whole' \subseteq Days \X ListNames
    BY <1>3 DEF Die, cloudVars, TypeInv, UsageTypeOK, RowsOK, Days
  <2> QED
    BY <1>3, <2>1, EndsType DEF Die
<1>4. ASSUME NEW i \in Items, ItemChanges(i) PROVE TypeInv'
  BY <1>4 DEF ItemChanges, passVars, TypeInv, UsageTypeOK, RowsOK, Days
<1>5. CASE Midnight
  BY <1>5, UsageAssumption DEF Midnight, cloudVars, passVars, TypeInv, UsageTypeOK, RowsOK, Days
<1>6. CASE UNCHANGED vars
  BY <1>6 DEF vars, cloudVars, passVars, TypeInv, UsageTypeOK, RowsOK, Days
<1> QED
  BY <1>1, <1>2, <1>3, <1>4, <1>5, <1>6, DirectoryType, WriteType DEF Next

-----------------------------------------------------------------------------
(* What no step takes away. *)

RowsStay == \A q \in Projects, d \in Days : rows[q][d] # NoRow => rows'[q][d] # NoRow

LEMMA PassKept ==
  ASSUME TypeInv, NEW p \in Passes, HasRead(p), HasWritten(p), RowsStay, changed \subseteq changed',
         at'[p] = at[p], taken'[p] = taken[p], measured'[p] = measured[p], todo'[p] = todo[p],
         missed'[p] = missed[p]
  PROVE  HasRead(p)' /\ HasWritten(p)'
<1>1. HasRead(p)'
  BY DEF HasRead, Steady
<1>2. taken[p] \in Days /\ \A i \in measured[p] : ProjectOf[i] \in Projects
  BY UsageAssumption DEF TypeInv, UsageTypeOK
<1>3. HasWritten(p)'
  BY <1>2 DEF HasWritten, RowsStay
<1> QED
  BY <1>1, <1>3

\* A pass that is over, and the passes beside it.
LEMMA EndsKept ==
  ASSUME TypeInv, NEW p \in Passes, Ends(p), RowsStay, changed \subseteq changed',
         \A r \in Passes : HasRead(r) /\ HasWritten(r)
  PROVE  \A r \in Passes : HasRead(r)' /\ HasWritten(r)'
<1>1. at'[p] = "idle" /\ measured'[p] = {}
  BY DEF Ends, Goes, TypeInv, UsageTypeOK
<1>2. HasRead(p)' /\ HasWritten(p)'
  BY <1>1 DEF HasRead, HasWritten, Through
<1>3. ASSUME NEW r \in Passes, r # p PROVE HasRead(r)' /\ HasWritten(r)'
  <2>1. /\ at'[r] = at[r] /\ taken'[r] = taken[r] /\ measured'[r] = measured[r]
        /\ todo'[r] = todo[r] /\ missed'[r] = missed[r]
    BY <1>3 DEF Ends, Goes, TypeInv, UsageTypeOK
  <2> QED
    BY <2>1, PassKept
<1> QED
  BY <1>2, <1>3

LEMMA ShortKept ==
  ASSUME ShortOnlyIfRefused, rows' = rows, changed \subseteq changed'
  PROVE  ShortOnlyIfRefused'
  BY DEF ShortOnlyIfRefused, HeldBy, Steady, Days, Labelled

LEMMA DayKept ==
  ASSUME TypeInv, DayIsMeasured, RowsStay, changed \subseteq changed', whole' = whole
  PROVE  DayIsMeasured'
<1>1. \A i \in Steady : ProjectOf[i] \in Projects
  BY UsageAssumption DEF Steady
<1> QED
  BY <1>1 DEF DayIsMeasured, RowsStay, Steady, Days

\* A pass that has been through all lists is entered for the lists it had read.
LEMMA DayFinished ==
  ASSUME TypeInv, DayIsMeasured, RowsStay, changed \subseteq changed', NEW p \in Passes,
         HasRead(p), Through(at[p]) = ListNames, Finishes(p),
         \A i \in measured[p] : rows'[ProjectOf[i]][taken[p]] # NoRow
  PROVE  DayIsMeasured'
<1> SUFFICES ASSUME NEW d \in Days, NEW i \in Steady', <<d, ListOf[i]>> \in whole'
             PROVE  rows'[ProjectOf[i]][d] # NoRow
  BY DEF DayIsMeasured, Days
<1>1. i \in Steady /\ ListOf[i] \in ListNames /\ ProjectOf[i] \in Projects
  BY UsageAssumption DEF Steady
<1>2. CASE <<d, ListOf[i]>> \in whole
  BY <1>1, <1>2 DEF DayIsMeasured, RowsStay
<1>3. CASE d = taken[p] /\ ListOf[i] \notin missed[p]
  <2>1. i \in measured[p]
    BY <1>1, <1>3 DEF HasRead
  <2> QED
    BY <1>3, <2>1
<1> QED
  BY <1>2, <1>3 DEF Finishes

-----------------------------------------------------------------------------
(* Every step. *)

LEMMA ThroughNext ==
  ASSUME NEW list \in ListNames, NEW stage, stage = list \/ (stage = "idle" /\ list = "machines")
  PROVE  Through(After(list)) \subseteq Through(stage) \cup {list}
BY AfterEach, Names DEF Through

\* One more list.
LEMMA ReadsListStep ==
  ASSUME Inv, NEW p \in Passes, NEW list \in ListNames, ReadsList(p, list),
         Goes(p, After(list)), at[p] = list \/ (at[p] = "idle" /\ list = "machines"),
         \A r \in Passes : r # p => taken'[r] = taken[r]
  PROVE  /\ ItemsInv' /\ ShortOnlyIfRefused' /\ DayIsMeasured'
         /\ \A r \in Passes : HasRead(r)' /\ HasWritten(r)'
<1>1. RowsStay /\ changed' = changed /\ rows' = rows /\ items' = items /\ whole' = whole
  BY DEF ReadsList, RowsStay
<1>2. ItemsInv' /\ ShortOnlyIfRefused' /\ DayIsMeasured'
  BY <1>1, ShortKept, DayKept DEF Inv, ItemsInv, Steady
<1>3. at'[p] = After(list) /\ at'[p] # "rows" /\ Through(at'[p]) \subseteq Through(at[p]) \cup {list}
  BY ThroughNext, AfterStages DEF Goes, Inv, TypeInv, UsageTypeOK
<1>4. /\ measured[p] \subseteq measured'[p] /\ measured'[p] \subseteq measured[p] \cup items
      /\ missed[p] \subseteq missed'[p]
      /\ list \in missed'[p] \/ \A i \in items : ListOf[i] = list => i \in measured'[p]
  <2>1. CASE measured' = [measured EXCEPT ![p] = @ \cup {i \in items : ListOf[i] = list}]
             /\ \/ missed' = missed
                \/ missed' = [missed EXCEPT ![p] = @ \cup {"types"}]
    BY <2>1 DEF Inv, TypeInv, UsageTypeOK
  <2>2. CASE missed' = [missed EXCEPT ![p] = @ \cup {list}] /\ measured' = measured
    BY <2>2 DEF Inv, TypeInv, UsageTypeOK
  <2> QED
    BY <2>1, <2>2 DEF ReadsList
<1>5. HasRead(p)'
  <2>1. measured'[p] \subseteq Items0 \cup changed'
    BY <1>1, <1>4 DEF Inv, HasRead, ItemsInv
  <2>2. ASSUME NEW i \in Steady', ListOf[i] \in Through(at'[p])
        PROVE  i \in measured'[p] \/ ListOf[i] \in missed'[p]
    <3>1. i \in Steady /\ i \in items
      BY <1>1 DEF Inv, ItemsInv, Steady
    <3>2. CASE ListOf[i] = list
      BY <3>1, <3>2, <1>4
    <3>3. CASE ListOf[i] \in Through(at[p])
      BY <3>1, <3>3, <1>4 DEF Inv, HasRead
    <3> QED
      BY <3>2, <3>3, <2>2, <1>3
  <2> QED
    BY <2>1, <2>2 DEF HasRead
<1>6. HasWritten(p)'
  BY <1>3 DEF HasWritten
<1>7. ASSUME NEW r \in Passes, r # p PROVE HasRead(r)' /\ HasWritten(r)'
  <2>1. /\ at'[r] = at[r] /\ taken'[r] = taken[r] /\ measured'[r] = measured[r]
        /\ todo'[r] = todo[r] /\ missed'[r] = missed[r]
    BY <1>7 DEF ReadsList, Goes, Inv, TypeInv, UsageTypeOK
  <2> QED
    BY <2>1, <1>1, PassKept DEF Inv
<1> QED
  BY <1>2, <1>5, <1>6, <1>7

LEMMA DirectoryStep ==
  ASSUME Inv, NEW p \in Passes, ReadDirectory(p)
  PROVE  /\ ItemsInv' /\ ShortOnlyIfRefused' /\ DayIsMeasured'
         /\ \A r \in Passes : HasRead(r)' /\ HasWritten(r)'
<1>1. RowsStay /\ changed' = changed /\ rows' = rows /\ items' = items /\ at[p] = "directory"
  BY DEF ReadDirectory, RowsStay
<1>2. ItemsInv' /\ ShortOnlyIfRefused'
  BY <1>1, ShortKept DEF Inv, ItemsInv, Steady
<1>3. ASSUME at' = [at EXCEPT ![p] = "rows"],
             todo' = [todo EXCEPT ![p] = {ProjectOf[i] : i \in measured[p]}],
             UNCHANGED <<taken, measured, missed, whole>>
      PROVE  DayIsMeasured' /\ \A r \in Passes : HasRead(r)' /\ HasWritten(r)'
  <2>1. DayIsMeasured'
    BY <1>1, <1>3, DayKept DEF Inv
  <2>2. at'[p] = "rows" /\ todo'[p] = {ProjectOf[i] : i \in measured[p]} /\ Through("rows") = Through("directory")
    BY <1>3 DEF Inv, TypeInv, UsageTypeOK, Through
  <2>3. HasRead(p)'
    BY <2>2, <1>1, <1>3 DEF Inv, HasRead, Steady
  <2>4. HasWritten(p)'
    BY <2>2, <1>3 DEF HasWritten
  <2>5. ASSUME NEW r \in Passes, r # p PROVE HasRead(r)' /\ HasWritten(r)'
    <3>1. at'[r] = at[r] /\ todo'[r] = todo[r]
      BY <2>5, <1>3 DEF Inv, TypeInv, UsageTypeOK
    <3> QED
      BY <3>1, <1>1, <1>3, PassKept DEF Inv
  <2> QED
    BY <2>1, <2>3, <2>4, <2>5
<1>4. ASSUME Ends(p) PROVE \A r \in Passes : HasRead(r)' /\ HasWritten(r)'
  BY <1>4, <1>1, EndsKept DEF Inv
<1>5. ASSUME Finishes(p), measured[p] = {} PROVE DayIsMeasured'
  <2>1. Through(at[p]) = ListNames
    BY <1>1 DEF Through
  <2> QED
    BY <1>5, <1>1, <2>1, DayFinished DEF Inv
<1>6. ASSUME whole' = whole PROVE DayIsMeasured'
  BY <1>6, <1>1, DayKept DEF Inv
<1> QED
  BY <1>2, <1>3, <1>4, <1>5, <1>6 DEF ReadDirectory, Finishes, Goes

\* The new row, and what stays of the others.
LEMMA RowWritten ==
  ASSUME TypeInv, NEW p \in Passes, NEW q \in Projects, WriteRow(p, q)
  PROVE  /\ taken[p] \in Days
         /\ rows'[q][taken[p]] = RowOf(p, q) /\ RowOf(p, q) # NoRow
         /\ \A r \in Projects, d \in Days : <<r, d>> # <<q, taken[p]>> => rows'[r][d] = rows[r][d]
         /\ RowsStay
<1>1. taken[p] \in Days
  BY DEF TypeInv, UsageTypeOK
<1>2. RowOf(p, q) # NoRow
  BY RowOfType, UsageAssumption
<1>3. /\ rows'[q][taken[p]] = RowOf(p, q)
      /\ \A r \in Projects, d \in Days : <<r, d>> # <<q, taken[p]>> => rows'[r][d] = rows[r][d]
  BY <1>1 DEF WriteRow, TypeInv, RowsOK
<1> QED
  BY <1>1, <1>2, <1>3 DEF RowsStay

LEMMA WriteStep ==
  ASSUME Inv, NEW p \in Passes, NEW q \in Projects, WriteRow(p, q)
  PROVE  /\ ItemsInv' /\ ShortOnlyIfRefused' /\ DayIsMeasured'
         /\ \A r \in Passes : HasRead(r)' /\ HasWritten(r)'
<1>1. items' = items /\ changed' = changed /\ at[p] = "rows" /\ RowsStay
  BY RowWritten DEF WriteRow, Wrote, cloudVars, Inv
<1>2. ItemsInv'
  BY <1>1 DEF Inv, ItemsInv, Steady
<1>t. Through(at[p]) = ListNames
  BY <1>1 DEF Through
<1>3. ShortOnlyIfRefused'
  <2> DEFINE Right(r, row) ==
        /\ Labelled({i \in HeldBy(r, Steady) : ListOf[i] \notin row.missed}, row.missed) \subseteq row.seen
        /\ row.seen \subseteq HeldBy(r, Items0 \cup changed)
        /\ row.owner \in {DomainOf[r], NoDomain}
  <2>1. Right(q, RowOf(p, q))
    <3>1. ASSUME NEW i \in HeldBy(q, Steady) PROVE i \in HeldBy(q, measured[p]) \/ ListOf[i] \in missed[p]
      <4>1. i \in Steady /\ ListOf[i] \in ListNames
        BY UsageAssumption DEF HeldBy, Steady
      <4> QED
        BY <4>1, <1>t DEF Inv, HasRead, HeldBy
    <3>3. HeldBy(q, measured[p]) \subseteq HeldBy(q, Items0 \cup changed)
      BY DEF Inv, HasRead, HeldBy
    <3>4. ASSUME NEW i \in HeldBy(q, Steady), ListOf[i] \notin missed[p],
                 "types" \in missed[p] => ListOf[i] # "volumes"
          PROVE  i \in Labelled(HeldBy(q, measured[p]), missed[p])
      BY <3>1, <3>4 DEF Labelled
    <3> QED
      BY <3>3, <3>4 DEF RowOf, Labelled
  <2>2. \A r \in Projects, d \in Days : rows[r][d] # NoRow => Right(r, rows[r][d])
    BY DEF Inv, ShortOnlyIfRefused
  <2>3. \A r \in Projects, d \in Days : rows'[r][d] # NoRow => Right(r, rows'[r][d])
    <3> SUFFICES ASSUME NEW r \in Projects, NEW d \in Days, rows'[r][d] # NoRow
                 PROVE  Right(r, rows'[r][d])
      OBVIOUS
    <3> HIDE DEF Right
    <3> QED
      BY <2>1, <2>2, RowWritten DEF Inv
  <2> QED
    BY <2>3, <1>1 DEF ShortOnlyIfRefused, HeldBy, Steady, Days, Labelled
<1>4. CASE todo' = [todo EXCEPT ![p] = @ \ {q}] /\ UNCHANGED <<at, taken, measured, known, missed, whole>>
  <2>1. DayIsMeasured'
    BY <1>1, <1>4, DayKept DEF Inv
  <2>2. HasRead(p)'
    BY <1>1, <1>4 DEF Inv, HasRead, Steady
  <2>3. HasWritten(p)'
    <3>1. todo'[p] = todo[p] \ {q}
      BY <1>4 DEF Inv, TypeInv, UsageTypeOK
    <3>2. \A i \in measured[p] : ProjectOf[i] \in Projects
      BY UsageAssumption DEF Inv, TypeInv, UsageTypeOK
    <3>3. \A i \in measured[p] : ProjectOf[i] \in todo[p] \/ rows[ProjectOf[i]][taken[p]] # NoRow
      BY <1>1 DEF Inv, HasWritten
    <3>4. \A i \in measured[p] : ProjectOf[i] \in todo'[p] \/ rows'[ProjectOf[i]][taken[p]] # NoRow
      BY <3>1, <3>2, <3>3, RowWritten DEF Inv, RowsStay
    <3> QED
      BY <3>4, <1>4 DEF HasWritten
  <2>4. ASSUME NEW r \in Passes, r # p PROVE HasRead(r)' /\ HasWritten(r)'
    <3>1. todo'[r] = todo[r]
      BY <2>4, <1>4 DEF Inv, TypeInv, UsageTypeOK
    <3> QED
      BY <3>1, <1>1, <1>4, PassKept DEF Inv
  <2> QED
    BY <1>2, <1>3, <2>1, <2>2, <2>3, <2>4
<1>5. CASE todo[p] = {q} /\ Finishes(p)
  <2>1. \A r \in Passes : HasRead(r)' /\ HasWritten(r)'
    BY <1>5, <1>1, EndsKept DEF Inv, Finishes
  <2>2. \A i \in measured[p] : rows'[ProjectOf[i]][taken[p]] # NoRow
    <3>1. \A i \in measured[p] : ProjectOf[i] \in Projects
      BY UsageAssumption DEF Inv, TypeInv, UsageTypeOK
    <3>2. \A i \in measured[p] : ProjectOf[i] = q \/ rows[ProjectOf[i]][taken[p]] # NoRow
      BY <1>1, <1>5 DEF Inv, HasWritten
    <3> QED
      BY <3>1, <3>2, RowWritten DEF Inv, RowsStay
  <2>3. DayIsMeasured'
    BY <2>2, <1>1, <1>5, <1>t, DayFinished DEF Inv
  <2> QED
    BY <1>2, <1>3, <2>1, <2>3
<1> QED
  BY <1>4, <1>5 DEF WriteRow, Wrote

LEMMA InvInit == Init => Inv
<1> SUFFICES ASSUME Init PROVE Inv
  OBVIOUS
<1>1. \A q \in Projects, d \in Days : rows[q][d] = NoRow
  BY DEF Init
<1>2. ShortOnlyIfRefused /\ DayIsMeasured
  BY <1>1 DEF ShortOnlyIfRefused, DayIsMeasured, Init
<1>3. \A p \in Passes : HasRead(p) /\ HasWritten(p)
  BY DEF Init, HasRead, HasWritten, Through
<1>4. ItemsInv
  BY DEF Init, ItemsInv, Steady
<1> QED
  BY <1>2, <1>3, <1>4, InitType DEF Inv

\* The invariant without the types, which every step keeps on their own.
Rest == /\ ItemsInv /\ ShortOnlyIfRefused /\ DayIsMeasured
        /\ \A r \in Passes : HasRead(r) /\ HasWritten(r)

LEMMA InvStep ==
  ASSUME Inv, [Next]_vars
  PROVE  Inv'
<1>t. TypeInv'
  BY TypeStep DEF Inv
<1>1. ASSUME NEW p \in Passes, Begin(p) PROVE Rest'
  <2>1. Lists[1] = "machines" /\ "machines" \in ListNames
    BY ListFacts, Names
  <2>2. \A r \in Passes : r # p => taken'[r] = taken[r]
    BY <1>1 DEF Begin, Inv, TypeInv, UsageTypeOK
  <2> QED
    BY <1>1, <2>1, <2>2, ReadsListStep DEF Begin, Rest
<1>2. ASSUME NEW p \in Passes, ReadList(p) PROVE Rest'
  BY <1>2, ReadsListStep DEF ReadList, Rest
<1>3. ASSUME NEW p \in Passes, ReadDirectory(p) PROVE Rest'
  BY <1>3, DirectoryStep DEF Rest
<1>4. ASSUME NEW p \in Passes, NEW q \in Projects, WriteRow(p, q) PROVE Rest'
  BY <1>4, WriteStep DEF Rest
<1>5. ASSUME NEW p \in Passes, Die(p) PROVE Rest'
  <2>1. RowsStay /\ UNCHANGED <<items, changed, rows, whole>>
    BY <1>5 DEF Die, RowsStay, cloudVars
  <2> QED
    BY <1>5, <2>1, EndsKept, ShortKept, DayKept DEF Inv, Die, ItemsInv, Steady, Rest
<1>6. ASSUME RowsStay, changed \subseteq changed', UNCHANGED <<rows, whole>>, UNCHANGED passVars
      PROVE  /\ ShortOnlyIfRefused' /\ DayIsMeasured'
             /\ \A r \in Passes : HasRead(r)' /\ HasWritten(r)'
  BY <1>6, ShortKept, DayKept, PassKept DEF Inv, passVars
<1>7. ASSUME NEW i \in Items, ItemChanges(i) PROVE Rest'
  <2>1. RowsStay /\ changed \subseteq changed' /\ UNCHANGED <<rows, whole, passVars>>
    BY <1>7 DEF ItemChanges, RowsStay
  <2>2. ItemsInv'
    BY <1>7 DEF ItemChanges, Inv, ItemsInv, Steady
  <2> QED
    BY <2>1, <2>2, <1>6 DEF Rest
<1>8. ASSUME cloudVars' = cloudVars, rows' = rows, passVars' = passVars, whole' = whole
      PROVE  Rest'
  <2>1. RowsStay /\ UNCHANGED <<items, changed, rows, whole, passVars>>
    BY <1>8 DEF RowsStay, cloudVars
  <2> QED
    BY <2>1, <1>6 DEF Inv, ItemsInv, Steady, Rest
<1>9. ASSUME Midnight PROVE Rest'
  <2>1. cloudVars' = cloudVars /\ rows' = rows /\ passVars' = passVars /\ whole' = whole
    BY <1>9 DEF Midnight
  <2> QED
    BY <2>1, <1>8
<1>10. ASSUME UNCHANGED vars PROVE Rest'
  <2>1. cloudVars' = cloudVars /\ rows' = rows /\ passVars' = passVars /\ whole' = whole
    BY <1>10 DEF vars
  <2> QED
    BY <2>1, <1>8
<1>11. Rest'
  BY <1>1, <1>2, <1>3, <1>4, <1>5, <1>7, <1>9, <1>10 DEF Next
<1> QED
  BY <1>t, <1>11 DEF Inv, Rest

-----------------------------------------------------------------------------
(* The theorem. *)

\* Whatever passes overlap, are rerun or die, and whatever the cloud refuses them:
\* a row falls short only by a refused list, and a day that was measured stays so.
THEOREM MeasuredCorrect == Spec => []MeasuredRight
<1>1. Spec => []Inv
  BY InvInit, InvStep, PTL DEF Spec
<1>2. Inv => MeasuredRight
  BY DEF Inv, TypeInv, MeasuredRight
<1> QED
  BY <1>1, <1>2, PTL

-----------------------------------------------------------------------------
(* Sums over finite sets.  What SumFunctionOnSet computes is a recursive      *)
(* function on the subsets of a set; that there is one, and that it does not  *)
(* matter in which order it goes, is shown by taking a smallest subset for    *)
(* which it is not so.                                                        *)

LEMMA SmallerFirst ==
  ASSUME NEW S, IsFiniteSet(S), NEW good,
         \A T \in SUBSET S : (\A U \in SUBSET T : U # T => U \in good) => T \in good
  PROVE  \A T \in SUBSET S : T \in good
<1> DEFINE bad == {T \in SUBSET S : T \notin good}
<1> SUFFICES ASSUME bad # {} PROVE FALSE
  OBVIOUS
<1>1. bad \subseteq FiniteSubsetsOf(S)
  BY FS_FiniteSubsetsOfFinite
<1>2. PICK T \in bad : \A U \in bad : <<U, T>> \notin StrictSubsetOrdering(S)
  <2>1. IsWellFoundedOn(StrictSubsetOrdering(S), FiniteSubsetsOf(S))
    BY FS_StrictSubsetOrderingWellFounded
  <2> HIDE DEF bad
  <2> QED BY <1>1, <2>1, WFMin
<1>3. \A U \in SUBSET T : U # T => U \in good
  BY <1>2 DEF StrictSubsetOrdering
<1> QED BY <1>2, <1>3

\* One by one.
LEMMA OneByOne ==
  ASSUME NEW S, IsFiniteSet(S), NEW good, {} \in good,
         \A T \in SUBSET S : \A x \in S \ T : T \in good => T \cup {x} \in good
  PROVE  S \in good
<1>1. ASSUME NEW T \in SUBSET S, \A U \in SUBSET T : U # T => U \in good PROVE T \in good
  <2>1. CASE T = {}
    BY <2>1
  <2>2. CASE T # {}
    <3>1. PICK x \in T : TRUE
      BY <2>2
    <3>2. T \ {x} \in good /\ T = (T \ {x}) \cup {x}
      BY <1>1, <3>1
    <3> QED BY <3>1, <3>2
  <2> QED BY <2>1, <2>2
<1> QED BY <1>1, SmallerFirst

Pick(s) == CHOOSE x \in s : TRUE

Sums(g, f, S) ==
    g = [s \in SUBSET S |-> IF s = {} THEN 0 ELSE f[Pick(s)] + g[s \ {Pick(s)}]]

LEMMA SumIs ==
  ASSUME NEW f, NEW S
  PROVE  SumFunctionOnSet(f, S) = (CHOOSE g : Sums(g, f, S))[S]
BY DEF SumFunctionOnSet, FoldFunctionOnSet, MapThenFoldSet, Sums, Pick

LEMMA Picked == \A s : s # {} => Pick(s) \in s
BY DEF Pick

Alike(f, g, U) == \A x \in U : f[x] = g[x]

\* Functions that agree on a set have the same sum there.
LEMMA SumsAgree ==
  ASSUME NEW S, NEW T, NEW U, IsFiniteSet(U), U \in SUBSET S, U \in SUBSET T,
         NEW f, NEW g, Alike(f, g, U),
         NEW sf, NEW sg, Sums(sf, f, S), Sums(sg, g, T)
  PROVE  sf[U] = sg[U]
<1> DEFINE good == {s \in SUBSET U : sf[s] = sg[s]}
<1>1. ASSUME NEW s \in SUBSET U, \A t \in SUBSET s : t # s => t \in good PROVE s \in good
  <2>1. s \in SUBSET S /\ s \in SUBSET T
    OBVIOUS
  <2>2. sf[s] = IF s = {} THEN 0 ELSE f[Pick(s)] + sf[s \ {Pick(s)}]
    BY <2>1 DEF Sums
  <2>3. sg[s] = IF s = {} THEN 0 ELSE g[Pick(s)] + sg[s \ {Pick(s)}]
    BY <2>1 DEF Sums
  <2>4. CASE s # {}
    <3>1. Pick(s) \in s
      BY <2>4, Picked
    <3>2. s \ {Pick(s)} \in good /\ f[Pick(s)] = g[Pick(s)]
      BY <1>1, <3>1 DEF Alike
    <3> QED BY <2>2, <2>3, <2>4, <3>2
  <2> QED BY <2>2, <2>3, <2>4
<1> HIDE DEF good
<1>2. U \in good
  BY <1>1, SmallerFirst
<1> QED BY <1>2 DEF good

LEMMA SumsExist ==
  ASSUME NEW S, IsFiniteSet(S), NEW f
  PROVE  \E g : Sums(g, f, S)
<1> DEFINE G(U) == CHOOSE g : Sums(g, f, U)
           good == {T \in SUBSET S : \E g : Sums(g, f, T)}
<1>1. ASSUME NEW T \in SUBSET S, \A U \in SUBSET T : U # T => U \in good PROVE T \in good
  <2> DEFINE g == [s \in SUBSET T |-> IF s = {} THEN 0
                                      ELSE f[Pick(s)] + G(s \ {Pick(s)})[s \ {Pick(s)}]]
  <2>1. \A U \in SUBSET T : U # T => Sums(G(U), f, U)
    BY <1>1
  <2>2. ASSUME NEW U \in SUBSET T, U # T PROVE g[U] = G(U)[U]
    <3>1. Sums(G(U), f, U)
      BY <2>1, <2>2
    <3>2. G(U)[U] = IF U = {} THEN 0 ELSE f[Pick(U)] + G(U)[U \ {Pick(U)}]
      <4> HIDE DEF G
      <4> QED BY <3>1 DEF Sums
    <3>3. CASE U # {}
      <4> DEFINE V == U \ {Pick(U)}
      <4>1. V \in SUBSET T /\ V # T /\ V \subseteq U /\ IsFiniteSet(V)
        <5>1. V \in SUBSET S /\ V # T
          BY <2>2
        <5> QED BY <5>1, FS_Subset
      <4>2. Sums(G(V), f, V)
        BY <2>1, <4>1
      <4> HIDE DEF G, V
      <4>3. G(U)[V] = G(V)[V]
        BY <3>1, <4>1, <4>2, SumsAgree DEF Alike
      <4> QED BY <3>2, <3>3, <4>3 DEF V
    <3>4. CASE U = {}
      <4> HIDE DEF G
      <4> QED BY <3>2, <3>4
    <3> QED BY <3>3, <3>4
  <2>3. ASSUME NEW s \in SUBSET T, s # {} PROVE g[s \ {Pick(s)}] = G(s \ {Pick(s)})[s \ {Pick(s)}]
    <3>1. Pick(s) \in s
      BY <2>3, Picked
    <3>2. s \ {Pick(s)} \in SUBSET T /\ s \ {Pick(s)} # T
      BY <3>1
    <3> HIDE DEF G, g
    <3> QED BY <2>2, <3>2
  <2>4. Sums(g, f, T)
    <3> HIDE DEF G
    <3> QED BY <2>3 DEF Sums
  <2> HIDE DEF g
  <2> QED BY <2>4
<1> HIDE DEF good
<1>2. S \in good
  BY <1>1, SmallerFirst
<1> QED BY <1>2 DEF good

LEMMA SumEmpty == \A f : SumFunctionOnSet(f, {}) = 0
<1> SUFFICES ASSUME NEW f PROVE SumFunctionOnSet(f, {}) = 0
  OBVIOUS
<1>1. PICK g : Sums(g, f, {})
  BY SumsExist, FS_EmptySet
<1>2. Sums(CHOOSE h : Sums(h, f, {}), f, {})
  BY <1>1
<1> DEFINE h == CHOOSE h : Sums(h, f, {})
<1> HIDE DEF h
<1>3. h[{}] = 0
  BY <1>2 DEF Sums, h
<1> QED BY <1>3, SumIs DEF h

LEMMA SumSame ==
  ASSUME NEW S, IsFiniteSet(S), NEW f, NEW g, \A x \in S : f[x] = g[x]
  PROVE  SumFunctionOnSet(f, S) = SumFunctionOnSet(g, S)
<1> DEFINE sf == CHOOSE h : Sums(h, f, S)
           sg == CHOOSE h : Sums(h, g, S)
<1>1. Sums(sf, f, S) /\ Sums(sg, g, S)
  BY SumsExist
<1>2. SumFunctionOnSet(f, S) = sf[S] /\ SumFunctionOnSet(g, S) = sg[S]
  BY SumIs
<1> HIDE DEF sf, sg
<1>3. ASSUME NEW a, NEW b, Sums(a, f, S), Sums(b, g, S) PROVE a[S] = b[S]
  <2>1. S \in SUBSET S /\ Alike(f, g, S)
    BY DEF Alike
  <2> QED BY <1>3, <2>1, SumsAgree
<1>4. sf[S] = sg[S]
  BY <1>1, <1>3
<1> QED BY <1>2, <1>4

LEMMA SumPicked ==
  ASSUME NEW S, IsFiniteSet(S), S # {}, NEW f
  PROVE  SumFunctionOnSet(f, S) = f[Pick(S)] + SumFunctionOnSet(f, S \ {Pick(S)})
<1> DEFINE T == S \ {Pick(S)}
           sum == CHOOSE h : Sums(h, f, S)
           rest == CHOOSE h : Sums(h, f, T)
<1>1. IsFiniteSet(T) /\ T \subseteq S
  BY FS_Subset
<1>2. Sums(sum, f, S) /\ Sums(rest, f, T)
  <2> HIDE DEF T
  <2> QED BY <1>1, SumsExist
<1>3. SumFunctionOnSet(f, S) = sum[S] /\ SumFunctionOnSet(f, T) = rest[T]
  BY SumIs
<1> HIDE DEF sum, rest
<1>4. sum[S] = f[Pick(S)] + sum[T]
  BY <1>2 DEF Sums
<1> HIDE DEF T
<1>5. T \in SUBSET T /\ T \in SUBSET S /\ Alike(f, f, T)
  BY <1>1 DEF Alike
<1>6. ASSUME NEW a, NEW b, Sums(a, f, S), Sums(b, f, T) PROVE a[T] = b[T]
  BY <1>1, <1>5, <1>6, SumsAgree
<1>7. sum[T] = rest[T]
  BY <1>2, <1>6
<1> QED BY <1>3, <1>4, <1>7 DEF T

LEMMA SumInt ==
  ASSUME NEW S, IsFiniteSet(S), NEW f, \A x \in S : f[x] \in Int
  PROVE  SumFunctionOnSet(f, S) \in Int
<1> DEFINE good == {s \in SUBSET S : SumFunctionOnSet(f, s) \in Int}
<1>1. ASSUME NEW s \in SUBSET S, \A t \in SUBSET s : t # s => t \in good PROVE s \in good
  <2>1. CASE s = {}
    BY <2>1, SumEmpty
  <2>2. CASE s # {}
    <3>1. Pick(s) \in s /\ IsFiniteSet(s)
      BY <2>2, Picked, FS_Subset
    <3>2. s \ {Pick(s)} \in good
      BY <1>1, <3>1
    <3> QED BY <2>2, <3>1, <3>2, SumPicked
  <2> QED BY <2>1, <2>2
<1> HIDE DEF good
<1>2. S \in good
  BY <1>1, SmallerFirst
<1> QED BY <1>2 DEF good

\* Any of a set's elements may be taken first.
LEMMA SumTaking ==
  ASSUME NEW S, IsFiniteSet(S), NEW f, \A x \in S : f[x] \in Int, NEW a \in S
  PROVE  SumFunctionOnSet(f, S) = f[a] + SumFunctionOnSet(f, S \ {a})
<1> DEFINE good == {s \in SUBSET S : \A b \in s :
                       SumFunctionOnSet(f, s) = f[b] + SumFunctionOnSet(f, s \ {b})}
<1>1. ASSUME NEW s \in SUBSET S, \A t \in SUBSET s : t # s => t \in good PROVE s \in good
  <2> SUFFICES ASSUME NEW b \in s
               PROVE  SumFunctionOnSet(f, s) = f[b] + SumFunctionOnSet(f, s \ {b})
    OBVIOUS
  <2> DEFINE c == Pick(s)
             both == (s \ {b}) \ {c}
  <2>1. c \in s /\ IsFiniteSet(s)
    BY Picked, FS_Subset
  <2> HIDE DEF c
  <2>2. SumFunctionOnSet(f, s) = f[c] + SumFunctionOnSet(f, s \ {c})
    BY <2>1, SumPicked DEF c
  <2>3. CASE b # c
    <3>1. s \ {c} \in good /\ s \ {b} \in good /\ b \in s \ {c} /\ c \in s \ {b}
      BY <1>1, <2>1, <2>3
    <3>2. (s \ {c}) \ {b} = both
      OBVIOUS
    <3>3. IsFiniteSet(both) /\ both \in SUBSET S
      <4>1. both \in SUBSET S
        OBVIOUS
      <4> HIDE DEF both
      <4> QED BY <4>1, FS_Subset
    <3> HIDE DEF both
    <3>4. SumFunctionOnSet(f, s \ {c}) = f[b] + SumFunctionOnSet(f, both)
      BY <3>1, <3>2
    <3>5. SumFunctionOnSet(f, s \ {b}) = f[c] + SumFunctionOnSet(f, both)
      BY <3>1 DEF both
    <3>6. SumFunctionOnSet(f, both) \in Int /\ f[b] \in Int /\ f[c] \in Int
      BY <2>1, <3>3, SumInt
    <3> HIDE DEF good
    <3> QED BY <2>2, <3>4, <3>5, <3>6
  <2> QED BY <2>2, <2>3
<1> HIDE DEF good
<1>2. S \in good
  BY <1>1, SmallerFirst
<1> QED BY <1>2 DEF good

LEMMA SumAdding ==
  ASSUME NEW S, IsFiniteSet(S), NEW f, NEW a, a \notin S, \A x \in S \cup {a} : f[x] \in Int
  PROVE  SumFunctionOnSet(f, S \cup {a}) = f[a] + SumFunctionOnSet(f, S)
<1>1. IsFiniteSet(S \cup {a}) /\ (S \cup {a}) \ {a} = S /\ a \in S \cup {a}
  BY FS_AddElement
<1> DEFINE T == S \cup {a}
<1> HIDE DEF T
<1>2. SumFunctionOnSet(f, T) = f[a] + SumFunctionOnSet(f, T \ {a})
  BY <1>1, SumTaking DEF T
<1> QED BY <1>1, <1>2 DEF T

LEMMA SumOne ==
  ASSUME NEW a, NEW f, f[a] \in Int
  PROVE  SumFunctionOnSet(f, {a}) = f[a]
<1>1. SumFunctionOnSet(f, {} \cup {a}) = f[a] + SumFunctionOnSet(f, {})
  BY SumAdding, FS_EmptySet
<1> QED BY <1>1, SumEmpty

-----------------------------------------------------------------------------
(* The laws of sums the figures rest on. *)

LEMMA SumLess ==
  ASSUME NEW S, IsFiniteSet(S), NEW f, NEW g,
         \A x \in S : f[x] \in Int /\ g[x] \in Int /\ f[x] <= g[x]
  PROVE  SumFunctionOnSet(f, S) <= SumFunctionOnSet(g, S)
<1> DEFINE good == {s \in SUBSET S : SumFunctionOnSet(f, s) <= SumFunctionOnSet(g, s)}
<1>1. {} \in good
  BY SumEmpty
<1>2. ASSUME NEW s \in SUBSET S, NEW a \in S \ s, s \in good PROVE s \cup {a} \in good
  <2>1. IsFiniteSet(s)
    BY FS_Subset
  <2>2. /\ SumFunctionOnSet(f, s \cup {a}) = f[a] + SumFunctionOnSet(f, s)
        /\ SumFunctionOnSet(g, s \cup {a}) = g[a] + SumFunctionOnSet(g, s)
    BY <1>2, <2>1, SumAdding
  <2>3. SumFunctionOnSet(f, s) \in Int /\ SumFunctionOnSet(g, s) \in Int
    BY <2>1, SumInt
  <2>4. SumFunctionOnSet(f, s) <= SumFunctionOnSet(g, s)
    BY <1>2
  <2>5. f[a] \in Int /\ g[a] \in Int /\ f[a] <= g[a]
    OBVIOUS
  <2>6. SumFunctionOnSet(f, s \cup {a}) <= SumFunctionOnSet(g, s \cup {a})
    <3> HIDE DEF good
    <3> QED BY <2>2, <2>3, <2>4, <2>5
  <2> QED BY <2>6
<1> HIDE DEF good
<1>3. S \in good
  BY <1>1, <1>2, OneByOne
<1> QED BY <1>3 DEF good

LEMMA SumPlus ==
  ASSUME NEW S, IsFiniteSet(S), NEW f, NEW g, NEW h,
         \A x \in S : f[x] \in Int /\ g[x] \in Int /\ h[x] = f[x] + g[x]
  PROVE  SumFunctionOnSet(h, S) = SumFunctionOnSet(f, S) + SumFunctionOnSet(g, S)
<1> DEFINE good == {s \in SUBSET S :
              SumFunctionOnSet(h, s) = SumFunctionOnSet(f, s) + SumFunctionOnSet(g, s)}
<1>h. \A x \in S : h[x] \in Int
  OBVIOUS
<1>1. {} \in good
  BY SumEmpty
<1>2. ASSUME NEW s \in SUBSET S, NEW a \in S \ s, s \in good PROVE s \cup {a} \in good
  <2>1. IsFiniteSet(s)
    BY FS_Subset
  <2>2. /\ SumFunctionOnSet(f, s \cup {a}) = f[a] + SumFunctionOnSet(f, s)
        /\ SumFunctionOnSet(g, s \cup {a}) = g[a] + SumFunctionOnSet(g, s)
        /\ SumFunctionOnSet(h, s \cup {a}) = h[a] + SumFunctionOnSet(h, s)
    BY <1>2, <2>1, <1>h, SumAdding
  <2>3. SumFunctionOnSet(f, s) \in Int /\ SumFunctionOnSet(g, s) \in Int
    BY <2>1, SumInt
  <2>4. SumFunctionOnSet(h, s) = SumFunctionOnSet(f, s) + SumFunctionOnSet(g, s)
    BY <1>2
  <2>5. f[a] \in Int /\ g[a] \in Int /\ h[a] = f[a] + g[a]
    OBVIOUS
  <2>6. SumFunctionOnSet(h, s \cup {a}) = SumFunctionOnSet(f, s \cup {a}) + SumFunctionOnSet(g, s \cup {a})
    <3> HIDE DEF good
    <3> QED BY <2>2, <2>3, <2>4, <2>5
  <2> QED BY <2>6
<1> HIDE DEF good
<1>3. S \in good
  BY <1>1, <1>2, OneByOne
<1> QED BY <1>3 DEF good

LEMMA Distributes == \A k, m, n \in Int : k * (m + n) = k * m + k * n
  OBVIOUS

LEMMA SumTimes ==
  ASSUME NEW S, IsFiniteSet(S), NEW f, NEW g, NEW k \in Int,
         \A x \in S : f[x] \in Int /\ g[x] = k * f[x]
  PROVE  SumFunctionOnSet(g, S) = k * SumFunctionOnSet(f, S)
<1> DEFINE good == {s \in SUBSET S : SumFunctionOnSet(g, s) = k * SumFunctionOnSet(f, s)}
<1>1. {} \in good
  BY SumEmpty
<1>2. ASSUME NEW s \in SUBSET S, NEW a \in S \ s, s \in good PROVE s \cup {a} \in good
  <2>1. IsFiniteSet(s)
    BY FS_Subset
  <2>2. \A x \in S : g[x] \in Int
    OBVIOUS
  <2>3. /\ SumFunctionOnSet(f, s \cup {a}) = f[a] + SumFunctionOnSet(f, s)
        /\ SumFunctionOnSet(g, s \cup {a}) = g[a] + SumFunctionOnSet(g, s)
    BY <1>2, <2>1, <2>2, SumAdding
  <2>4. SumFunctionOnSet(f, s) \in Int
    BY <2>1, SumInt
  <2>5. SumFunctionOnSet(g, s) = k * SumFunctionOnSet(f, s) /\ f[a] \in Int /\ g[a] = k * f[a]
    BY <1>2
  <2>6. SumFunctionOnSet(g, s \cup {a}) = k * SumFunctionOnSet(f, s \cup {a})
    <3> HIDE DEF good
    <3> QED BY <2>3, <2>4, <2>5, Distributes
  <2> QED BY <2>6
<1> HIDE DEF good
<1>3. S \in good
  BY <1>1, <1>2, OneByOne
<1> QED BY <1>3 DEF good

LEMMA SumConstant ==
  ASSUME NEW S, IsFiniteSet(S), NEW f, NEW k \in Int, \A x \in S : f[x] = k
  PROVE  SumFunctionOnSet(f, S) = k * Cardinality(S)
<1> DEFINE good == {s \in SUBSET S : SumFunctionOnSet(f, s) = k * Cardinality(s)}
<1>1. {} \in good
  BY SumEmpty, FS_EmptySet
<1>2. ASSUME NEW s \in SUBSET S, NEW a \in S \ s, s \in good PROVE s \cup {a} \in good
  <2>1. IsFiniteSet(s)
    BY FS_Subset
  <2>2. SumFunctionOnSet(f, s \cup {a}) = k + SumFunctionOnSet(f, s)
    <3>1. f[a] = k /\ \A x \in s \cup {a} : f[x] \in Int
      OBVIOUS
    <3>2. SumFunctionOnSet(f, s \cup {a}) = f[a] + SumFunctionOnSet(f, s)
      BY <1>2, <2>1, <3>1, SumAdding
    <3> QED BY <3>1, <3>2
  <2>3. Cardinality(s \cup {a}) = Cardinality(s) + 1 /\ Cardinality(s) \in Int
    <3>1. Cardinality(s \cup {a}) = Cardinality(s) + 1
      BY <2>1, FS_AddElement
    <3>2. Cardinality(s) \in Int
      BY <2>1, FS_CardinalityType
    <3> QED BY <3>1, <3>2
  <2>4. SumFunctionOnSet(f, s) = k * Cardinality(s)
    BY <1>2
  <2>5. SumFunctionOnSet(f, s \cup {a}) = k * Cardinality(s \cup {a})
    <3> HIDE DEF good
    <3>1. k * (Cardinality(s) + 1) = k * Cardinality(s) + k
      BY <2>3, Distributes
    <3>2. k * Cardinality(s) \in Int
      BY <2>3
    <3> QED BY <2>2, <2>3, <2>4, <3>1, <3>2
  <2> QED BY <2>5
<1> HIDE DEF good
<1>3. S \in good
  BY <1>1, <1>2, OneByOne
<1> QED BY <1>3 DEF good

LEMMA SumNat ==
  ASSUME NEW S, IsFiniteSet(S), NEW f, \A x \in S : f[x] \in Nat
  PROVE  SumFunctionOnSet(f, S) \in Nat
<1> DEFINE zero == [x \in S |-> 0]
<1>1. SumFunctionOnSet(zero, S) = 0 * Cardinality(S)
  BY SumConstant
<1>2. SumFunctionOnSet(zero, S) <= SumFunctionOnSet(f, S)
  BY SumLess
<1>3. SumFunctionOnSet(f, S) \in Int /\ Cardinality(S) \in Int
  BY SumInt, FS_CardinalityType
<1> HIDE DEF zero
<1> QED BY <1>1, <1>2, <1>3

\* Two sets side by side.
LEMMA SumBoth ==
  ASSUME NEW S, NEW T, IsFiniteSet(S), IsFiniteSet(T), S \cap T = {},
         NEW f, \A x \in S \cup T : f[x] \in Int
  PROVE  SumFunctionOnSet(f, S \cup T) = SumFunctionOnSet(f, S) + SumFunctionOnSet(f, T)
<1> DEFINE good == {s \in SUBSET S :
              SumFunctionOnSet(f, s \cup T) = SumFunctionOnSet(f, s) + SumFunctionOnSet(f, T)}
<1>t. SumFunctionOnSet(f, T) \in Int
  BY SumInt
<1>1. {} \in good
  <2>1. {} \cup T = T
    OBVIOUS
  <2>2. SumFunctionOnSet(f, {} \cup T) = SumFunctionOnSet(f, {}) + SumFunctionOnSet(f, T)
    BY <1>t, <2>1, SumEmpty
  <2> QED BY <2>2
<1>2. ASSUME NEW s \in SUBSET S, NEW a \in S \ s, s \in good PROVE s \cup {a} \in good
  <2> DEFINE more == s \cup T
  <2>1. IsFiniteSet(s) /\ IsFiniteSet(more)
    BY FS_Subset, FS_Union
  <2>2. a \notin more /\ (s \cup {a}) \cup T = more \cup {a} /\ \A x \in more \cup {a} : f[x] \in Int
    OBVIOUS
  <2>3. SumFunctionOnSet(f, s \cup {a}) = f[a] + SumFunctionOnSet(f, s)
    BY <1>2, <2>1, SumAdding
  <2>4. SumFunctionOnSet(f, more) = SumFunctionOnSet(f, s) + SumFunctionOnSet(f, T)
    BY <1>2
  <2>5. SumFunctionOnSet(f, s) \in Int /\ f[a] \in Int
    BY <2>1, SumInt
  <2> HIDE DEF more
  <2>6. SumFunctionOnSet(f, more \cup {a}) = f[a] + SumFunctionOnSet(f, more)
    BY <2>1, <2>2, SumAdding
  <2>7. SumFunctionOnSet(f, (s \cup {a}) \cup T)
            = SumFunctionOnSet(f, s \cup {a}) + SumFunctionOnSet(f, T)
    <3> HIDE DEF good
    <3>1. SumFunctionOnSet(f, (s \cup {a}) \cup T) = SumFunctionOnSet(f, more \cup {a})
      BY <2>2
    <3> QED BY <1>t, <2>3, <2>4, <2>5, <2>6, <3>1
  <2> QED BY <2>7
<1> HIDE DEF good
<1>3. S \in good
  BY <1>1, <1>2, OneByOne
<1> QED BY <1>3 DEF good

\* What a smaller set leaves out, and that it is smaller.
LEMMA SumWithout ==
  ASSUME NEW S, IsFiniteSet(S), NEW T \in SUBSET S, NEW f, \A x \in S : f[x] \in Int
  PROVE  SumFunctionOnSet(f, S \ T) = SumFunctionOnSet(f, S) - SumFunctionOnSet(f, T)
<1> DEFINE rest == S \ T
<1>1. IsFiniteSet(T) /\ IsFiniteSet(rest)
  BY FS_Subset, FS_Difference
<1>2. rest \cap T = {} /\ rest \cup T = S
  OBVIOUS
<1>3. \A x \in rest \cup T : f[x] \in Int
  OBVIOUS
<1>4. SumFunctionOnSet(f, rest) \in Int /\ SumFunctionOnSet(f, T) \in Int
  BY <1>1, SumInt
<1> HIDE DEF rest
<1>5. SumFunctionOnSet(f, rest \cup T) = SumFunctionOnSet(f, rest) + SumFunctionOnSet(f, T)
  BY <1>1, <1>2, <1>3, SumBoth
<1>6. SumFunctionOnSet(f, rest) = SumFunctionOnSet(f, S) - SumFunctionOnSet(f, T)
  <2>1. SumFunctionOnSet(f, rest \cup T) = SumFunctionOnSet(f, S)
    BY <1>2
  <2> QED BY <1>4, <1>5, <2>1
<1> QED BY <1>6 DEF rest

LEMMA SumWithin ==
  ASSUME NEW S, IsFiniteSet(S), NEW T \in SUBSET S, NEW f, \A x \in S : f[x] \in Nat
  PROVE  SumFunctionOnSet(f, T) <= SumFunctionOnSet(f, S)
<1>1. SumFunctionOnSet(f, S \ T) = SumFunctionOnSet(f, S) - SumFunctionOnSet(f, T)
  BY SumWithout
<1>2. IsFiniteSet(S \ T) /\ IsFiniteSet(T)
  BY FS_Subset, FS_Difference
<1>3. SumFunctionOnSet(f, S \ T) \in Nat
  BY <1>2, SumNat
<1>4. SumFunctionOnSet(f, S) \in Int /\ SumFunctionOnSet(f, T) \in Int
  BY <1>2, SumInt
<1> QED BY <1>1, <1>3, <1>4

\* What adds nothing may be left out.
LEMMA SumOnly ==
  ASSUME NEW S, IsFiniteSet(S), NEW T \in SUBSET S, NEW f, \A x \in S : f[x] \in Int,
         \A x \in S \ T : f[x] = 0
  PROVE  SumFunctionOnSet(f, T) = SumFunctionOnSet(f, S)
<1>1. SumFunctionOnSet(f, S \ T) = SumFunctionOnSet(f, S) - SumFunctionOnSet(f, T)
  BY SumWithout
<1>2. IsFiniteSet(S \ T) /\ IsFiniteSet(T)
  BY FS_Subset, FS_Difference
<1>3. SumFunctionOnSet(f, S \ T) = 0 * Cardinality(S \ T)
  BY <1>2, SumConstant
<1>4. SumFunctionOnSet(f, S) \in Int /\ SumFunctionOnSet(f, T) \in Int /\ Cardinality(S \ T) \in Int
  BY <1>2, SumInt, FS_CardinalityType
<1> QED BY <1>1, <1>3, <1>4

\* A sum by parts.
LEMMA SumParts ==
  ASSUME NEW S, IsFiniteSet(S), NEW P, IsFiniteSet(P), NEW home, \A x \in S : home[x] \in P,
         NEW f, \A x \in S : f[x] \in Int,
         NEW in, \A p \in P : \A x : x \in in[p] <=> x \in S /\ home[x] = p,
         NEW part, \A p \in P : part[p] = SumFunctionOnSet(f, in[p])
  PROVE  SumFunctionOnSet(f, S) = SumFunctionOnSet(part, P)
<1> DEFINE From(some) == {x \in S : home[x] \in some}
           good == {some \in SUBSET P : SumFunctionOnSet(f, From(some)) = SumFunctionOnSet(part, some)}
<1>0. \A some : IsFiniteSet(From(some))
  BY FS_Subset
<1>p. \A p \in P : part[p] \in Int
  <2> TAKE p \in P
  <2>1. in[p] \in SUBSET S
    OBVIOUS
  <2>2. IsFiniteSet(in[p])
    BY <2>1, FS_Subset
  <2> QED BY <2>1, <2>2, SumInt
<1>1. {} \in good
  <2>1. From({}) = {}
    OBVIOUS
  <2> HIDE DEF From
  <2> QED BY <2>1, SumEmpty
<1>2. ASSUME NEW some \in SUBSET P, NEW p \in P \ some, some \in good PROVE some \cup {p} \in good
  <2> DEFINE new == in[p]
             old == From(some)
  <2>n. new \in SUBSET S
    OBVIOUS
  <2>1. IsFiniteSet(new) /\ IsFiniteSet(old) /\ IsFiniteSet(some)
    BY <2>n, FS_Subset, <1>0
  <2>2. From(some \cup {p}) = new \cup old /\ new \cap old = {} /\ \A x \in new \cup old : f[x] \in Int
    OBVIOUS
  <2>3. SumFunctionOnSet(f, old) = SumFunctionOnSet(part, some)
    BY <1>2
  <2>4. part[p] = SumFunctionOnSet(f, new)
    OBVIOUS
  <2>5. SumFunctionOnSet(part, some \cup {p}) = part[p] + SumFunctionOnSet(part, some)
    BY <1>p, <2>1, SumAdding
  <2> HIDE DEF From, new, old
  <2>6. SumFunctionOnSet(f, new \cup old) = SumFunctionOnSet(f, new) + SumFunctionOnSet(f, old)
    BY <2>1, <2>2, SumBoth
  <2>7. SumFunctionOnSet(f, From(some \cup {p})) = SumFunctionOnSet(part, some \cup {p})
    <3> HIDE DEF good
    <3> QED BY <2>2, <2>3, <2>4, <2>5, <2>6
  <2> QED BY <2>7
<1> HIDE DEF good, From
<1>3. P \in good
  BY <1>1, <1>2, OneByOne
<1>4. From(P) = S
  BY DEF From
<1> QED BY <1>3, <1>4 DEF good

-----------------------------------------------------------------------------
(* The rows, as the pages read them. *)

\* The backups of a row are the backups among what was seen, since every writing of a
\* row writes all of it.
BackupsInv ==
    \A q \in Projects, d \in Days :
       rows[q][d] # NoRow => rows[q][d].backups = rows[q][d].seen \cap Backups

LEMMA BackupsStep ==
  ASSUME TypeInv, BackupsInv, [Next]_vars
  PROVE  BackupsInv'
<1>1. ASSUME NEW p \in Passes, NEW q \in Projects, WriteRow(p, q) PROVE BackupsInv'
  <2>1. rows' = [rows EXCEPT ![q][taken[p]] = RowOf(p, q)] /\ taken[p] \in Days
    BY <1>1 DEF WriteRow, TypeInv, UsageTypeOK
  <2>2. RowOf(p, q).backups = RowOf(p, q).seen \cap Backups
    BY UsageAssumption DEF RowOf, Labelled
  <2>3. \A r \in Projects, d \in Days :
           rows'[r][d] = IF r = q /\ d = taken[p] THEN RowOf(p, q) ELSE rows[r][d]
    BY <2>1 DEF TypeInv, RowsOK
  <2> QED BY <2>2, <2>3 DEF BackupsInv, Days
<1>2. CASE rows' = rows
  BY <1>2 DEF BackupsInv, Days
<1>3. ASSUME NEW p \in Passes, Begin(p) \/ ReadList(p) \/ ReadDirectory(p) \/ Die(p) PROVE rows' = rows
  BY <1>3 DEF Begin, ReadList, ReadsList, ReadDirectory, Die
<1>4. ASSUME NEW i \in Items, ItemChanges(i) PROVE rows' = rows
  BY <1>4 DEF ItemChanges
<1>5. CASE Midnight \/ UNCHANGED vars
  BY <1>2, <1>5 DEF Midnight, vars
<1> QED BY <1>1, <1>2, <1>3, <1>4, <1>5 DEF Next

PagesInv == Inv /\ BackupsInv

LEMMA PagesAlways == Spec => []PagesInv
<1>1. Init => BackupsInv
  BY DEF Init, BackupsInv
<1>2. PagesInv /\ [Next]_vars => PagesInv'
  BY InvStep, BackupsStep DEF PagesInv, Inv
<1> QED BY <1>1, <1>2, InvInit, PTL DEF Spec, PagesInv

LEMMA StoredRows ==
  \A row : row \in Stored <=> \E q \in Projects, d \in Days : rows[q][d] # NoRow /\ row = RowAt(q, d)
BY DEF Stored

LEMMA RowOK ==
  ASSUME PagesInv, NEW row \in Stored
  PROVE  /\ row.project \in Projects /\ row.day \in Days /\ row.owner \in {DomainOf[row.project], NoDomain}
         /\ row.seen \in SUBSET Items /\ row.backups = row.seen \cap Backups
         /\ \A i \in row.seen : ProjectOf[i] = row.project
         /\ row = RowAt(row.project, row.day)
<1>1. PICK q \in Projects, d \in Days : rows[q][d] # NoRow /\ row = RowAt(q, d)
  BY StoredRows
<1>2. row.project = q /\ row.day = d /\ row.owner = rows[q][d].owner /\ row.seen = rows[q][d].seen
      /\ row.backups = rows[q][d].backups
  BY <1>1 DEF RowAt
<1>3. rows[q][d] \in Row
  BY <1>1 DEF PagesInv, Inv, TypeInv, UsageTypeOK
<1>4. /\ rows[q][d].seen \subseteq HeldBy(q, Items0 \cup changed)
      /\ rows[q][d].owner \in {DomainOf[q], NoDomain}
  BY <1>1 DEF PagesInv, Inv, ShortOnlyIfRefused
<1>5. rows[q][d].backups = rows[q][d].seen \cap Backups
  BY <1>1 DEF PagesInv, BackupsInv
<1>6. rows[q][d].seen \in SUBSET Items
  BY <1>3 DEF Row
<1>7. \A i \in rows[q][d].seen : ProjectOf[i] = q
  BY <1>4 DEF HeldBy
<1> QED BY <1>1, <1>2, <1>4, <1>5, <1>6, <1>7

LEMMA StoredFinite == IsFiniteSet(Stored)
<1> DEFINE found == {place \in Projects \X Days : rows[place[1]][place[2]] # NoRow}
           f == [place \in found |-> RowAt(place[1], place[2])]
<1>1. IsFiniteSet(Projects \X Days)
  <2>1. IsFiniteSet(Days)
    BY FS_Interval, UsageAssumption DEF Days
  <2> QED BY <2>1, FS_Product, BillsAssumption
<1>2. IsFiniteSet(found)
  BY <1>1, FS_Subset
<1>3. f \in Surjection(found, Stored)
  <2>1. \A row \in Stored : \E place \in found : f[place] = row
    <3> TAKE row \in Stored
    <3>1. PICK q \in Projects, d \in Days : rows[q][d] # NoRow /\ row = RowAt(q, d)
      BY StoredRows
    <3>2. <<q, d>> \in found /\ f[<<q, d>>] = row
      BY <3>1
    <3> QED BY <3>2
  <2>2. \A place \in found : f[place] \in Stored
    BY StoredRows
  <2>3. f \in [found -> Stored]
    BY <2>2
  <2> HIDE DEF f, found
  <2> QED BY <2>1, <2>3 DEF Surjection
<1> HIDE DEF f, found
<1> QED BY <1>2, <1>3, FS_Surjection

LEMMA SomeFinite == \A some \in SUBSET Stored : IsFiniteSet(some)
BY StoredFinite, FS_Subset

-----------------------------------------------------------------------------
(* Columns and quantities. *)

LEMMA HeldFinite == \A held \in SUBSET Items : IsFiniteSet(held)
BY BillsAssumption, FS_Subset

LEMMA AmountIs ==
  ASSUME NEW resource \in Resources
  PROVE  /\ Amount("ram_gb") = RamOf /\ Amount("elastic_ip") = [i \in Items |-> 1]
         /\ resource \notin {"ram_gb", "elastic_ip"} => Amount(resource) = SizeOf
         /\ \A i \in Items : Amount(resource)[i] \in Nat
<1>1. Amount("ram_gb") = RamOf /\ Amount("elastic_ip") = [i \in Items |-> 1]
  BY DEF Amount
<1>2. resource \notin {"ram_gb", "elastic_ip"} => Amount(resource) = SizeOf
  BY DEF Amount
<1>3. \A i \in Items : SizeOf[i] \in Nat /\ RamOf[i] \in Nat /\ [j \in Items |-> 1][i] \in Nat
  BY BillsAssumption
<1> QED BY <1>1, <1>2, <1>3

LEMMA ColumnNat ==
  ASSUME NEW held \in SUBSET Items, NEW resource \in Resources
  PROVE  Column(held, resource) \in Nat
<1> DEFINE some == {i \in held : Adds(i, resource)}
<1>1. some \in SUBSET Items
  OBVIOUS
<1> HIDE DEF some
<1>2. SumFunctionOnSet(Amount(resource), some) \in Nat
  BY <1>1, HeldFinite, AmountIs, SumNat
<1> QED BY <1>2 DEF some, Column

LEMMA ColumnWithin ==
  ASSUME NEW held \in SUBSET Items, NEW part \in SUBSET held, NEW resource \in Resources
  PROVE  Column(part, resource) <= Column(held, resource)
<1> DEFINE some == {i \in held : Adds(i, resource)}
           few == {i \in part : Adds(i, resource)}
<1>1. some \in SUBSET Items /\ few \in SUBSET some
  OBVIOUS
<1> HIDE DEF some, few
<1>2. \A i \in some : Amount(resource)[i] \in Nat
  BY <1>1, AmountIs
<1>3. SumFunctionOnSet(Amount(resource), few) <= SumFunctionOnSet(Amount(resource), some)
  BY <1>1, <1>2, HeldFinite, SumWithin
<1> QED BY <1>3 DEF some, few, Column

LEMMA AddsOne ==
  ASSUME NEW i \in Items
  PROVE  /\ Adds(i, "vcpu") <=> ListOf[i] = "machines" /\ i \in Running
         /\ Adds(i, "ram_gb") <=> ListOf[i] = "machines" /\ i \in Running
         /\ Adds(i, "ssd_gb") <=> ListOf[i] = "volumes" /\ MediaOf[i] = "SSD"
         /\ Adds(i, "hdd_gb") <=> ListOf[i] = "volumes" /\ MediaOf[i] = "HDD"
         /\ Adds(i, "elastic_ip") <=> ListOf[i] = "addresses"
         /\ Adds(i, "snapshot_gb") <=> ListOf[i] = "snapshots"
<1>1. Adds(i, "vcpu") <=> ListOf[i] = "machines" /\ i \in Running
  BY DEF Adds
<1>2. Adds(i, "ram_gb") <=> ListOf[i] = "machines" /\ i \in Running
  BY DEF Adds
<1>3. Adds(i, "ssd_gb") <=> ListOf[i] = "volumes" /\ MediaOf[i] = "SSD"
  BY DEF Adds
<1>4. Adds(i, "hdd_gb") <=> ListOf[i] = "volumes" /\ MediaOf[i] = "HDD"
  BY DEF Adds
<1>5. Adds(i, "elastic_ip") <=> ListOf[i] = "addresses"
  BY DEF Adds
<1>6. Adds(i, "snapshot_gb") <=> ListOf[i] = "snapshots"
  BY DEF Adds
<1> QED BY <1>1, <1>2, <1>3, <1>4, <1>5, <1>6

\* Backups are snapshots and nothing else.
LEMMA ColumnWithoutBackups ==
  ASSUME NEW held \in SUBSET Items
  PROVE  /\ Column(held \ Backups, "snapshot_gb")
               = Column(held, "snapshot_gb") - Column(held \cap Backups, "snapshot_gb")
         /\ \A resource \in Resources \ {"snapshot_gb"} :
               Column(held \ Backups, resource) = Column(held, resource)
<1>1. \A i \in held \cap Backups : i \in Items /\ ListOf[i] = "snapshots"
  BY UsageAssumption
<1> DEFINE Who(some, resource) == {i \in some : Adds(i, resource)}
<1>2. Column(held \ Backups, "snapshot_gb")
         = Column(held, "snapshot_gb") - Column(held \cap Backups, "snapshot_gb")
  <2> DEFINE S == Who(held, "snapshot_gb")
             T == Who(held \cap Backups, "snapshot_gb")
  <2>1. S \in SUBSET Items /\ T \in SUBSET S /\ Who(held \ Backups, "snapshot_gb") = S \ T
    OBVIOUS
  <2>2. Column(held, "snapshot_gb") = SumFunctionOnSet(SizeOf, S)
        /\ Column(held \cap Backups, "snapshot_gb") = SumFunctionOnSet(SizeOf, T)
        /\ Column(held \ Backups, "snapshot_gb") = SumFunctionOnSet(SizeOf, Who(held \ Backups, "snapshot_gb"))
    BY AmountIs DEF Column, Resources
  <2> HIDE DEF S, T, Who
  <2>3. \A i \in S : SizeOf[i] \in Int
    BY <2>1, BillsAssumption
  <2>4. SumFunctionOnSet(SizeOf, S \ T) = SumFunctionOnSet(SizeOf, S) - SumFunctionOnSet(SizeOf, T)
    BY <2>1, <2>3, HeldFinite, SumWithout
  <2> QED BY <2>1, <2>2, <2>4
<1>3. ASSUME NEW resource \in Resources \ {"snapshot_gb"}
      PROVE  Column(held \ Backups, resource) = Column(held, resource)
  <2>1. \A i \in held \cap Backups : ~ Adds(i, resource)
    <3> TAKE i \in held \cap Backups
    <3>1. i \in Items /\ ListOf[i] = "snapshots"
      BY <1>1
    <3> QED BY <3>1, AddsOne DEF Resources
  <2>2. Who(held \ Backups, resource) = Who(held, resource)
    BY <2>1
  <2> QED BY <2>2 DEF Column
<1> QED BY <1>2, <1>3

\* What of a row is billed.
Billed(row, with) == IF with THEN row.seen ELSE row.seen \ Backups

LEMMA QuantityIs ==
  ASSUME NEW row, row.seen \in SUBSET Items, row.backups = row.seen \cap Backups,
         NEW resource \in Resources, NEW with \in BOOLEAN
  PROVE  /\ Quantity(row, resource, with) = Column(Billed(row, with), resource)
         /\ Quantity(row, resource, with) \in Nat
         /\ SnapshotGib(row, with) = Column(Billed(row, with), "snapshot_gb")
<1>1. SnapshotGib(row, with) = Column(Billed(row, with), "snapshot_gb")
  <2>1. Column(row.seen, "snapshot_gb") \in Nat
    BY ColumnNat DEF Resources
  <2>2. Column(row.seen \ Backups, "snapshot_gb")
           = Column(row.seen, "snapshot_gb") - Column(row.backups, "snapshot_gb")
    BY ColumnWithoutBackups
  <2> QED BY <2>1, <2>2 DEF SnapshotGib, Billed
<1>2. Quantity(row, resource, with) = Column(Billed(row, with), resource)
  <2>1. CASE resource = "snapshot_gb"
    BY <1>1, <2>1 DEF Quantity
  <2>2. CASE resource # "snapshot_gb"
    BY <2>2, ColumnWithoutBackups DEF Quantity, Billed
  <2> QED BY <2>1, <2>2
<1>3. Billed(row, with) \in SUBSET Items
  BY DEF Billed
<1> QED BY <1>1, <1>2, <1>3, ColumnNat

-----------------------------------------------------------------------------
(* Rounding. *)

LEMMA Scaled ==
  /\ \A k, m, n \in Int : k > 0 /\ k * m <= k * n => m <= n
  /\ \A k, m, n \in Int : k >= 0 /\ m <= n => k * m <= k * n
<1>1. ASSUME NEW k \in Int, NEW m \in Int, NEW n \in Int, k > 0, k * m <= k * n PROVE m <= n
  <2> SUFFICES ASSUME n + 1 <= m PROVE FALSE
    OBVIOUS
  <2>1. k * (m - n - 1) >= 0
    <3>1. m - n - 1 >= 0
      OBVIOUS
    <3> QED BY <1>1, <3>1
  <2>2. k * (m - n - 1) = k * m - k * n - k
    OBVIOUS
  <2> QED BY <1>1, <2>1, <2>2
<1>2. ASSUME NEW k \in Int, NEW m \in Int, NEW n \in Int, k >= 0, m <= n PROVE k * m <= k * n
  <2>1. k * (n - m) >= 0
    BY <1>2
  <2>2. k * (n - m) = k * n - k * m
    OBVIOUS
  <2> QED BY <2>1, <2>2
<1> QED BY <1>1, <1>2

\* What is rounded is within a half of what it was.
LEMMA Rounds ==
  ASSUME NEW n \in Nat, NEW d \in Nat \ {0}
  PROVE  /\ RoundHalfUp(n, d) \in Nat
         /\ d * (2 * RoundHalfUp(n, d) - 1) <= 2 * n
         /\ 2 * n < d * (2 * RoundHalfUp(n, d) + 1)
<1> DEFINE a == RoundHalfUp(n, d)
<1>1. a \in Int /\ (2 * d) * a <= 2 * n + d /\ 2 * n + d < (2 * d) * (a + 1)
  BY DEF RoundHalfUp
<1>2. a >= 0
  <2> SUFFICES ASSUME a + 1 <= 0 PROVE FALSE
    BY <1>1
  <2> HIDE DEF a
  <2>1. (2 * d) * (a + 1) <= (2 * d) * 0
    BY <1>1, Scaled
  <2> QED BY <1>1, <2>1
<1> HIDE DEF a
<1>3. (2 * d) * a = 2 * (d * a) /\ (2 * d) * (a + 1) = 2 * (d * a) + 2 * d
      /\ d * (2 * a - 1) = 2 * (d * a) - d /\ d * (2 * a + 1) = 2 * (d * a) + d /\ d * a \in Int
  BY <1>1
<1>4. d * (2 * a - 1) <= 2 * n /\ 2 * n < d * (2 * a + 1)
  BY <1>1, <1>3
<1> QED BY <1>1, <1>2, <1>4 DEF a

\* More is not rounded to less.
LEMMA RoundsUp ==
  ASSUME NEW m \in Nat, NEW n \in Nat, m <= n, NEW d \in Nat \ {0}
  PROVE  RoundHalfUp(m, d) <= RoundHalfUp(n, d)
<1> DEFINE a == RoundHalfUp(m, d)
           b == RoundHalfUp(n, d)
<1>1. a \in Nat /\ d * (2 * a - 1) <= 2 * m /\ b \in Nat /\ 2 * n < d * (2 * b + 1)
  BY Rounds
<1> HIDE DEF a, b
<1>2. SUFFICES ASSUME b + 1 <= a PROVE FALSE
  BY <1>1 DEF a, b
<1>3. d * (2 * b + 1) <= d * (2 * a - 1)
  BY <1>1, <1>2, Scaled
<1>4. d * (2 * b + 1) \in Int /\ d * (2 * a - 1) \in Int
  BY <1>1
<1> QED BY <1>1, <1>3, <1>4

LEMMA RoundsZero == RoundHalfUp(0, 100) = 0
BY DEF RoundHalfUp

-----------------------------------------------------------------------------
(* Lines and totals. *)

LEMMA ResourcesFinite == \A some \in SUBSET Resources : IsFiniteSet(some)
<1>1. IsFiniteSet({"vcpu"} \cup {"ram_gb"})
  BY FS_Singleton, FS_AddElement
<1>2. IsFiniteSet(({"vcpu"} \cup {"ram_gb"}) \cup {"ssd_gb"})
  BY <1>1, FS_AddElement
<1>3. IsFiniteSet({"hdd_gb"} \cup {"elastic_ip"})
  BY FS_Singleton, FS_AddElement
<1>4. IsFiniteSet(({"hdd_gb"} \cup {"elastic_ip"}) \cup {"snapshot_gb"})
  BY <1>3, FS_AddElement
<1> DEFINE S == ({"vcpu"} \cup {"ram_gb"}) \cup {"ssd_gb"}
           T == ({"hdd_gb"} \cup {"elastic_ip"}) \cup {"snapshot_gb"}
<1>5. Resources = S \cup T
  BY DEF Resources
<1> HIDE DEF S, T
<1>6. IsFiniteSet(Resources)
  BY <1>2, <1>4, <1>5, FS_Union DEF S, T
<1> QED BY <1>6, FS_Subset

LEMMA Divisors == \A resource : Divisor(resource) \in Nat \ {0}
BY DEF Divisor

\* Rows as a pass writes them.
AsWritten(some) ==
    /\ IsFiniteSet(some)
    /\ \A row \in some : row.seen \in SUBSET Items /\ row.backups = row.seen \cap Backups

LEMMA StoredAsWritten ==
  ASSUME PagesInv
  PROVE  \A some \in SUBSET Stored : AsWritten(some)
BY RowOK, SomeFinite DEF AsWritten

LEMMA UnitDaysIs ==
  ASSUME NEW some, AsWritten(some), NEW off, NEW resource \in Resources, NEW f,
         \A row \in some : f[row] = Column(Billed(row, row.owner \notin off), resource)
  PROVE  /\ UnitDays(some, resource, off) = SumFunctionOnSet(f, some)
         /\ UnitDays(some, resource, off) \in Nat
<1> DEFINE g == [row \in some |-> Quantity(row, resource, WithBackups(row, off))]
<1>1. UnitDays(some, resource, off) = SumFunctionOnSet(g, some)
  BY DEF UnitDays, SumFunction
<1>2. ASSUME NEW row \in some PROVE g[row] = f[row] /\ g[row] \in Nat
  <2>1. WithBackups(row, off) \in BOOLEAN /\ WithBackups(row, off) = (row.owner \notin off)
    BY DEF WithBackups
  <2>2. /\ Quantity(row, resource, row.owner \notin off) = Column(Billed(row, row.owner \notin off), resource)
        /\ Quantity(row, resource, row.owner \notin off) \in Nat
    BY QuantityIs DEF AsWritten
  <2> QED BY <2>1, <2>2
<1> HIDE DEF g
<1>3. IsFiniteSet(some)
  BY DEF AsWritten
<1>4. SumFunctionOnSet(g, some) = SumFunctionOnSet(f, some)
  BY <1>2, <1>3, SumSame
<1>5. SumFunctionOnSet(g, some) \in Nat
  BY <1>2, <1>3, SumNat
<1> QED BY <1>1, <1>4, <1>5

LEMMA UnitDaysNat ==
  ASSUME NEW some, AsWritten(some), NEW off, NEW resource \in Resources
  PROVE  UnitDays(some, resource, off) \in Nat
<1> DEFINE f == [row \in some |-> Column(Billed(row, row.owner \notin off), resource)]
<1>1. \A row \in some : f[row] = Column(Billed(row, row.owner \notin off), resource)
  OBVIOUS
<1> HIDE DEF f
<1> QED BY <1>1, UnitDaysIs

LEMMA CostOfIs ==
  ASSUME NEW some, NEW prices, NEW off
  PROVE  /\ DOMAIN CostOf(some, prices, off).lines = HeldIn(some, off)
         /\ \A resource \in HeldIn(some, off) :
               LET line == CostOf(some, prices, off).lines[resource]
               IN  /\ line.unitDays = UnitDays(some, resource, off)
                   /\ line.quantity = RoundHalfUp(100 * UnitDays(some, resource, off),
                                                  Divisor(resource) * Cardinality(DaysOf(some)))
                   /\ line.cost = RoundHalfUp(line.quantity * prices[resource], 100)
                   /\ line.priced = (prices[resource] > 0)
         /\ CostOf(some, prices, off).total
               = Sum(CostOf(some, prices, off).lines, HeldIn(some, off))
         /\ CostOf(some, prices, off).days = Cardinality(DaysOf(some))
BY DEF CostOf, Priced, Line

LEMMA EstimateIs ==
  ASSUME NEW held, NEW prices
  PROVE  LET some == {resource \in Resources : Column(held, resource) # 0}
             estimate == EstimateMonth(held, prices)
         IN  /\ DOMAIN estimate.lines = some
             /\ \A resource \in some :
                   /\ estimate.lines[resource].quantity
                         = RoundHalfUp(100 * Column(held, resource), Divisor(resource))
                   /\ estimate.lines[resource].cost
                         = RoundHalfUp(estimate.lines[resource].quantity * prices[resource], 100)
             /\ estimate.total = Sum(estimate.lines, some)
BY DEF EstimateMonth

LEMMA SumIsSum ==
  ASSUME NEW lines, NEW some
  PROVE  Sum(lines, some) = SumFunctionOnSet([resource \in some |-> lines[resource].cost], some)
BY DEF Sum, SumFunction

\* A day of rows.
LEMMA DaysCounted ==
  ASSUME NEW some, IsFiniteSet(some)
  PROVE  /\ IsFiniteSet(DaysOf(some)) /\ Cardinality(DaysOf(some)) \in Nat
         /\ some # {} => Cardinality(DaysOf(some)) \in Nat \ {0}
<1> DEFINE f == [row \in some |-> row.day]
<1>1. f \in Surjection(some, DaysOf(some))
  BY DEF Surjection, DaysOf
<1> HIDE DEF f
<1>2. IsFiniteSet(DaysOf(some))
  BY <1>1, FS_Surjection
<1>3. Cardinality(DaysOf(some)) \in Nat
  BY <1>2, FS_CardinalityType
<1>4. some # {} => DaysOf(some) # {}
  BY DEF DaysOf
<1>5. Cardinality(DaysOf(some)) = 0 => DaysOf(some) = {}
  BY <1>2, FS_EmptySet
<1> QED BY <1>2, <1>3, <1>4, <1>5

\* What a bill or an estimate shows and charges is no less than nothing.
LEMMA CostOfNat ==
  ASSUME NEW some, AsWritten(some), NEW prices \in [Resources -> Nat], NEW off,
         NEW resource \in HeldIn(some, off)
  PROVE  /\ resource \in Resources /\ some # {}
         /\ CostOf(some, prices, off).lines[resource].quantity \in Nat
         /\ CostOf(some, prices, off).lines[resource].cost \in Nat
<1>1. resource \in Resources /\ UnitDays(some, resource, off) # 0
  BY DEF HeldIn
<1>2. UnitDays(some, resource, off) \in Nat
  BY <1>1, UnitDaysNat
<1>3. some # {}
  <2>1. ASSUME some = {} PROVE UnitDays(some, resource, off) = 0
    BY <2>1, SumEmpty DEF UnitDays, SumFunction
  <2> QED BY <1>1, <2>1
<1>4. Divisor(resource) * Cardinality(DaysOf(some)) \in Nat \ {0}
  <2>1. Divisor(resource) \in Nat \ {0} /\ Cardinality(DaysOf(some)) \in Nat \ {0}
    BY <1>3, Divisors, DaysCounted DEF AsWritten
  <2> QED BY <2>1
<1> DEFINE line == CostOf(some, prices, off).lines[resource]
<1>5. /\ line.quantity = RoundHalfUp(100 * UnitDays(some, resource, off),
                                     Divisor(resource) * Cardinality(DaysOf(some)))
      /\ line.cost = RoundHalfUp(line.quantity * prices[resource], 100)
  BY CostOfIs
<1> HIDE DEF line
<1>6. line.quantity \in Nat
  <2>1. 100 * UnitDays(some, resource, off) \in Nat
    BY <1>2
  <2> QED BY <1>4, <1>5, <2>1, Rounds
<1>7. line.quantity * prices[resource] \in Nat
  BY <1>1, <1>6
<1>8. line.cost \in Nat
  BY <1>5, <1>7, Rounds
<1> QED BY <1>1, <1>3, <1>6, <1>8 DEF line

-----------------------------------------------------------------------------
(* The same on every page. *)

\* Held now, once measured.
LEMMA LiveIsBilled ==
  ASSUME NEW q, NEW with \in BOOLEAN, NEW row, row.seen = HeldBy(q, items)
  PROVE  Billed(row, with) = LiveMeasurements(q, with, items, {})
BY DEF Billed, LiveMeasurements, HeldBy, Labelled

LEMMA EstimateAgrees == PagesInv => EstimateIsOneDayBill
<1> SUFFICES ASSUME PagesInv, NEW q \in Projects, NEW off \in SUBSET Domains
             PROVE  LET d == DomainOf[q]
                        row == [project |-> q, day |-> today, owner |-> d, seen |-> HeldBy(q, items),
                                backups |-> HeldBy(q, items) \cap Backups]
                        bill == CostOf({row}, PriceOf[d], off)
                        estimate == EstimateMonth(LiveMeasurements(q, d \notin off, items, {}), PriceOf[d])
                    IN  /\ bill.total = estimate.total
                        /\ DOMAIN bill.lines = DOMAIN estimate.lines
                        /\ \A resource \in DOMAIN bill.lines :
                              bill.lines[resource].quantity = estimate.lines[resource].quantity
  BY DEF EstimateIsOneDayBill
<1> DEFINE d == DomainOf[q]
           row == [project |-> q, day |-> today, owner |-> d, seen |-> HeldBy(q, items),
                   backups |-> HeldBy(q, items) \cap Backups]
           bill == CostOf({row}, PriceOf[d], off)
           held == LiveMeasurements(q, d \notin off, items, {})
           estimate == EstimateMonth(held, PriceOf[d])
           some == {resource \in Resources : Column(held, resource) # 0}
<1>1. /\ row.day = today /\ row.owner = d /\ row.seen = HeldBy(q, items)
      /\ row.backups = row.seen \cap Backups
  OBVIOUS
<1>2. items \in SUBSET Items /\ row.seen \in SUBSET Items /\ held \in SUBSET Items
  BY <1>1 DEF PagesInv, Inv, TypeInv, UsageTypeOK, HeldBy, LiveMeasurements, Labelled
<1>3. Billed(row, row.owner \notin off) = held
  BY <1>1, LiveIsBilled
<1> HIDE DEF row, held
<1>4. AsWritten({row})
  BY <1>1, <1>2, FS_Singleton DEF AsWritten
<1>5. ASSUME NEW resource \in Resources PROVE UnitDays({row}, resource, off) = Column(held, resource)
  <2> DEFINE f == [r \in {row} |-> Column(held, resource)]
  <2>1. Column(held, resource) \in Int
    BY <1>2, ColumnNat
  <2>2. f[row] = Column(held, resource) /\ \A r \in {row} : f[r] = Column(Billed(r, r.owner \notin off), resource)
    BY <1>3
  <2> HIDE DEF f
  <2>3. UnitDays({row}, resource, off) = SumFunctionOnSet(f, {row})
    BY <1>4, <2>2, UnitDaysIs
  <2>4. SumFunctionOnSet(f, {row}) = f[row]
    BY <2>1, <2>2, SumOne
  <2> QED BY <2>2, <2>3, <2>4
<1>6. DaysOf({row}) = {today} /\ Cardinality(DaysOf({row})) = 1
  <2>1. DaysOf({row}) = {today}
    BY <1>1 DEF DaysOf
  <2> QED BY <2>1, FS_Singleton
<1>7. HeldIn({row}, off) = some
  BY <1>5 DEF HeldIn
<1> HIDE DEF some
<1>8. /\ DOMAIN bill.lines = some
      /\ \A resource \in some :
            /\ bill.lines[resource].quantity = RoundHalfUp(100 * UnitDays({row}, resource, off),
                                                           Divisor(resource) * Cardinality(DaysOf({row})))
            /\ bill.lines[resource].cost
                  = RoundHalfUp(bill.lines[resource].quantity * PriceOf[d][resource], 100)
      /\ bill.total = Sum(bill.lines, some)
  <2>1. DOMAIN bill.lines = HeldIn({row}, off) /\ bill.total = Sum(bill.lines, HeldIn({row}, off))
    BY CostOfIs
  <2>2. ASSUME NEW resource \in HeldIn({row}, off)
        PROVE  /\ bill.lines[resource].quantity = RoundHalfUp(100 * UnitDays({row}, resource, off),
                                                   Divisor(resource) * Cardinality(DaysOf({row})))
               /\ bill.lines[resource].cost
                     = RoundHalfUp(bill.lines[resource].quantity * PriceOf[d][resource], 100)
    BY CostOfIs
  <2> HIDE DEF bill
  <2> QED BY <1>7, <2>1, <2>2
<1>9. /\ DOMAIN estimate.lines = some
      /\ \A resource \in some :
            /\ estimate.lines[resource].quantity
                  = RoundHalfUp(100 * Column(held, resource), Divisor(resource))
            /\ estimate.lines[resource].cost
                  = RoundHalfUp(estimate.lines[resource].quantity * PriceOf[d][resource], 100)
      /\ estimate.total = Sum(estimate.lines, some)
  BY EstimateIs DEF some
<1> HIDE DEF bill, estimate
<1>10. ASSUME NEW resource \in some
       PROVE  /\ bill.lines[resource].quantity = estimate.lines[resource].quantity
              /\ bill.lines[resource].cost = estimate.lines[resource].cost
  <2>1. resource \in Resources
    BY DEF some
  <2>2. Divisor(resource) * Cardinality(DaysOf({row})) = Divisor(resource)
    BY <1>6, Divisors
  <2>3. bill.lines[resource].quantity = estimate.lines[resource].quantity
    BY <1>5, <1>8, <1>9, <2>1, <2>2
  <2> QED BY <1>8, <1>9, <2>3
<1>11. bill.total = estimate.total
  <2>1. [resource \in some |-> bill.lines[resource].cost] = [resource \in some |-> estimate.lines[resource].cost]
    BY <1>10
  <2> QED BY <1>8, <1>9, <2>1, SumIsSum
<1>12. /\ bill.total = estimate.total
       /\ DOMAIN bill.lines = DOMAIN estimate.lines
       /\ \A resource \in DOMAIN bill.lines :
             bill.lines[resource].quantity = estimate.lines[resource].quantity
  BY <1>8, <1>9, <1>10, <1>11
<1> QED BY <1>12 DEF bill, estimate, row, held

\* A line that has no price costs nothing, so that the document, which leaves it
\* out, comes to what the overview says.
LEMMA UnpricedAddNothing ==
  ASSUME NEW some, AsWritten(some), NEW prices \in [Resources -> Nat], NEW off
  PROVE  LET cost == CostOf(some, prices, off)
             billable == {resource \in DOMAIN cost.lines : cost.lines[resource].priced}
         IN  Sum(cost.lines, billable) = cost.total /\ cost.total \in Nat
<1> DEFINE cost == CostOf(some, prices, off)
           held == HeldIn(some, off)
           billable == {resource \in DOMAIN cost.lines : cost.lines[resource].priced}
           f == [resource \in held |-> cost.lines[resource].cost]
           g == [resource \in billable |-> cost.lines[resource].cost]
<1>1. DOMAIN cost.lines = held /\ cost.total = Sum(cost.lines, held)
  BY CostOfIs
<1>2. billable \in SUBSET held
  BY <1>1
<1>3. ASSUME NEW resource \in held
      PROVE  /\ cost.lines[resource].cost \in Nat
             /\ resource \notin billable => cost.lines[resource].cost = 0
  <2>1. cost.lines[resource].cost \in Nat /\ cost.lines[resource].quantity \in Nat /\ resource \in Resources
    BY CostOfNat
  <2>2. /\ cost.lines[resource].cost = RoundHalfUp(cost.lines[resource].quantity * prices[resource], 100)
        /\ cost.lines[resource].priced = (prices[resource] > 0)
    BY CostOfIs
  <2>3. ASSUME resource \notin billable PROVE prices[resource] = 0
    <3>1. ~ (prices[resource] > 0)
      BY <1>1, <2>2, <2>3
    <3>2. prices[resource] \in Nat
      BY <2>1
    <3> QED BY <3>1, <3>2
  <2>4. cost.lines[resource].quantity * 0 = 0
    BY <2>1
  <2> QED BY <2>1, <2>2, <2>3, <2>4, RoundsZero
<1>4. held \in SUBSET Resources /\ IsFiniteSet(held) /\ IsFiniteSet(billable)
  <2>1. held \in SUBSET Resources /\ billable \in SUBSET Resources
    BY <1>2 DEF HeldIn
  <2> QED BY <2>1, ResourcesFinite
<1>5. Sum(cost.lines, billable) = SumFunctionOnSet(g, billable) /\ cost.total = SumFunctionOnSet(f, held)
  BY <1>1, SumIsSum
<1>6. \A resource \in billable : g[resource] = f[resource]
  BY <1>2
<1>7. \A resource \in held : f[resource] \in Nat /\ (resource \notin billable => f[resource] = 0)
  BY <1>3
<1> HIDE DEF f, g, held, billable, cost
<1>8. SumFunctionOnSet(g, billable) = SumFunctionOnSet(f, billable)
  BY <1>4, <1>6, SumSame
<1>9. SumFunctionOnSet(f, billable) = SumFunctionOnSet(f, held)
  BY <1>2, <1>4, <1>7, SumOnly
<1>10. SumFunctionOnSet(f, held) \in Nat
  BY <1>4, <1>7, SumNat
<1> QED BY <1>5, <1>8, <1>9, <1>10 DEF cost, billable

LEMMA VatCloses ==
  ASSUME NEW amount \in Nat
  PROVE  /\ SplitVat(amount).subtotal + SplitVat(amount).vat = SplitVat(amount).total
         /\ amount = IF PricesInclude THEN SplitVat(amount).total ELSE SplitVat(amount).subtotal
<1> DEFINE subtotal == RoundHalfUp(100 * amount, 100 + VatPercent)
           tax == RoundHalfUp(amount * VatPercent, 100)
<1>1. VatPercent \in Nat /\ PricesInclude \in BOOLEAN
  BY BillsAssumption
<1>2. 100 * amount \in Nat /\ 100 + VatPercent \in Nat \ {0} /\ amount * VatPercent \in Nat
  BY <1>1
<1>3. subtotal \in Nat /\ tax \in Nat
  <2>1. subtotal \in Nat
    BY <1>2, Rounds
  <2>2. 100 \in Nat \ {0}
    OBVIOUS
  <2>3. tax \in Nat
    BY <1>2, <2>2, Rounds
  <2> QED BY <2>1, <2>3
<1>4. SplitVat(amount) = IF PricesInclude
                         THEN [subtotal |-> subtotal, vat |-> amount - subtotal, total |-> amount]
                         ELSE [subtotal |-> amount, vat |-> tax, total |-> amount + tax]
  BY DEF SplitVat
<1> HIDE DEF subtotal, tax
<1>5. CASE PricesInclude
  BY <1>3, <1>4, <1>5
<1>6. CASE ~ PricesInclude
  BY <1>3, <1>4, <1>6
<1> QED BY <1>5, <1>6

LEMMA DraftAgrees == PagesInv => DraftCloses
<1> SUFFICES ASSUME PagesInv, NEW off \in SUBSET Domains, NEW d \in DOMAIN Overview(off)
             PROVE  /\ Draft(d, d, off).subtotal + Draft(d, d, off).vat = Draft(d, d, off).total
                    /\ Overview(off)[d] = IF PricesInclude THEN Draft(d, d, off).total
                                          ELSE Draft(d, d, off).subtotal
  BY DEF DraftCloses
<1>1. Overview(off)[d] = CostOf(RowsOf(d), PriceOf[d], off).total
  BY DEF Overview
<1>2. d \in Domains
  <2>1. PICK row \in Stored : d = row.owner /\ d # NoDomain
    BY DEF Overview
  <2>2. row.owner \in {DomainOf[row.project], NoDomain} /\ row.project \in Projects
    BY RowOK
  <2> QED BY <2>1, <2>2, UsageAssumption
<1>3. PriceOf[d] \in [Resources -> Nat] /\ AsWritten(RowsOf(d))
  BY <1>2, BillsAssumption, StoredAsWritten DEF RowsOf
<1> DEFINE cost == CostOf(RowsOf(d), PriceOf[d], off)
           billable == {resource \in DOMAIN cost.lines : cost.lines[resource].priced}
           vat == SplitVat(Sum(cost.lines, billable))
<1>4. Sum(cost.lines, billable) = cost.total /\ cost.total \in Nat
  BY <1>3, UnpricedAddNothing
<1>5. Draft(d, d, off).subtotal = vat.subtotal /\ Draft(d, d, off).vat = vat.vat
      /\ Draft(d, d, off).total = vat.total
  BY DEF Draft, DraftOf
<1> HIDE DEF cost, billable
<1>6. /\ vat.subtotal + vat.vat = vat.total
      /\ cost.total = IF PricesInclude THEN vat.total ELSE vat.subtotal
  BY <1>4, VatCloses
<1> HIDE DEF vat
<1> QED BY <1>1, <1>5, <1>6 DEF cost

LEMMA FileAgrees == PagesInv => ExportAgrees /\ NothingNegative
<1> SUFFICES ASSUME PagesInv PROVE ExportAgrees /\ NothingNegative
  OBVIOUS
<1>1. ASSUME NEW row \in Stored, NEW with \in BOOLEAN
      PROVE  /\ SnapshotGib(row, with) = Column(Billed(row, with), "snapshot_gb")
             /\ SnapshotGib(row, with) \in Nat
  <2>1. row.seen \in SUBSET Items /\ row.backups = row.seen \cap Backups
    BY RowOK
  <2>2. SnapshotGib(row, with) = Column(Billed(row, with), "snapshot_gb")
    BY <2>1, QuantityIs DEF Resources
  <2>3. Billed(row, with) \in SUBSET Items
    BY <2>1 DEF Billed
  <2> QED BY <2>2, <2>3, ColumnNat DEF Resources
<1>2. ASSUME NEW d \in Domains, NEW off \in SUBSET Domains
      PROVE  /\ UnitDays(RowsOf(d), "snapshot_gb", off) = SumFunction(Export(d, off))
             /\ d \in off => \A row \in RowsOf(d) :
                   Export(d, off)[row] = Column(row.seen \ Backups, "snapshot_gb")
  <2>1. Export(d, off) = [row \in RowsOf(d) |-> Quantity(row, "snapshot_gb", WithBackups(row, off))]
    BY DEF Export, Quantity
  <2>2. UnitDays(RowsOf(d), "snapshot_gb", off) = SumFunction(Export(d, off))
    BY <2>1 DEF UnitDays
  <2>3. ASSUME d \in off, NEW row \in RowsOf(d)
        PROVE  Export(d, off)[row] = Column(row.seen \ Backups, "snapshot_gb")
    <3>1. row \in Stored /\ row.owner = d /\ ~ WithBackups(row, off)
      BY <2>3 DEF RowsOf, WithBackups
    <3>2. Export(d, off)[row] = SnapshotGib(row, FALSE)
      <4>1. WithBackups(row, off) = FALSE
        BY <3>1 DEF WithBackups
      <4> QED BY <4>1 DEF Export
    <3>3. Billed(row, FALSE) = row.seen \ Backups
      BY DEF Billed
    <3> QED BY <1>1, <3>1, <3>2, <3>3
  <2> QED BY <2>2, <2>3
<1>3. ExportAgrees
  BY <1>2 DEF ExportAgrees
<1>4. ASSUME NEW row \in Stored PROVE row.backups \subseteq row.seen /\ SnapshotGib(row, FALSE) >= 0
  <2>1. SnapshotGib(row, FALSE) \in Nat
    BY <1>1
  <2>2. row.backups = row.seen \cap Backups
    BY RowOK
  <2>3. SnapshotGib(row, FALSE) >= 0
    <3> DEFINE left == SnapshotGib(row, FALSE)
    <3>1. left \in Nat
      BY <2>1
    <3> HIDE DEF left
    <3>2. left >= 0
      BY <3>1
    <3> QED BY <3>2 DEF left
  <2>4. row.backups \subseteq row.seen
    BY <2>2
  <2> QED BY <2>3, <2>4
<1> QED BY <1>3, <1>4 DEF NothingNegative

-----------------------------------------------------------------------------
(* Averages of projects, and of an account. *)

\* Numbers that are each rounded, and their sum that is.
LEMMA RoundedApart ==
  ASSUME NEW P, IsFiniteSet(P), NEW n, NEW a, NEW k,
         \A p \in P : /\ n[p] \in Nat /\ a[p] \in Nat /\ k[p] \in Nat \ {0}
                      /\ k[p] * (2 * a[p] - 1) <= 2 * n[p] /\ 2 * n[p] < k[p] * (2 * a[p] + 1),
         NEW both \in Nat, NEW K \in Nat \ {0}, \A p \in P : k[p] <= K,
         K * (2 * both - 1) <= 2 * SumFunctionOnSet(n, P),
         2 * SumFunctionOnSet(n, P) < K * (2 * both + 1)
  PROVE  /\ 2 * both <= 2 * SumFunctionOnSet(a, P) + Cardinality(P) + 1
         /\ (\A p \in P : k[p] = K) => 2 * SumFunctionOnSet(a, P) <= 2 * both + Cardinality(P) + 1
<1> DEFINE N == SumFunctionOnSet(n, P)
           A == SumFunctionOnSet(a, P)
           M == Cardinality(P)
           n2 == [p \in P |-> 2 * n[p]]
           a2 == [p \in P |-> 2 * a[p]]
           more == [p \in P |-> 2 * a[p] + 1]
           less == [p \in P |-> 2 * a[p] - 1]
           one == [p \in P |-> 1]
           none == [p \in P |-> -1]
           kmore == [p \in P |-> K * more[p]]
           kless == [p \in P |-> K * less[p]]
<1>1. N \in Nat /\ A \in Nat /\ M \in Nat
  BY SumNat, FS_CardinalityType
<1>2. SumFunctionOnSet(n2, P) = 2 * N /\ SumFunctionOnSet(a2, P) = 2 * A
  <2>1. \A p \in P : n[p] \in Int /\ n2[p] = 2 * n[p]
    OBVIOUS
  <2>2. \A p \in P : a[p] \in Int /\ a2[p] = 2 * a[p]
    OBVIOUS
  <2> HIDE DEF n2, a2
  <2>3. SumFunctionOnSet(n2, P) = 2 * N
    BY <2>1, SumTimes
  <2>4. SumFunctionOnSet(a2, P) = 2 * A
    BY <2>2, SumTimes
  <2> QED BY <2>3, <2>4
<1>3. SumFunctionOnSet(more, P) = 2 * A + M /\ SumFunctionOnSet(less, P) = 2 * A - M
  <2>1. \A p \in P : a2[p] \in Int /\ one[p] \in Int /\ more[p] = a2[p] + one[p] /\ one[p] = 1
    OBVIOUS
  <2>2. \A p \in P : a2[p] \in Int /\ none[p] \in Int /\ less[p] = a2[p] + none[p] /\ none[p] = -1
    OBVIOUS
  <2> HIDE DEF a2, one, none, more, less
  <2>3. SumFunctionOnSet(one, P) = 1 * M
    BY <2>1, SumConstant
  <2>4. SumFunctionOnSet(none, P) = (-1) * M
    <3>1. -1 \in Int
      OBVIOUS
    <3> QED BY <2>2, <3>1, SumConstant
  <2>5. SumFunctionOnSet(more, P) = SumFunctionOnSet(a2, P) + SumFunctionOnSet(one, P)
    BY <2>1, SumPlus
  <2>6. SumFunctionOnSet(less, P) = SumFunctionOnSet(a2, P) + SumFunctionOnSet(none, P)
    BY <2>2, SumPlus
  <2> HIDE DEF A, M
  <2> QED BY <1>1, <1>2, <2>3, <2>4, <2>5, <2>6
<1>4. /\ SumFunctionOnSet(kmore, P) = K * (2 * A + M)
      /\ SumFunctionOnSet(kless, P) = K * (2 * A - M)
  <2>1. \A p \in P : more[p] \in Int /\ kmore[p] = K * more[p]
    OBVIOUS
  <2>2. \A p \in P : less[p] \in Int /\ kless[p] = K * less[p]
    OBVIOUS
  <2> HIDE DEF more, less, kmore, kless
  <2>3. SumFunctionOnSet(kmore, P) = K * SumFunctionOnSet(more, P)
    BY <2>1, SumTimes
  <2>4. SumFunctionOnSet(kless, P) = K * SumFunctionOnSet(less, P)
    BY <2>2, SumTimes
  <2> HIDE DEF A, M
  <2> QED BY <1>3, <2>3, <2>4
<1>5. 2 * N <= K * (2 * A + M)
  <2>1. ASSUME NEW p \in P PROVE n2[p] \in Int /\ kmore[p] \in Int /\ n2[p] <= kmore[p]
    <3>1. /\ n[p] \in Nat /\ a[p] \in Nat /\ k[p] \in Nat \ {0} /\ k[p] <= K
          /\ 2 * n[p] < k[p] * (2 * a[p] + 1)
      OBVIOUS
    <3> DEFINE b == 2 * a[p] + 1
    <3>2. b \in Nat /\ k[p] * b = b * k[p] /\ K * b = b * K
      BY <3>1
    <3> HIDE DEF b
    <3>3. b * k[p] <= b * K
      BY <3>1, <3>2, Scaled
    <3>4. k[p] * b <= K * b /\ K * b \in Int /\ k[p] * b \in Int
      BY <3>1, <3>2, <3>3
    <3>5. 2 * n[p] <= K * b /\ 2 * n[p] \in Int
      BY <3>1, <3>4 DEF b
    <3>6. n2[p] = 2 * n[p] /\ kmore[p] = K * b
      BY DEF b
    <3> QED BY <3>4, <3>5, <3>6
  <2> HIDE DEF n2, kmore
  <2>2. SumFunctionOnSet(n2, P) <= SumFunctionOnSet(kmore, P)
    BY <2>1, SumLess
  <2> QED BY <1>2, <1>4, <2>2
<1>6. ASSUME \A p \in P : k[p] = K PROVE K * (2 * A - M) <= 2 * N
  <2>1. ASSUME NEW p \in P PROVE n2[p] \in Int /\ kless[p] \in Int /\ kless[p] <= n2[p]
    <3>1. n[p] \in Nat /\ a[p] \in Nat /\ K * (2 * a[p] - 1) <= 2 * n[p]
      BY <1>6
    <3>2. K * (2 * a[p] - 1) \in Int /\ 2 * n[p] \in Int
      BY <3>1
    <3>3. n2[p] = 2 * n[p] /\ kless[p] = K * (2 * a[p] - 1)
      OBVIOUS
    <3> QED BY <3>1, <3>2, <3>3
  <2> HIDE DEF n2, kless
  <2>2. SumFunctionOnSet(kless, P) <= SumFunctionOnSet(n2, P)
    BY <2>1, SumLess
  <2> QED BY <1>2, <1>4, <2>2
<1>7. K * (2 * both - 1) <= 2 * N /\ 2 * N < K * (2 * both + 1)
  OBVIOUS
<1> HIDE DEF N, A, M, n2, a2, more, less, one, none, kmore, kless
<1>8. 2 * both <= 2 * A + M + 1
  <2>1. K * (2 * both - 1) \in Int /\ K * (2 * A + M) \in Int /\ 2 * N \in Int
    BY <1>1
  <2>2. K * (2 * both - 1) <= K * (2 * A + M)
    BY <1>5, <1>7, <2>1
  <2>3. 2 * both - 1 <= 2 * A + M
    BY <1>1, <2>2, Scaled
  <2> QED BY <1>1, <2>3
<1>9. ASSUME \A p \in P : k[p] = K PROVE 2 * A <= 2 * both + M + 1
  <2>1. K * (2 * both + 1) \in Int /\ K * (2 * A - M) \in Int /\ 2 * N \in Int
    BY <1>1
  <2>2. K * (2 * A - M) <= K * (2 * both + 1)
    BY <1>6, <1>7, <1>9, <2>1
  <2>3. 2 * A - M <= 2 * both + 1
    BY <1>1, <2>2, Scaled
  <2> QED BY <1>1, <2>3
<1> QED BY <1>8, <1>9 DEF A, M

\* The average a bill shows of a resource.
AverageOf(some, prices, resource) ==
    LET lines == CostOf(some, prices, {}).lines
    IN  IF resource \in DOMAIN lines THEN lines[resource].quantity ELSE 0

LEMMA AverageRounds ==
  ASSUME NEW some, AsWritten(some), some # {}, NEW prices \in [Resources -> Nat],
         NEW resource \in Resources
  PROVE  LET n == 100 * UnitDays(some, resource, {})
             k == Divisor(resource) * Cardinality(DaysOf(some))
             a == AverageOf(some, prices, resource)
         IN  /\ n \in Nat /\ k \in Nat \ {0} /\ a \in Nat
             /\ k * (2 * a - 1) <= 2 * n /\ 2 * n < k * (2 * a + 1)
<1> DEFINE units == UnitDays(some, resource, {})
           n == 100 * units
           k == Divisor(resource) * Cardinality(DaysOf(some))
           a == AverageOf(some, prices, resource)
<1>1. units \in Nat
  BY UnitDaysNat
<1>2. k \in Nat \ {0}
  <2>1. Divisor(resource) \in Nat \ {0} /\ Cardinality(DaysOf(some)) \in Nat \ {0}
    BY Divisors, DaysCounted DEF AsWritten
  <2> QED BY <2>1
<1>3. CASE units # 0
  <2>1. resource \in HeldIn(some, {})
    BY <1>3 DEF HeldIn
  <2>2. a = RoundHalfUp(n, k)
    BY <2>1, CostOfIs DEF AverageOf
  <2> HIDE DEF a, k, units
  <2>3. n \in Nat
    BY <1>1
  <2> HIDE DEF n
  <2>4. /\ n \in Nat /\ k \in Nat \ {0} /\ a \in Nat
        /\ k * (2 * a - 1) <= 2 * n /\ 2 * n < k * (2 * a + 1)
    BY <1>2, <2>2, <2>3, Rounds
  <2> QED BY <2>4 DEF a, k, n, units
<1>4. CASE units = 0
  <2>1. resource \notin HeldIn(some, {})
    BY <1>4 DEF HeldIn
  <2>2. a = 0
    BY <2>1, CostOfIs DEF AverageOf
  <2> HIDE DEF a, k
  <2>3. n = 0
    BY <1>4
  <2> HIDE DEF n
  <2>4. /\ n \in Nat /\ k \in Nat \ {0} /\ a \in Nat
        /\ k * (2 * a - 1) <= 2 * n /\ 2 * n < k * (2 * a + 1)
    BY <1>2, <2>2, <2>3
  <2> QED BY <2>4 DEF a, k, n, units
<1> QED BY <1>3, <1>4

LEMMA ProjectsAddUp ==
  ASSUME PagesInv, NEW d \in Domains, NEW resource \in Resources
  PROVE  LET of == {row.project : row \in RowsOf(d)}
             Rows(q) == {row \in RowsOf(d) : row.project = q}
             sum == 2 * AverageOf(RowsOf(d), PriceOf[d], resource)
             parts == 2 * SumFunction([q \in of |-> AverageOf(Rows(q), PriceOf[d], resource)])
             slack == Cardinality(of) + 1
         IN  /\ sum <= parts + slack
             /\ (\A q \in of : DaysOf(Rows(q)) = DaysOf(RowsOf(d))) => parts <= sum + slack
<1> DEFINE S == RowsOf(d)
           of == {row.project : row \in RowsOf(d)}
           Rows(q) == {row \in RowsOf(d) : row.project = q}
           prices == PriceOf[d]
           K == Divisor(resource) * Cardinality(DaysOf(S))
           A == AverageOf(S, prices, resource)
           n == [q \in of |-> 100 * UnitDays(Rows(q), resource, {})]
           k == [q \in of |-> Divisor(resource) * Cardinality(DaysOf(Rows(q)))]
           a == [q \in of |-> AverageOf(Rows(q), prices, resource)]
<1>1. S \in SUBSET Stored /\ AsWritten(S) /\ IsFiniteSet(S)
  BY StoredAsWritten, SomeFinite DEF RowsOf
<1>2. prices \in [Resources -> Nat]
  BY BillsAssumption
<1>3. \A q : Rows(q) \in SUBSET S /\ AsWritten(Rows(q))
  BY <1>1, StoredAsWritten
<1>4. of \in SUBSET Projects /\ IsFiniteSet(of)
  <2>1. of \in SUBSET Projects
    BY <1>1, RowOK
  <2> QED BY <2>1, FS_Subset, BillsAssumption
<1>5. ASSUME NEW q \in of
      PROVE  /\ n[q] \in Nat /\ k[q] \in Nat \ {0} /\ a[q] \in Nat
             /\ k[q] * (2 * a[q] - 1) <= 2 * n[q] /\ 2 * n[q] < k[q] * (2 * a[q] + 1)
  <2>1. Rows(q) # {}
    OBVIOUS
  <2>2. n[q] = 100 * UnitDays(Rows(q), resource, {}) /\ a[q] = AverageOf(Rows(q), prices, resource)
        /\ k[q] = Divisor(resource) * Cardinality(DaysOf(Rows(q)))
    OBVIOUS
  <2> HIDE DEF Rows, of, prices, n, k, a
  <2> QED BY <1>2, <1>3, <2>1, <2>2, AverageRounds
<1>6. 100 * UnitDays(S, resource, {}) = SumFunctionOnSet(n, of)
  <2> DEFINE f == [row \in S |-> Column(Billed(row, row.owner \notin {}), resource)]
             home == [row \in S |-> row.project]
             part == [q \in of |-> UnitDays(Rows(q), resource, {})]
             in == [q \in of |-> Rows(q)]
  <2>1. \A row \in S : f[row] = Column(Billed(row, row.owner \notin {}), resource)
    OBVIOUS
  <2>2. \A row \in S : f[row] \in Int
    <3> TAKE row \in S
    <3>1. Billed(row, row.owner \notin {}) \in SUBSET Items
      <4>1. row.seen \in SUBSET Items
        BY <1>1 DEF AsWritten
      <4> QED BY <4>1 DEF Billed
    <3>2. Column(Billed(row, row.owner \notin {}), resource) \in Nat
      BY <3>1, ColumnNat
    <3> QED BY <3>2
  <2>3. \A row \in S : home[row] \in of
    OBVIOUS
  <2>4. \A q \in of : in[q] = Rows(q) /\ \A row : row \in in[q] <=> row \in S /\ home[row] = q
    OBVIOUS
  <2>5. \A q \in of : part[q] = UnitDays(Rows(q), resource, {}) /\ n[q] = 100 * part[q]
    OBVIOUS
  <2> HIDE DEF f, home, part, in, Rows, of, S, n
  <2>6. UnitDays(S, resource, {}) = SumFunctionOnSet(f, S)
    BY <1>1, <2>1, UnitDaysIs
  <2>7. ASSUME NEW q \in of PROVE part[q] = SumFunctionOnSet(f, in[q]) /\ part[q] \in Int
    <3>1. \A row \in Rows(q) : f[row] = Column(Billed(row, row.owner \notin {}), resource)
      BY <1>3, <2>1
    <3>2. UnitDays(Rows(q), resource, {}) = SumFunctionOnSet(f, Rows(q))
          /\ UnitDays(Rows(q), resource, {}) \in Nat
      BY <1>3, <3>1, UnitDaysIs
    <3> QED BY <2>4, <2>5, <3>2
  <2>8. SumFunctionOnSet(f, S) = SumFunctionOnSet(part, of)
    <3>1. \A q \in of : part[q] = SumFunctionOnSet(f, in[q])
      BY <2>7
    <3>2. \A q \in of : \A row : row \in in[q] <=> row \in S /\ home[row] = q
      BY <2>4
    <3> QED BY <1>1, <1>4, <2>2, <2>3, <3>1, <3>2, SumParts
  <2>9. SumFunctionOnSet(n, of) = 100 * SumFunctionOnSet(part, of)
    <3>1. 100 \in Int /\ \A q \in of : part[q] \in Int /\ n[q] = 100 * part[q]
      BY <2>5, <2>7
    <3> QED BY <1>4, <3>1, SumTimes
  <2> QED BY <2>6, <2>8, <2>9
<1>7. SumFunction(a) = SumFunctionOnSet(a, of)
  BY DEF SumFunction
<1>8. CASE S = {}
  <2>1. of = {}
    BY <1>8
  <2>2. SumFunctionOnSet(a, of) = 0 /\ Cardinality(of) = 0
    <3> HIDE DEF of, a
    <3> QED BY <2>1, SumEmpty, FS_EmptySet
  <2>3. A = 0
    <3>1. UnitDays(S, resource, {}) = 0
      <4> HIDE DEF S
      <4> QED BY <1>8, SumEmpty DEF UnitDays, SumFunction
    <3>2. resource \notin HeldIn(S, {})
      BY <3>1 DEF HeldIn
    <3> QED BY <3>2, CostOfIs DEF AverageOf
  <2> HIDE DEF A, a, of
  <2>4. /\ 2 * A <= 2 * SumFunction(a) + (Cardinality(of) + 1)
        /\ 2 * SumFunction(a) <= 2 * A + (Cardinality(of) + 1)
    BY <1>7, <2>2, <2>3
  <2> QED BY <2>4 DEF A, a, of
<1>9. CASE S # {}
  <2>1. /\ A \in Nat /\ K \in Nat \ {0}
        /\ K * (2 * A - 1) <= 2 * SumFunctionOnSet(n, of)
        /\ 2 * SumFunctionOnSet(n, of) < K * (2 * A + 1)
    <3> HIDE DEF S, n, of, prices
    <3> QED BY <1>1, <1>2, <1>6, <1>9, AverageRounds
  <2>2. ASSUME NEW q \in of
        PROVE  k[q] <= K /\ (DaysOf(Rows(q)) = DaysOf(S) => k[q] = K)
    <3>1. DaysOf(Rows(q)) \in SUBSET DaysOf(S)
      BY DEF DaysOf
    <3>2. k[q] = Divisor(resource) * Cardinality(DaysOf(Rows(q)))
      OBVIOUS
    <3> HIDE DEF Rows, S, k
    <3>3. /\ IsFiniteSet(DaysOf(S)) /\ Cardinality(DaysOf(S)) \in Nat
          /\ Cardinality(DaysOf(Rows(q))) <= Cardinality(DaysOf(S))
      BY <1>1, <3>1, DaysCounted, FS_Subset
    <3>4. Divisor(resource) \in Nat /\ Cardinality(DaysOf(Rows(q))) \in Nat
      <4>1. IsFiniteSet(Rows(q))
        BY <1>3 DEF AsWritten
      <4> QED BY <4>1, Divisors, DaysCounted
    <3> QED BY <3>2, <3>3, <3>4, Scaled
  <2> DEFINE together == \A q \in of : DaysOf(Rows(q)) = DaysOf(S)
  <2>3. together => \A q \in of : k[q] = K
    BY <2>2
  <2> HIDE DEF A, K, n, k, a, of, Rows
  <2>4. 2 * A <= 2 * SumFunctionOnSet(a, of) + Cardinality(of) + 1
    BY <1>4, <1>5, <2>1, <2>2, RoundedApart
  <2>5. (\A q \in of : k[q] = K) => 2 * SumFunctionOnSet(a, of) <= 2 * A + Cardinality(of) + 1
    BY <1>4, <1>5, <2>1, <2>2, RoundedApart
  <2>6. SumFunctionOnSet(a, of) \in Nat /\ Cardinality(of) \in Nat
    BY <1>4, <1>5, SumNat, FS_CardinalityType
  <2>7. /\ 2 * A <= 2 * SumFunction(a) + (Cardinality(of) + 1)
        /\ together => 2 * SumFunction(a) <= 2 * A + (Cardinality(of) + 1)
    <3> HIDE DEF together
    <3> QED BY <1>7, <2>1, <2>3, <2>4, <2>5, <2>6
  <2> QED BY <2>7 DEF A, a, of, Rows, together
<1> QED BY <1>8, <1>9

LEMMA AccountAgrees == PagesInv => AccountWithinProjects
<1> SUFFICES ASSUME PagesInv, NEW d \in Domains, NEW resource \in Resources
             PROVE  LET of == {row.project : row \in RowsOf(d)}
                        Rows(q) == {row \in RowsOf(d) : row.project = q}
                        Average(some) ==
                           LET lines == CostOf(some, PriceOf[d], {}).lines
                           IN  IF resource \in DOMAIN lines THEN lines[resource].quantity ELSE 0
                        together == \A q \in of : DaysOf(Rows(q)) = DaysOf(RowsOf(d))
                        slack == Cardinality(of) + 1
                        sum == 2 * Average(RowsOf(d))
                        parts == 2 * SumFunction([q \in of |-> Average(Rows(q))])
                    IN  sum <= parts + slack /\ (together => parts <= sum + slack)
  BY DEF AccountWithinProjects
<1> QED BY ProjectsAddUp DEF AverageOf

\* The same quantities and the same money on every page, whatever was measured, which
\* lists were refused, and however often a day was measured again (rates.py, invoices.py
\* and the pages of billing/views.py and platform_admin/billing_views.py).
THEOREM BillsCorrect == Spec => []BillsAgree
<1>1. PagesInv => BillsAgree
  BY EstimateAgrees, DraftAgrees, FileAgrees, AccountAgrees DEF BillsAgree
<1> QED BY <1>1, PagesAlways, PTL

-----------------------------------------------------------------------------
(* The cabinet's pages. *)

\* What there is of a list in some projects.
Of0(list, scope) == {i \in items : ProjectOf[i] \in scope /\ ListOf[i] = list}

LEMMA ItemsOK == PagesInv => /\ items \in SUBSET Items
                             /\ \A i \in items : ProjectOf[i] \in Projects /\ ListOf[i] \in ListNames
BY UsageAssumption DEF PagesInv, Inv, TypeInv, UsageTypeOK

LEMMA ListShown ==
  ASSUME NEW scope, NEW refused, NEW list
  PROVE  /\ list \notin refused => Of(Seen(scope, refused), list) = Of0(list, scope)
         /\ Of(Seen(scope, refused), list) \subseteq Of0(list, scope)
BY DEF Of, Seen, Of0

\* A machine on the account administrator's page.
MachineRow(answer, refused, i) ==
    LET disks == {v \in Of(answer, "volumes") : OnItem[v] = i}
    IN  [id |-> i, project |-> ProjectOf[i], publicIps |-> PublicIps(answer, i),
         disks |-> Section("volumes", refused, Gib(disks)), media |-> MediaTotals(disks, refused)]

LEMMA MachineFields ==
  ASSUME NEW answer, NEW refused, NEW i
  PROVE  LET row == MachineRow(answer, refused, i)
         IN  /\ row.id = i /\ row.project = ProjectOf[i]
             /\ row.disks = Section("volumes", refused, Gib({v \in Of(answer, "volumes") : OnItem[v] = i}))
BY DEF MachineRow

LEMMA MachinesListed ==
  ASSUME NEW answer, NEW refused
  PROVE  MachineRows(answer, refused) = {MachineRow(answer, refused, i) : i \in Of(answer, "machines")}
BY DEF MachineRows, MachineRow

\* Whose machines an administrator sees.
LEMMA MachinesShown ==
  ASSUME PagesInv, NEW d, NEW asked, NEW refused
  PROVE  UNION {{vm.id : vm \in page} : page \in AdminResources(d, asked, refused)}
            = IF "machines" \in refused THEN {} ELSE Of0("machines", Allowed(d, asked) \cap Projects)
<1> DEFINE answer == Seen(Projects, refused)
           page0 == {vm \in MachineRows(answer, refused) : vm.project \in Allowed(d, asked)}
           ids == {vm.id : vm \in page0}
<1>1. AdminResources(d, asked, refused) = IF "machines" \in refused THEN {} ELSE {page0}
  BY DEF AdminResources, Section
<1>2. CASE "machines" \in refused
  BY <1>1, <1>2
<1>3. CASE "machines" \notin refused
  <2>1. Of(answer, "machines") = Of0("machines", Projects)
    BY <1>3, ListShown
  <2>2. MachineRows(answer, refused) = {MachineRow(answer, refused, i) : i \in Of0("machines", Projects)}
    BY <2>1, MachinesListed
  <2>3. \A i : MachineRow(answer, refused, i).id = i /\ MachineRow(answer, refused, i).project = ProjectOf[i]
    <3> HIDE DEF answer
    <3> QED BY DEF MachineRow
  <2>4. ids \subseteq Of0("machines", Allowed(d, asked) \cap Projects)
    <3> SUFFICES ASSUME NEW vm \in page0 PROVE vm.id \in Of0("machines", Allowed(d, asked) \cap Projects)
      OBVIOUS
    <3>1. PICK i \in Of0("machines", Projects) : vm = MachineRow(answer, refused, i)
      BY <2>2
    <3>2. vm.id = i /\ vm.project = ProjectOf[i] /\ vm.project \in Allowed(d, asked)
      BY <2>3, <3>1
    <3> QED BY <3>1, <3>2 DEF Of0
  <2>5. Of0("machines", Allowed(d, asked) \cap Projects) \subseteq ids
    <3> SUFFICES ASSUME NEW i \in Of0("machines", Allowed(d, asked) \cap Projects) PROVE i \in ids
      OBVIOUS
    <3>1. i \in Of0("machines", Projects) /\ ProjectOf[i] \in Allowed(d, asked)
      BY DEF Of0
    <3>2. MachineRow(answer, refused, i) \in page0
      BY <2>2, <2>3, <3>1
    <3> QED BY <2>3, <3>2
  <2>6. UNION {{vm.id : vm \in page} : page \in AdminResources(d, asked, refused)} = ids
    BY <1>1, <1>3
  <2> QED BY <1>3, <2>4, <2>5, <2>6
<1> QED BY <1>2, <1>3

LEMMA MachinesApart == PagesInv => EachMachineOnOneAccount
<1> DEFINE Ids(d, asked) == UNION {{vm.id : vm \in page} : page \in AdminResources(d, asked, {})}
           Counts(d) == CHOOSE page \in AdminTenants(d, {}) : TRUE
<1> SUFFICES ASSUME PagesInv
             PROVE  /\ \A i \in Of(items, "machines") : Cardinality({d \in Domains : i \in Ids(d, {})}) = 1
                    /\ \A d \in Domains, q \in Projects : Ids(d, {q}) \subseteq Ids(d, {})
                    /\ \A d \in Domains :
                          Cardinality(Ids(d, {})) = SumFunction([q \in ProjectsOf(d) |-> Counts(d)[q].total])
  BY DEF EachMachineOnOneAccount
<1>1. \A d, asked : Ids(d, asked) = Of0("machines", Allowed(d, asked) \cap Projects)
  BY MachinesShown
<1>2. \A d : Ids(d, {}) = Of0("machines", ProjectsOf(d))
  <2>1. \A d : Allowed(d, {}) \cap Projects = ProjectsOf(d)
    BY DEF Allowed, ProjectsOf
  <2> HIDE DEF Ids
  <2> QED BY <1>1, <2>1
<1>3. \A d, q : Ids(d, {q}) \subseteq Ids(d, {})
  <2>1. \A d, q : Allowed(d, {q}) \cap Projects \subseteq ProjectsOf(d)
    BY DEF Allowed, ProjectsOf
  <2> HIDE DEF Ids
  <2> QED BY <1>1, <1>2, <2>1 DEF Of0
<1>4. ASSUME NEW i \in Of(items, "machines")
      PROVE  Cardinality({d \in Domains : i \in Ids(d, {})}) = 1
  <2>1. i \in items /\ ListOf[i] = "machines" /\ ProjectOf[i] \in Projects /\ DomainOf[ProjectOf[i]] \in Domains
    BY ItemsOK, UsageAssumption DEF Of
  <2>2. \A d \in Domains : i \in Ids(d, {}) <=> d = DomainOf[ProjectOf[i]]
    <3> HIDE DEF Ids
    <3> QED BY <1>2, <2>1 DEF Of0, ProjectsOf
  <2> HIDE DEF Ids
  <2>3. {d \in Domains : i \in Ids(d, {})} = {DomainOf[ProjectOf[i]]}
    BY <2>1, <2>2
  <2> QED BY <2>3, FS_Singleton
<1>5. ASSUME NEW d \in Domains
      PROVE  Cardinality(Ids(d, {})) = SumFunction([q \in ProjectsOf(d) |-> Counts(d)[q].total])
  <2> DEFINE S == Of0("machines", ProjectsOf(d))
             P == ProjectsOf(d)
             in == [q \in P |-> {i \in Of(Seen(Projects, {}), "machines") : ProjectOf[i] = q}]
             page0 == [q \in P |-> Compute(in[q])]
             part == [q \in P |-> Counts(d)[q].total]
             home == [i \in S |-> ProjectOf[i]]
             one == [i \in S |-> 1]
  <2>1. AdminTenants(d, {}) = {page0}
    BY DEF AdminTenants, Section
  <2>2. Counts(d) = page0
    <3> HIDE DEF page0
    <3> QED BY <2>1
  <2>3. \A q \in P : part[q] = Cardinality(in[q])
    <3> SUFFICES ASSUME NEW q \in P PROVE part[q] = Cardinality(in[q])
      OBVIOUS
    <3>1. part[q] = Counts(d)[q].total
      BY DEF P
    <3>2. page0[q] = Compute(in[q])
      BY DEF P
    <3>3. Compute(in[q]).total = Cardinality(in[q])
      BY DEF Compute
    <3> HIDE DEF Counts, P, in, page0, part
    <3> QED BY <2>2, <3>1, <3>2, <3>3
  <2>4. Of(Seen(Projects, {}), "machines") = Of0("machines", Projects)
    BY ListShown
  <2>5. \A q \in P : \A i : i \in in[q] <=> i \in S /\ home[i] = q
    BY <2>4 DEF Of0, ProjectsOf
  <2>6. P \in SUBSET Projects /\ S \in SUBSET Items
    BY ItemsOK DEF Of0, ProjectsOf
  <2>7. \A i \in S : home[i] \in P /\ one[i] = 1
    BY DEF Of0
  <2>s. Ids(d, {}) = S
    BY <1>2
  <2> HIDE DEF Ids, Counts, S, P, in, page0, home, one
  <2>8. IsFiniteSet(P) /\ IsFiniteSet(S)
    BY <2>6, HeldFinite, BillsAssumption, FS_Subset
  <2>9. \A q \in P : in[q] \in SUBSET S
    BY <2>5
  <2>10. ASSUME NEW q \in P PROVE part[q] = SumFunctionOnSet(one, in[q])
    <3>1. IsFiniteSet(in[q]) /\ \A i \in in[q] : one[i] = 1
      BY <2>7, <2>8, <2>9, FS_Subset
    <3>2. SumFunctionOnSet(one, in[q]) = 1 * Cardinality(in[q])
      BY <3>1, SumConstant
    <3>3. Cardinality(in[q]) \in Nat
      BY <3>1, FS_CardinalityType
    <3>4. part[q] = Cardinality(in[q])
      BY <2>3
    <3> HIDE DEF part
    <3> QED BY <3>2, <3>3, <3>4
  <2>11. SumFunction(part) = SumFunctionOnSet(part, P)
    BY DEF SumFunction
  <2> HIDE DEF part
  <2>12. \A i \in S : one[i] \in Int
    BY <2>7
  <2>13. SumFunctionOnSet(one, S) = SumFunctionOnSet(part, P)
    BY <2>5, <2>7, <2>8, <2>10, <2>12, SumParts
  <2>14. SumFunctionOnSet(one, S) = 1 * Cardinality(S) /\ Cardinality(S) \in Nat
    BY <2>7, <2>8, SumConstant, FS_CardinalityType
  <2>15. Cardinality(S) = SumFunction(part)
    BY <2>11, <2>13, <2>14
  <2> QED BY <2>15, <2>s DEF part, P
<1> HIDE DEF Ids, Counts
<1> QED BY <1>3, <1>4, <1>5

\* Whatever else a token sees, of one project it sees this.
LEMMA LiveIs ==
  ASSUME NEW q, NEW with \in BOOLEAN, NEW scope, q \in scope, NEW refused
  PROVE  LiveMeasurements(q, with, Seen(scope, refused), refused)
            = Labelled({i \in items : /\ ProjectOf[i] = q /\ ListOf[i] \notin refused
                                      /\ with \/ i \notin Backups}, refused)
BY DEF LiveMeasurements, Seen, Labelled

\* What is priced of a project is some of what its dashboard shows.
LEMMA PricedWithinShown ==
  ASSUME PagesInv, NEW q \in Projects,
         NEW held, held \subseteq {i \in items : ProjectOf[i] = q}
  PROVE  /\ Column(held, "vcpu") <= Gib(Of0("machines", {q}))
         /\ Column(held, "ssd_gb") + Column(held, "hdd_gb") <= Gib(Of0("volumes", {q}))
<1> DEFINE Who(resource) == {i \in held : Adds(i, resource)}
           machines == Of0("machines", {q})
           volumes == Of0("volumes", {q})
           cpu == Who("vcpu")
           ssd == Who("ssd_gb")
           hdd == Who("hdd_gb")
<1>1. items \in SUBSET Items /\ held \in SUBSET Items /\ machines \in SUBSET Items /\ volumes \in SUBSET Items
  BY ItemsOK DEF Of0
<1>2. cpu \in SUBSET machines
  BY <1>1, AddsOne DEF Of0
<1>3. ssd \cup hdd \in SUBSET volumes /\ ssd \cap hdd = {}
  BY <1>1, AddsOne DEF Of0
<1>4. /\ Column(held, "vcpu") = SumFunctionOnSet(SizeOf, cpu)
      /\ Column(held, "ssd_gb") = SumFunctionOnSet(SizeOf, ssd)
      /\ Column(held, "hdd_gb") = SumFunctionOnSet(SizeOf, hdd)
  BY AmountIs DEF Column, Resources
<1>5. Gib(machines) = SumFunctionOnSet(SizeOf, machines) /\ Gib(volumes) = SumFunctionOnSet(SizeOf, volumes)
  BY DEF Gib
<1> HIDE DEF machines, volumes, cpu, ssd, hdd
<1>6. /\ \A i \in machines : SizeOf[i] \in Nat
      /\ \A i \in volumes : SizeOf[i] \in Nat
      /\ \A i \in ssd \cup hdd : SizeOf[i] \in Int
  BY <1>1, <1>3, BillsAssumption
<1>7. SumFunctionOnSet(SizeOf, cpu) <= SumFunctionOnSet(SizeOf, machines)
  BY <1>1, <1>2, <1>6, HeldFinite, SumWithin
<1>8. SumFunctionOnSet(SizeOf, ssd \cup hdd) = SumFunctionOnSet(SizeOf, ssd) + SumFunctionOnSet(SizeOf, hdd)
  <2>1. ssd \in SUBSET Items /\ hdd \in SUBSET Items
    BY <1>1, <1>3
  <2>2. IsFiniteSet(ssd) /\ IsFiniteSet(hdd)
    BY <2>1, HeldFinite
  <2> QED BY <1>3, <1>6, <2>2, SumBoth
<1> DEFINE both == ssd \cup hdd
<1>9. SumFunctionOnSet(SizeOf, both) <= SumFunctionOnSet(SizeOf, volumes)
  <2>1. both \in SUBSET volumes /\ IsFiniteSet(volumes)
    BY <1>1, <1>3, HeldFinite
  <2> HIDE DEF both
  <2> QED BY <1>6, <2>1, SumWithin
<1>10. Column(held, "vcpu") <= Gib(machines)
  BY <1>4, <1>5, <1>7
<1>11. Column(held, "ssd_gb") + Column(held, "hdd_gb") <= Gib(volumes)
  BY <1>4, <1>5, <1>8, <1>9
<1> QED BY <1>10, <1>11 DEF machines, volumes

LEMMA OwnIsPriced == PagesInv => PricedIsOwn
<1> SUFFICES ASSUME PagesInv, NEW q \in Projects, NEW off \in SUBSET Domains
             PROVE  LET narrow == UserBilling(q, {q}, {}, off)
                        shown == Dashboard({q}, {})
                    IN  /\ UserBilling(q, Projects, {}, off) = narrow
                        /\ \A vms \in shown.vms :
                              Column(narrow.current, "vcpu") <= vms.compute.vcpus
                        /\ \A storage \in shown.storage :
                              Column(narrow.current, "ssd_gb") + Column(narrow.current, "hdd_gb") <= storage.gib
  BY DEF PricedIsOwn
<1> DEFINE with == DomainOf[q] \notin off
           held == Labelled({i \in items : /\ ProjectOf[i] = q /\ ListOf[i] \notin {}
                                           /\ with \/ i \notin Backups}, {})
           shown == Dashboard({q}, {})
<1>1. /\ LiveMeasurements(q, with, Seen({q}, {}), {}) = held
      /\ LiveMeasurements(q, with, Seen(Projects, {}), {}) = held
  <2>1. with \in BOOLEAN /\ q \in {q}
    OBVIOUS
  <2> HIDE DEF with
  <2>2. LiveMeasurements(q, with, Seen({q}, {}), {}) = held
    BY <2>1, LiveIs
  <2>3. LiveMeasurements(q, with, Seen(Projects, {}), {}) = held
    BY <2>1, LiveIs
  <2> QED BY <2>2, <2>3
<1>2. UserBilling(q, Projects, {}, off) = UserBilling(q, {q}, {}, off)
      /\ UserBilling(q, {q}, {}, off).current = held
  BY <1>1 DEF UserBilling
<1>3. /\ Column(held, "vcpu") <= Gib(Of0("machines", {q}))
      /\ Column(held, "ssd_gb") + Column(held, "hdd_gb") <= Gib(Of0("volumes", {q}))
  <2>1. held \subseteq {i \in items : ProjectOf[i] = q}
    BY DEF Labelled
  <2> HIDE DEF held
  <2> QED BY <2>1, PricedWithinShown
<1>4. \A vms \in shown.vms : vms.compute.vcpus = Gib(Of(Seen({q}, {}), "machines"))
  BY DEF Dashboard, Section, Compute
<1>5. \A storage \in shown.storage : storage.gib = Gib(Of(Seen({q}, {}), "volumes"))
  BY DEF Dashboard, Section
<1>6. Of(Seen({q}, {}), "machines") = Of0("machines", {q}) /\ Of(Seen({q}, {}), "volumes") = Of0("volumes", {q})
  BY ListShown
<1> HIDE DEF held, shown
<1> QED BY <1>2, <1>3, <1>4, <1>5, <1>6 DEF shown

\* However much its token sees, a page that is priced or that lists an account is
\* about its own account or project (admin_api/views.py 42, billing/views.py 77), for
\* any items in any projects of any accounts.  The dashboard and the pages of volumes
\* and snapshots show all that their token sees.
THEOREM OwnAccountCorrect == Spec => []OwnAccountOnly
<1>1. PagesInv => OwnAccountOnly
  BY MachinesApart, OwnIsPriced DEF OwnAccountOnly
<1> QED BY <1>1, PagesAlways, PTL

-----------------------------------------------------------------------------
(* Backups that are not counted. *)

ShownGib(row) == Column(row.seen \ Backups, "snapshot_gb")

ChargedDays(cost) ==
    IF "snapshot_gb" \in DOMAIN cost.lines THEN cost.lines["snapshot_gb"].unitDays ELSE 0

\* A bill of rows of an account that does not count them is of the other snapshots.
LEMMA ChargedIsShown ==
  ASSUME NEW some, AsWritten(some), NEW prices, NEW off, \A row \in some : row.owner \in off
  PROVE  ChargedDays(CostOf(some, prices, off)) = SumFunction([row \in some |-> ShownGib(row)])
<1> DEFINE f == [row \in some |-> ShownGib(row)]
           days == UnitDays(some, "snapshot_gb", off)
<1>1. "snapshot_gb" \in Resources
  BY DEF Resources
<1>2. \A row \in some : f[row] = Column(Billed(row, row.owner \notin off), "snapshot_gb")
  BY DEF Billed, ShownGib
<1>3. SumFunction(f) = SumFunctionOnSet(f, some)
  BY DEF SumFunction
<1> HIDE DEF f
<1>4. days = SumFunctionOnSet(f, some)
  BY <1>1, <1>2, UnitDaysIs
<1>5. ChargedDays(CostOf(some, prices, off)) = days
  <2>1. DOMAIN CostOf(some, prices, off).lines = HeldIn(some, off)
    BY CostOfIs
  <2>2. \A resource \in HeldIn(some, off) :
           CostOf(some, prices, off).lines[resource].unitDays = UnitDays(some, resource, off)
    <3> TAKE resource \in HeldIn(some, off)
    <3> QED BY CostOfIs
  <2>3. "snapshot_gb" \in HeldIn(some, off) <=> days # 0
    BY <1>1 DEF HeldIn
  <2> HIDE DEF days
  <2>4. CASE "snapshot_gb" \in HeldIn(some, off)
    BY <2>1, <2>2, <2>4 DEF ChargedDays, days
  <2>5. CASE "snapshot_gb" \notin HeldIn(some, off)
    BY <2>1, <2>3, <2>5 DEF ChargedDays
  <2> QED BY <2>4, <2>5
<1> QED BY <1>3, <1>4, <1>5 DEF f

\* Of some rows one is the last.
LEMMA LastDay ==
  ASSUME NEW some, IsFiniteSet(some), some # {}, \A row \in some : row.day \in Int
  PROVE  \E row \in some : \A other \in some : other.day <= row.day
<1> DEFINE good == {T \in SUBSET some :
                       T # {} => \E row \in T : \A other \in T : other.day <= row.day}
<1>1. {} \in good
  OBVIOUS
<1>2. ASSUME NEW T \in SUBSET some, NEW x \in some \ T, T \in good PROVE T \cup {x} \in good
  <2>1. CASE T = {}
    <3>1. x.day <= x.day /\ T \cup {x} = {x}
      BY <2>1
    <3> QED BY <3>1
  <2>2. CASE T # {}
    <3>1. PICK row \in T : \A other \in T : other.day <= row.day
      BY <1>2, <2>2
    <3>2. row.day \in Int /\ x.day \in Int /\ \A other \in T : other.day \in Int
      OBVIOUS
    <3>3. CASE x.day <= row.day
      BY <3>1, <3>3
    <3>4. CASE ~ (x.day <= row.day)
      <4>1. \A other \in T : other.day <= x.day
        BY <3>1, <3>2, <3>4
      <4>2. x.day <= x.day
        BY <3>2
      <4>3. \A other \in T \cup {x} : other.day <= x.day
        BY <4>1, <4>2
      <4> QED BY <4>3
    <3> QED BY <3>3, <3>4
  <2> QED BY <2>1, <2>2
<1> HIDE DEF good
<1>3. some \in good
  BY <1>1, <1>2, OneByOne
<1> QED BY <1>3 DEF good

\* A snapshot without backups on the page.
LEMMA PageWithoutBackups ==
  ASSUME NEW scope, NEW refused, NEW page \in SnapshotPage(scope, refused, FALSE), NEW row \in page.rows
  PROVE  row.id \notin Backups
<1> DEFINE answer == Seen(scope, refused)
           shown == {i \in Of(answer, "snapshots") : FALSE \/ i \notin Backups}
           Medium(i) == IF OnItem[i] \in Of(answer, "volumes") THEN MediumOf(OnItem[i], refused) ELSE ""
           listed == {[id |-> i, media |-> Medium(i)] : i \in shown}
<1>1. page = [rows |-> listed, gib |-> Gib(shown)]
  BY DEF SnapshotPage, Section
<1>2. page.rows = listed
  <2> HIDE DEF listed, shown
  <2> QED BY <1>1
<1>3. PICK i \in shown : row = [id |-> i, media |-> Medium(i)]
  BY <1>2
<1>4. row.id = i
  <2> HIDE DEF Medium
  <2> QED BY <1>3
<1> QED BY <1>3, <1>4

\* The account's bill of one project.
LEMMA AdminBillingIs ==
  ASSUME PagesInv, NEW d, NEW off, d \in off, NEW q \in DOMAIN AdminBilling(d, off)
  PROVE  LET some == {row \in RowsOf(d) : row.project = q}
             row == AdminBilling(d, off)[q]
         IN  /\ row.snapshotGib = Column(rows[q][row.day].seen \ Backups, "snapshot_gb")
             /\ row.cost = CostOf(some, PriceOf[d], off)
<1> DEFINE some == {row \in RowsOf(d) : row.project = q}
           last == CHOOSE row \in some : \A other \in some : other.day <= row.day
           line == AdminBilling(d, off)[q]
<1>1. some \in SUBSET Stored /\ some # {}
  BY DEF AdminBilling, RowsOf
<1>2. line = [cost |-> CostOf(some, PriceOf[d], off), day |-> last.day,
              snapshotGib |-> SnapshotGib(last, d \notin off)]
  BY DEF AdminBilling
<1> HIDE DEF line
<1>3. line.cost = CostOf(some, PriceOf[d], off) /\ line.day = last.day
      /\ line.snapshotGib = SnapshotGib(last, d \notin off)
  BY <1>2
<1>4. last \in some
  <2>1. \A row \in some : row.day \in Int
    BY <1>1, RowOK DEF Days
  <2> HIDE DEF some
  <2>2. \E row \in some : \A other \in some : other.day <= row.day
    BY <1>1, <2>1, SomeFinite, LastDay
  <2> QED BY <2>2
<1> HIDE DEF last
<1>5. last \in Stored /\ last.project = q
  BY <1>1, <1>4
<1>6. last.seen \in SUBSET Items /\ last.backups = last.seen \cap Backups /\ last = RowAt(q, last.day)
  BY <1>5, RowOK
<1>7. last.seen = rows[q][last.day].seen
  BY <1>6 DEF RowAt
<1>8. SnapshotGib(last, FALSE) = Column(last.seen \ Backups, "snapshot_gb")
  <2>1. "snapshot_gb" \in Resources /\ FALSE \in BOOLEAN
    BY DEF Resources
  <2>2. SnapshotGib(last, FALSE) = Column(Billed(last, FALSE), "snapshot_gb")
    BY <1>6, <2>1, QuantityIs
  <2>3. Billed(last, FALSE) = last.seen \ Backups
    BY DEF Billed
  <2> QED BY <2>2, <2>3
<1>9. (d \notin off) = FALSE
  OBVIOUS
<1> HIDE DEF some
<1>10. line.snapshotGib = SnapshotGib(last, FALSE)
  BY <1>3, <1>9
<1>11. line.snapshotGib = Column(rows[q][line.day].seen \ Backups, "snapshot_gb")
  BY <1>3, <1>7, <1>8, <1>10
<1> QED BY <1>3, <1>11 DEF some, line

LEMMA UnseenIs == PagesInv => BackupsUnseen
<1> SUFFICES ASSUME PagesInv, NEW off \in SUBSET Domains, NEW d \in off, NEW q \in ProjectsOf(d)
             PROVE  LET some == {row \in Stored : row.project = q}
                        user == UserBilling(q, {q}, {}, off)
                        Shown(row) == Column(row.seen \ Backups, "snapshot_gb")
                        Charged(cost) ==
                           IF "snapshot_gb" \in DOMAIN cost.lines
                           THEN cost.lines["snapshot_gb"].unitDays ELSE 0
                    IN  /\ \A refused \in SUBSET Refusable :
                              \A page \in SnapshotPage({q}, refused, FALSE) :
                                 \A row \in page.rows : row.id \notin Backups
                        /\ user.current \cap Backups = {}
                        /\ (\A row \in some : row.owner = d) =>
                              Charged(user.accrued) = SumFunction([row \in some |-> Shown(row)])
                        /\ q \in DOMAIN AdminBilling(d, off) =>
                              LET row == AdminBilling(d, off)[q]
                              IN  /\ row.snapshotGib = Shown([seen |-> rows[q][row.day].seen])
                                  /\ Charged(row.cost)
                                        = SumFunction([r \in {r \in some : r.owner = d} |-> Shown(r)])
  BY DEF BackupsUnseen
<1> DEFINE some == {row \in Stored : row.project = q}
           own == {r \in some : r.owner = d}
           user == UserBilling(q, {q}, {}, off)
           line == AdminBilling(d, off)[q]
<1>1. q \in Projects /\ DomainOf[q] = d
  BY DEF ProjectsOf
<1>2. some \in SUBSET Stored /\ own \in SUBSET Stored /\ \A row \in own : row.owner \in off
  OBVIOUS
<1>3. \A refused : \A page \in SnapshotPage({q}, refused, FALSE) :
         \A row \in page.rows : row.id \notin Backups
  BY PageWithoutBackups
<1>4. user.current \cap Backups = {} /\ user.accrued = CostOf(some, PriceOf[d], off)
  <2>1. user.current = LiveMeasurements(q, DomainOf[q] \notin off, Seen({q}, {}), {})
        /\ user.accrued = CostOf(some, PriceOf[d], off)
    BY <1>1 DEF UserBilling
  <2>2. user.current = LiveMeasurements(q, FALSE, Seen({q}, {}), {})
    BY <1>1, <2>1
  <2> QED BY <2>1, <2>2 DEF LiveMeasurements, Labelled
<1>5. ASSUME \A row \in some : row.owner = d
      PROVE  ChargedDays(user.accrued) = SumFunction([row \in some |-> ShownGib(row)])
  <2>1. AsWritten(some) /\ \A row \in some : row.owner \in off
    BY <1>2, <1>5, StoredAsWritten
  <2> HIDE DEF some, user
  <2> QED BY <1>4, <2>1, ChargedIsShown
<1>6. ASSUME q \in DOMAIN AdminBilling(d, off)
      PROVE  /\ line.snapshotGib = Column(rows[q][line.day].seen \ Backups, "snapshot_gb")
             /\ ChargedDays(line.cost) = SumFunction([row \in own |-> ShownGib(row)])
  <2>1. {row \in RowsOf(d) : row.project = q} = own
    BY DEF RowsOf
  <2>2. /\ line.snapshotGib = Column(rows[q][line.day].seen \ Backups, "snapshot_gb")
        /\ line.cost = CostOf({row \in RowsOf(d) : row.project = q}, PriceOf[d], off)
    BY <1>6, AdminBillingIs
  <2> HIDE DEF line, own
  <2>3. line.cost = CostOf(own, PriceOf[d], off)
    BY <2>1, <2>2
  <2>4. AsWritten(own)
    BY <1>2, StoredAsWritten
  <2>5. ChargedDays(CostOf(own, PriceOf[d], off)) = SumFunction([row \in own |-> ShownGib(row)])
    BY <1>2, <2>4, ChargedIsShown
  <2> QED BY <2>2, <2>3, <2>5
<1> HIDE DEF some, own, user, line
<1>7. [seen |-> rows[q][line.day].seen].seen = rows[q][line.day].seen
  OBVIOUS
<1>8. (\A row \in some : row.owner = d) =>
         ChargedDays(user.accrued) = SumFunction([row \in some |-> ShownGib(row)])
  BY <1>5
<1>9. q \in DOMAIN AdminBilling(d, off) =>
         /\ line.snapshotGib = Column([seen |-> rows[q][line.day].seen].seen \ Backups, "snapshot_gb")
         /\ ChargedDays(line.cost) = SumFunction([row \in own |-> ShownGib(row)])
  BY <1>6, <1>7
<1> QED BY <1>3, <1>4, <1>8, <1>9 DEF some, own, user, line, ChargedDays, ShownGib

\* An account set not to count its backups has them on none of its pages and in no
\* figure of one (accounts/backups.py 4), for any items and any number of days.
THEOREM BackupsUnseenCorrect == Spec => []BackupsUnseen
<1> QED BY UnseenIs, PagesAlways, PTL

-----------------------------------------------------------------------------
(* Lists that are refused. *)

\* What estimates show and charge.
LEMMA EstimateNat ==
  ASSUME NEW held \in SUBSET Items, NEW prices \in [Resources -> Nat], NEW resource \in Resources,
         Column(held, resource) # 0
  PROVE  LET line == EstimateMonth(held, prices).lines[resource]
         IN  /\ line.quantity = RoundHalfUp(100 * Column(held, resource), Divisor(resource))
             /\ line.cost = RoundHalfUp(line.quantity * prices[resource], 100)
             /\ 100 * Column(held, resource) \in Nat
             /\ line.quantity \in Nat /\ line.quantity * prices[resource] \in Nat
             /\ line.cost \in Nat
<1> DEFINE line == EstimateMonth(held, prices).lines[resource]
<1>1. /\ line.quantity = RoundHalfUp(100 * Column(held, resource), Divisor(resource))
      /\ line.cost = RoundHalfUp(line.quantity * prices[resource], 100)
  BY DEF EstimateMonth
<1> HIDE DEF line
<1>2. 100 * Column(held, resource) \in Nat
  BY ColumnNat
<1>3. line.quantity \in Nat
  BY <1>1, <1>2, Divisors, Rounds
<1>4. line.quantity * prices[resource] \in Nat
  BY <1>3
<1>5. line.cost \in Nat
  BY <1>1, <1>4, Rounds
<1> QED BY <1>1, <1>2, <1>3, <1>4, <1>5 DEF line

\* Fewer things cost no more.
LEMMA EstimateWithin ==
  ASSUME NEW held \in SUBSET Items, NEW part \in SUBSET held, NEW prices \in [Resources -> Nat]
  PROVE  EstimateMonth(part, prices).total <= EstimateMonth(held, prices).total
<1> DEFINE some == {resource \in Resources : Column(held, resource) # 0}
           few == {resource \in Resources : Column(part, resource) # 0}
           complete == EstimateMonth(held, prices)
           partial == EstimateMonth(part, prices)
           f == [resource \in few |-> partial.lines[resource].cost]
           g == [resource \in some |-> complete.lines[resource].cost]
<1>1. part \in SUBSET Items
  OBVIOUS
<1>2. \A resource \in Resources : Column(part, resource) \in Nat /\ Column(held, resource) \in Nat
                                  /\ Column(part, resource) <= Column(held, resource)
  BY <1>1, ColumnNat, ColumnWithin
<1>3. few \in SUBSET some /\ some \in SUBSET Resources
  BY <1>2
<1>4. complete.total = SumFunctionOnSet(g, some) /\ partial.total = SumFunctionOnSet(f, few)
  <2>1. complete.total = Sum(complete.lines, some) /\ partial.total = Sum(partial.lines, few)
    BY DEF EstimateMonth
  <2> HIDE DEF complete, partial, some, few
  <2>2. Sum(complete.lines, some) = SumFunctionOnSet(g, some)
    BY SumIsSum
  <2>3. Sum(partial.lines, few) = SumFunctionOnSet(f, few)
    BY SumIsSum
  <2> QED BY <2>1, <2>2, <2>3
<1>5. ASSUME NEW resource \in few
      PROVE  /\ partial.lines[resource].cost \in Nat /\ complete.lines[resource].cost \in Nat
             /\ partial.lines[resource].cost <= complete.lines[resource].cost
  <2> DEFINE m == 100 * Column(part, resource)
             n == 100 * Column(held, resource)
  <2>1. resource \in Resources /\ Column(part, resource) # 0 /\ Column(held, resource) # 0
    BY <1>3
  <2>2. /\ partial.lines[resource].quantity = RoundHalfUp(m, Divisor(resource))
        /\ partial.lines[resource].cost = RoundHalfUp(partial.lines[resource].quantity * prices[resource], 100)
        /\ m \in Nat /\ partial.lines[resource].quantity \in Nat
        /\ partial.lines[resource].quantity * prices[resource] \in Nat
        /\ partial.lines[resource].cost \in Nat
    BY <1>1, <2>1, EstimateNat
  <2>3. /\ complete.lines[resource].quantity = RoundHalfUp(n, Divisor(resource))
        /\ complete.lines[resource].cost = RoundHalfUp(complete.lines[resource].quantity * prices[resource], 100)
        /\ n \in Nat /\ complete.lines[resource].quantity \in Nat
        /\ complete.lines[resource].quantity * prices[resource] \in Nat
        /\ complete.lines[resource].cost \in Nat
    BY <2>1, EstimateNat
  <2>4. m <= n
    BY <1>2, <2>1
  <2> HIDE DEF m, n, few, some, complete, partial
  <2>5. partial.lines[resource].quantity <= complete.lines[resource].quantity
    BY <2>2, <2>3, <2>4, Divisors, RoundsUp
  <2>6. partial.lines[resource].quantity * prices[resource] <= complete.lines[resource].quantity * prices[resource]
    <3> DEFINE k == prices[resource]
               u == partial.lines[resource].quantity
               v == complete.lines[resource].quantity
    <3>1. k \in Nat /\ u \in Nat /\ v \in Nat /\ u <= v
      BY <2>1, <2>2, <2>3, <2>5
    <3> HIDE DEF k, u, v
    <3>2. k * u <= k * v /\ k * u = u * k /\ k * v = v * k
      BY <3>1, Scaled
    <3>3. u * k <= v * k
      BY <3>2
    <3> QED BY <3>3 DEF k, u, v
  <2>7. partial.lines[resource].cost <= complete.lines[resource].cost
    BY <2>2, <2>3, <2>6, RoundsUp
  <2> QED BY <2>2, <2>3, <2>7
<1>6. ASSUME NEW resource \in some PROVE complete.lines[resource].cost \in Nat
  <2>1. resource \in Resources /\ Column(held, resource) # 0
    OBVIOUS
  <2> QED BY <2>1, EstimateNat
<1>7. \A resource \in few : f[resource] \in Int /\ g[resource] \in Int /\ f[resource] <= g[resource]
  <2> HIDE DEF complete, partial, few, some
  <2> QED BY <1>3, <1>5
<1>8. \A resource \in some : g[resource] \in Nat
  <2> HIDE DEF complete, some
  <2> QED BY <1>6
<1> HIDE DEF f, g, few, some, complete, partial
<1>9. IsFiniteSet(few) /\ IsFiniteSet(some)
  <2>1. few \in SUBSET Resources
    BY <1>3
  <2> QED BY <1>3, <2>1, ResourcesFinite
<1>10. SumFunctionOnSet(f, few) <= SumFunctionOnSet(g, few)
  BY <1>7, <1>9, SumLess
<1>11. SumFunctionOnSet(g, few) <= SumFunctionOnSet(g, some)
  BY <1>3, <1>8, <1>9, SumWithin
<1>12. SumFunctionOnSet(f, few) \in Int /\ SumFunctionOnSet(g, few) \in Int /\ SumFunctionOnSet(g, some) \in Int
  <2>1. \A resource \in some : g[resource] \in Int
    BY <1>8
  <2>2. SumFunctionOnSet(g, some) \in Int
    BY <1>9, <2>1, SumInt
  <2>3. SumFunctionOnSet(f, few) \in Int /\ SumFunctionOnSet(g, few) \in Int
    BY <1>7, <1>9, SumInt
  <2> QED BY <2>2, <2>3
<1>13. partial.total <= complete.total
  BY <1>4, <1>10, <1>11, <1>12
<1> QED BY <1>13 DEF partial, complete

LEMMA EstimateNoMore ==
  ASSUME PagesInv, NEW q \in Projects, NEW refused
  PROVE  UserBilling(q, {q}, refused, {}).estimate.total <= UserBilling(q, {q}, {}, {}).estimate.total
<1> DEFINE part == LiveMeasurements(q, DomainOf[q] \notin {}, Seen({q}, refused), refused)
           held == LiveMeasurements(q, DomainOf[q] \notin {}, Seen({q}, {}), {})
<1>1. held \in SUBSET Items /\ part \in SUBSET held
  BY ItemsOK DEF LiveMeasurements, Seen, Labelled
<1>2. PriceOf[DomainOf[q]] \in [Resources -> Nat]
  BY BillsAssumption, UsageAssumption
<1>3. /\ UserBilling(q, {q}, refused, {}).estimate = EstimateMonth(part, PriceOf[DomainOf[q]])
      /\ UserBilling(q, {q}, {}, {}).estimate = EstimateMonth(held, PriceOf[DomainOf[q]])
  BY DEF UserBilling
<1> HIDE DEF part, held
<1> QED BY <1>1, <1>2, <1>3, EstimateWithin

\* Without the volumes' types an estimate lacks the volumes and nothing else.
LEMMA EstimateLacksVolumes ==
  ASSUME PagesInv, NEW q \in Projects, NEW refused, refused \cap ListNames = {},
         NEW resource \in Resources \ {"ssd_gb", "hdd_gb"}
  PROVE  Column(UserBilling(q, {q}, refused, {}).current, resource)
            = Column(UserBilling(q, {q}, {}, {}).current, resource)
<1> DEFINE held == {i \in items : ProjectOf[i] = q /\ (TRUE \/ i \notin Backups)}
           part == Labelled(held, refused)
<1>1. Seen({q}, refused) = Seen({q}, {})
  BY ItemsOK DEF Seen
<1>2. /\ LiveMeasurements(q, DomainOf[q] \notin {}, Seen({q}, refused), refused) = part
      /\ LiveMeasurements(q, DomainOf[q] \notin {}, Seen({q}, {}), {}) = held
  BY <1>1 DEF LiveMeasurements, Seen, Labelled
<1>3. UserBilling(q, {q}, refused, {}).current = part /\ UserBilling(q, {q}, {}, {}).current = held
  BY <1>2 DEF UserBilling
<1>4. ASSUME NEW i \in held, Adds(i, resource) PROVE ListOf[i] # "volumes"
  BY <1>4 DEF Adds, Resources
<1>5. {i \in part : Adds(i, resource)} = {i \in held : Adds(i, resource)}
  BY <1>4 DEF Labelled
<1> HIDE DEF held, part
<1> QED BY <1>3, <1>5 DEF Column

LEMMA MediaWhole ==
  ASSUME NEW volumes, NEW refused, "types" \notin refused
  PROVE  MediaTotals(volumes, refused) = MediaTotals(volumes, {})
<1>1. \A i : MediumOf(i, refused) = MediumOf(i, {})
  BY DEF MediumOf
<1>2. {MediumOf(i, refused) : i \in volumes} = {MediumOf(i, {}) : i \in volumes}
  BY <1>1
<1>3. \A medium : {i \in volumes : MediumOf(i, refused) = medium}
                     = {i \in volumes : MediumOf(i, {}) = medium}
  BY <1>1
<1> QED BY <1>2, <1>3 DEF MediaTotals

\* Nothing named, nothing missing on the dashboard but the media.
LEMMA BoardWhole ==
  ASSUME NEW q, NEW refused, Dashboard({q}, refused).unavailable = {}
  PROVE  /\ {[compute |-> vms.compute] : vms \in Dashboard({q}, refused).vms}
               = {[compute |-> vms.compute] : vms \in Dashboard({q}, {}).vms}
         /\ {[volumes |-> s.volumes, gib |-> s.gib, attached |-> s.attached] :
                s \in Dashboard({q}, refused).storage}
               = {[volumes |-> s.volumes, gib |-> s.gib, attached |-> s.attached] :
                    s \in Dashboard({q}, {}).storage}
         /\ "types" \notin refused => Dashboard({q}, refused).storage = Dashboard({q}, {}).storage
<1>1. "machines" \notin refused /\ "volumes" \notin refused
  BY DEF Dashboard
<1>2. /\ Of(Seen({q}, refused), "machines") = Of(Seen({q}, {}), "machines")
      /\ Of(Seen({q}, refused), "volumes") = Of(Seen({q}, {}), "volumes")
  BY <1>1, ListShown
<1> DEFINE machines == Of(Seen({q}, {}), "machines")
           With(some) == Cardinality({i \in machines : PublicIps(Seen({q}, some), i) # {}})
<1>3. ASSUME NEW some, "machines" \notin some, Of(Seen({q}, some), "machines") = machines
      PROVE  {[compute |-> vms.compute] : vms \in Dashboard({q}, some).vms}
                = {[compute |-> Compute(machines)]}
  <2> DEFINE vms0 == [compute |-> Compute(machines), withPublicIp |-> With(some)]
  <2>1. Dashboard({q}, some).vms = {vms0}
    BY <1>3 DEF Dashboard, Section
  <2>2. vms0.compute = Compute(machines)
    <3> HIDE DEF With, machines
    <3> QED OBVIOUS
  <2> HIDE DEF vms0, machines
  <2> QED BY <2>1, <2>2
<1> DEFINE volumes == Of(Seen({q}, {}), "volumes")
           Shown(some) == [volumes |-> Cardinality(volumes), gib |-> Gib(volumes),
                           attached |-> Cardinality({v \in volumes : OnItem[v] # NoItem}),
                           media |-> MediaTotals(volumes, some)]
           sizes == [volumes |-> Cardinality(volumes), gib |-> Gib(volumes),
                     attached |-> Cardinality({v \in volumes : OnItem[v] # NoItem})]
<1>7. Dashboard({q}, refused).storage = {Shown(refused)} /\ Dashboard({q}, {}).storage = {Shown({})}
  BY <1>1, <1>2 DEF Dashboard, Section
<1>8. \A some : [volumes |-> Shown(some).volumes, gib |-> Shown(some).gib,
                attached |-> Shown(some).attached] = sizes
  <2> HIDE DEF volumes
  <2> QED OBVIOUS
<1>9. \A some : {[volumes |-> s.volumes, gib |-> s.gib, attached |-> s.attached] : s \in {Shown(some)}}
                  = {sizes}
  <2> HIDE DEF Shown, sizes
  <2> QED BY <1>8
<1>4. "types" \notin refused => Dashboard({q}, refused).storage = Dashboard({q}, {}).storage
  BY <1>7, MediaWhole
<1>5. {[compute |-> vms.compute] : vms \in Dashboard({q}, refused).vms} = {[compute |-> Compute(machines)]}
  BY <1>1, <1>2, <1>3
<1>6. {[compute |-> vms.compute] : vms \in Dashboard({q}, {}).vms} = {[compute |-> Compute(machines)]}
  BY <1>3
<1> QED BY <1>4, <1>5, <1>6, <1>7, <1>9

\* A page of volumes lists them all, or is an error.
LEMMA VolumesListed ==
  ASSUME NEW q, NEW refused, NEW page \in VolumePage({q}, refused)
  PROVE  {row.id : row \in page.rows} = Of(HeldBy(q, items), "volumes")
<1> DEFINE answer == Seen({q}, refused)
           volumes == Of(answer, "volumes")
           On(v) == IF OnItem[v] \in Of(answer, "machines") THEN OnItem[v] ELSE NoItem
           Listed(v) == [id |-> v, on |-> On(v)]
           listed == {Listed(v) : v \in volumes}
           attached == Cardinality({v \in volumes : OnItem[v] # NoItem})
<1>0. page = [rows |-> listed, attached |-> attached, unattached |-> Cardinality(volumes) - attached,
              gib |-> Gib(volumes), media |-> MediaTotals(volumes, refused)] /\ "volumes" \notin refused
  BY DEF VolumePage, Section
<1>1. page.rows = listed /\ "volumes" \notin refused
  <2> HIDE DEF listed, attached, volumes
  <2> QED BY <1>0
<1>2. \A v : Listed(v).id = v
  <2> HIDE DEF On
  <2> QED OBVIOUS
<1>3. volumes = Of(HeldBy(q, items), "volumes")
  BY <1>1 DEF Of, Seen, HeldBy
<1> HIDE DEF Listed, volumes
<1> QED BY <1>1, <1>2, <1>3

LEMMA SnapshotsListed ==
  ASSUME NEW q, NEW refused, NEW page \in SnapshotPage({q}, refused, TRUE)
  PROVE  {row.id : row \in page.rows} = Of(HeldBy(q, items), "snapshots")
<1> DEFINE answer == Seen({q}, refused)
           shown == {i \in Of(answer, "snapshots") : TRUE \/ i \notin Backups}
           Medium(i) == IF OnItem[i] \in Of(answer, "volumes") THEN MediumOf(OnItem[i], refused) ELSE ""
           Listed(i) == [id |-> i, media |-> Medium(i)]
           listed == {Listed(i) : i \in shown}
<1>0. page = [rows |-> listed, gib |-> Gib(shown)] /\ "snapshots" \notin refused
  BY DEF SnapshotPage, Section
<1>1. page.rows = listed /\ "snapshots" \notin refused
  <2> HIDE DEF listed, shown
  <2> QED BY <1>0
<1>2. \A i : Listed(i).id = i
  <2> HIDE DEF Medium
  <2> QED OBVIOUS
<1>3. shown = Of(HeldBy(q, items), "snapshots")
  BY <1>1 DEF Of, Seen, HeldBy
<1> HIDE DEF Listed, shown
<1> QED BY <1>1, <1>2, <1>3

\* A machine that is shown with its disks is shown with all of them.
DisksOn(d, refused) ==
    UNION {{<<vm.id, vm.disks>> : vm \in page} : page \in AdminResources(d, {}, refused)}

LEMMA DisksWhole ==
  ASSUME NEW d, NEW refused, NEW vm \in DisksOn(d, refused), vm[2] # {}
  PROVE  vm \in DisksOn(d, {})
<1> DEFINE Page(some) == {row \in MachineRows(Seen(Projects, some), some) : row.project \in Allowed(d, {})}
           answer == Seen(Projects, refused)
           all == Seen(Projects, {})
<1>1. PICK page \in AdminResources(d, {}, refused) : vm \in {<<row.id, row.disks>> : row \in page}
  BY DEF DisksOn
<1>2. page = Page(refused) /\ "machines" \notin refused
  BY DEF AdminResources, Section
<1>3. PICK row \in Page(refused) : vm = <<row.id, row.disks>>
  BY <1>1, <1>2
<1>4. PICK i \in Of(answer, "machines") : row = MachineRow(answer, refused, i)
  BY MachinesListed
<1>5. row.id = i /\ row.project = ProjectOf[i]
      /\ row.disks = Section("volumes", refused, Gib({v \in Of(answer, "volumes") : OnItem[v] = i}))
  <2> HIDE DEF answer, Page
  <2> QED BY <1>4, MachineFields
<1>6. "volumes" \notin refused
  BY <1>3, <1>5 DEF Section
<1>7. Of(answer, "machines") = Of(all, "machines") /\ Of(answer, "volumes") = Of(all, "volumes")
  BY <1>2, <1>6, ListShown
<1> DEFINE other == MachineRow(all, {}, i)
<1>8. other.id = i /\ other.project = ProjectOf[i]
      /\ other.disks = Section("volumes", {}, Gib({v \in Of(all, "volumes") : OnItem[v] = i}))
  <2> HIDE DEF all
  <2> QED BY MachineFields
<1>9. other \in MachineRows(all, {})
  BY <1>7, MachinesListed
<1>10. row.project \in Allowed(d, {})
  BY <1>3
<1> HIDE DEF other, answer, all
<1>11. other.disks = row.disks
  BY <1>5, <1>6, <1>7, <1>8 DEF Section
<1>12. other \in Page({})
  BY <1>5, <1>8, <1>9, <1>10 DEF all
<1>13. AdminResources(d, {}, {}) = {Page({})}
  BY DEF AdminResources, Section
<1> HIDE DEF Page
<1>14. <<other.id, other.disks>> \in DisksOn(d, {})
  BY <1>12, <1>13 DEF DisksOn
<1> QED BY <1>3, <1>5, <1>8, <1>11, <1>14

LEMMA WholeIs == PagesInv => WholeIfNothingNamed
<1> SUFFICES ASSUME PagesInv, NEW q \in Projects, NEW refused \in SUBSET Refusable
             PROVE  LET all == Dashboard({q}, {})
                        full == UserBilling(q, {q}, {}, {})
                        Counts(sections) == {[compute |-> vms.compute] : vms \in sections}
                        Sizes(sections) ==
                           {[volumes |-> s.volumes, gib |-> s.gib, attached |-> s.attached] : s \in sections}
                        Ids(pages) == UNION {{row.id : row \in page.rows} : page \in pages}
                        Disks(pages) == UNION {{<<vm.id, vm.disks>> : vm \in page} : page \in pages}
                        disks == Disks(AdminResources(DomainOf[q], {}, {}))
                        board == Dashboard({q}, refused)
                        bill == UserBilling(q, {q}, refused, {})
                    IN  /\ board.unavailable = {} =>
                              /\ Counts(board.vms) = Counts(all.vms)
                              /\ Sizes(board.storage) = Sizes(all.storage)
                              /\ "types" \notin refused => board.storage = all.storage
                        /\ bill.unavailable = {} =>
                              /\ bill.accrued = full.accrued
                              /\ \A resource \in Resources \ {"ssd_gb", "hdd_gb"} :
                                    Column(bill.current, resource) = Column(full.current, resource)
                              /\ "types" \notin refused => bill = full
                        /\ bill.estimate.total <= full.estimate.total
                        /\ \A page \in VolumePage({q}, refused) :
                              Ids({page}) = Of(HeldBy(q, items), "volumes")
                        /\ \A page \in SnapshotPage({q}, refused, TRUE) :
                              Ids({page}) = Of(HeldBy(q, items), "snapshots")
                        /\ \A vm \in Disks(AdminResources(DomainOf[q], {}, refused)) :
                              vm[2] # {} => vm \in disks
  BY DEF WholeIfNothingNamed
<1> DEFINE all == Dashboard({q}, {})
           full == UserBilling(q, {q}, {}, {})
           Counts(sections) == {[compute |-> vms.compute] : vms \in sections}
           Sizes(sections) ==
              {[volumes |-> s.volumes, gib |-> s.gib, attached |-> s.attached] : s \in sections}
           board == Dashboard({q}, refused)
           bill == UserBilling(q, {q}, refused, {})
<1>1. board.unavailable = {} =>
         /\ Counts(board.vms) = Counts(all.vms)
         /\ Sizes(board.storage) = Sizes(all.storage)
         /\ "types" \notin refused => board.storage = all.storage
  BY BoardWhole
<1>2. ASSUME bill.unavailable = {}
      PROVE  /\ bill.accrued = full.accrued
             /\ \A resource \in Resources \ {"ssd_gb", "hdd_gb"} :
                   Column(bill.current, resource) = Column(full.current, resource)
             /\ "types" \notin refused => bill = full
  <2>1. refused \cap ListNames = {}
    BY <1>2 DEF UserBilling
  <2>2. bill.accrued = full.accrued
    BY DEF UserBilling
  <2>3. "types" \notin refused => bill = full
    <3>1. "types" \notin refused => refused = {}
      BY <2>1 DEF Refusable
    <3> QED BY <3>1
  <2> QED BY <2>1, <2>2, <2>3, EstimateLacksVolumes
<1>3. bill.estimate.total <= full.estimate.total
  BY EstimateNoMore
<1>4. \A page \in VolumePage({q}, refused) :
         UNION {{row.id : row \in one.rows} : one \in {page}} = Of(HeldBy(q, items), "volumes")
  <2> TAKE page \in VolumePage({q}, refused)
  <2> QED BY VolumesListed
<1>5. \A page \in SnapshotPage({q}, refused, TRUE) :
         UNION {{row.id : row \in one.rows} : one \in {page}} = Of(HeldBy(q, items), "snapshots")
  <2> TAKE page \in SnapshotPage({q}, refused, TRUE)
  <2> QED BY SnapshotsListed
<1>6. \A vm \in DisksOn(DomainOf[q], refused) : vm[2] # {} => vm \in DisksOn(DomainOf[q], {})
  BY DisksWhole
<1> HIDE DEF all, full, Counts, Sizes, board, bill
<1> QED BY <1>1, <1>2, <1>3, <1>4, <1>5, <1>6 DEF all, full, Counts, Sizes, board, bill, DisksOn

\* A page that names nothing as unavailable and has all its sections shows what there
\* is, but for what the types of volumes would tell if they are refused: the media, and
\* the volumes' share of an estimate.  One that lacks something asks for no more money
\* (dashboard/views.py 22), for any items and whatever is refused.
THEOREM WholeCorrect == Spec => []WholeIfNothingNamed
<1> QED BY WholeIs, PagesAlways, PTL
=============================================================================
