---------------------------- MODULE ClusterSnapshot ----------------------------
(***************************************************************************)
(* The operators' picture of the whole cluster                             *)
(* (apps.platform_admin.snapshot) and the pages made from it.              *)
(*                                                                         *)
(* A picture is built from one list per kind of resource, each read on its *)
(* own thread, and from one directory of projects per account, and is kept *)
(* under two keys: a short one that is served, and a long one for when the *)
(* cloud cannot be reached.  Nothing keeps two requests from building at   *)
(* once, and the two keys are written one after the other.                 *)
(*                                                                         *)
(* Where the code counts, the model keeps the set of the rows counted: two *)
(* figures add up when their sets do.  The fields of one list share its    *)
(* fate, so a list has one figure.                                         *)
(***************************************************************************)
EXTENDS Integers, FiniteSets

CONSTANTS
    Workers,       \* each serves one request after another
    Accounts,
    Projects,
    Rows,          \* machines, volumes, ...: everything the lists may hold
    Sources,       \* the lists
    Vital,         \* the machines' list, without which there is no picture
    Place,         \* of an account in the cloud's list of them
    AccountOf,     \* of a project
    ProjectOf,     \* of a row
    SourceOf,      \* of a row
    Rows0,         \* what the cluster carries at first
    Projects0,
    Installed,     \* PLATFORM_CAPACITY: what the hardware has, of each kind
    Unknown,       \* None, and the outcome of a read that failed
    Pending,       \* a read still to come
    Nothing,       \* no picture
    TTL,           \* TTL_SECONDS
    FallbackTTL,   \* FALLBACK_TTL_SECONDS
    DirectoryTTL,  \* DIRECTORY_CACHE_TTL
    MaxChanges,    \* bound: changes of the cluster
    MaxRefusals,   \* bound: calls the cloud fails
    MaxTime        \* bound: ticks in a run

ASSUME SnapshotAssumption ==
    /\ Vital \in Sources
    /\ Place \in [Accounts -> Nat]
    /\ AccountOf \in [Projects -> Accounts]
    /\ ProjectOf \in [Rows -> Projects]
    /\ SourceOf \in [Rows -> Sources]
    /\ Rows0 \subseteq Rows /\ Projects0 \subseteq Projects
    /\ \A row \in Rows0 : ProjectOf[row] \in Projects0
    /\ Installed \in [Sources -> Nat]
    /\ \A read \in (SUBSET Rows) \cup (SUBSET Projects) : Unknown # read /\ Pending # read
    /\ Unknown # Pending
    /\ TTL \in Nat \ {0} /\ FallbackTTL \in Nat \ {0} /\ DirectoryTTL \in Nat \ {0}
    /\ MaxChanges \in Nat /\ MaxRefusals \in Nat /\ MaxTime \in Nat

VARIABLES
    now,
    rows,      \* what the cluster carries
    born,      \* the projects there are, and since when
    changes,   \* of the cluster, so far
    refusals,  \* calls it has failed
    \* the cache
    fresh,     \* the picture under _KEY, and until when
    fallback,  \* the picture under _FALLBACK_KEY, and until when
    directory, \* the projects of each account, and until when
    \* workers
    at,        \* what is next
    lists,     \* what the lists held
    listed,    \* the projects of each account
    draft,     \* the picture between the two writes
    \* history
    from,      \* what the cluster had been through when the build began
    floor,     \* the latest picture anyone had been shown when the request came
    seen,      \* the latest picture anyone has been shown
    shown,     \* the answer a step gives
    built,     \* when someone was last shown the picture he had built
    disturbed  \* two requests were building at the same time, or the second key was
               \* read, or left for good, between the two writes

clusterVars == <<rows, born, changes>>
cloudVars == <<clusterVars, refusals>>
cacheVars == <<fresh, fallback, directory>>
workerVars == <<lists, listed, draft, from, floor>>
history == <<seen, built, disturbed>>

vars == <<now, cloudVars, cacheVars, at, workerVars, shown, history>>

Figures == [Sources -> {Unknown} \cup SUBSET Rows]
\* Before anything that happened.
Never == -FallbackTTL

\* What is remembered of an answer.
Silence == [answer |-> "none", age |-> 0, from |-> 0, floor |-> 0]
Answers == {"none", "good", "stale", "error"}

Gone == [picture |-> Nothing, until |-> 0]
NotListed == [projects |-> {}, until |-> 0]
NoLists == [s \in Sources |-> Pending]
NoneListed == [a \in Accounts |-> Pending]
Steps == {"new", "ask", "read", "keepFallback", "fallBack"}
Building == {"read", "keepFallback"}

\* Every picture, before it is first shown: what is kept and shown is one of them.
Pictures == {draft[r] : r \in {q \in Workers : at[q] = "keepFallback"}}

\* `from` is history, and not in the code's picture.
IsPicture(p) ==
    /\ p.accounts \in [Accounts -> Figures]
    /\ p.projects \in [DOMAIN p.projects -> Figures] /\ DOMAIN p.projects \subseteq Projects
    /\ p.totals \in Figures
    /\ DOMAIN p.unattributed \subseteq Sources
    /\ \A s \in DOMAIN p.unattributed : p.unattributed[s] \subseteq Rows
    /\ p.unavailable \subseteq Sources \ {Vital}
    /\ p.unreadable \subseteq Accounts
    /\ p.builtAt \in 0..now /\ p.stale \in BOOLEAN /\ p.from \in 0..changes

\* The parts of a kept picture are those it had as a draft.
IsKept(entry) ==
    /\ entry.until \in Nat
    /\ entry # Gone => entry.picture.builtAt \in 0..now /\ ~entry.picture.stale

SnapshotTypeOK ==
    /\ now \in Nat
    /\ rows \subseteq Rows
    /\ DOMAIN born \subseteq Projects /\ born \in [DOMAIN born -> Nat]
    /\ \A row \in rows : ProjectOf[row] \in DOMAIN born
    /\ changes \in Nat /\ refusals \in Nat
    /\ IsKept(fresh) /\ IsKept(fallback)
    /\ directory \in [Accounts -> [projects : SUBSET Projects, until : Nat]]
    /\ at \in [Workers -> Steps]
    /\ lists \in [Workers -> [Sources -> {Unknown, Pending} \cup SUBSET Rows]]
    /\ listed \in [Workers -> [Accounts -> {Unknown, Pending} \cup SUBSET Projects]]
    /\ \A p \in Pictures : IsPicture(p)
    /\ from \in [Workers -> Nat]
    /\ floor \in [Workers -> Nat]
    /\ seen \in Nat
    /\ shown \in [answer : Answers, age : Int, from : Nat, floor : Nat]
    /\ built \in Nat \cup {Never}
    /\ disturbed \in BOOLEAN

Init ==
    /\ now = 0
    /\ rows = Rows0
    /\ born = [p \in Projects0 |-> 0]
    /\ changes = 0 /\ refusals = 0
    /\ fresh = Gone
    /\ fallback = Gone
    /\ directory = [a \in Accounts |-> NotListed]
    /\ at = [r \in Workers |-> "new"]
    /\ lists = [r \in Workers |-> NoLists]
    /\ listed = [r \in Workers |-> NoneListed]
    /\ draft = [r \in Workers |-> Nothing]
    /\ from = [r \in Workers |-> 0]
    /\ floor = [r \in Workers |-> 0]
    /\ seen = 0
    /\ shown = Silence
    /\ built = Never
    /\ disturbed = FALSE

-----------------------------------------------------------------------------
(* The picture, from what was read. *)

\* What the folds of one list after the other leave in a blank entry.
Folded(got, projects) ==
    [s \in Sources |-> IF got[s] = Unknown THEN {} ELSE {row \in got[s] : ProjectOf[row] \in projects}]

\* A number nobody could read is None, never zero.
Marked(figures, unavailable) ==
    [s \in Sources |-> IF s \in unavailable THEN Unknown ELSE figures[s]]

\* Mutant: rows that belong to no account are dropped.
UnattributedDropped(got, known) == [s \in {t \in Sources : got[t] # Unknown} |-> {}]

\* Rows that belong to no account the directory knows, of the lists that were read.
Unattributed(got, known) ==
    [s \in {t \in Sources : got[t] # Unknown} |-> {row \in got[s] : ProjectOf[row] \notin known}]

\* Counted from the raw lists rather than from the accounts.
Totals(got) == Folded(got, Projects)

\* Mutant: an account whose projects could not be listed has nothing.
PictureZeroed(got, of, since) ==
    LET unavailable == {s \in Sources : got[s] = Unknown}
        unreadable == {a \in Accounts : of[a] = Unknown}
        Known(a) == IF a \in unreadable THEN {} ELSE of[a]
        known == UNION {Known(a) : a \in Accounts}
    IN  [accounts |-> [a \in Accounts |-> Marked(Folded(got, Known(a)), unavailable)],
         projects |-> [p \in known |-> Marked(Folded(got, {p}), unavailable)],
         totals |-> Marked(Totals(got), unavailable),
         unattributed |-> Unattributed(got, known),
         unavailable |-> unavailable, unreadable |-> unreadable, builtAt |-> now, stale |-> FALSE,
         from |-> since]

\* _build, once everything has been read.  The accounts are marked twice: the
\* second time wins.
Picture(got, of, since) ==
    LET unavailable == {s \in Sources : got[s] = Unknown}
        unreadable == {a \in Accounts : of[a] = Unknown}
        Known(a) == IF a \in unreadable THEN {} ELSE of[a]
        known == UNION {Known(a) : a \in Accounts}
    IN  [accounts |-> [a \in Accounts |->
            Marked(Marked(Folded(got, Known(a)), unavailable),
                   IF a \in unreadable THEN Sources ELSE {})],
         projects |-> [p \in known |-> Marked(Folded(got, {p}), unavailable)],
         totals |-> Marked(Totals(got), unavailable),
         unattributed |-> Unattributed(got, known),
         unavailable |-> unavailable, unreadable |-> unreadable, builtAt |-> now, stale |-> FALSE,
         from |-> since]

\* Allocated over installed; absent where either is not known.
Utilisation(p) ==
    [s \in {t \in Sources : Installed[t] > 0 /\ p.totals[t] # Unknown} |->
        [used |-> Cardinality(p.totals[s]), total |-> Installed[s]]]

-----------------------------------------------------------------------------
(* snapshot.get. *)

Goes(r, step) == at' = [at EXCEPT ![r] = step]

\* A call the cloud answers, and one it does not.
Answered == UNCHANGED refusals
Refused == refusals < MaxRefusals /\ refusals' = refusals + 1

Silent == shown' = Silence

ForgetsReads(r) ==
    /\ lists' = [lists EXCEPT ![r] = NoLists]
    /\ listed' = [listed EXCEPT ![r] = NoneListed]

\* The request is over, and all it had is forgotten.
Forgets(r) ==
    /\ ForgetsReads(r)
    /\ draft' = [draft EXCEPT ![r] = Nothing]
    /\ from' = [from EXCEPT ![r] = 0]
    /\ floor' = [floor EXCEPT ![r] = 0]

\* Mutant: not told that it is the last good one.
AsStaleUnmarked(picture) == picture

\* {**fallback, 'stale': True}
AsStale(picture) == [picture EXCEPT !.stale = TRUE]

\* A request that came when `least` had been shown is answered with a picture.
Shows(picture, least) ==
    /\ shown' = [answer |-> IF picture.stale THEN "stale" ELSE "good",
                 age |-> now - picture.builtAt, from |-> picture.from, floor |-> least]
    /\ seen' = IF picture.from > seen THEN picture.from ELSE seen

\* Or with an error, so long after a picture was last shown to its builder.
ShowsError(least) ==
    /\ shown' = [answer |-> "error", age |-> now - built, from |-> 0, floor |-> least]
    /\ UNCHANGED seen

\* A look is served what is kept; ?refresh=1 does not look.
LookUp(r) ==
    /\ at[r] = "new"
    /\ \/ /\ fresh # Gone
          /\ Goes(r, "new")
          /\ Shows(fresh.picture, seen)
          /\ UNCHANGED floor
       \/ /\ Goes(r, "ask")
          /\ floor' = [floor EXCEPT ![r] = seen]
          /\ Silent
          /\ UNCHANGED seen
    /\ UNCHANGED <<now, cloudVars, cacheVars, lists, listed, draft, from, built, disturbed>>

\* The service token and the accounts: one refusal is the end of the build.
Ask(r) ==
    /\ at[r] = "ask"
    /\ \/ /\ Answered
          /\ Goes(r, "read")
          /\ from' = [from EXCEPT ![r] = changes]
          /\ disturbed' = (disturbed \/ \E q \in Workers \ {r} : at[q] \in Building)
       \/ /\ Refused
          /\ Goes(r, "fallBack")
          /\ UNCHANGED <<from, disturbed>>
    /\ Silent
    /\ UNCHANGED <<now, clusterVars, cacheVars, lists, listed, draft, floor, seen, built>>

\* One thread's list; its failure is held back until all of them have ended.
ReadList(r, s) ==
    /\ at[r] = "read" /\ lists[r][s] = Pending
    /\ \/ /\ Answered
          /\ lists' = [lists EXCEPT ![r][s] = {row \in rows : SourceOf[row] = s}]
       \/ /\ Refused
          /\ lists' = [lists EXCEPT ![r][s] = Unknown]
    /\ Silent
    /\ UNCHANGED <<now, clusterVars, cacheVars, at, listed, draft, from, floor, history>>

AllRead(r) == at[r] = "read" /\ \A s \in Sources : lists[r][s] # Pending

\* Mutant: the machines' list is like the others.
ReadableWithout(r) == AllRead(r)

Readable(r) == AllRead(r) /\ lists[r][Vital] # Unknown

\* Without the machines there is no picture.
GiveUp(r) ==
    /\ AllRead(r) /\ lists[r][Vital] = Unknown
    /\ Goes(r, "fallBack")
    /\ ForgetsReads(r)
    /\ from' = [from EXCEPT ![r] = 0]
    /\ Silent
    /\ UNCHANGED <<now, cloudVars, cacheVars, draft, floor, history>>

\* Mutant: a hit keeps the entry for another while.
ReadProjectsSliding(r, a) ==
    /\ Readable(r) /\ listed[r][a] = Pending
    /\ \A b \in Accounts : listed[r][b] = Pending => Place[a] <= Place[b]
    /\ \/ /\ directory[a] # NotListed /\ Answered
          /\ listed' = [listed EXCEPT ![r][a] = directory[a].projects]
          /\ directory' = [directory EXCEPT ![a].until = now + DirectoryTTL]
       \/ /\ directory[a] = NotListed /\ Answered
          /\ LET there == {p \in DOMAIN born : AccountOf[p] = a}
             IN  /\ listed' = [listed EXCEPT ![r][a] = there]
                 /\ directory' = [directory EXCEPT ![a] = [projects |-> there, until |-> now + DirectoryTTL]]
       \/ /\ directory[a] = NotListed /\ Refused
          /\ listed' = [listed EXCEPT ![r][a] = Unknown]
          /\ UNCHANGED directory
    /\ Silent
    /\ UNCHANGED <<now, clusterVars, fresh, fallback, at, lists, draft, from, floor, history>>

\* One account's projects, from the directory kept or from the cloud, whose
\* answer is kept at once.
ReadProjects(r, a) ==
    /\ Readable(r) /\ listed[r][a] = Pending
    /\ \A b \in Accounts : listed[r][b] = Pending => Place[a] <= Place[b]
    /\ \/ /\ directory[a] # NotListed /\ Answered
          /\ listed' = [listed EXCEPT ![r][a] = directory[a].projects]
          /\ UNCHANGED directory
       \/ /\ directory[a] = NotListed /\ Answered
          /\ LET there == {p \in DOMAIN born : AccountOf[p] = a}
             IN  /\ listed' = [listed EXCEPT ![r][a] = there]
                 /\ directory' = [directory EXCEPT ![a] = [projects |-> there, until |-> now + DirectoryTTL]]
       \/ /\ directory[a] = NotListed /\ Refused
          /\ listed' = [listed EXCEPT ![r][a] = Unknown]
          /\ UNCHANGED directory
    /\ Silent
    /\ UNCHANGED <<now, clusterVars, fresh, fallback, at, lists, draft, from, floor, history>>

\* The picture is put together and written under the first key.
Keep(r) ==
    /\ Readable(r) /\ \A a \in Accounts : listed[r][a] # Pending
    /\ LET picture == Picture(lists[r], listed[r], from[r])
       IN  /\ fresh' = [picture |-> picture, until |-> now + TTL]
           /\ draft' = [draft EXCEPT ![r] = picture]
    /\ Goes(r, "keepFallback")
    /\ ForgetsReads(r)
    /\ Silent
    /\ UNCHANGED <<now, cloudVars, fallback, directory, from, floor, history>>

\* Mutant: the last good picture is the first one.
KeepFallbackOnce(r) ==
    /\ at[r] = "keepFallback"
    /\ fallback' = IF fallback # Gone THEN fallback
                   ELSE [picture |-> draft[r], until |-> now + FallbackTTL]
    /\ Goes(r, "new")
    /\ Shows(draft[r], floor[r])
    /\ built' = now
    /\ Forgets(r)
    /\ UNCHANGED <<now, cloudVars, fresh, directory, disturbed>>

\* Mutant: the second key lives as long as the first.
KeepFallbackBriefly(r) ==
    /\ at[r] = "keepFallback"
    /\ fallback' = [picture |-> draft[r], until |-> now + TTL]
    /\ Goes(r, "new")
    /\ Shows(draft[r], floor[r])
    /\ built' = now
    /\ Forgets(r)
    /\ UNCHANGED <<now, cloudVars, fresh, directory, disturbed>>

\* And under the second, and shown.
KeepFallback(r) ==
    /\ at[r] = "keepFallback"
    /\ fallback' = [picture |-> draft[r], until |-> now + FallbackTTL]
    /\ Goes(r, "new")
    /\ Shows(draft[r], floor[r])
    /\ built' = now
    /\ Forgets(r)
    /\ UNCHANGED <<now, cloudVars, fresh, directory, disturbed>>

\* The build failed: the last good picture, or the error.
FallBack(r) ==
    /\ at[r] = "fallBack"
    /\ Goes(r, "new")
    /\ IF fallback # Gone THEN Shows(AsStale(fallback.picture), floor[r]) ELSE ShowsError(floor[r])
    /\ Forgets(r)
    /\ disturbed' = (disturbed \/ \E q \in Workers : at[q] = "keepFallback")
    /\ UNCHANGED <<now, cloudVars, cacheVars, built>>

\* A worker is killed, or the cache refuses.
Die(r) ==
    /\ at[r] # "new"
    /\ Goes(r, "new")
    /\ Forgets(r)
    /\ disturbed' = (disturbed \/ at[r] = "keepFallback")
    /\ Silent
    /\ UNCHANGED <<now, cloudVars, cacheVars, seen, built>>

-----------------------------------------------------------------------------
(* The cluster, and time. *)

Changes == changes < MaxChanges /\ changes' = changes + 1

\* A project, with what is made in it at once.
NewProject(p) ==
    /\ Changes
    /\ p \notin DOMAIN born
    /\ born' = [q \in DOMAIN born \cup {p} |-> IF q = p THEN now ELSE born[q]]
    /\ \E made \in SUBSET {row \in Rows : ProjectOf[row] = p} : rows' = rows \cup made
    /\ Silent
    /\ UNCHANGED <<now, refusals, cacheVars, at, workerVars, history>>

\* A row comes or goes.
RowChanges(row) ==
    /\ Changes
    /\ ProjectOf[row] \in DOMAIN born
    /\ rows' = IF row \in rows THEN rows \ {row} ELSE rows \cup {row}
    /\ Silent
    /\ UNCHANGED <<now, born, refusals, cacheVars, at, workerVars, history>>

\* Time passes, and the cache drops what has had its time.  A build is short
\* beside the lives of what is kept: time does not pass in it.
Tick ==
    /\ now < MaxTime
    /\ \A r \in Workers : at[r] = "new"
    /\ now' = now + 1
    /\ fresh' = IF fresh.until > now' THEN fresh ELSE Gone
    /\ fallback' = IF fallback.until > now' THEN fallback ELSE Gone
    /\ directory' = [a \in Accounts |-> IF directory[a].until > now' THEN directory[a] ELSE NotListed]
    /\ Silent
    /\ UNCHANGED <<cloudVars, at, workerVars, history>>

Next ==
    \/ \E r \in Workers :
          \/ LookUp(r) \/ Ask(r) \/ GiveUp(r) \/ Keep(r) \/ KeepFallback(r) \/ FallBack(r) \/ Die(r)
          \/ \E s \in Sources : ReadList(r, s)
          \/ \E a \in Accounts : ReadProjects(r, a)
    \/ \E p \in Projects : NewProject(p)
    \/ \E row \in Rows : RowChanges(row)
    \/ Tick

Spec == Init /\ [][Next]_vars

-----------------------------------------------------------------------------
(* Correctness. *)

\* A row is in one figure: its account's, its project's, or the unattributed.
\* Nothing on the cluster is dropped and nothing is counted twice, whatever could
\* not be listed (the comments at snapshot.py 212 and 258).
AddsUp ==
    \A p \in Pictures : \A s \in Sources \ p.unavailable :
       LET accounts == {a \in Accounts : p.accounts[a][s] # Unknown}
       IN  /\ p.totals[s] = (UNION {p.accounts[a][s] : a \in accounts}) \cup p.unattributed[s]
           /\ \A a \in accounts :
                 /\ \A row \in p.accounts[a][s] : AccountOf[ProjectOf[row]] = a
                 /\ p.accounts[a][s] \cap p.unattributed[s] = {}
                 /\ p.accounts[a][s] = UNION {p.projects[q][s] :
                        q \in {q \in DOMAIN p.projects : AccountOf[q] = a}}

\* "This client stores nothing" and "we could not ask" are different answers
\* (snapshot.py 51): a figure is a number exactly where everything it is made of
\* was read, and the pages say which.
UnknownIsNotZero ==
    \A p \in Pictures : \A s \in Sources :
       /\ p.totals[s] = Unknown <=> s \in p.unavailable
       /\ \A a \in Accounts : p.accounts[a][s] = Unknown <=> s \in p.unavailable \/ a \in p.unreadable
       /\ s \in p.unavailable => s \notin DOMAIN p.unattributed
       /\ s \in p.unavailable => s \notin DOMAIN Utilisation(p)

\* What has once been on a screen is not followed by an older picture, on anyone's
\* screen, unless two builds crossed, or the second key was read between one
\* build's two writes or never got the second.
NoGoingBack ==
    ~disturbed /\ shown.answer \in {"good", "stale"} => shown.from >= shown.floor

\* A picture that is not marked stale was built within TTL_SECONDS, and one that
\* is within FALLBACK_TTL_SECONDS.
StaleTells ==
    /\ shown.answer = "good" => shown.age < TTL
    /\ shown.answer = "stale" => shown.age < FallbackTTL

\* Once someone has been shown the picture he had built, an outage shows everyone
\* a picture and not an error, for as long as the second key lives.
OutageShowsLastGood ==
    shown.answer = "error" => shown.age >= FallbackTTL

\* A project is missing from a picture for as long as the directory and the
\* picture are kept, and no longer: then its rows have an account.
SoonAttributed ==
    \A p \in Pictures : ~p.stale /\ p.unreadable = {} =>
       \A s \in DOMAIN p.unattributed : \A row \in p.unattributed[s] :
          p.builtAt < born[ProjectOf[row]] + DirectoryTTL

\* A picture is complete, and says what it is not complete in.
FiguresTell == SnapshotTypeOK /\ AddsUp /\ UnknownIsNotZero /\ SoonAttributed

\* An outage is bridged by the last good picture, and seen to be.
OutageTells == StaleTells /\ OutageShowsLastGood
=============================================================================
