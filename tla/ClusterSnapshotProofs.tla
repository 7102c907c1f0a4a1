------------------------- MODULE ClusterSnapshotProofs -------------------------
(***************************************************************************)
(* Theorems about ClusterSnapshot, for any cluster, any workers, lifetimes *)
(* and outages.                                                            *)
(***************************************************************************)
EXTENDS ClusterSnapshot, TLAPS

-----------------------------------------------------------------------------
(* The picture that is made of what was read. *)

\* What AddsUp, UnknownIsNotZero and SoonAttributed ask of one picture.
AddsUpIn(p, s) ==
    LET accounts == {a \in Accounts : p.accounts[a][s] # Unknown}
    IN  /\ p.totals[s] = (UNION {p.accounts[a][s] : a \in accounts}) \cup p.unattributed[s]
        /\ \A a \in accounts :
              /\ \A row \in p.accounts[a][s] : AccountOf[ProjectOf[row]] = a
              /\ p.accounts[a][s] \cap p.unattributed[s] = {}
              /\ p.accounts[a][s] = UNION {p.projects[q][s] :
                     q \in {q \in DOMAIN p.projects : AccountOf[q] = a}}

UnknownIn(p, s) ==
    /\ p.totals[s] = Unknown <=> s \in p.unavailable
    /\ \A a \in Accounts : p.accounts[a][s] = Unknown <=> s \in p.unavailable \/ a \in p.unreadable
    /\ s \in p.unavailable => s \notin DOMAIN p.unattributed
    /\ s \in p.unavailable => s \notin DOMAIN Utilisation(p)

\* The rows of nobody are of projects younger than the directory.
YoungIn(p, s) ==
    ~p.stale /\ p.unreadable = {} /\ s \in DOMAIN p.unattributed =>
        \A row \in p.unattributed[s] :
            /\ ProjectOf[row] \in DOMAIN born
            /\ p.builtAt < born[ProjectOf[row]] + DirectoryTTL

\* Lists and directories as a build that comes to an end has them.
Lists == [Sources -> {Unknown} \cup SUBSET Rows]
Directories == [Accounts -> {Unknown} \cup SUBSET Projects]
Own(of) == \A a \in Accounts : of[a] # Unknown => \A q \in of[a] : AccountOf[q] = a

Unavailable(got) == {s \in Sources : got[s] = Unknown}
Unreadable(of) == {a \in Accounts : of[a] = Unknown}
Listed(of, a) == IF a \in Unreadable(of) THEN {} ELSE of[a]
AllListed(of) == UNION {Listed(of, a) : a \in Accounts}

\* The picture's parts.
Made(p, got, of) ==
    /\ p.accounts = [a \in Accounts |->
          Marked(Marked(Folded(got, Listed(of, a)), Unavailable(got)),
                 IF a \in Unreadable(of) THEN Sources ELSE {})]
    /\ p.projects = [q \in AllListed(of) |-> Marked(Folded(got, {q}), Unavailable(got))]
    /\ p.totals = Marked(Totals(got), Unavailable(got))
    /\ p.unattributed = Unattributed(got, AllListed(of))
    /\ p.unavailable = Unavailable(got) /\ p.unreadable = Unreadable(of)

\* What it takes from the moment it is made in.
MadeNow(p, since) ==
    /\ p.builtAt = now /\ p.stale = FALSE /\ p.from = since
    /\ {"builtAt", "stale", "from"} \subseteq DOMAIN p

LEMMA PictureMade ==
  ASSUME NEW got, NEW of, NEW since
  PROVE  Made(Picture(got, of, since), got, of) /\ MadeNow(Picture(got, of, since), since)
BY DEF Picture, Made, MadeNow, Unavailable, Unreadable, Listed, AllListed

\* The figures of a list that was read, and of one that was not.
LEMMA FigureOf ==
  ASSUME NEW got \in Lists, NEW projects \in SUBSET Projects, NEW s \in Sources
  PROVE  /\ Marked(Folded(got, projects), Unavailable(got)) \in Figures
         /\ got[s] = Unknown => Marked(Folded(got, projects), Unavailable(got))[s] = Unknown
         /\ got[s] # Unknown =>
               /\ Marked(Folded(got, projects), Unavailable(got))[s]
                     = {row \in got[s] : ProjectOf[row] \in projects}
               /\ Marked(Folded(got, projects), Unavailable(got))[s] # Unknown
<1>1. \A t \in Sources : got[t] # Unknown => got[t] \in SUBSET Rows
  BY DEF Lists
<1>2. Folded(got, projects) =
        [t \in Sources |-> IF got[t] = Unknown THEN {} ELSE {row \in got[t] : ProjectOf[row] \in projects}]
  BY DEF Folded
<1>3. \A t \in Sources : Folded(got, projects)[t] \in SUBSET Rows
  BY <1>1, <1>2
<1>4. Marked(Folded(got, projects), Unavailable(got)) =
        [t \in Sources |-> IF got[t] = Unknown THEN Unknown ELSE Folded(got, projects)[t]]
  BY DEF Marked, Unavailable
<1>5. \A t \in Sources : Folded(got, projects)[t] # Unknown
  BY <1>3, SnapshotAssumption
<1> QED
  BY <1>2, <1>3, <1>4, <1>5 DEF Figures

LEMMA ListedFacts ==
  ASSUME NEW of \in Directories, Own(of), NEW a \in Accounts
  PROVE  /\ Listed(of, a) \in SUBSET Projects
         /\ AllListed(of) \in SUBSET Projects
         /\ Listed(of, a) = {q \in AllListed(of) : AccountOf[q] = a}
<1>1. \A b \in Accounts : /\ Listed(of, b) \in SUBSET Projects
                          /\ \A q \in Listed(of, b) : AccountOf[q] = b
  BY DEF Directories, Own, Listed, Unreadable
<1> QED
  BY <1>1 DEF AllListed

\* Each kind of figure a picture has of one list.
FiguresOf(p, got, of, s) ==
    /\ p.accounts \in [Accounts -> Figures] /\ p.totals \in Figures
    /\ p.projects \in [AllListed(of) -> Figures]
    /\ p.totals[s] = IF got[s] = Unknown THEN Unknown ELSE got[s]
    /\ \A a \in Accounts : p.accounts[a][s] =
          IF got[s] = Unknown \/ of[a] = Unknown THEN Unknown
          ELSE {row \in got[s] : ProjectOf[row] \in Listed(of, a)}
    /\ \A q \in AllListed(of) : p.projects[q][s] =
          IF got[s] = Unknown THEN Unknown ELSE {row \in got[s] : ProjectOf[row] = q}
    /\ DOMAIN p.unattributed = {t \in Sources : got[t] # Unknown}
    /\ got[s] # Unknown => p.unattributed[s] = {row \in got[s] : ProjectOf[row] \notin AllListed(of)}

LEMMA Figured ==
  ASSUME NEW got \in Lists, NEW of \in Directories, Own(of), NEW s \in Sources,
         NEW p, Made(p, got, of)
  PROVE  FiguresOf(p, got, of, s)
<1> DEFINE Of(a) == Marked(Folded(got, Listed(of, a)), Unavailable(got))
           Closed(a) == IF a \in Unreadable(of) THEN Sources ELSE {}
<1>1. /\ p.accounts = [a \in Accounts |-> Marked(Of(a), Closed(a))]
      /\ p.projects = [q \in AllListed(of) |-> Marked(Folded(got, {q}), Unavailable(got))]
      /\ p.totals = Marked(Totals(got), Unavailable(got))
      /\ p.unattributed = Unattributed(got, AllListed(of))
  BY DEF Made
<1> DEFINE On(q) == Marked(Folded(got, {q}), Unavailable(got))
<1>0. p.projects = [q \in AllListed(of) |-> On(q)]
  BY <1>1
<1> HIDE DEF Of, Closed, On
<1>2. ASSUME NEW a \in Accounts
      PROVE  /\ p.accounts[a] \in Figures
             /\ p.accounts[a][s] = IF got[s] = Unknown \/ of[a] = Unknown THEN Unknown
                                   ELSE {row \in got[s] : ProjectOf[row] \in Listed(of, a)}
  <2>1. Listed(of, a) \in SUBSET Projects
    BY ListedFacts
  <2>2. /\ Of(a) \in Figures
        /\ Of(a)[s] = IF got[s] = Unknown THEN Unknown
                      ELSE {row \in got[s] : ProjectOf[row] \in Listed(of, a)}
    BY <2>1, FigureOf DEF Of
  <2>3. Marked(Of(a), Closed(a)) =
          [t \in Sources |-> IF of[a] = Unknown THEN Unknown ELSE Of(a)[t]]
    BY DEF Marked, Unreadable, Closed
  <2>4. p.accounts[a] = Marked(Of(a), Closed(a))
    BY <1>1
  <2> QED
    BY <2>2, <2>3, <2>4 DEF Figures
<1>3. ASSUME NEW q \in AllListed(of)
      PROVE  /\ p.projects[q] \in Figures
             /\ p.projects[q][s] = IF got[s] = Unknown THEN Unknown
                                   ELSE {row \in got[s] : ProjectOf[row] = q}
  <2>1. {q} \in SUBSET Projects
    BY ListedFacts DEF AllListed, Listed, Unreadable, Directories
  <2>2. /\ On(q) \in Figures
        /\ On(q)[s] = IF got[s] = Unknown THEN Unknown ELSE {row \in got[s] : ProjectOf[row] \in {q}}
    BY <2>1, FigureOf DEF On
  <2>3. p.projects[q] = On(q)
    BY <1>0
  <2> QED
    BY <2>2, <2>3
<1>4. /\ p.totals \in Figures
      /\ p.totals[s] = IF got[s] = Unknown THEN Unknown ELSE got[s]
  <2>1. got[s] # Unknown => {row \in got[s] : ProjectOf[row] \in Projects} = got[s]
    BY SnapshotAssumption DEF Lists
  <2>2. Marked(Folded(got, Projects), Unavailable(got)) \in Figures
        /\ Marked(Folded(got, Projects), Unavailable(got))[s] =
              IF got[s] = Unknown THEN Unknown ELSE {row \in got[s] : ProjectOf[row] \in Projects}
    BY FigureOf
  <2>3. p.totals = Marked(Folded(got, Projects), Unavailable(got))
    BY <1>1 DEF Totals
  <2> QED
    BY <2>1, <2>2, <2>3
<1>5. /\ DOMAIN p.unattributed = {t \in Sources : got[t] # Unknown}
      /\ got[s] # Unknown => p.unattributed[s] = {row \in got[s] : ProjectOf[row] \notin AllListed(of)}
  BY <1>1 DEF Unattributed
<1>6. /\ p.accounts \in [Accounts -> Figures]
      /\ p.projects \in [AllListed(of) -> Figures]
  BY <1>0, <1>1, <1>2, <1>3
<1> QED
  BY <1>2, <1>3, <1>4, <1>5, <1>6 DEF FiguresOf

LEMMA PictureType ==
  ASSUME NEW got \in Lists, got[Vital] # Unknown, NEW of \in Directories, Own(of), NEW since \in 0..changes,
         now \in Nat, NEW p, Made(p, got, of), MadeNow(p, since)
  PROVE  IsPicture(p)
<1>1. Vital \in Sources
  BY SnapshotAssumption
<1>2. /\ p.accounts \in [Accounts -> Figures] /\ p.totals \in Figures
      /\ p.projects \in [AllListed(of) -> Figures]
      /\ DOMAIN p.unattributed = {t \in Sources : got[t] # Unknown}
  BY <1>1, Figured DEF FiguresOf
<1>3. /\ p.unavailable = Unavailable(got) /\ p.unreadable = Unreadable(of)
      /\ p.builtAt = now /\ p.stale = FALSE /\ p.from = since
  BY DEF Made, MadeNow
<1>4. AllListed(of) \subseteq Projects
  BY ListedFacts DEF AllListed
<1>5. \A s \in DOMAIN p.unattributed : p.unattributed[s] \subseteq Rows
  BY <1>2, Figured DEF FiguresOf, Lists
<1>6. p.unavailable \subseteq Sources \ {Vital} /\ p.unreadable \subseteq Accounts
  BY <1>3 DEF Unavailable, Unreadable
<1>7. p.builtAt \in 0..now /\ p.from \in 0..changes
  BY <1>3
<1>9. p.stale \in BOOLEAN
  BY <1>3, Zenon
<1>8. DOMAIN p.projects = AllListed(of)
  BY <1>2
<1> QED
  BY <1>2, <1>4, <1>5, <1>6, <1>7, <1>8, <1>9 DEF IsPicture

\* However much could not be read, what could adds up and what could not is told.
LEMMA PictureAddsUp ==
  ASSUME NEW got \in Lists, NEW of \in Directories, Own(of), NEW s \in Sources,
         NEW p, Made(p, got, of), s \notin p.unavailable
  PROVE  AddsUpIn(p, s)
<1>0. FiguresOf(p, got, of, s)
  BY Figured
<1> DEFINE accounts == {a \in Accounts : p.accounts[a][s] # Unknown}
<1>1. p.unavailable = Unavailable(got)
  BY DEF Made
<1>2. got[s] # Unknown /\ got[s] \in SUBSET Rows
  BY <1>1 DEF Unavailable, Lists
<1>3. /\ p.totals[s] = got[s]
      /\ p.unattributed[s] = {row \in got[s] : ProjectOf[row] \notin AllListed(of)}
      /\ \A q \in AllListed(of) : p.projects[q][s] = {row \in got[s] : ProjectOf[row] = q}
      /\ DOMAIN p.projects = AllListed(of)
  BY <1>0, <1>2 DEF FiguresOf
<1>4. \A a \in Accounts : p.accounts[a][s] =
         IF of[a] = Unknown THEN Unknown ELSE {row \in got[s] : ProjectOf[row] \in Listed(of, a)}
  BY <1>0, <1>2 DEF FiguresOf
<1>5. \A a \in Accounts : {row \in got[s] : ProjectOf[row] \in Listed(of, a)} # Unknown
  BY <1>2, SnapshotAssumption
<1>6. accounts = {a \in Accounts : of[a] # Unknown}
  BY <1>4, <1>5
<1>7. \A a \in accounts : p.accounts[a][s] = {row \in got[s] : ProjectOf[row] \in Listed(of, a)}
  BY <1>4, <1>6
<1>8. \A a \in Accounts \ accounts : Listed(of, a) = {}
  BY <1>6 DEF Listed, Unreadable
<1>9. \A a \in Accounts : /\ Listed(of, a) \subseteq AllListed(of)
                          /\ Listed(of, a) = {q \in AllListed(of) : AccountOf[q] = a}
  BY ListedFacts DEF AllListed
<1> HIDE DEF accounts
<1>10. UNION {p.accounts[a][s] : a \in accounts} = {row \in got[s] : ProjectOf[row] \in AllListed(of)}
  <2>1. accounts \subseteq Accounts
    BY <1>6
  <2>2. ASSUME NEW row \in got[s], ProjectOf[row] \in AllListed(of)
        PROVE  \E a \in accounts : row \in p.accounts[a][s]
    <3>1. PICK a \in Accounts : ProjectOf[row] \in Listed(of, a)
      BY <2>2 DEF AllListed
    <3>2. a \in accounts
      BY <3>1, <1>8
    <3> QED
      BY <3>1, <3>2, <1>7
  <2>3. ASSUME NEW a \in accounts, NEW row \in p.accounts[a][s]
        PROVE  row \in got[s] /\ ProjectOf[row] \in AllListed(of)
    BY <2>1, <1>7, <1>9
  <2> QED
    BY <2>2, <2>3
<1>11. p.totals[s] = (UNION {p.accounts[a][s] : a \in accounts}) \cup p.unattributed[s]
  BY <1>3, <1>10
<1>12. ASSUME NEW a \in accounts
       PROVE  /\ \A row \in p.accounts[a][s] : AccountOf[ProjectOf[row]] = a
              /\ p.accounts[a][s] \cap p.unattributed[s] = {}
              /\ p.accounts[a][s] = UNION {p.projects[q][s] :
                     q \in {q \in DOMAIN p.projects : AccountOf[q] = a}}
  <2>1. a \in Accounts /\ p.accounts[a][s] = {row \in got[s] : ProjectOf[row] \in Listed(of, a)}
    BY <1>6, <1>7
  <2>2. {q \in DOMAIN p.projects : AccountOf[q] = a} = Listed(of, a)
    BY <1>3, <1>9, <2>1
  <2>3. UNION {p.projects[q][s] : q \in Listed(of, a)} = {row \in got[s] : ProjectOf[row] \in Listed(of, a)}
    <3>1. \A q \in Listed(of, a) : p.projects[q][s] = {row \in got[s] : ProjectOf[row] = q}
      BY <1>3, <1>9, <2>1
    <3> QED
      BY <3>1
  <2>4. p.accounts[a][s] \cap p.unattributed[s] = {}
    BY <1>3, <1>9, <2>1
  <2>5. \A row \in p.accounts[a][s] : AccountOf[ProjectOf[row]] = a
    BY <1>9, <2>1
  <2> QED
    BY <2>1, <2>2, <2>3, <2>4, <2>5
<1> QED
  BY <1>11, <1>12 DEF AddsUpIn, accounts

LEMMA PictureTellsUnknown ==
  ASSUME NEW got \in Lists, NEW of \in Directories, Own(of), NEW s \in Sources,
         NEW p, Made(p, got, of)
  PROVE  UnknownIn(p, s)
<1>0. FiguresOf(p, got, of, s)
  BY Figured
<1>1. p.unavailable = Unavailable(got) /\ p.unreadable = Unreadable(of)
  BY DEF Made
<1>2. p.totals[s] = IF got[s] = Unknown THEN Unknown ELSE got[s]
  BY <1>0 DEF FiguresOf
<1>3. \A a \in Accounts : p.accounts[a][s] =
         IF got[s] = Unknown \/ of[a] = Unknown THEN Unknown
         ELSE {row \in got[s] : ProjectOf[row] \in Listed(of, a)}
  BY <1>0 DEF FiguresOf
<1>4. DOMAIN p.unattributed = {t \in Sources : got[t] # Unknown}
  BY <1>0 DEF FiguresOf
<1>5. \A a \in Accounts : got[s] # Unknown =>
         {row \in got[s] : ProjectOf[row] \in Listed(of, a)} # Unknown
  BY SnapshotAssumption DEF Lists
<1>6. p.totals[s] = Unknown => s \notin DOMAIN Utilisation(p)
  BY DEF Utilisation
<1> QED
  BY <1>1, <1>2, <1>3, <1>4, <1>5, <1>6 DEF UnknownIn, Unavailable, Unreadable

-----------------------------------------------------------------------------
(* The invariant. *)

\* A kept picture knows its age, and no kept picture has had its time.
Kept(entry, life, time, count) ==
    /\ entry.until \in Nat
    /\ entry # Gone =>
          /\ entry.until = entry.picture.builtAt + life
          /\ entry.until > time
          /\ entry.picture.builtAt \in 0..time
          /\ entry.picture.from \in 0..count
          /\ {"builtAt", "stale", "from"} \subseteq DOMAIN entry.picture
          /\ ~entry.picture.stale

KeptInv == Kept(fresh, TTL, now, changes) /\ Kept(fallback, FallbackTTL, now, changes)

\* An account's projects, of which only those younger than the directory may be
\* missing at a given time.
Serves(births, a, projects, time) ==
    /\ \A q \in projects : AccountOf[q] = a
    /\ \A q \in DOMAIN births :
          AccountOf[q] = a /\ q \notin projects => births[q] + DirectoryTTL >= time

DirectoryInv ==
    \A a \in Accounts : directory[a] # NotListed =>
        /\ directory[a].until \in (now + 1)..(now + DirectoryTTL)
        /\ Serves(born, a, directory[a].projects, directory[a].until)

\* A build has of the lists what was on the cluster, and what it has ends with it.
BuildOf(r) ==
    /\ at[r] # "read" => lists[r] = NoLists /\ listed[r] = NoneListed
    /\ from[r] \in 0..changes
    /\ \A s \in Sources : lists[r][s] \notin {Unknown, Pending} =>
          \A row \in lists[r][s] : ProjectOf[row] \in DOMAIN born
    /\ \A a \in Accounts : listed[r][a] \notin {Unknown, Pending} =>
          Serves(born, a, listed[r][a], now + 1)
    /\ at[r] = "keepFallback" => MadeNow(draft[r], from[r])

BuildInv == DOMAIN draft = Workers /\ \A r \in Workers : BuildOf(r)

FiguresInv ==
    \A p \in Pictures :
        /\ \A s \in Sources \ p.unavailable : AddsUpIn(p, s)
        /\ \A s \in Sources : UnknownIn(p, s) /\ YoungIn(p, s)

\* Whoever was shown his own picture, the second key has it or a later one.
BridgeInv ==
    now < built + FallbackTTL => fallback # Gone /\ fallback.until >= built + FallbackTTL

\* While builds do not cross, pictures only get newer on their way from a build to
\* the two keys and to the screens.
OneBuilder == \A q, r \in Workers : at[q] \in Building /\ at[r] \in Building => q = r
FreshAhead == fresh # Gone => fresh.picture.from >= seen
\* Between one build's two writes the second key is behind.
FallbackAhead ==
    (\A r \in Workers : at[r] # "keepFallback") =>
        /\ fallback # Gone => fallback.picture.from >= seen
        /\ fresh # Gone /\ fallback # Gone => fresh.picture.from = fallback.picture.from
ReaderAhead ==
    \A r \in Workers : at[r] = "read" =>
        /\ from[r] >= seen
        /\ fresh # Gone => from[r] >= fresh.picture.from
        /\ fallback # Gone => from[r] >= fallback.picture.from
WriterAhead ==
    \A r \in Workers : at[r] = "keepFallback" =>
        from[r] >= seen /\ fresh # Gone /\ fresh.picture.from = from[r]

OrderInv ==
    /\ \A r \in Workers : floor[r] <= seen
    /\ ~disturbed => OneBuilder /\ FreshAhead /\ FallbackAhead /\ ReaderAhead /\ WriterAhead

\* seen is never ahead of the cluster.
SeenInv == seen \in 0..changes

Inv == SnapshotTypeOK /\ KeptInv /\ DirectoryInv /\ BuildInv /\ FiguresInv /\ BridgeInv /\ OrderInv
          /\ SeenInv /\ NoGoingBack /\ OutageTells

-----------------------------------------------------------------------------
(* Types. *)

LEMMA Times ==
  /\ TTL \in Nat /\ TTL > 0 /\ FallbackTTL \in Nat /\ FallbackTTL > 0
  /\ DirectoryTTL \in Nat /\ DirectoryTTL > 0
BY SnapshotAssumption

LEMMA NoReads ==
  /\ NoLists \in [Sources -> {Unknown, Pending} \cup SUBSET Rows]
  /\ NoneListed \in [Accounts -> {Unknown, Pending} \cup SUBSET Projects]
BY DEF NoLists, NoneListed

LEMMA InitInv == Init => Inv
<1> SUFFICES ASSUME Init PROVE Inv
  OBVIOUS
<1>1. Pictures = {} /\ \A r \in Workers : at[r] = "new"
  BY DEF Init, Pictures
<1>2. fresh = Gone /\ fallback = Gone /\ \A a \in Accounts : directory[a] = NotListed
  BY DEF Init
<1>3. SnapshotTypeOK
  <2>1. /\ now \in Nat /\ rows \subseteq Rows /\ changes \in Nat /\ refusals \in Nat
        /\ DOMAIN born = Projects0 /\ born \in [DOMAIN born -> Nat] /\ DOMAIN born \subseteq Projects
        /\ \A row \in rows : ProjectOf[row] \in DOMAIN born
    BY SnapshotAssumption DEF Init
  <2>2. IsKept(fresh) /\ IsKept(fallback)
    BY <1>2 DEF IsKept, Gone
  <2>3. directory \in [Accounts -> [projects : SUBSET Projects, until : Nat]]
    BY DEF Init, NotListed
  <2>4. at \in [Workers -> Steps]
    BY DEF Init, Steps
  <2>5. /\ lists \in [Workers -> [Sources -> {Unknown, Pending} \cup SUBSET Rows]]
        /\ listed \in [Workers -> [Accounts -> {Unknown, Pending} \cup SUBSET Projects]]
    BY NoReads DEF Init
  <2>6. from \in [Workers -> Nat] /\ floor \in [Workers -> Nat] /\ seen \in Nat
    BY DEF Init
  <2>7. shown \in [answer : Answers, age : Int, from : Nat, floor : Nat]
    BY DEF Init, Silence, Answers
  <2>8. built \in Nat \cup {Never} /\ disturbed \in BOOLEAN
    BY DEF Init
  <2> QED
    BY <1>1, <2>1, <2>2, <2>3, <2>4, <2>5, <2>6, <2>7, <2>8 DEF SnapshotTypeOK
<1>4. KeptInv /\ DirectoryInv
  BY <1>2 DEF KeptInv, Kept, DirectoryInv, Gone
<1>5. BuildInv
  BY <1>1, SnapshotAssumption DEF Init, BuildInv, BuildOf, NoLists, NoneListed
<1>6. FiguresInv
  BY <1>1 DEF FiguresInv
<1>7. BridgeInv
  BY Times DEF Init, BridgeInv, Never
<1>8. OrderInv /\ SeenInv
  BY <1>1, <1>2 DEF Init, OrderInv, OneBuilder, FreshAhead, FallbackAhead, ReaderAhead, WriterAhead, SeenInv, Building
<1>9. NoGoingBack /\ OutageTells
  BY DEF Init, NoGoingBack, OutageTells, StaleTells, OutageShowsLastGood, Silence
<1> QED
  BY <1>3, <1>4, <1>5, <1>6, <1>7, <1>8, <1>9 DEF Inv

\* What an action does to a worker, and to no other.
LEMMA GoesFacts ==
  ASSUME SnapshotTypeOK, NEW r \in Workers, NEW step \in Steps, Goes(r, step)
  PROVE  at' \in [Workers -> Steps] /\ at'[r] = step /\ \A q \in Workers : q # r => at'[q] = at[q]
BY DEF SnapshotTypeOK, Goes

LEMMA ForgetsReadsFacts ==
  ASSUME SnapshotTypeOK, NEW r \in Workers, ForgetsReads(r)
  PROVE  /\ lists' \in [Workers -> [Sources -> {Unknown, Pending} \cup SUBSET Rows]]
         /\ listed' \in [Workers -> [Accounts -> {Unknown, Pending} \cup SUBSET Projects]]
         /\ lists'[r] = NoLists /\ listed'[r] = NoneListed
         /\ \A q \in Workers : q # r => lists'[q] = lists[q] /\ listed'[q] = listed[q]
BY NoReads DEF SnapshotTypeOK, ForgetsReads

LEMMA ForgetsFacts ==
  ASSUME SnapshotTypeOK, DOMAIN draft = Workers, NEW r \in Workers, Forgets(r)
  PROVE  /\ ForgetsReads(r)
         /\ from' \in [Workers -> Nat] /\ floor' \in [Workers -> Nat]
         /\ from'[r] = 0 /\ floor'[r] = 0 /\ DOMAIN draft' = Workers
         /\ \A q \in Workers : q # r => draft'[q] = draft[q] /\ from'[q] = from[q] /\ floor'[q] = floor[q]
BY DEF SnapshotTypeOK, Forgets

LEMMA ShowsFacts ==
  ASSUME SnapshotTypeOK, NEW picture, NEW least \in Nat, Shows(picture, least),
         picture.builtAt \in 0..now, picture.from \in Nat
  PROVE  /\ shown' \in [answer : Answers, age : Int, from : Nat, floor : Nat]
         /\ shown'.answer = (IF picture.stale THEN "stale" ELSE "good")
         /\ shown'.age = now - picture.builtAt /\ shown'.from = picture.from /\ shown'.floor = least
         /\ seen' \in {seen, picture.from} /\ seen' >= seen /\ seen' >= picture.from
<1>1. now \in Nat /\ seen \in Nat
  BY DEF SnapshotTypeOK
<1>2. /\ seen' \in {seen, picture.from} /\ seen' >= seen /\ seen' >= picture.from
  BY <1>1 DEF Shows
<1>3. (IF picture.stale THEN "stale" ELSE "good") \in Answers /\ now - picture.builtAt \in Int
  BY <1>1 DEF Answers
<1> QED
  BY <1>2, <1>3 DEF Shows

LEMMA ErrorFacts ==
  ASSUME SnapshotTypeOK, NEW least \in Nat, ShowsError(least)
  PROVE  /\ shown' \in [answer : Answers, age : Int, from : Nat, floor : Nat]
         /\ shown'.answer = "error" /\ shown'.age = now - built
         /\ seen' = seen
<1>1. now - built \in Int
  BY Times DEF SnapshotTypeOK, Never
<1> QED
  BY <1>1 DEF ShowsError, Answers

LEMMA SilentFacts ==
  ASSUME Silent
  PROVE  shown' \in [answer : Answers, age : Int, from : Nat, floor : Nat] /\ shown'.answer = "none"
BY DEF Silent, Silence, Answers

\* What is shown from the second key.
LEMMA StaleFacts ==
  ASSUME SnapshotTypeOK, KeptInv, fallback # Gone
  PROVE  LET p == AsStale(fallback.picture)
         IN  p.builtAt = fallback.picture.builtAt /\ p.from = fallback.picture.from /\ p.stale
BY DEF KeptInv, Kept, AsStale

LEMMA KeptFacts ==
  ASSUME SnapshotTypeOK, KeptInv
  PROVE  /\ fresh # Gone => /\ fresh.picture.builtAt \in 0..now /\ fresh.picture.from \in 0..changes
                            /\ ~fresh.picture.stale
         /\ fallback # Gone => /\ fallback.picture.builtAt \in 0..now /\ fallback.picture.from \in 0..changes
                               /\ ~fallback.picture.stale
BY DEF SnapshotTypeOK, KeptInv, Kept, IsKept

\* Pictures stay what they are while the cluster changes.
LEMMA PicturesKept ==
  ASSUME SnapshotTypeOK, now' = now, changes' \in Nat, changes' >= changes,
         \A q \in Workers : at'[q] = "keepFallback" => at[q] = "keepFallback" /\ draft'[q] = draft[q]
  PROVE  Pictures' \subseteq Pictures /\ \A p \in Pictures' : IsPicture(p)'
<1>1. Pictures' \subseteq Pictures
  BY DEF Pictures
<1>2. ASSUME NEW p, IsPicture(p)
      PROVE  IsPicture(p)'
  BY <1>2 DEF SnapshotTypeOK, IsPicture
<1> QED
  BY <1>1, <1>2 DEF SnapshotTypeOK

\* The type invariant in parts: the cloud, the cache, the workers, what was shown.
CloudOK ==
    /\ now \in Nat
    /\ rows \subseteq Rows
    /\ DOMAIN born \subseteq Projects /\ born \in [DOMAIN born -> Nat]
    /\ \A row \in rows : ProjectOf[row] \in DOMAIN born
    /\ changes \in Nat /\ refusals \in Nat

CacheOK ==
    /\ IsKept(fresh) /\ IsKept(fallback)
    /\ directory \in [Accounts -> [projects : SUBSET Projects, until : Nat]]

WorkersOK ==
    /\ at \in [Workers -> Steps]
    /\ lists \in [Workers -> [Sources -> {Unknown, Pending} \cup SUBSET Rows]]
    /\ listed \in [Workers -> [Accounts -> {Unknown, Pending} \cup SUBSET Projects]]
    /\ from \in [Workers -> Nat]
    /\ floor \in [Workers -> Nat]

ShownOK ==
    /\ seen \in Nat
    /\ shown \in [answer : Answers, age : Int, from : Nat, floor : Nat]
    /\ built \in Nat \cup {Never}
    /\ disturbed \in BOOLEAN

LEMMA TypeParts ==
  SnapshotTypeOK <=> CloudOK /\ CacheOK /\ WorkersOK /\ ShownOK /\ \A p \in Pictures : IsPicture(p)
BY DEF SnapshotTypeOK, CloudOK, CacheOK, WorkersOK, ShownOK

LEMMA CloudStep ==
  ASSUME SnapshotTypeOK, Next
  PROVE  CloudOK' /\ changes' >= changes
<1>0. CloudOK
  BY TypeParts
<1>1. ASSUME NEW r \in Workers,
             \/ LookUp(r) \/ Ask(r) \/ GiveUp(r) \/ Keep(r) \/ KeepFallback(r) \/ FallBack(r) \/ Die(r)
             \/ \E s \in Sources : ReadList(r, s)
             \/ \E a \in Accounts : ReadProjects(r, a)
      PROVE  CloudOK' /\ changes' >= changes
  <2>1. UNCHANGED <<now, rows, born, changes>> /\ (UNCHANGED refusals \/ refusals' = refusals + 1)
    BY <1>1 DEF LookUp, Ask, GiveUp, Keep, KeepFallback, FallBack, Die, ReadList, ReadProjects,
                cloudVars, clusterVars, Answered, Refused
  <2> QED
    BY <1>0, <2>1 DEF CloudOK
<1>2. ASSUME NEW q \in Projects, NewProject(q)
      PROVE  CloudOK' /\ changes' >= changes
  <2>1. PICK made \in SUBSET {row \in Rows : ProjectOf[row] = q} : rows' = rows \cup made
    BY <1>2 DEF NewProject
  <2>2. born' = [p \in DOMAIN born \cup {q} |-> IF p = q THEN now ELSE born[p]]
    BY <1>2 DEF NewProject
  <2>3. DOMAIN born' = DOMAIN born \cup {q} /\ born' \in [DOMAIN born' -> Nat]
    BY <1>0, <2>2 DEF CloudOK
  <2>4. rows' \subseteq Rows /\ \A row \in rows' : ProjectOf[row] \in DOMAIN born'
    BY <1>0, <2>1, <2>3 DEF CloudOK
  <2> QED
    BY <1>0, <1>2, <2>3, <2>4 DEF CloudOK, NewProject, Changes
<1>3. ASSUME NEW row \in Rows, RowChanges(row)
      PROVE  CloudOK' /\ changes' >= changes
  BY <1>0, <1>3 DEF CloudOK, RowChanges, Changes
<1>4. ASSUME Tick
      PROVE  CloudOK' /\ changes' >= changes
  BY <1>0, <1>4 DEF CloudOK, Tick, cloudVars, clusterVars
<1> QED
  BY <1>1, <1>2, <1>3, <1>4 DEF Next

LEMMA DraftKept ==
  ASSUME SnapshotTypeOK, BuildInv, Next
  PROVE  DOMAIN draft' = Workers
<1>1. DOMAIN draft = Workers
  BY DEF BuildInv
<1>2. ASSUME NEW r \in Workers, Forgets(r) \/ Keep(r) \/ UNCHANGED draft
      PROVE  DOMAIN draft' = Workers
  BY <1>1, <1>2 DEF Forgets, Keep
<1>3. ASSUME UNCHANGED draft
      PROVE  DOMAIN draft' = Workers
  BY <1>1, <1>3
<1>4. ASSUME NEW r \in Workers,
             \/ LookUp(r) \/ Ask(r) \/ GiveUp(r) \/ Keep(r) \/ KeepFallback(r) \/ FallBack(r) \/ Die(r)
             \/ \E s \in Sources : ReadList(r, s)
             \/ \E a \in Accounts : ReadProjects(r, a)
      PROVE  DOMAIN draft' = Workers
  <2>1. Forgets(r) \/ Keep(r) \/ UNCHANGED draft
    BY <1>4 DEF LookUp, Ask, GiveUp, KeepFallback, FallBack, Die, ReadList, ReadProjects
  <2> QED
    BY <2>1, <1>2
<1>5. (\E p \in Projects : NewProject(p)) \/ (\E row \in Rows : RowChanges(row)) \/ Tick => UNCHANGED draft
  BY DEF NewProject, RowChanges, Tick, workerVars
<1> QED
  BY <1>3, <1>4, <1>5 DEF Next

LEMMA WorkersStep ==
  ASSUME SnapshotTypeOK, BuildInv, Next
  PROVE  WorkersOK'
<1>0. WorkersOK /\ CloudOK /\ CacheOK /\ ShownOK /\ DOMAIN draft = Workers
  BY TypeParts DEF BuildInv
<1>1. ASSUME NEW r \in Workers, LookUp(r) PROVE WorkersOK'
  <2>1. at' \in [Workers -> Steps]
    BY <1>1, GoesFacts DEF LookUp, Steps
  <2>2. floor' \in [Workers -> Nat]
    BY <1>0, <1>1 DEF LookUp, WorkersOK, ShownOK
  <2> QED
    BY <1>0, <1>1, <2>1, <2>2 DEF LookUp, WorkersOK
<1>2. ASSUME NEW r \in Workers, Ask(r) PROVE WorkersOK'
  <2>1. at' \in [Workers -> Steps]
    BY <1>2, GoesFacts DEF Ask, Steps
  <2>2. from' \in [Workers -> Nat]
    BY <1>0, <1>2 DEF Ask, WorkersOK, CloudOK
  <2> QED
    BY <1>0, <1>2, <2>1, <2>2 DEF Ask, WorkersOK
<1>3. ASSUME NEW r \in Workers, NEW s \in Sources, ReadList(r, s) PROVE WorkersOK'
  <2>1. {row \in rows : SourceOf[row] = s} \in SUBSET Rows
    BY <1>0 DEF CloudOK
  <2>2. PICK got \in {Unknown} \cup SUBSET Rows : lists' = [lists EXCEPT ![r][s] = got]
    BY <1>3, <2>1 DEF ReadList
  <2>3. lists' \in [Workers -> [Sources -> {Unknown, Pending} \cup SUBSET Rows]]
    BY <1>0, <2>2 DEF WorkersOK
  <2> QED
    BY <1>0, <1>3, <2>3 DEF ReadList, WorkersOK
<1>4. ASSUME NEW r \in Workers, GiveUp(r) PROVE WorkersOK'
  <2>1. at' \in [Workers -> Steps]
    BY <1>4, GoesFacts DEF GiveUp, Steps
  <2>2. from' \in [Workers -> Nat]
    BY <1>0, <1>4 DEF GiveUp, WorkersOK
  <2> QED
    BY <1>0, <1>4, <2>1, <2>2, ForgetsReadsFacts DEF GiveUp, WorkersOK
<1>5. ASSUME NEW r \in Workers, NEW a \in Accounts, ReadProjects(r, a) PROVE WorkersOK'
  <2>1. directory[a].projects \in SUBSET Projects /\ {q \in DOMAIN born : AccountOf[q] = a} \in SUBSET Projects
    BY <1>0 DEF CacheOK, CloudOK
  <2>2. PICK got \in {Unknown} \cup SUBSET Projects : listed' = [listed EXCEPT ![r][a] = got]
    BY <1>5, <2>1 DEF ReadProjects
  <2>3. listed' \in [Workers -> [Accounts -> {Unknown, Pending} \cup SUBSET Projects]]
    BY <1>0, <2>2 DEF WorkersOK
  <2> QED
    BY <1>0, <1>5, <2>3 DEF ReadProjects, WorkersOK
<1>6. ASSUME NEW r \in Workers, Keep(r) PROVE WorkersOK'
  <2>1. at' \in [Workers -> Steps]
    BY <1>6, GoesFacts DEF Keep, Steps
  <2> QED
    BY <1>0, <1>6, <2>1, ForgetsReadsFacts DEF Keep, WorkersOK
<1>7. ASSUME NEW r \in Workers, KeepFallback(r) \/ FallBack(r) \/ Die(r) PROVE WorkersOK'
  <2>1. Goes(r, "new") /\ Forgets(r)
    BY <1>7 DEF KeepFallback, FallBack, Die
  <2>2. at' \in [Workers -> Steps]
    BY <2>1, GoesFacts DEF Steps
  <2> QED
    BY <1>0, <2>1, <2>2, ForgetsFacts, ForgetsReadsFacts DEF WorkersOK
<1>8. (\E p \in Projects : NewProject(p)) \/ (\E row \in Rows : RowChanges(row)) \/ Tick
        => UNCHANGED <<at, workerVars>>
  BY DEF NewProject, RowChanges, Tick
<1>9. UNCHANGED <<at, workerVars>> => WorkersOK'
  BY <1>0 DEF WorkersOK, workerVars
<1> QED
  BY <1>1, <1>2, <1>3, <1>4, <1>5, <1>6, <1>7, <1>8, <1>9 DEF Next

\* A build that has read everything, and the picture it makes.
LEMMA KeepFacts ==
  ASSUME SnapshotTypeOK, BuildInv, NEW r \in Workers, Keep(r)
  PROVE  /\ lists[r] \in Lists /\ listed[r] \in Directories /\ Own(listed[r])
         /\ lists[r][Vital] # Unknown
         /\ Made(draft'[r], lists[r], listed[r]) /\ MadeNow(draft'[r], from[r])
         /\ fresh' = [picture |-> draft'[r], until |-> now + TTL]
         /\ at[r] = "read" /\ at'[r] = "keepFallback"
         /\ \A q \in Workers : q # r => at'[q] = at[q] /\ draft'[q] = draft[q]
<1>1. /\ lists[r] \in [Sources -> {Unknown, Pending} \cup SUBSET Rows]
      /\ listed[r] \in [Accounts -> {Unknown, Pending} \cup SUBSET Projects]
      /\ DOMAIN draft = Workers
  BY DEF SnapshotTypeOK, BuildInv
<1>2. /\ at[r] = "read" /\ \A s \in Sources : lists[r][s] # Pending
      /\ lists[r][Vital] # Unknown /\ \A a \in Accounts : listed[r][a] # Pending
  BY DEF Keep, Readable, AllRead
<1>3. lists[r] \in Lists /\ listed[r] \in Directories
  BY <1>1, <1>2 DEF Lists, Directories
<1>4. Own(listed[r])
  BY <1>2 DEF BuildInv, BuildOf, Serves, Own
<1>5. /\ draft' = [draft EXCEPT ![r] = Picture(lists[r], listed[r], from[r])]
      /\ fresh' = [picture |-> Picture(lists[r], listed[r], from[r]), until |-> now + TTL]
  BY DEF Keep
<1>6. /\ draft'[r] = Picture(lists[r], listed[r], from[r])
      /\ \A q \in Workers : q # r => draft'[q] = draft[q]
  BY <1>1, <1>5
<1>7. Made(draft'[r], lists[r], listed[r]) /\ MadeNow(draft'[r], from[r])
  BY <1>6, PictureMade
<1>8. at'[r] = "keepFallback" /\ \A q \in Workers : q # r => at'[q] = at[q]
  BY GoesFacts DEF Keep, Steps
<1> QED
  BY <1>2, <1>3, <1>4, <1>5, <1>6, <1>7, <1>8

\* A picture that was just made is kept.
LEMMA JustKept ==
  ASSUME now \in Nat, NEW p, NEW since \in 0..changes, MadeNow(p, since), NEW life \in Nat, life > 0,
         NEW entry, entry = [picture |-> p, until |-> now + life]
  PROVE  Kept(entry, life, now, changes) /\ entry # Gone
<1>1. entry.until = now + life /\ entry.picture = p
  OBVIOUS
<1>2. entry # Gone
  BY <1>1 DEF Gone
<1> QED
  BY <1>1, <1>2 DEF Kept, MadeNow

\* Nothing but a build and time change what is kept.
LEMMA StillKept ==
  ASSUME NEW entry, NEW life, NEW time, NEW count \in Nat, NEW more \in Nat, more >= count,
         Kept(entry, life, time, count)
  PROVE  Kept(entry, life, time, more)
BY DEF Kept

LEMMA KeptStep ==
  ASSUME SnapshotTypeOK, BuildInv, KeptInv, Next
  PROVE  KeptInv'
<1>0. now \in Nat /\ changes \in Nat
  BY DEF SnapshotTypeOK
<1>1. changes' \in Nat /\ changes' >= changes
  BY CloudStep DEF CloudOK
<1>2. ASSUME now' = now, fresh' = fresh
      PROVE  Kept(fresh', TTL, now', changes')
  BY <1>0, <1>1, <1>2, StillKept DEF KeptInv
<1>3. ASSUME now' = now, fallback' = fallback
      PROVE  Kept(fallback', FallbackTTL, now', changes')
  BY <1>0, <1>1, <1>3, StillKept DEF KeptInv
<1>4. ASSUME NEW r \in Workers, Keep(r)
      PROVE  KeptInv'
  <2>1. UNCHANGED <<now, changes, fallback>>
    BY <1>4 DEF Keep, cloudVars, clusterVars
  <2>2. from[r] \in 0..changes
    BY DEF BuildInv, BuildOf
  <2>3. Kept(fresh', TTL, now, changes)
    BY <1>0, <1>4, <2>2, KeepFacts, JustKept, Times
  <2> QED
    BY <2>1, <2>3, <1>3 DEF KeptInv
<1>5. ASSUME NEW r \in Workers, KeepFallback(r)
      PROVE  KeptInv'
  <2>1. UNCHANGED <<now, changes, fresh>> /\ fallback' = [picture |-> draft[r], until |-> now + FallbackTTL]
    BY <1>5 DEF KeepFallback, cloudVars, clusterVars
  <2>2. from[r] \in 0..changes /\ MadeNow(draft[r], from[r])
    BY <1>5 DEF BuildInv, BuildOf, KeepFallback
  <2>3. Kept(fallback', FallbackTTL, now, changes)
    BY <1>0, <2>1, <2>2, JustKept, Times
  <2> QED
    BY <2>1, <2>3, <1>2 DEF KeptInv
<1>6. ASSUME Tick
      PROVE  KeptInv'
  <2>1. now' = now + 1 /\ changes' = changes
    BY <1>6 DEF Tick, cloudVars, clusterVars
  <2>2. ASSUME NEW old, NEW new, NEW life, Kept(old, life, now, changes),
               new = IF old.until > now' THEN old ELSE Gone
        PROVE  Kept(new, life, now', changes')
    <3>1. CASE old.until > now'
      BY <1>0, <2>1, <2>2, <3>1 DEF Kept
    <3>2. CASE ~(old.until > now')
      <4>1. new = Gone /\ Gone.until \in Nat
        BY <2>2, <3>2 DEF Gone
      <4> QED
        BY <4>1 DEF Kept
    <3> QED
      BY <3>1, <3>2
  <2>3. /\ fresh' = IF fresh.until > now' THEN fresh ELSE Gone
        /\ fallback' = IF fallback.until > now' THEN fallback ELSE Gone
    BY <1>6 DEF Tick
  <2> QED
    BY <2>2, <2>3 DEF KeptInv
<1>7. ASSUME UNCHANGED <<now, fresh, fallback>>
      PROVE  KeptInv'
  BY <1>2, <1>3, <1>7 DEF KeptInv
<1>8. ASSUME NEW r \in Workers,
             \/ LookUp(r) \/ Ask(r) \/ GiveUp(r) \/ FallBack(r) \/ Die(r)
             \/ \E s \in Sources : ReadList(r, s)
             \/ \E a \in Accounts : ReadProjects(r, a)
      PROVE  UNCHANGED <<now, fresh, fallback>>
  BY <1>8 DEF LookUp, Ask, GiveUp, FallBack, Die, ReadList, ReadProjects, cacheVars
<1>9. (\E p \in Projects : NewProject(p)) \/ (\E row \in Rows : RowChanges(row))
        => UNCHANGED <<now, fresh, fallback>>
  BY DEF NewProject, RowChanges, cacheVars
<1> QED
  BY <1>4, <1>5, <1>6, <1>7, <1>8, <1>9 DEF Next

\* Projects come, and stay since when they are.
LEMMA BornGrows ==
  ASSUME SnapshotTypeOK, Next
  PROVE  DOMAIN born \subseteq DOMAIN born' /\ \A q \in DOMAIN born : born'[q] = born[q]
<1>1. ASSUME NEW p \in Projects, NewProject(p)
      PROVE  DOMAIN born \subseteq DOMAIN born' /\ \A q \in DOMAIN born : born'[q] = born[q]
  BY <1>1 DEF NewProject
<1>2. ASSUME NEW r \in Workers,
             \/ LookUp(r) \/ Ask(r) \/ GiveUp(r) \/ Keep(r) \/ KeepFallback(r) \/ FallBack(r) \/ Die(r)
             \/ \E s \in Sources : ReadList(r, s)
             \/ \E b \in Accounts : ReadProjects(r, b)
      PROVE  UNCHANGED born
  BY <1>2 DEF LookUp, Ask, GiveUp, Keep, KeepFallback, FallBack, Die, ReadList, ReadProjects,
              cloudVars, clusterVars
<1>3. (\E row \in Rows : RowChanges(row)) \/ Tick => UNCHANGED born
  BY DEF RowChanges, Tick, cloudVars, clusterVars
<1> QED
  BY <1>1, <1>2, <1>3 DEF Next

\* What is missing in a directory is no older for a project that comes.
LEMMA ServesKept ==
  ASSUME SnapshotTypeOK, Next, NEW a \in Accounts, NEW projects, NEW time \in Nat, Serves(born, a, projects, time),
         time <= now + DirectoryTTL
  PROVE  Serves(born', a, projects, time)
<1>1. born \in [DOMAIN born -> Nat] /\ now \in Nat
  BY DEF SnapshotTypeOK
<1>2. ASSUME UNCHANGED born
      PROVE  Serves(born', a, projects, time)
  BY <1>2 DEF Serves
<1>3. ASSUME NEW p \in Projects, NewProject(p)
      PROVE  Serves(born', a, projects, time)
  <2>1. /\ DOMAIN born' = DOMAIN born \cup {p}
        /\ \A q \in DOMAIN born' : born'[q] = IF q = p THEN now ELSE born[q]
    BY <1>3 DEF NewProject
  <2> QED
    BY <1>1, <2>1, Times DEF Serves
<1>4. ASSUME NEW r \in Workers,
             \/ LookUp(r) \/ Ask(r) \/ GiveUp(r) \/ Keep(r) \/ KeepFallback(r) \/ FallBack(r) \/ Die(r)
             \/ \E s \in Sources : ReadList(r, s)
             \/ \E b \in Accounts : ReadProjects(r, b)
      PROVE  UNCHANGED born
  BY <1>4 DEF LookUp, Ask, GiveUp, Keep, KeepFallback, FallBack, Die, ReadList, ReadProjects,
              cloudVars, clusterVars
<1>5. (\E row \in Rows : RowChanges(row)) \/ Tick => UNCHANGED born
  BY DEF RowChanges, Tick, cloudVars, clusterVars
<1> QED
  BY <1>2, <1>3, <1>4, <1>5 DEF Next

\* The answer of the cloud misses nothing.
LEMMA JustListed ==
  ASSUME NEW a \in Accounts, NEW time
  PROVE  Serves(born, a, {p \in DOMAIN born : AccountOf[p] = a}, time)
BY DEF Serves

LEMMA DirectoryStep ==
  ASSUME SnapshotTypeOK, DirectoryInv, Next
  PROVE  DirectoryInv' /\ directory' \in [Accounts -> [projects : SUBSET Projects, until : Nat]]
<1>0. /\ now \in Nat /\ directory \in [Accounts -> [projects : SUBSET Projects, until : Nat]]
      /\ DOMAIN born \subseteq Projects
  BY DEF SnapshotTypeOK
<1>1. ASSUME NEW a \in Accounts, directory[a] # NotListed
      PROVE  /\ Serves(born', a, directory[a].projects, directory[a].until)
             /\ directory[a].until \in (now + 1)..(now + DirectoryTTL)
  <2>1. /\ Serves(born, a, directory[a].projects, directory[a].until)
        /\ directory[a].until \in (now + 1)..(now + DirectoryTTL)
    BY <1>1 DEF DirectoryInv
  <2> QED
    BY <1>0, <2>1, ServesKept, Times
<1>2. ASSUME UNCHANGED <<directory, now>>
      PROVE  DirectoryInv' /\ directory' \in [Accounts -> [projects : SUBSET Projects, until : Nat]]
  BY <1>0, <1>1, <1>2 DEF DirectoryInv
<1>3. ASSUME NEW r \in Workers, NEW a \in Accounts, ReadProjects(r, a)
      PROVE  DirectoryInv' /\ directory' \in [Accounts -> [projects : SUBSET Projects, until : Nat]]
  <2> DEFINE there == {p \in DOMAIN born : AccountOf[p] = a}
  <2>1. UNCHANGED <<now, born>>
    BY <1>3 DEF ReadProjects, clusterVars
  <2>2. CASE UNCHANGED directory
    BY <1>2, <2>1, <2>2
  <2>3. CASE directory' = [directory EXCEPT ![a] = [projects |-> there, until |-> now + DirectoryTTL]]
    <3>1. there \in SUBSET Projects /\ now + DirectoryTTL \in (now + 1)..(now + DirectoryTTL)
      BY <1>0, Times
    <3>2. /\ directory'[a].projects = there /\ directory'[a].until = now + DirectoryTTL
          /\ \A b \in Accounts : b # a => directory'[b] = directory[b]
      BY <1>0, <2>3
    <3>3. Serves(born', a, there, now + DirectoryTTL)
      BY <2>1, JustListed
    <3>4. directory' \in [Accounts -> [projects : SUBSET Projects, until : Nat]]
      BY <1>0, <2>3, <3>1, Times
    <3> HIDE DEF there
    <3> QED
      BY <1>1, <2>1, <3>1, <3>2, <3>3, <3>4 DEF DirectoryInv
  <2> QED
    BY <1>3, <2>2, <2>3 DEF ReadProjects
<1>4. ASSUME Tick
      PROVE  DirectoryInv' /\ directory' \in [Accounts -> [projects : SUBSET Projects, until : Nat]]
  <2>1. /\ now' = now + 1
        /\ directory' = [a \in Accounts |-> IF directory[a].until > now' THEN directory[a] ELSE NotListed]
    BY <1>4 DEF Tick
  <2>2. NotListed \in [projects : SUBSET Projects, until : Nat]
    BY DEF NotListed
  <2>3. directory' \in [Accounts -> [projects : SUBSET Projects, until : Nat]]
    BY <1>0, <2>1, <2>2
  <2>4. ASSUME NEW a \in Accounts, directory'[a] # NotListed
        PROVE  /\ directory'[a].until \in (now' + 1)..(now' + DirectoryTTL)
               /\ Serves(born', a, directory'[a].projects, directory'[a].until)
    <3>1. directory[a].until > now' /\ directory'[a] = directory[a]
      BY <2>1, <2>4
    <3> QED
      BY <1>0, <1>1, <2>1, <2>4, <3>1, Times
  <2> QED
    BY <2>3, <2>4 DEF DirectoryInv
<1>5. ASSUME NEW r \in Workers,
             \/ LookUp(r) \/ Ask(r) \/ GiveUp(r) \/ Keep(r) \/ KeepFallback(r) \/ FallBack(r) \/ Die(r)
             \/ \E s \in Sources : ReadList(r, s)
      PROVE  UNCHANGED <<directory, now>>
  BY <1>5 DEF LookUp, Ask, GiveUp, Keep, KeepFallback, FallBack, Die, ReadList, cacheVars
<1>6. (\E p \in Projects : NewProject(p)) \/ (\E row \in Rows : RowChanges(row)) => UNCHANGED <<directory, now>>
  BY DEF NewProject, RowChanges, cacheVars
<1> QED
  BY <1>2, <1>3, <1>4, <1>5, <1>6 DEF Next

\* A worker that does nothing has what it had.
LEMMA Bystander ==
  ASSUME SnapshotTypeOK, BuildInv, Next, now' = now, NEW q \in Workers,
         at'[q] = at[q], lists'[q] = lists[q], listed'[q] = listed[q], draft'[q] = draft[q], from'[q] = from[q]
  PROVE  BuildOf(q)'
<1>0. now \in Nat /\ changes \in Nat
  BY DEF SnapshotTypeOK
<1>1. changes' \in Nat /\ changes' >= changes
  BY CloudStep DEF CloudOK
<1>2. DOMAIN born \subseteq DOMAIN born'
  BY BornGrows
<1>3. BuildOf(q)
  BY DEF BuildInv
<1>4. \A a \in Accounts : listed[q][a] \notin {Unknown, Pending} => Serves(born', a, listed[q][a], now + 1)
  BY <1>0, <1>3, ServesKept, Times DEF BuildOf
<1>5. at[q] = "keepFallback" => MadeNow(draft[q], from[q])'
  BY <1>3 DEF BuildOf, MadeNow
<1> QED
  BY <1>0, <1>1, <1>2, <1>3, <1>4, <1>5 DEF BuildOf, MadeNow

\* One that has nothing in hand.
LEMMA Idle ==
  ASSUME SnapshotTypeOK, NEW r \in Workers, at'[r] \notin {"read", "keepFallback"},
         lists'[r] = NoLists, listed'[r] = NoneListed, from'[r] = 0, changes' \in Nat
  PROVE  BuildOf(r)'
BY DEF BuildOf, NoLists, NoneListed

LEMMA BuildStep ==
  ASSUME SnapshotTypeOK, BuildInv, DirectoryInv, Next
  PROVE  BuildInv'
<1>0. /\ now \in Nat /\ changes \in Nat /\ DOMAIN draft = Workers /\ \A r \in Workers : BuildOf(r)
      /\ WorkersOK /\ CloudOK
  BY TypeParts DEF SnapshotTypeOK, BuildInv
<1>1. SUFFICES ASSUME NEW q \in Workers PROVE BuildOf(q)'
  BY DraftKept DEF BuildInv
<1>2. changes' \in Nat /\ changes' >= changes
  BY CloudStep DEF CloudOK
<1>3. ASSUME NEW r \in Workers, LookUp(r) PROVE BuildOf(q)'
  <2>1. /\ now' = now /\ UNCHANGED <<lists, listed, draft, from, born, changes>>
        /\ at[r] = "new" /\ at'[r] \in {"new", "ask"} /\ (q # r => at'[q] = at[q])
    BY <1>3, GoesFacts DEF LookUp, cloudVars, clusterVars, Steps
  <2>2. CASE q = r
    BY <1>0, <2>1, <2>2 DEF BuildOf
  <2> QED
    BY <2>1, <2>2, Bystander
<1>4. ASSUME NEW r \in Workers, Ask(r) PROVE BuildOf(q)'
  <2>1. /\ now' = now /\ UNCHANGED <<lists, listed, draft, born, changes>>
        /\ at[r] = "ask" /\ at'[r] \in {"read", "fallBack"} /\ (q # r => at'[q] = at[q])
        /\ from' = from \/ from' = [from EXCEPT ![r] = changes]
    BY <1>4, GoesFacts DEF Ask, clusterVars, Steps
  <2>2. CASE q = r
    <3>1. lists[r] = NoLists /\ listed[r] = NoneListed /\ from'[r] \in 0..changes
      BY <1>0, <2>1 DEF BuildOf, WorkersOK
    <3> QED
      BY <2>1, <2>2, <3>1 DEF BuildOf, NoLists, NoneListed
  <2>3. q # r => from'[q] = from[q]
    BY <1>0, <2>1 DEF WorkersOK
  <2> QED
    BY <2>1, <2>2, <2>3, Bystander
<1>5. ASSUME NEW r \in Workers, NEW s \in Sources, ReadList(r, s) PROVE BuildOf(q)'
  <2>1. /\ now' = now /\ UNCHANGED <<at, listed, draft, from, born, changes, rows>> /\ at[r] = "read"
        /\ \E got \in {Unknown, {row \in rows : SourceOf[row] = s}} : lists' = [lists EXCEPT ![r][s] = got]
    BY <1>5 DEF ReadList, clusterVars
  <2>2. PICK got \in {Unknown, {row \in rows : SourceOf[row] = s}} : lists' = [lists EXCEPT ![r][s] = got]
    BY <2>1
  <2>3. /\ q # r => lists'[q] = lists[q]
        /\ lists'[r][s] = got /\ \A t \in Sources \ {s} : lists'[r][t] = lists[r][t]
    BY <1>0, <2>2 DEF WorkersOK
  <2>4. CASE q = r
    <3>1. got # Unknown => \A row \in got : ProjectOf[row] \in DOMAIN born
      BY <1>0, <2>2 DEF CloudOK
    <3>2. BuildOf(r)
      BY <1>0
    <3> QED
      BY <2>1, <2>3, <2>4, <3>1, <3>2 DEF BuildOf
  <2> QED
    BY <2>1, <2>3, <2>4, Bystander
<1>6. ASSUME NEW r \in Workers, GiveUp(r) PROVE BuildOf(q)'
  <2>1. /\ now' = now /\ UNCHANGED <<draft, changes>> /\ ForgetsReads(r) /\ from' = [from EXCEPT ![r] = 0]
        /\ at'[r] = "fallBack" /\ (q # r => at'[q] = at[q])
    BY <1>6, GoesFacts DEF GiveUp, cloudVars, clusterVars, Steps
  <2>2. from'[r] = 0 /\ (q # r => from'[q] = from[q])
    BY <1>0, <2>1 DEF WorkersOK
  <2> QED
    BY <1>2, <2>1, <2>2, ForgetsReadsFacts, Bystander, Idle
<1>7. ASSUME NEW r \in Workers, NEW a \in Accounts, ReadProjects(r, a) PROVE BuildOf(q)'
  <2> DEFINE there == {p \in DOMAIN born : AccountOf[p] = a}
  <2>1. /\ now' = now /\ UNCHANGED <<at, lists, draft, from, born, changes>> /\ at[r] = "read"
        /\ \E got : /\ listed' = [listed EXCEPT ![r][a] = got]
                    /\ \/ got \in {Unknown, there}
                       \/ got = directory[a].projects /\ directory[a] # NotListed
    BY <1>7 DEF ReadProjects, clusterVars, Readable, AllRead
  <2>2. PICK got : /\ listed' = [listed EXCEPT ![r][a] = got]
                   /\ \/ got \in {Unknown, there}
                      \/ got = directory[a].projects /\ directory[a] # NotListed
    BY <2>1
  <2>3. /\ q # r => listed'[q] = listed[q]
        /\ listed'[r][a] = got /\ \A b \in Accounts \ {a} : listed'[r][b] = listed[r][b]
    BY <1>0, <2>2 DEF WorkersOK
  <2>4. CASE q = r
    <3>1. got = there => Serves(born, a, got, now + 1)
      BY JustListed
    <3> HIDE DEF there
    <3>2. got = directory[a].projects /\ directory[a] # NotListed => Serves(born, a, got, now + 1)
      <4>1. ASSUME directory[a] # NotListed
            PROVE  Serves(born, a, directory[a].projects, now + 1)
        <5>1. /\ Serves(born, a, directory[a].projects, directory[a].until)
              /\ directory[a].until \in (now + 1)..(now + DirectoryTTL)
          BY <4>1 DEF DirectoryInv
        <5>2. born \in [DOMAIN born -> Nat]
          BY <1>0 DEF CloudOK
        <5> QED
          BY <1>0, <5>1, <5>2, Times DEF Serves
      <4> QED
        BY <4>1
    <3>3. got # Unknown => Serves(born, a, got, now + 1)
      BY <2>2, <3>1, <3>2
    <3>4. BuildOf(r)
      BY <1>0
    <3>5. \A b \in Accounts : listed'[r][b] \notin {Unknown, Pending} => Serves(born, b, listed'[r][b], now + 1)
      BY <2>3, <3>3, <3>4 DEF BuildOf
    <3> QED
      BY <2>1, <2>4, <3>4, <3>5 DEF BuildOf
  <2> QED
    BY <2>1, <2>3, <2>4, Bystander
<1>8. ASSUME NEW r \in Workers, Keep(r) PROVE BuildOf(q)'
  <2>1. /\ now' = now /\ UNCHANGED <<from, born, changes>> /\ ForgetsReads(r)
        /\ at'[r] = "keepFallback" /\ MadeNow(draft'[r], from[r])
        /\ (q # r => at'[q] = at[q] /\ draft'[q] = draft[q])
    BY <1>8, KeepFacts DEF Keep, cloudVars, clusterVars
  <2>2. CASE q = r
    <3>1. from[r] \in 0..changes
      BY <1>0 DEF BuildOf
    <3>2. lists'[r] = NoLists /\ listed'[r] = NoneListed
      BY <2>1, ForgetsReadsFacts
    <3>3. MadeNow(draft[r], from[r])'
      BY <2>1 DEF MadeNow
    <3> QED
      BY <2>1, <2>2, <3>1, <3>2, <3>3 DEF BuildOf, NoLists, NoneListed
  <2> QED
    BY <2>1, <2>2, ForgetsReadsFacts, Bystander
<1>9. ASSUME NEW r \in Workers, KeepFallback(r) \/ FallBack(r) \/ Die(r) PROVE BuildOf(q)'
  <2>1. now' = now /\ Goes(r, "new") /\ Forgets(r)
    BY <1>9 DEF KeepFallback, FallBack, Die
  <2>2. at'[r] = "new" /\ (q # r => at'[q] = at[q])
    BY <2>1, GoesFacts DEF Steps
  <2> QED
    BY <1>0, <1>2, <2>1, <2>2, ForgetsFacts, ForgetsReadsFacts, Bystander, Idle
<1>10. ASSUME (\E p \in Projects : NewProject(p)) \/ (\E row \in Rows : RowChanges(row)) PROVE BuildOf(q)'
  <2>1. UNCHANGED <<now, at, workerVars>>
    BY <1>10 DEF NewProject, RowChanges
  <2> QED
    BY <2>1, Bystander DEF workerVars
<1>11. ASSUME Tick PROVE BuildOf(q)'
  <2>1. UNCHANGED <<at, workerVars, changes, born>> /\ at[q] = "new"
    BY <1>11 DEF Tick, cloudVars, clusterVars
  <2>2. lists[q] = NoLists /\ listed[q] = NoneListed /\ from[q] \in 0..changes
    BY <1>0, <2>1 DEF BuildOf
  <2> QED
    BY <2>1, <2>2 DEF BuildOf, workerVars, NoLists, NoneListed
<1> QED
  BY <1>3, <1>4, <1>5, <1>6, <1>7, <1>8, <1>9, <1>10, <1>11 DEF Next

-----------------------------------------------------------------------------
(* Figures. *)

\* The rows of nobody in a new picture are of young projects: every account's list
\* misses no other.
LEMMA PictureYoung ==
  ASSUME SnapshotTypeOK, BuildInv, NEW r \in Workers, Keep(r), NEW s \in Sources
  PROVE  YoungIn(draft'[r], s)
<1> DEFINE p == draft'[r]
           got == lists[r]
           of == listed[r]
<1>1. /\ got \in Lists /\ of \in Directories /\ Own(of) /\ Made(p, got, of) /\ MadeNow(p, from[r])
  BY KeepFacts
<1>2. FiguresOf(p, got, of, s)
  BY <1>1, Figured
<1>3. BuildOf(r) /\ now \in Nat /\ born \in [DOMAIN born -> Nat]
  BY DEF BuildInv, SnapshotTypeOK
<1>4. p.unreadable = Unreadable(of) /\ p.builtAt = now
  BY <1>1 DEF Made, MadeNow
<1>5. /\ \A t \in Sources : got[t] \notin {Unknown, Pending} =>
            \A row \in got[t] : ProjectOf[row] \in DOMAIN born
      /\ \A a \in Accounts : of[a] \notin {Unknown, Pending} => Serves(born, a, of[a], now + 1)
  BY <1>3 DEF BuildOf
<1>6. (\A t \in Sources : got[t] # Pending) /\ (\A a \in Accounts : of[a] # Pending)
  BY DEF Keep, Readable, AllRead
<1> HIDE DEF p, got, of
<1>7. ASSUME p.unreadable = {}, s \in DOMAIN p.unattributed, NEW row \in p.unattributed[s]
      PROVE  ProjectOf[row] \in DOMAIN born /\ now < born[ProjectOf[row]] + DirectoryTTL
  <2>1. got[s] # Unknown /\ row \in got[s] /\ ProjectOf[row] \notin AllListed(of)
    BY <1>2, <1>7 DEF FiguresOf
  <2>2. ProjectOf[row] \in DOMAIN born /\ ProjectOf[row] \in Projects
    BY <1>1, <1>5, <1>6, <2>1, SnapshotAssumption DEF Lists
  <2> DEFINE a == AccountOf[ProjectOf[row]]
  <2>3. a \in Accounts
    BY <2>2, SnapshotAssumption
  <2>4. of[a] # Unknown /\ Listed(of, a) = of[a]
    BY <1>4, <1>7, <2>3 DEF Unreadable, Listed
  <2>5. ProjectOf[row] \notin of[a]
    BY <2>1, <2>3, <2>4 DEF AllListed
  <2>6. Serves(born, a, of[a], now + 1)
    BY <1>5, <1>6, <2>3, <2>4
  <2> QED
    BY <1>3, <2>2, <2>5, <2>6, Times DEF Serves
<1> QED
  BY <1>4, <1>7 DEF YoungIn, p

FiguresOK(p) ==
    /\ \A s \in Sources \ p.unavailable : AddsUpIn(p, s)
    /\ \A s \in Sources : UnknownIn(p, s) /\ YoungIn(p, s)

LEMMA NewPicture ==
  ASSUME SnapshotTypeOK, BuildInv, Next, NEW r \in Workers, Keep(r), NEW p, p = draft'[r]
  PROVE  IsPicture(p)' /\ FiguresOK(p)'
<1>1. /\ lists[r] \in Lists /\ listed[r] \in Directories /\ Own(listed[r])
      /\ lists[r][Vital] # Unknown
      /\ Made(p, lists[r], listed[r]) /\ MadeNow(p, from[r])
  BY KeepFacts
<1>2. UNCHANGED <<now, changes, born>> /\ now \in Nat
  BY DEF Keep, cloudVars, clusterVars, SnapshotTypeOK
<1>3. from[r] \in 0..changes
  BY DEF BuildInv, BuildOf
<1>4. IsPicture(p)
  BY <1>1, <1>2, <1>3, PictureType
<1>5. \A s \in Sources \ p.unavailable : AddsUpIn(p, s)
  BY <1>1, PictureAddsUp
<1>6. \A s \in Sources : UnknownIn(p, s)
  BY <1>1, PictureTellsUnknown
<1>7. \A s \in Sources : YoungIn(p, s)
  BY PictureYoung
<1>8. IsPicture(p)'
  BY <1>2, <1>4 DEF IsPicture
<1>9. \A s \in Sources : YoungIn(p, s)'
  BY <1>2, <1>7 DEF YoungIn
<1>10. /\ \A s \in Sources \ p.unavailable : AddsUpIn(p, s)'
       /\ \A s \in Sources : UnknownIn(p, s)'
  BY <1>5, <1>6
<1> QED
  BY <1>8, <1>9, <1>10 DEF FiguresOK

LEMMA OldPicture ==
  ASSUME SnapshotTypeOK, Next, NEW p, FiguresOK(p)
  PROVE  FiguresOK(p)'
<1>1. \A q \in DOMAIN born : q \in DOMAIN born' /\ born'[q] = born[q]
  BY BornGrows
<1>2. \A s \in Sources : YoungIn(p, s)'
  BY <1>1 DEF FiguresOK, YoungIn
<1>3. /\ \A s \in Sources \ p.unavailable : AddsUpIn(p, s)'
      /\ \A s \in Sources : UnknownIn(p, s)'
  BY DEF FiguresOK
<1> QED
  BY <1>2, <1>3 DEF FiguresOK

LEMMA PicturesStep ==
  ASSUME SnapshotTypeOK, BuildInv, FiguresInv, Next
  PROVE  (\A p \in Pictures : IsPicture(p))' /\ FiguresInv'
<1>0. /\ \A p \in Pictures : IsPicture(p) /\ FiguresOK(p)
      /\ WorkersOK /\ DOMAIN draft = Workers
  BY TypeParts DEF FiguresInv, FiguresOK, BuildInv
<1>1. SUFFICES ASSUME NEW p \in Pictures' PROVE IsPicture(p)' /\ FiguresOK(p)'
  BY DEF FiguresInv, FiguresOK
<1>2. changes' \in Nat /\ changes' >= changes
  BY CloudStep DEF CloudOK
<1>3. ASSUME now' = now,
             \A q \in Workers : at'[q] = "keepFallback" => at[q] = "keepFallback" /\ draft'[q] = draft[q]
      PROVE  IsPicture(p)' /\ FiguresOK(p)'
  <2>1. p \in Pictures /\ IsPicture(p)'
    BY <1>2, <1>3, PicturesKept
  <2> QED
    BY <1>0, <2>1, OldPicture
<1>4. ASSUME NEW r \in Workers, Keep(r) PROVE IsPicture(p)' /\ FiguresOK(p)'
  <2>1. PICK q \in Workers : at'[q] = "keepFallback" /\ p = draft'[q]
    BY DEF Pictures
  <2>2. CASE q = r
    BY <1>4, <2>1, <2>2, NewPicture
  <2>3. CASE q # r
    <3>1. at[q] = "keepFallback" /\ p = draft[q]
      BY <1>4, <2>1, <2>3, KeepFacts
    <3>2. p \in Pictures
      BY <3>1 DEF Pictures
    <3>3. UNCHANGED <<now, changes>>
      BY <1>4 DEF Keep, cloudVars, clusterVars
    <3>4. IsPicture(p)'
      BY <1>0, <3>2, <3>3 DEF IsPicture
    <3> QED
      BY <1>0, <3>2, <3>4, OldPicture
  <2> QED
    BY <2>2, <2>3
<1>5. ASSUME NEW r \in Workers,
             \/ LookUp(r) \/ Ask(r) \/ GiveUp(r)
             \/ \E s \in Sources : ReadList(r, s)
             \/ \E a \in Accounts : ReadProjects(r, a)
      PROVE  IsPicture(p)' /\ FiguresOK(p)'
  <2>1. now' = now /\ draft' = draft
    BY <1>5 DEF LookUp, Ask, GiveUp, ReadList, ReadProjects
  <2>2. at' = at \/ \E step \in {"new", "ask", "read", "fallBack"} : Goes(r, step)
    BY <1>5 DEF LookUp, Ask, GiveUp, ReadList, ReadProjects
  <2>3. \A q \in Workers : at'[q] = "keepFallback" => at[q] = "keepFallback"
    BY <2>2, GoesFacts DEF Steps
  <2> QED
    BY <1>3, <2>1, <2>3
<1>6. ASSUME NEW r \in Workers, KeepFallback(r) \/ FallBack(r) \/ Die(r)
      PROVE  IsPicture(p)' /\ FiguresOK(p)'
  <2>1. now' = now /\ Goes(r, "new") /\ Forgets(r)
    BY <1>6 DEF KeepFallback, FallBack, Die
  <2>2. at'[r] = "new" /\ \A q \in Workers : q # r => at'[q] = at[q] /\ draft'[q] = draft[q]
    BY <1>0, <2>1, GoesFacts, ForgetsFacts DEF Steps
  <2> QED
    BY <1>3, <2>1, <2>2
<1>7. ASSUME (\E q \in Projects : NewProject(q)) \/ (\E row \in Rows : RowChanges(row))
      PROVE  IsPicture(p)' /\ FiguresOK(p)'
  <2>1. UNCHANGED <<now, at, draft>>
    BY <1>7 DEF NewProject, RowChanges, workerVars
  <2> QED
    BY <1>3, <2>1
<1>8. ASSUME Tick PROVE IsPicture(p)' /\ FiguresOK(p)'
  <2>1. at' = at /\ \A r \in Workers : at[r] = "new"
    BY <1>8 DEF Tick
  <2> QED
    BY <2>1 DEF Pictures
<1> QED
  BY <1>4, <1>5, <1>6, <1>7, <1>8 DEF Next

-----------------------------------------------------------------------------
(* What is shown. *)

\* The steps that answer a request with a picture or an error; all others are
\* silent and leave what was shown.
LEMMA Quiet ==
  ASSUME Next
  PROVE  \/ \E r \in Workers : LookUp(r) \/ KeepFallback(r) \/ FallBack(r)
         \/ Silent /\ UNCHANGED <<seen, built>>
<1>1. ASSUME NEW r \in Workers,
             \/ Ask(r) \/ GiveUp(r) \/ Keep(r) \/ Die(r)
             \/ \E s \in Sources : ReadList(r, s)
             \/ \E a \in Accounts : ReadProjects(r, a)
      PROVE  Silent /\ UNCHANGED <<seen, built>>
  BY <1>1 DEF Ask, GiveUp, Keep, Die, ReadList, ReadProjects, history
<1>2. (\E q \in Projects : NewProject(q)) \/ (\E row \in Rows : RowChanges(row)) \/ Tick
        => Silent /\ UNCHANGED <<seen, built>>
  BY DEF NewProject, RowChanges, Tick, history
<1> QED
  BY <1>1, <1>2 DEF Next

LEMMA Flag ==
  ASSUME disturbed \in BOOLEAN, Next
  PROVE  disturbed' \in BOOLEAN /\ (disturbed => disturbed')
<1>1. ASSUME NEW r \in Workers, Ask(r) \/ FallBack(r) \/ Die(r)
      PROVE  disturbed' \in BOOLEAN /\ (disturbed => disturbed')
  BY <1>1, Zenon DEF Ask, FallBack, Die
<1>2. ASSUME NEW r \in Workers,
             \/ LookUp(r) \/ GiveUp(r) \/ Keep(r) \/ KeepFallback(r)
             \/ \E s \in Sources : ReadList(r, s)
             \/ \E a \in Accounts : ReadProjects(r, a)
      PROVE  UNCHANGED disturbed
  BY <1>2 DEF LookUp, GiveUp, Keep, KeepFallback, ReadList, ReadProjects, history
<1>3. (\E q \in Projects : NewProject(q)) \/ (\E row \in Rows : RowChanges(row)) \/ Tick
        => UNCHANGED disturbed
  BY DEF NewProject, RowChanges, Tick, history
<1>4. UNCHANGED disturbed => disturbed' \in BOOLEAN /\ (disturbed => disturbed')
  OBVIOUS
<1> QED
  BY <1>1, <1>2, <1>3, <1>4 DEF Next

\* What a step shows of a picture: how old it is, and how far back it goes.
Shown(answer, age, since, least) ==
    /\ shown' \in [answer : Answers, age : Int, from : Nat, floor : Nat]
    /\ shown'.answer = answer /\ shown'.age = age /\ shown'.from = since /\ shown'.floor = least
    /\ seen' \in {seen, since} /\ seen' >= seen /\ seen' >= since

LEMMA LookUpShows ==
  ASSUME SnapshotTypeOK, KeptInv, NEW r \in Workers, LookUp(r)
  PROVE  \/ /\ fresh # Gone
            /\ Shown("good", now - fresh.picture.builtAt, fresh.picture.from, seen)
            /\ at'[r] = "new" /\ UNCHANGED floor
         \/ /\ Silent /\ UNCHANGED seen
            /\ at'[r] = "ask" /\ floor' = [floor EXCEPT ![r] = seen]
<1>1. CASE fresh # Gone /\ Goes(r, "new") /\ Shows(fresh.picture, seen) /\ UNCHANGED floor
  <2>1. /\ fresh.picture.builtAt \in 0..now /\ fresh.picture.from \in Nat /\ ~fresh.picture.stale
        /\ seen \in Nat
    BY <1>1, KeptFacts DEF SnapshotTypeOK
  <2>2. Shown("good", now - fresh.picture.builtAt, fresh.picture.from, seen)
    BY <1>1, <2>1, ShowsFacts DEF Shown
  <2>3. at'[r] = "new"
    BY <1>1, GoesFacts DEF Steps
  <2> QED
    BY <1>1, <2>2, <2>3
<1>2. CASE Goes(r, "ask") /\ floor' = [floor EXCEPT ![r] = seen] /\ Silent /\ UNCHANGED seen
  BY <1>2, GoesFacts DEF Steps
<1> QED
  BY <1>1, <1>2 DEF LookUp

LEMMA KeepFallbackShows ==
  ASSUME SnapshotTypeOK, BuildInv, NEW r \in Workers, KeepFallback(r)
  PROVE  /\ Shown("good", 0, from[r], floor[r])
         /\ built' = now
         /\ fallback' = [picture |-> draft[r], until |-> now + FallbackTTL]
         /\ draft[r].from = from[r]
<1>1. MadeNow(draft[r], from[r]) /\ from[r] \in Nat /\ floor[r] \in Nat /\ now \in Nat
  BY DEF KeepFallback, BuildInv, BuildOf, SnapshotTypeOK
<1>2. draft[r].builtAt = now /\ ~draft[r].stale /\ draft[r].from = from[r]
  BY <1>1, Zenon DEF MadeNow
<1>3. Shows(draft[r], floor[r]) /\ built' = now
      /\ fallback' = [picture |-> draft[r], until |-> now + FallbackTTL]
  BY DEF KeepFallback
<1>4. draft[r].builtAt \in 0..now /\ draft[r].from \in Nat /\ now - draft[r].builtAt = 0
  BY <1>1, <1>2
<1>5. Shown("good", 0, from[r], floor[r])
  BY <1>1, <1>2, <1>3, <1>4, ShowsFacts DEF Shown
<1> QED
  BY <1>2, <1>3, <1>5

LEMMA FallBackShows ==
  ASSUME SnapshotTypeOK, KeptInv, NEW r \in Workers, FallBack(r)
  PROVE  \/ /\ fallback # Gone
            /\ Shown("stale", now - fallback.picture.builtAt, fallback.picture.from, floor[r])
         \/ /\ fallback = Gone
            /\ shown' \in [answer : Answers, age : Int, from : Nat, floor : Nat]
            /\ shown'.answer = "error" /\ shown'.age = now - built /\ UNCHANGED seen
<1>1. floor[r] \in Nat
  BY DEF SnapshotTypeOK
<1>2. CASE fallback # Gone
  <2> DEFINE p == AsStale(fallback.picture)
  <2>1. Shows(p, floor[r])
    BY <1>2 DEF FallBack
  <2>2. p.builtAt = fallback.picture.builtAt /\ p.from = fallback.picture.from /\ p.stale
    BY <1>2, StaleFacts
  <2>3. fallback.picture.builtAt \in 0..now /\ fallback.picture.from \in Nat
    BY <1>2, KeptFacts DEF SnapshotTypeOK
  <2> HIDE DEF p
  <2>4. Shown("stale", now - fallback.picture.builtAt, fallback.picture.from, floor[r])
    BY <1>1, <2>1, <2>2, <2>3, ShowsFacts DEF Shown
  <2> QED
    BY <1>2, <2>4
<1>3. CASE fallback = Gone
  BY <1>1, <1>3, ErrorFacts DEF FallBack
<1> QED
  BY <1>2, <1>3

LEMMA ShownStep ==
  ASSUME SnapshotTypeOK, KeptInv, BuildInv, SeenInv, Next
  PROVE  ShownOK' /\ SeenInv' /\ seen' >= seen
<1>0. /\ ShownOK /\ changes \in Nat /\ now \in Nat /\ seen \in 0..changes
      /\ changes' \in Nat /\ changes' >= changes
  BY TypeParts, CloudStep DEF SnapshotTypeOK, SeenInv, CloudOK
<1>1. disturbed' \in BOOLEAN
  BY <1>0, Flag DEF ShownOK
<1>2. ASSUME NEW r \in Workers, LookUp(r) \/ KeepFallback(r) \/ FallBack(r)
      PROVE  /\ shown' \in [answer : Answers, age : Int, from : Nat, floor : Nat]
             /\ seen' \in 0..changes /\ seen' >= seen /\ built' \in {built, now}
  <2>1. CASE LookUp(r)
    BY <1>0, <2>1, LookUpShows, KeptFacts, SilentFacts DEF Shown, LookUp
  <2>2. CASE KeepFallback(r)
    <3>1. from[r] \in 0..changes
      BY DEF BuildInv, BuildOf
    <3> QED
      BY <1>0, <2>2, <3>1, KeepFallbackShows DEF Shown
  <2>3. CASE FallBack(r)
    BY <1>0, <2>3, FallBackShows, KeptFacts DEF Shown, FallBack
  <2> QED
    BY <1>2, <2>1, <2>2, <2>3
<1>3. ASSUME Silent, UNCHANGED <<seen, built>>
      PROVE  /\ shown' \in [answer : Answers, age : Int, from : Nat, floor : Nat]
             /\ seen' \in 0..changes /\ seen' >= seen /\ built' \in {built, now}
  BY <1>0, <1>3, SilentFacts
<1>4. /\ shown' \in [answer : Answers, age : Int, from : Nat, floor : Nat]
      /\ seen' \in 0..changes /\ seen' >= seen /\ built' \in {built, now}
  BY <1>2, <1>3, Quiet
<1>5. built' \in Nat \cup {Never} /\ seen' \in Nat
  BY <1>0, <1>4 DEF ShownOK
<1>6. seen' \in 0..changes'
  BY <1>0, <1>4
<1> QED
  BY <1>1, <1>4, <1>5, <1>6 DEF ShownOK, SeenInv

LEMMA TypeStep ==
  ASSUME Inv, Next
  PROVE  SnapshotTypeOK'
<1>0. SnapshotTypeOK /\ KeptInv /\ DirectoryInv /\ BuildInv /\ FiguresInv /\ SeenInv
  BY DEF Inv
<1>1. CloudOK' /\ WorkersOK' /\ ShownOK' /\ (\A p \in Pictures : IsPicture(p))'
  BY <1>0, CloudStep, WorkersStep, ShownStep, PicturesStep
<1>2. KeptInv'
  BY <1>0, KeptStep
<1>3. IsKept(fresh)' /\ IsKept(fallback)'
  BY <1>2 DEF KeptInv, Kept, IsKept
<1>4. directory' \in [Accounts -> [projects : SUBSET Projects, until : Nat]]
  BY <1>0, DirectoryStep
<1>5. CacheOK'
  BY <1>3, <1>4 DEF CacheOK
<1>6. (SnapshotTypeOK <=> CloudOK /\ CacheOK /\ WorkersOK /\ ShownOK /\ \A p \in Pictures : IsPicture(p))'
  BY TypeParts, PTL
<1> QED
  BY <1>1, <1>5, <1>6

-----------------------------------------------------------------------------
(* An outage is bridged. *)

LEMMA BridgeStep ==
  ASSUME SnapshotTypeOK, KeptInv, BuildInv, BridgeInv, Next
  PROVE  BridgeInv'
<1>0. now \in Nat /\ built \in Nat \cup {Never} /\ FallbackTTL \in Nat /\ FallbackTTL > 0
  BY Times DEF SnapshotTypeOK
<1>1. ASSUME NEW r \in Workers, KeepFallback(r)
      PROVE  BridgeInv'
  <2>1. /\ built' = now /\ now' = now
        /\ fallback' = [picture |-> draft[r], until |-> now + FallbackTTL]
    BY <1>1, KeepFallbackShows DEF KeepFallback
  <2>2. fallback'.until = now + FallbackTTL
    BY <2>1
  <2>3. fallback' # Gone
    BY <1>0, <2>2 DEF Gone
  <2> QED
    BY <1>0, <2>1, <2>2, <2>3 DEF BridgeInv
<1>2. ASSUME Tick
      PROVE  BridgeInv'
  <2>1. /\ now' = now + 1 /\ built' = built
        /\ fallback' = IF fallback.until > now' THEN fallback ELSE Gone
    BY <1>2 DEF Tick, history
  <2>2. built \in Int
    BY <1>0 DEF Never
  <2>3. fallback # Gone => fallback.until \in Nat
    BY DEF KeptInv, Kept
  <2> QED
    BY <1>0, <2>1, <2>2, <2>3 DEF BridgeInv
<1>3. ASSUME UNCHANGED <<now, fallback, built>>
      PROVE  BridgeInv'
  BY <1>3 DEF BridgeInv
<1>4. ASSUME NEW r \in Workers,
             \/ LookUp(r) \/ Ask(r) \/ GiveUp(r) \/ Keep(r) \/ FallBack(r) \/ Die(r)
             \/ \E s \in Sources : ReadList(r, s)
             \/ \E a \in Accounts : ReadProjects(r, a)
      PROVE  UNCHANGED <<now, fallback, built>>
  BY <1>4 DEF LookUp, Ask, GiveUp, Keep, FallBack, Die, ReadList, ReadProjects, cacheVars, history
<1>5. (\E q \in Projects : NewProject(q)) \/ (\E row \in Rows : RowChanges(row))
        => UNCHANGED <<now, fallback, built>>
  BY DEF NewProject, RowChanges, cacheVars, history
<1> QED
  BY <1>1, <1>2, <1>3, <1>4, <1>5 DEF Next

LEMMA OutageStep ==
  ASSUME SnapshotTypeOK, KeptInv, BuildInv, BridgeInv, Next
  PROVE  OutageTells'
<1>0. now \in Nat /\ built \in Int /\ TTL \in Nat /\ TTL > 0 /\ FallbackTTL \in Nat /\ FallbackTTL > 0
  BY Times DEF SnapshotTypeOK, Never
<1>1. /\ fresh # Gone => fresh.picture.builtAt \in 0..now /\ now < fresh.picture.builtAt + TTL
      /\ fallback # Gone => fallback.picture.builtAt \in 0..now
                            /\ now < fallback.picture.builtAt + FallbackTTL
  BY DEF KeptInv, Kept
<1>2. ASSUME NEW r \in Workers, LookUp(r)
      PROVE  OutageTells'
  <2>1. \/ /\ fresh # Gone /\ shown'.answer = "good" /\ shown'.age = now - fresh.picture.builtAt
        \/ shown'.answer = "none"
    BY <1>2, LookUpShows, SilentFacts DEF Shown
  <2> QED
    BY <1>0, <1>1, <2>1 DEF OutageTells, StaleTells, OutageShowsLastGood
<1>3. ASSUME NEW r \in Workers, KeepFallback(r)
      PROVE  OutageTells'
  <2>1. shown'.answer = "good" /\ shown'.age = 0
    BY <1>3, KeepFallbackShows DEF Shown
  <2> QED
    BY <1>0, <2>1 DEF OutageTells, StaleTells, OutageShowsLastGood
<1>4. ASSUME NEW r \in Workers, FallBack(r)
      PROVE  OutageTells'
  <2>1. \/ /\ fallback # Gone /\ shown'.answer = "stale"
           /\ shown'.age = now - fallback.picture.builtAt
        \/ fallback = Gone /\ shown'.answer = "error" /\ shown'.age = now - built
    BY <1>4, FallBackShows DEF Shown
  <2>2. fallback = Gone => now - built >= FallbackTTL
    BY <1>0 DEF BridgeInv
  <2> QED
    BY <1>0, <1>1, <2>1, <2>2 DEF OutageTells, StaleTells, OutageShowsLastGood
<1>5. Silent => OutageTells'
  BY SilentFacts DEF OutageTells, StaleTells, OutageShowsLastGood
<1> QED
  BY <1>2, <1>3, <1>4, <1>5, Quiet

-----------------------------------------------------------------------------
(* Nothing older follows. *)

\* What is compared is numbers.
Numbers ==
    /\ seen \in Nat /\ changes \in Nat /\ seen <= changes
    /\ from \in [Workers -> Nat] /\ floor \in [Workers -> Nat] /\ at \in [Workers -> Steps]
    /\ disturbed \in BOOLEAN
    /\ fresh # Gone => fresh.picture.from \in Nat /\ fresh.picture.from <= changes
    /\ fallback # Gone => fallback.picture.from \in Nat /\ fallback.picture.from <= changes

LEMMA NumbersHold ==
  ASSUME SnapshotTypeOK, KeptInv, SeenInv
  PROVE  Numbers
BY KeptFacts DEF SnapshotTypeOK, SeenInv, Numbers

Ordered == OneBuilder /\ FreshAhead /\ FallbackAhead /\ ReaderAhead /\ WriterAhead

LEMMA OrderLookUp ==
  ASSUME SnapshotTypeOK, KeptInv, SeenInv, NEW r \in Workers, LookUp(r), Ordered
  PROVE  Ordered'
<1>1. Numbers /\ UNCHANGED <<fresh, fallback, from>> /\ at[r] = "new"
  BY NumbersHold DEF LookUp, cacheVars
<1>2. /\ at'[r] \in {"new", "ask"} /\ \A q \in Workers : q # r => at'[q] = at[q]
      /\ \/ fresh # Gone /\ seen' = fresh.picture.from
         \/ seen' = seen
  BY LookUpShows, GoesFacts DEF LookUp, Shown, Steps
<1>3. \A q \in Workers : at'[q] \in Building \/ at[q] \in Building => at'[q] = at[q]
  BY <1>1, <1>2 DEF Building
<1>4. \A q \in Workers : /\ at'[q] = "read" <=> at[q] = "read"
                         /\ at'[q] = "keepFallback" <=> at[q] = "keepFallback"
  BY <1>1, <1>2
<1>5. OneBuilder'
  BY <1>3 DEF Ordered, OneBuilder, Building
<1>6. FreshAhead' /\ ReaderAhead' /\ WriterAhead'
  BY <1>1, <1>2, <1>4 DEF Ordered, FreshAhead, ReaderAhead, WriterAhead, Numbers
<1>7. FallbackAhead'
  BY <1>1, <1>2, <1>4 DEF Ordered, FreshAhead, FallbackAhead, Numbers
<1> QED
  BY <1>5, <1>6, <1>7 DEF Ordered

LEMMA OrderAsk ==
  ASSUME SnapshotTypeOK, KeptInv, SeenInv, NEW r \in Workers, Ask(r), Ordered, ~disturbed'
  PROVE  Ordered'
<1>1. Numbers /\ UNCHANGED <<fresh, fallback, seen>> /\ at[r] = "ask"
  BY NumbersHold DEF Ask, cacheVars
<1>2. CASE Goes(r, "fallBack") /\ UNCHANGED from
  <2>1. \A q \in Workers : /\ at'[q] = "read" <=> at[q] = "read"
                           /\ at'[q] = "keepFallback" <=> at[q] = "keepFallback"
    BY <1>1, <1>2, GoesFacts DEF Steps
  <2> QED
    BY <1>1, <1>2, <2>1
       DEF Ordered, OneBuilder, FreshAhead, FallbackAhead, ReaderAhead, WriterAhead, Building
<1>3. CASE /\ Goes(r, "read") /\ from' = [from EXCEPT ![r] = changes]
           /\ disturbed' = (disturbed \/ \E q \in Workers \ {r} : at[q] \in Building)
  <2>1. at'[r] = "read" /\ \A q \in Workers : q # r => at'[q] = at[q]
    BY <1>3, GoesFacts DEF Steps
  <2>2. \A q \in Workers : q # r => at[q] \notin Building
    BY <1>3
  <2>3. \A q \in Workers : at'[q] \in Building => q = r
    BY <2>1, <2>2 DEF Building
  <2>4. from'[r] = changes
    BY <1>1, <1>3 DEF Numbers
  <2>5. \A q \in Workers : at[q] # "keepFallback" /\ at'[q] # "keepFallback"
    BY <1>1, <2>1, <2>2 DEF Building
  <2>6. OneBuilder'
    BY <2>3 DEF OneBuilder, Building
  <2>7. ReaderAhead'
    BY <1>1, <2>3, <2>4 DEF Building, Numbers, ReaderAhead
  <2>8. FreshAhead' /\ FallbackAhead' /\ WriterAhead'
    BY <1>1, <2>5 DEF Ordered, FreshAhead, FallbackAhead, WriterAhead
  <2> QED
    BY <2>6, <2>7, <2>8 DEF Ordered
<1> QED
  BY <1>2, <1>3 DEF Ask

LEMMA OrderGiveUp ==
  ASSUME SnapshotTypeOK, NEW r \in Workers, GiveUp(r), Ordered
  PROVE  Ordered'
<1>1. /\ UNCHANGED <<fresh, fallback, seen>> /\ at[r] = "read"
      /\ at'[r] = "fallBack" /\ \A q \in Workers : q # r => at'[q] = at[q]
  BY GoesFacts DEF GiveUp, AllRead, cacheVars, history, Steps
<1>2. \A q \in Workers : q # r => from'[q] = from[q]
  BY DEF GiveUp, SnapshotTypeOK
<1>3. \A q \in Workers : at'[q] \in Building => q # r /\ at[q] = at'[q]
  BY <1>1 DEF Building
<1>4. OneBuilder'
  BY <1>3 DEF Ordered, OneBuilder, Building
<1>5. FreshAhead' /\ ReaderAhead' /\ WriterAhead'
  BY <1>1, <1>2 DEF Ordered, FreshAhead, ReaderAhead, WriterAhead
<1>6. \A q \in Workers : at'[q] = "keepFallback" <=> at[q] = "keepFallback"
  BY <1>1
<1>7. FallbackAhead'
  BY <1>1, <1>6 DEF Ordered, FallbackAhead
<1> QED
  BY <1>4, <1>5, <1>7 DEF Ordered

LEMMA OrderKeep ==
  ASSUME SnapshotTypeOK, BuildInv, NEW r \in Workers, Keep(r), Ordered
  PROVE  Ordered'
<1>1. /\ UNCHANGED <<fallback, from, seen>> /\ at[r] = "read" /\ at'[r] = "keepFallback"
      /\ \A q \in Workers : q # r => at'[q] = at[q]
      /\ fresh' = [picture |-> draft'[r], until |-> now + TTL]
      /\ MadeNow(draft'[r], from[r])
  BY KeepFacts DEF Keep, history
<1>2. \A q \in Workers : q # r => at[q] \notin Building
  BY <1>1 DEF Ordered, OneBuilder, Building
<1>3. \A q \in Workers : at'[q] \in Building => q = r
  BY <1>1, <1>2
<1>4. fresh'.until = now + TTL /\ fresh'.picture = draft'[r]
  BY <1>1
<1>5. fresh' # Gone
  BY <1>4, Times DEF Gone, SnapshotTypeOK
<1>6. fresh'.picture.from = from'[r] /\ from'[r] >= seen'
  BY <1>1, <1>4 DEF MadeNow, Ordered, ReaderAhead
<1>7. OneBuilder'
  BY <1>3 DEF OneBuilder, Building
<1>8. FreshAhead' /\ FallbackAhead'
  BY <1>1, <1>6 DEF FreshAhead, FallbackAhead
<1>9. ReaderAhead' /\ WriterAhead'
  BY <1>1, <1>3, <1>5, <1>6 DEF ReaderAhead, WriterAhead, Building
<1> QED
  BY <1>7, <1>8, <1>9 DEF Ordered

LEMMA OrderKeepFallback ==
  ASSUME SnapshotTypeOK, KeptInv, SeenInv, BuildInv, NEW r \in Workers, KeepFallback(r), Ordered
  PROVE  Ordered'
<1>0. Numbers
  BY NumbersHold
<1>1. /\ fresh' = fresh /\ at[r] = "keepFallback" /\ at'[r] = "new"
      /\ \A q \in Workers : q # r => at'[q] = at[q]
      /\ fallback' = [picture |-> draft[r], until |-> now + FallbackTTL]
      /\ draft[r].from = from[r]
      /\ seen' \in {seen, from[r]} /\ seen' >= from[r]
  BY KeepFallbackShows, GoesFacts DEF KeepFallback, Steps, Shown
<1>2. \A q \in Workers : q # r => at[q] \notin Building
  BY <1>1 DEF Ordered, OneBuilder, Building
<1>3. \A q \in Workers : at'[q] \notin Building
  BY <1>1, <1>2 DEF Building
<1>4. fresh.picture.from = from[r] /\ from[r] >= seen
  BY <1>1 DEF Ordered, WriterAhead
<1>5. seen' = from[r]
  BY <1>0, <1>1, <1>4 DEF Numbers
<1>6. fallback'.picture.from = from[r]
  BY <1>1
<1>7. OneBuilder' /\ ReaderAhead' /\ WriterAhead'
  BY <1>3 DEF OneBuilder, ReaderAhead, WriterAhead, Building
<1>8. FreshAhead' /\ FallbackAhead'
  BY <1>0, <1>1, <1>4, <1>5, <1>6 DEF FreshAhead, FallbackAhead, Numbers
<1> QED
  BY <1>7, <1>8 DEF Ordered

\* A build that ends without a picture.
LEMMA OrderEnds ==
  ASSUME SnapshotTypeOK, KeptInv, SeenInv, BuildInv, NEW r \in Workers, FallBack(r) \/ Die(r), Ordered, ~disturbed'
  PROVE  Ordered'
<1>0. Numbers /\ DOMAIN draft = Workers
  BY NumbersHold DEF BuildInv
<1>1. UNCHANGED <<fresh, fallback>> /\ Goes(r, "new") /\ Forgets(r)
  BY DEF FallBack, Die, cacheVars
<1>2. /\ at'[r] = "new"
      /\ \A q \in Workers : q # r => at'[q] = at[q] /\ from'[q] = from[q]
  BY <1>0, <1>1, GoesFacts, ForgetsFacts DEF Steps
<1>3. at[r] # "keepFallback"
  BY DEF FallBack, Die
<1>4. \A q \in Workers : at'[q] \in Building => q # r /\ at[q] = at'[q]
  BY <1>2 DEF Building
<1>5. \A q \in Workers : at'[q] = "keepFallback" <=> at[q] = "keepFallback"
  BY <1>2, <1>3
<1>6. \/ seen' = seen
      \/ /\ fallback # Gone /\ seen' = fallback.picture.from
         /\ \A q \in Workers : at[q] # "keepFallback"
  <2>1. CASE Die(r)
    BY <2>1 DEF Die
  <2>2. CASE FallBack(r)
    <3>1. \A q \in Workers : at[q] # "keepFallback"
      BY <2>2 DEF FallBack
    <3>2. seen' = seen \/ (fallback # Gone /\ seen' = fallback.picture.from)
      BY <2>2, FallBackShows DEF Shown
    <3> QED
      BY <3>1, <3>2
  <2> QED
    BY <2>1, <2>2
<1>7. OneBuilder'
  BY <1>4 DEF Ordered, OneBuilder, Building
<1>8. FreshAhead' /\ FallbackAhead'
  BY <1>0, <1>1, <1>5, <1>6 DEF Ordered, FreshAhead, FallbackAhead, Numbers
<1>9. ReaderAhead' /\ WriterAhead'
  BY <1>1, <1>2, <1>5, <1>6 DEF Ordered, ReaderAhead, WriterAhead
<1> QED
  BY <1>7, <1>8, <1>9 DEF Ordered

LEMMA OrderTick ==
  ASSUME Tick, Ordered
  PROVE  Ordered'
<1>1. /\ UNCHANGED <<at, from, seen>> /\ \A q \in Workers : at[q] = "new"
      /\ fresh' \in {fresh, Gone} /\ fallback' \in {fallback, Gone}
  BY DEF Tick, workerVars, history
<1> QED
  BY <1>1 DEF Ordered, OneBuilder, FreshAhead, FallbackAhead, ReaderAhead, WriterAhead, Building

LEMMA OrderOthers ==
  ASSUME Ordered, UNCHANGED <<fresh, fallback, at, from, seen>>
  PROVE  Ordered'
BY DEF Ordered, OneBuilder, FreshAhead, FallbackAhead, ReaderAhead, WriterAhead

LEMMA FloorStep ==
  ASSUME SnapshotTypeOK, KeptInv, SeenInv, BuildInv, Next, \A q \in Workers : floor[q] <= seen
  PROVE  \A q \in Workers : floor'[q] <= seen'
<1>0. /\ seen \in Nat /\ seen' \in Nat /\ seen' >= seen /\ floor \in [Workers -> Nat] /\ DOMAIN draft = Workers
  BY ShownStep DEF ShownOK, SnapshotTypeOK, BuildInv
<1>1. ASSUME NEW r \in Workers, LookUp(r)
      PROVE  \A q \in Workers : floor'[q] \in {floor[q], seen}
  BY <1>0, <1>1 DEF LookUp
<1>2. ASSUME NEW r \in Workers, KeepFallback(r) \/ FallBack(r) \/ Die(r)
      PROVE  \A q \in Workers : floor'[q] \in {floor[q], 0}
  <2>1. Forgets(r)
    BY <1>2 DEF KeepFallback, FallBack, Die
  <2> QED
    BY <1>0, <2>1, ForgetsFacts
<1>3. ASSUME NEW r \in Workers,
             \/ Ask(r) \/ GiveUp(r) \/ Keep(r)
             \/ \E s \in Sources : ReadList(r, s)
             \/ \E a \in Accounts : ReadProjects(r, a)
      PROVE  UNCHANGED floor
  BY <1>3 DEF Ask, GiveUp, Keep, ReadList, ReadProjects
<1>4. (\E q \in Projects : NewProject(q)) \/ (\E row \in Rows : RowChanges(row)) \/ Tick
        => UNCHANGED floor
  BY DEF NewProject, RowChanges, Tick, workerVars
<1>5. \A q \in Workers : floor'[q] \in {floor[q], seen, 0}
  BY <1>1, <1>2, <1>3, <1>4 DEF Next
<1> QED
  BY <1>0, <1>5

LEMMA OrderStep ==
  ASSUME SnapshotTypeOK, KeptInv, SeenInv, BuildInv, OrderInv, Next
  PROVE  OrderInv'
<1>1. \A q \in Workers : floor'[q] <= seen'
  BY FloorStep DEF OrderInv
<1>2. SUFFICES ASSUME ~disturbed' PROVE Ordered'
  BY <1>1 DEF OrderInv, Ordered
<1>3. Ordered
  BY <1>2, Flag DEF OrderInv, Ordered, SnapshotTypeOK
<1>4. ASSUME NEW r \in Workers, LookUp(r) \/ Ask(r) \/ GiveUp(r) \/ Keep(r)
      PROVE  Ordered'
  BY <1>2, <1>3, <1>4, OrderLookUp, OrderAsk, OrderGiveUp, OrderKeep
<1>5. ASSUME NEW r \in Workers, KeepFallback(r) \/ FallBack(r) \/ Die(r)
      PROVE  Ordered'
  BY <1>2, <1>3, <1>5, OrderKeepFallback, OrderEnds
<1>6. ASSUME NEW r \in Workers,
             (\E s \in Sources : ReadList(r, s)) \/ (\E a \in Accounts : ReadProjects(r, a))
      PROVE  UNCHANGED <<fresh, fallback, at, from, seen>>
  BY <1>6 DEF ReadList, ReadProjects, cacheVars, history
<1>7. (\E q \in Projects : NewProject(q)) \/ (\E row \in Rows : RowChanges(row))
        => UNCHANGED <<fresh, fallback, at, from, seen>>
  BY DEF NewProject, RowChanges, cacheVars, workerVars, history
<1> QED
  BY <1>3, <1>4, <1>5, <1>6, <1>7, OrderTick, OrderOthers DEF Next

LEMMA NoGoingBackStep ==
  ASSUME SnapshotTypeOK, KeptInv, SeenInv, BuildInv, OrderInv, Next
  PROVE  NoGoingBack'
<1>0. /\ Numbers /\ \A q \in Workers : floor[q] <= seen
  BY NumbersHold DEF OrderInv
<1>1. SUFFICES ASSUME ~disturbed' PROVE shown'.answer \in {"good", "stale"} => shown'.from >= shown'.floor
  BY DEF NoGoingBack
<1>2. Ordered
  BY <1>1, Flag DEF OrderInv, Ordered, SnapshotTypeOK
<1>3. ASSUME NEW r \in Workers, LookUp(r)
      PROVE  shown'.answer \in {"good", "stale"} => shown'.from >= shown'.floor
  BY <1>2, <1>3, LookUpShows, SilentFacts DEF Shown, Ordered, FreshAhead
<1>4. ASSUME NEW r \in Workers, KeepFallback(r)
      PROVE  shown'.answer \in {"good", "stale"} => shown'.from >= shown'.floor
  <2>1. from[r] >= seen
    BY <1>2, <1>4 DEF Ordered, WriterAhead, KeepFallback
  <2>2. shown'.from = from[r] /\ shown'.floor = floor[r]
    BY <1>4, KeepFallbackShows DEF Shown
  <2> QED
    BY <1>0, <2>1, <2>2 DEF Numbers
<1>5. ASSUME NEW r \in Workers, FallBack(r)
      PROVE  shown'.answer \in {"good", "stale"} => shown'.from >= shown'.floor
  <2>1. \A q \in Workers : at[q] # "keepFallback"
    BY <1>1, <1>5 DEF FallBack
  <2>2. fallback # Gone => fallback.picture.from >= seen
    BY <1>2, <2>1 DEF Ordered, FallbackAhead
  <2>3. \/ fallback # Gone /\ shown'.from = fallback.picture.from /\ shown'.floor = floor[r]
        \/ shown'.answer = "error"
    BY <1>5, FallBackShows DEF Shown
  <2> QED
    BY <1>0, <2>2, <2>3 DEF Numbers
<1>6. Silent => (shown'.answer \in {"good", "stale"} => shown'.from >= shown'.floor)
  BY SilentFacts
<1> QED
  BY <1>3, <1>4, <1>5, <1>6, Quiet

-----------------------------------------------------------------------------
(* The theorems. *)

LEMMA InvStep ==
  ASSUME Inv, [Next]_vars
  PROVE  Inv'
<1>1. CASE Next
  <2>1. /\ SnapshotTypeOK /\ KeptInv /\ DirectoryInv /\ BuildInv /\ FiguresInv /\ BridgeInv
        /\ OrderInv /\ SeenInv
    BY DEF Inv
  <2>2. SnapshotTypeOK'
    BY <1>1, TypeStep
  <2>3. KeptInv' /\ DirectoryInv' /\ BuildInv'
    BY <1>1, <2>1, KeptStep, DirectoryStep, BuildStep
  <2>4. FiguresInv' /\ BridgeInv' /\ OrderInv' /\ SeenInv'
    BY <1>1, <2>1, PicturesStep, BridgeStep, OrderStep, ShownStep
  <2>5. NoGoingBack' /\ OutageTells'
    BY <1>1, <2>1, NoGoingBackStep, OutageStep
  <2> QED
    BY <2>2, <2>3, <2>4, <2>5 DEF Inv
<1>2. CASE UNCHANGED vars
  <2>1. UNCHANGED <<now, rows, born, changes, refusals, fresh, fallback, directory>>
        /\ UNCHANGED <<at, lists, listed, draft, from, floor, shown, seen, built, disturbed>>
    BY <1>2 DEF vars, cloudVars, clusterVars, cacheVars, workerVars, history
  <2>2. SnapshotTypeOK'
    <3>1. Pictures' = Pictures /\ \A p : IsPicture(p)' <=> IsPicture(p)
      BY <2>1 DEF Pictures, IsPicture
    <3>2. CloudOK' /\ WorkersOK' /\ ShownOK'
      BY <2>1, TypeParts DEF Inv, CloudOK, WorkersOK, ShownOK
    <3>3. CacheOK'
      BY <2>1, TypeParts DEF Inv, CacheOK, IsKept
    <3>4. (SnapshotTypeOK <=> CloudOK /\ CacheOK /\ WorkersOK /\ ShownOK /\ \A p \in Pictures : IsPicture(p))'
      BY TypeParts, PTL
    <3>5. \A p \in Pictures : IsPicture(p)
      BY TypeParts DEF Inv
    <3> QED
      BY <3>1, <3>2, <3>3, <3>4, <3>5
  <2>3. KeptInv' /\ DirectoryInv'
    BY <2>1 DEF Inv, KeptInv, Kept, DirectoryInv, Serves
  <2>4. BuildInv'
    BY <2>1 DEF Inv, BuildInv, BuildOf, MadeNow, Serves
  <2>5. FiguresInv'
    BY <2>1 DEF Inv, FiguresInv, Pictures, YoungIn
  <2>6. BridgeInv' /\ SeenInv'
    BY <2>1 DEF Inv, BridgeInv, SeenInv
  <2>7. OrderInv'
    BY <2>1 DEF Inv, OrderInv, OneBuilder, FreshAhead, FallbackAhead, ReaderAhead, WriterAhead
  <2>8. NoGoingBack' /\ OutageTells'
    BY <2>1 DEF Inv, NoGoingBack, OutageTells, StaleTells, OutageShowsLastGood
  <2> QED
    BY <2>2, <2>3, <2>4, <2>5, <2>6, <2>7, <2>8 DEF Inv
<1> QED
  BY <1>1, <1>2

LEMMA Invariant == Spec => []Inv
<1>1. Init => Inv
  BY InitInv
<1>2. Inv /\ [Next]_vars => Inv'
  BY InvStep
<1> QED
  BY <1>1, <1>2, PTL DEF Spec

\* Whatever could not be read, a picture adds up, says what is missing in it, and
\* misses no project the directory has had the time to learn of (snapshot._build).
THEOREM FiguresCorrect == Spec => []FiguresTell
<1>1. ASSUME Inv PROVE FiguresTell
  <2>1. SnapshotTypeOK /\ FiguresInv
    BY <1>1 DEF Inv
  <2>2. AddsUp
    BY <2>1, Zenon DEF FiguresInv, AddsUpIn, AddsUp
  <2>3. UnknownIsNotZero
    BY <2>1 DEF FiguresInv, UnknownIn, UnknownIsNotZero
  <2>4. SoonAttributed
    <3>1. \A p \in Pictures : DOMAIN p.unattributed \subseteq Sources
      BY <2>1 DEF SnapshotTypeOK, IsPicture
    <3> QED
      BY <2>1, <3>1 DEF FiguresInv, YoungIn, SoonAttributed
  <2> QED
    BY <2>1, <2>2, <2>3, <2>4 DEF FiguresTell
<1>2. Inv => FiguresTell
  BY <1>1
<1> QED
  BY <1>2, Invariant, PTL

\* No screen goes back to an older picture unless builds crossed or a second write
\* was passed or never made (snapshot.get, the two cache.set after one another).
THEOREM NoGoingBackCorrect == Spec => []NoGoingBack
<1>1. Inv => NoGoingBack
  BY DEF Inv
<1> QED
  BY <1>1, Invariant, PTL

\* During an outage the last good picture is shown, within its time and marked as
\* stale, and an error only when there is none (the except branch of snapshot.get).
THEOREM OutageCorrect == Spec => []OutageTells
<1>1. Inv => OutageTells
  BY DEF Inv
<1> QED
  BY <1>1, Invariant, PTL
=============================================================================
