------------------------- MODULE ResponseCacheProofs -------------------------
(***************************************************************************)
(* Theorems about ResponseCache, for any readers, writers and tokens and   *)
(* any number of crashes of the cache server.                              *)
(***************************************************************************)
EXTENDS ResponseCache, TLAPS

-----------------------------------------------------------------------------
(* Types. *)

LEMMA InitType == Init => CacheTypeOK
  BY CacheAssumption, SMTT(30) DEF Init, CacheTypeOK

\* The writers touch the cache only through the version.
LEMMA WriterType ==
  ASSUME CacheTypeOK, NEW w \in Writers,
         Post(w) \/ ReadVersion(w) \/ WriteVersion(w) \/ WriterDies(w)
  PROVE  CacheTypeOK'
<1>t. TokenOf[w] \in Tokens
  BY CacheAssumption
<1>1. CASE Post(w)
  BY <1>1, SMTT(30) DEF CacheTypeOK, Post, WriterGo, cacheVars, cloudVars, readerVars, SameKey, Entry
<1>2. CASE ReadVersion(w)
  BY <1>2, <1>t, SMTT(30) DEF CacheTypeOK, ReadVersion, WriterGo, cacheVars, cloudVars, readerVars, SameKey, Entry
<1>3. CASE WriteVersion(w)
  BY <1>3, <1>t, SMTT(30) DEF CacheTypeOK, WriteVersion, WriterGo, cloudVars, readerVars, SameKey, Entry
<1>4. CASE WriterDies(w)
  BY <1>4, SMTT(30) DEF CacheTypeOK, WriterDies, WriterGo, cacheVars, cloudVars, readerVars, SameKey, Entry
<1> QED
  BY <1>1, <1>2, <1>3, <1>4

LEMMA ReaderType ==
  ASSUME CacheTypeOK, NEW r \in Readers,
         Ask(r) \/ LookUp(r) \/ Fetch(r) \/ ReaderDies(r)
  PROVE  CacheTypeOK'
<1>t. TokenOf[r] \in Tokens
  BY CacheAssumption
<1>1. CASE Ask(r)
  BY <1>1, <1>t, SMTT(30) DEF CacheTypeOK, Ask, ReaderGo, cacheVars, cloudVars, writerVars, SameKey, Entry
<1>2. CASE LookUp(r)
  BY <1>2, SMTT(30) DEF CacheTypeOK, LookUp, Under, ReaderGo, cacheVars, cloudVars, writerVars, SameKey, Entry
<1>3. CASE Fetch(r)
  BY <1>3, SMTT(30) DEF CacheTypeOK, Fetch, ReaderGo, cacheVars, cloudVars, writerVars, SameKey, Entry
<1>4. CASE ReaderDies(r)
  BY <1>4, SMTT(30) DEF CacheTypeOK, ReaderDies, ReaderGo, cacheVars, cloudVars, writerVars, SameKey, Entry
<1> QED
  BY <1>1, <1>2, <1>3, <1>4

\* What is stored replaces what was there under its key, and expires in TTL.
LEMMA StoreType ==
  ASSUME CacheTypeOK, NEW r \in Readers, Store(r)
  PROVE  CacheTypeOK'
<1> DEFINE new == Listed(r, rver[r], TTL)
<1>1. /\ new \in Entry
      /\ new.expires = now + TTL
      /\ now < new.expires
  BY CacheAssumption DEF CacheTypeOK, Listed, Entry
<1>2. /\ cached' \subseteq Entry
      /\ \A e, f \in cached' : SameKey(e, f) => e = f
      /\ \A e \in cached' : now' < e.expires /\ e.expires <= now' + TTL
  <2>1. cached' = {f \in cached : ~ SameKey(new, f)} \cup {new}
    BY DEF Store, Keep
  <2>2. now' = now
    BY DEF Store, Served
  <2> HIDE DEF new
  <2> QED
    BY <1>1, <2>1, <2>2, CacheAssumption DEF CacheTypeOK, SameKey
<1>3. UNCHANGED <<now, cloudVars, version, saved, crashes, regressed, writerVars, rver, shown,
                  fetchedAt, owed>>
  BY DEF Store, Served
<1>4. rat' \in [Readers -> {"new", "lookup", "fetch", "store", "served", "empty", "failed"}]
      /\ servedAt' \in [Readers -> Nat]
  BY DEF Store, Served, ReaderGo, CacheTypeOK
<1> QED
  BY <1>2, <1>3, <1>4 DEF CacheTypeOK, cloudVars, writerVars, SameKey, Entry

LEMMA ServerType ==
  ASSUME CacheTypeOK, Tick \/ Save \/ Restart
  PROVE  CacheTypeOK'
<1>1. CASE Tick
  BY <1>1, CacheAssumption, SMTT(30)
     DEF CacheTypeOK, Tick, LiveAt, cloudVars, writerVars, readerVars, SameKey, Entry
<1>2. CASE Save
  BY <1>2, SMTT(30) DEF CacheTypeOK, Save, cloudVars, writerVars, readerVars, SameKey, Entry
<1>3. CASE Restart
  <2>1. /\ cached' \subseteq Entry
        /\ \A e, f \in cached' : SameKey(e, f) => e = f
        /\ \A e \in cached' : now' < e.expires /\ e.expires <= now' + TTL
    BY <1>3 DEF CacheTypeOK, Restart, LiveAt
  <2>2. version' \in [Tokens -> Nat] /\ regressed' \subseteq Tokens
    BY <1>3 DEF CacheTypeOK, Restart
  <2>3. crashes' \in 0 .. MaxCrashes
    BY <1>3, CacheAssumption DEF CacheTypeOK, Restart
  <2>4. UNCHANGED <<now, cloudVars, saved, writerVars, readerVars>>
    BY <1>3 DEF Restart
  <2> QED
    BY <2>1, <2>2, <2>3, <2>4 DEF CacheTypeOK, cloudVars, writerVars, readerVars
<1> QED
  BY <1>1, <1>2, <1>3

LEMMA StutterType ==
  ASSUME CacheTypeOK, UNCHANGED vars
  PROVE  CacheTypeOK'
  BY DEF CacheTypeOK, vars, cacheVars, cloudVars, writerVars, readerVars, SameKey, Entry

\* The cache, its snapshot and the calls keep their types; there is one list
\* under a key, and none past its time.
THEOREM CacheTypeCorrect == Spec => []CacheTypeOK
<1>1. Init => CacheTypeOK
  BY InitType
<1>2. CacheTypeOK /\ [Next]_vars => CacheTypeOK'
  BY WriterType, ReaderType, StoreType, ServerType, StutterType DEF Next
<1> QED
  BY <1>1, <1>2, PTL DEF Spec

-----------------------------------------------------------------------------
(* A list is never older than TTL and the time an answer is under way. *)

\* A list misses only writes younger than that when it expires.
Aged(e) == \A w \in applied : appliedAt[w] + TTL + Lag < e.expires => w \in e.shows

AgeInv ==
    /\ \A e \in cached \cup saved.cached : Aged(e)
    /\ \A r \in Readers : rat[r] = "store" =>
          /\ fetchedAt[r] <= now
          /\ now <= fetchedAt[r] + Lag
          /\ \A w \in applied : appliedAt[w] < fetchedAt[r] => w \in shown[r]
    /\ \A r \in Readers : rat[r] = "served" => servedAt[r] <= now
    /\ StaleWithinTTL

LEMMA InitAge == Init => AgeInv
  BY DEF Init, AgeInv, Aged, StaleWithinTTL

\* A write carried out now is younger than anything stored or served.
LEMMA PostAge ==
  ASSUME CacheTypeOK, AgeInv, NEW w \in Writers, Post(w)
  PROVE  AgeInv'
<1>1. \/ UNCHANGED cloudVars
      \/ applied' = applied \cup {w} /\ appliedAt' = [appliedAt EXCEPT ![w] = now]
  BY DEF Post
<1>2. UNCHANGED <<now, cacheVars, readerVars>>
  BY DEF Post
<1>3. \A v \in applied' :
         (v \in applied /\ appliedAt'[v] = appliedAt[v]) \/ appliedAt'[v] = now
  BY <1>1 DEF CacheTypeOK, cloudVars
<1>4. ASSUME NEW e \in cached' \cup saved'.cached
      PROVE  Aged(e)'
  <2>1. e \in cached \cup saved.cached /\ e.expires \in Nat /\ e.expires <= now + TTL
    BY <1>2 DEF cacheVars, CacheTypeOK, Entry
  <2>2. Aged(e)
    BY <2>1 DEF AgeInv
  <2> QED
    BY <1>3, <2>1, <2>2, CacheAssumption DEF Aged, CacheTypeOK
<1>5. ASSUME NEW r \in Readers, rat'[r] = "store"
      PROVE  /\ fetchedAt'[r] <= now'
             /\ now' <= fetchedAt'[r] + Lag
             /\ \A v \in applied' : appliedAt'[v] < fetchedAt'[r] => v \in shown'[r]
  BY <1>2, <1>3, <1>5, CacheAssumption DEF AgeInv, readerVars, CacheTypeOK
<1>6. ASSUME NEW r \in Readers, rat'[r] = "served"
      PROVE  /\ servedAt'[r] <= now'
             /\ \A v \in applied' :
                   servedAt'[r] - appliedAt'[v] > TTL + Lag => v \in shown'[r]
  BY <1>2, <1>3, <1>6, CacheAssumption DEF AgeInv, StaleWithinTTL, readerVars, CacheTypeOK
<1> QED
  BY <1>4, <1>5, <1>6 DEF AgeInv, StaleWithinTTL

\* The other steps of a write leave lists and time alone.
LEMMA WriterAge ==
  ASSUME AgeInv, NEW w \in Writers, ReadVersion(w) \/ WriteVersion(w) \/ WriterDies(w)
  PROVE  AgeInv'
<1>1. UNCHANGED <<now, cloudVars, cached, saved, readerVars>>
  BY DEF ReadVersion, WriteVersion, WriterDies, cacheVars
<1> QED
  BY <1>1 DEF AgeInv, Aged, StaleWithinTTL, cloudVars, readerVars

LEMMA ReaderAge ==
  ASSUME CacheTypeOK, AgeInv, NEW r \in Readers,
         Ask(r) \/ LookUp(r) \/ Fetch(r) \/ ReaderDies(r)
  PROVE  AgeInv'
<1>1. UNCHANGED <<now, cloudVars, cacheVars>>
  BY DEF Ask, LookUp, Fetch, ReaderDies
<1>2. \A e \in cached' \cup saved'.cached : Aged(e)'
  BY <1>1 DEF AgeInv, Aged, cloudVars, cacheVars
<1>3. \A q \in Readers \ {r} :
         /\ rat'[q] = rat[q] /\ shown'[q] = shown[q]
         /\ fetchedAt'[q] = fetchedAt[q] /\ servedAt'[q] = servedAt[q]
  BY DEF Ask, LookUp, Fetch, ReaderDies, ReaderGo, CacheTypeOK
<1>4. ASSUME rat'[r] = "store"
      PROVE  /\ fetchedAt'[r] <= now'
             /\ now' <= fetchedAt'[r] + Lag
             /\ \A w \in applied' : appliedAt'[w] < fetchedAt'[r] => w \in shown'[r]
  <2>1. Fetch(r) /\ fetchedAt'[r] = now /\ shown'[r] = applied
    BY <1>4 DEF Ask, LookUp, Fetch, ReaderDies, ReaderGo, CacheTypeOK
  <2> QED
    BY <1>1, <2>1, CacheAssumption DEF CacheTypeOK, cloudVars
<1>5. ASSUME rat'[r] = "served"
      PROVE  /\ servedAt'[r] <= now'
             /\ \A w \in applied' :
                   servedAt'[r] - appliedAt'[w] > TTL + Lag => w \in shown'[r]
  <2>1. PICK e \in cached : shown'[r] = e.shows /\ servedAt'[r] = now
    BY <1>5 DEF Ask, LookUp, Under, Fetch, ReaderDies, ReaderGo, CacheTypeOK
  <2>2. Aged(e) /\ now < e.expires /\ e.expires \in Nat
    BY <2>1 DEF AgeInv, CacheTypeOK, Entry
  <2> QED
    BY <1>1, <2>1, <2>2, CacheAssumption DEF Aged, CacheTypeOK, cloudVars
<1> QED
  BY <1>1, <1>2, <1>3, <1>4, <1>5 DEF AgeInv, StaleWithinTTL, cloudVars

LEMMA StoreAge ==
  ASSUME CacheTypeOK, AgeInv, NEW r \in Readers, Store(r)
  PROVE  AgeInv'
<1>1. UNCHANGED <<now, cloudVars, saved, shown, fetchedAt>>
  BY DEF Store, Served
<1>2. rat[r] = "store"
  BY DEF Store, Served
<1>3. ASSUME NEW e \in cached' \cup saved'.cached
      PROVE  Aged(e)'
  <2>1. CASE e = Listed(r, rver[r], TTL)
    <3>1. e.shows = shown[r] /\ e.expires = now + TTL
      BY <2>1 DEF Listed
    <3> QED
      BY <1>1, <1>2, <3>1, CacheAssumption DEF Aged, AgeInv, CacheTypeOK, cloudVars
  <2>2. CASE e # Listed(r, rver[r], TTL)
    <3>1. e \in cached \cup saved.cached
      BY <1>1, <2>2 DEF Store, Keep
    <3> QED
      BY <1>1, <3>1 DEF AgeInv, Aged, cloudVars
  <2> QED
    BY <2>1, <2>2
<1>4. \A q \in Readers \ {r} : rat'[q] = rat[q] /\ servedAt'[q] = servedAt[q]
  BY DEF Store, Served, ReaderGo, CacheTypeOK
<1>5. rat'[r] = "served" /\ servedAt'[r] = now
  BY DEF Store, Served, ReaderGo, CacheTypeOK
<1>6. \A w \in applied : now - appliedAt[w] > TTL + Lag => w \in shown[r]
  BY <1>2, CacheAssumption DEF AgeInv, CacheTypeOK
<1> QED
  BY <1>1, <1>3, <1>4, <1>5, <1>6 DEF AgeInv, StaleWithinTTL, CacheTypeOK, cloudVars

\* Time does not pass an answer that is overdue; nothing is added to the cache.
LEMMA ServerAge ==
  ASSUME CacheTypeOK, AgeInv, Tick \/ Save \/ Restart
  PROVE  AgeInv'
<1>1. UNCHANGED <<cloudVars, readerVars>>
  BY DEF Tick, Save, Restart
<1>2. cached' \cup saved'.cached \subseteq cached \cup saved.cached
  BY DEF Tick, Save, Restart, LiveAt
<1>3. \A e \in cached' \cup saved'.cached : Aged(e)'
  BY <1>1, <1>2 DEF AgeInv, Aged, cloudVars
<1>4. /\ now' \in Nat /\ now <= now'
      /\ \A r \in Readers : rat[r] = "store" => now' <= fetchedAt[r] + Lag
  <2>1. CASE Tick
    BY <2>1, CacheAssumption DEF Tick, CacheTypeOK
  <2>2. CASE Save \/ Restart
    BY <2>2 DEF Save, Restart, CacheTypeOK, AgeInv
  <2> QED
    BY <2>1, <2>2
<1> QED
  BY <1>1, <1>3, <1>4 DEF AgeInv, StaleWithinTTL, CacheTypeOK, cloudVars, readerVars

LEMMA StutterAge ==
  ASSUME AgeInv, UNCHANGED vars
  PROVE  AgeInv'
  BY DEF AgeInv, Aged, StaleWithinTTL, vars, cacheVars, cloudVars, readerVars

\* Whatever becomes of the invalidations and of the cache server, a list misses
\* only writes of the last TTL and of the time an answer was under way.
THEOREM StaleCorrect == Spec => []StaleWithinTTL
<1>1. Init => AgeInv
  BY InitAge
<1>2. CacheTypeOK /\ AgeInv /\ [Next]_vars => AgeInv'
  BY PostAge, WriterAge, ReaderAge, StoreAge, ServerAge, StutterAge DEF Next
<1>3. AgeInv => StaleWithinTTL
  BY DEF AgeInv
<1> QED
  BY <1>1, <1>2, <1>3, CacheTypeCorrect, PTL DEF Spec

-----------------------------------------------------------------------------
(* A token's version tells which writes a list shows, while it only rises. *)

\* A write that has read version v has been carried out, so a list kept or
\* looked for under a higher version was fetched later and shows it.
WriteAt(w) ==
    /\ wat[w] \in {"invalidate", "bump", "ended"} => w \in applied
    /\ wat[w] \in {"bump", "ended"} =>
          /\ wver[w] <= version[TokenOf[w]]
          /\ \A e \in cached :
                e.token = TokenOf[w] /\ e.version > wver[w] => w \in e.shows
          /\ \A r \in Readers :
                TokenOf[r] = TokenOf[w] /\ rat[r] = "store" /\ rver[r] > wver[w]
                   => w \in shown[r]
    /\ wat[w] = "ended" => wver[w] < version[TokenOf[w]]

ReadAt(r) ==
    /\ rat[r] \in {"lookup", "fetch", "store"} =>
          /\ rver[r] <= version[TokenOf[r]]
          /\ \A w \in owed[r] :
                TokenOf[w] = TokenOf[r] /\ wat[w] = "ended" /\ wver[w] < rver[r]
    /\ rat[r] = "served" => owed[r] \subseteq shown[r]

FreshInv ==
    /\ \A e \in cached : e.token \notin regressed => e.version <= version[e.token]
    /\ \A w \in Writers : TokenOf[w] \notin regressed => WriteAt(w)
    /\ \A r \in Readers : TokenOf[r] \notin regressed => ReadAt(r)

LEMMA InitFresh == Init => FreshInv
  BY DEF Init, FreshInv, WriteAt, ReadAt

LEMMA PostFresh ==
  ASSUME CacheTypeOK, FreshInv, NEW w \in Writers, Post(w) \/ WriterDies(w)
  PROVE  FreshInv'
<1>1. UNCHANGED <<cacheVars, wver, readerVars>>
  BY DEF Post, WriterDies
<1>2. applied \subseteq applied'
  BY DEF Post, WriterDies, cloudVars
<1>3. wat'[w] \in {"invalidate", "failed"} /\ (wat'[w] = "invalidate" => w \in applied')
  BY DEF Post, WriterDies, WriterGo, CacheTypeOK
<1>4. \A v \in Writers \ {w} : wat'[v] = wat[v]
  BY DEF Post, WriterDies, WriterGo, CacheTypeOK
<1>5. wat[w] # "ended"
  BY DEF Post, WriterDies
<1>6. \A v \in Writers : TokenOf[v] \notin regressed' => WriteAt(v)'
  BY <1>1, <1>2, <1>3, <1>4 DEF FreshInv, WriteAt, cacheVars, readerVars
<1>7. \A r \in Readers : TokenOf[r] \notin regressed' => ReadAt(r)'
  BY <1>1, <1>4, <1>5 DEF FreshInv, ReadAt, CacheTypeOK, cacheVars, readerVars
<1> QED
  BY <1>1, <1>6, <1>7 DEF FreshInv, cacheVars

\* Nothing has been kept or looked for above the version read now.
LEMMA ReadVersionFresh ==
  ASSUME CacheTypeOK, FreshInv, NEW w \in Writers, ReadVersion(w)
  PROVE  FreshInv'
<1>1. UNCHANGED <<cloudVars, cacheVars, readerVars>>
  BY DEF ReadVersion
<1>2. wat[w] = "invalidate" /\ wat'[w] = "bump" /\ wver'[w] = version[TokenOf[w]]
  BY DEF ReadVersion, WriterGo, CacheTypeOK
<1>3. \A v \in Writers \ {w} : wat'[v] = wat[v] /\ wver'[v] = wver[v]
  BY DEF ReadVersion, WriterGo, CacheTypeOK
<1>4. TokenOf[w] \in Tokens /\ version[TokenOf[w]] \in Nat
  BY CacheAssumption DEF CacheTypeOK
<1>5. ASSUME TokenOf[w] \notin regressed'
      PROVE  WriteAt(w)'
  <2>1. w \in applied' /\ wver'[w] <= version'[TokenOf[w]]
    BY <1>1, <1>2, <1>4, <1>5 DEF FreshInv, WriteAt, cloudVars, cacheVars
  <2>2. \A e \in cached' : e.token = TokenOf[w] => ~ (e.version > wver'[w])
    BY <1>1, <1>2, <1>4, <1>5 DEF FreshInv, CacheTypeOK, Entry, cacheVars
  <2>3. \A r \in Readers :
           TokenOf[r] = TokenOf[w] /\ rat'[r] = "store" => ~ (rver'[r] > wver'[w])
    BY <1>1, <1>2, <1>4, <1>5 DEF FreshInv, ReadAt, CacheTypeOK, cacheVars, readerVars
  <2> QED
    BY <1>2, <2>1, <2>2, <2>3 DEF WriteAt
<1>6. \A v \in Writers \ {w} : TokenOf[v] \notin regressed' => WriteAt(v)'
  BY <1>1, <1>3 DEF FreshInv, WriteAt, cloudVars, cacheVars, readerVars
<1>7. \A r \in Readers : TokenOf[r] \notin regressed' => ReadAt(r)'
  BY <1>1, <1>2, <1>3 DEF FreshInv, ReadAt, CacheTypeOK, cacheVars, readerVars
<1> QED
  BY <1>1, <1>5, <1>6, <1>7 DEF FreshInv, cacheVars

\* Unless it sets the version back, a write raises it or leaves it.
LEMMA WriteVersionFresh ==
  ASSUME CacheTypeOK, FreshInv, NEW w \in Writers, WriteVersion(w)
  PROVE  FreshInv'
<1> DEFINE t == TokenOf[w]
<1>1. UNCHANGED <<cloudVars, cached, wver, readerVars>>
  BY DEF WriteVersion
<1>2. wat[w] = "bump" /\ wat'[w] = "ended"
  BY DEF WriteVersion, WriterGo, CacheTypeOK
<1>3. \A v \in Writers \ {w} : wat'[v] = wat[v]
  BY DEF WriteVersion, WriterGo, CacheTypeOK
<1>4. t \in Tokens /\ \A p \in Readers \cup Writers : TokenOf[p] \in Tokens
  BY CacheAssumption
<1>5. regressed \subseteq regressed'
  BY DEF WriteVersion
<1>6. \A u \in Tokens \ regressed' : version'[u] \in Nat /\ version[u] <= version'[u]
  BY <1>4 DEF WriteVersion, CacheTypeOK
<1>7. version'[t] = wver[w] + 1 /\ wver[w] \in Nat
  BY <1>4 DEF WriteVersion, CacheTypeOK
<1>8. \A e \in cached' : e.token \notin regressed' => e.version <= version'[e.token]
  BY <1>1, <1>5, <1>6 DEF FreshInv, CacheTypeOK, Entry
<1>9. \A v \in Writers \ {w} : TokenOf[v] \notin regressed' => WriteAt(v)'
  BY <1>1, <1>3, <1>4, <1>5, <1>6 DEF FreshInv, WriteAt, CacheTypeOK, cloudVars, readerVars
<1>10. t \notin regressed' => WriteAt(w)'
  BY <1>1, <1>2, <1>4, <1>5, <1>6, <1>7 DEF FreshInv, WriteAt, CacheTypeOK, cloudVars, readerVars
<1>11. \A r \in Readers : TokenOf[r] \notin regressed' => ReadAt(r)'
  BY <1>1, <1>2, <1>3, <1>4, <1>5, <1>6 DEF FreshInv, ReadAt, CacheTypeOK, readerVars
<1> QED
  BY <1>8, <1>9, <1>10, <1>11 DEF FreshInv

\* The version looked under is above what every ended write had read.
LEMMA AskFresh ==
  ASSUME CacheTypeOK, FreshInv, NEW r \in Readers, Ask(r)
  PROVE  FreshInv'
<1>1. UNCHANGED <<cloudVars, cacheVars, writerVars, shown>>
  BY DEF Ask
<1>2. /\ rat'[r] = "lookup" /\ rver'[r] = version[TokenOf[r]]
      /\ owed'[r] = {w \in Writers : TokenOf[w] = TokenOf[r] /\ wat[w] = "ended"}
  BY DEF Ask, ReaderGo, CacheTypeOK
<1>3. \A q \in Readers \ {r} : rat'[q] = rat[q] /\ rver'[q] = rver[q] /\ owed'[q] = owed[q]
  BY DEF Ask, ReaderGo, CacheTypeOK
<1>4. TokenOf[r] \in Tokens /\ version[TokenOf[r]] \in Nat
  BY CacheAssumption DEF CacheTypeOK
<1>5. TokenOf[r] \notin regressed' => ReadAt(r)'
  BY <1>1, <1>2, <1>4 DEF FreshInv, WriteAt, ReadAt, cacheVars, writerVars
<1>6. \A q \in Readers \ {r} : TokenOf[q] \notin regressed' => ReadAt(q)'
  BY <1>1, <1>3 DEF FreshInv, ReadAt, cacheVars, writerVars
<1>7. \A w \in Writers : TokenOf[w] \notin regressed' => WriteAt(w)'
  BY <1>1, <1>2, <1>3 DEF FreshInv, WriteAt, cloudVars, cacheVars, writerVars
<1> QED
  BY <1>1, <1>5, <1>6, <1>7 DEF FreshInv, cacheVars

\* A list found shows what is owed; one fetched shows all there is.
LEMMA LookUpFresh ==
  ASSUME CacheTypeOK, FreshInv, NEW r \in Readers, LookUp(r) \/ Fetch(r) \/ ReaderDies(r)
  PROVE  FreshInv'
<1>1. UNCHANGED <<cloudVars, cacheVars, writerVars, rver, owed>>
  BY DEF LookUp, Fetch, ReaderDies
<1>2. \A q \in Readers \ {r} : rat'[q] = rat[q] /\ shown'[q] = shown[q]
  BY DEF LookUp, Fetch, ReaderDies, ReaderGo, CacheTypeOK
<1>3. rat'[r] \in {"lookup", "fetch", "store"} => rat[r] \in {"lookup", "fetch", "store"}
  BY DEF LookUp, Fetch, ReaderDies, ReaderGo, CacheTypeOK
<1>4. rat'[r] = "store" => shown'[r] = applied
  BY DEF LookUp, Fetch, ReaderDies, ReaderGo, CacheTypeOK
<1>5. ASSUME rat'[r] = "served", TokenOf[r] \notin regressed
      PROVE  owed[r] \subseteq shown'[r]
  <2>1. rat[r] = "lookup"
    BY <1>5 DEF LookUp, Fetch, ReaderDies, ReaderGo, CacheTypeOK
  <2>2. PICK e \in Under(r) : shown'[r] = e.shows
    BY <1>5 DEF LookUp, Fetch, ReaderDies, ReaderGo, CacheTypeOK
  <2>3. e \in cached /\ e.token = TokenOf[r] /\ e.version = rver[r] /\ rver[r] \in Nat
    BY <2>2 DEF Under, CacheTypeOK
  <2>4. ASSUME NEW w \in owed[r] PROVE w \in e.shows
    <3>1. w \in Writers /\ wver[w] \in Nat
      BY DEF CacheTypeOK
    <3>2. TokenOf[w] = TokenOf[r] /\ wat[w] = "ended" /\ wver[w] < rver[r]
      BY <1>5, <2>1 DEF FreshInv, ReadAt
    <3>3. WriteAt(w)
      BY <1>5, <3>1, <3>2 DEF FreshInv
    <3> QED
      BY <2>3, <3>1, <3>2, <3>3 DEF WriteAt
  <2> QED
    BY <2>2, <2>4
<1>6. \A w \in Writers : TokenOf[w] \notin regressed' => WriteAt(w)'
  BY <1>1, <1>2, <1>4 DEF FreshInv, WriteAt, cloudVars, cacheVars, writerVars
<1>7. \A q \in Readers : TokenOf[q] \notin regressed' => ReadAt(q)'
  BY <1>1, <1>2, <1>3, <1>5 DEF FreshInv, ReadAt, cacheVars, writerVars
<1> QED
  BY <1>1, <1>6, <1>7 DEF FreshInv, cacheVars

\* A list is kept under the version it was looked for under, not the current one.
LEMMA StoreFresh ==
  ASSUME CacheTypeOK, FreshInv, NEW r \in Readers, Store(r)
  PROVE  FreshInv'
<1>1. UNCHANGED <<cloudVars, version, regressed, writerVars, rver, shown, owed>>
  BY DEF Store, Served
<1>2. rat[r] = "store" /\ rat'[r] = "served" /\ rver[r] \in Nat
  BY DEF Store, Served, ReaderGo, CacheTypeOK
<1>3. \A q \in Readers \ {r} : rat'[q] = rat[q]
  BY DEF Store, Served, ReaderGo, CacheTypeOK
<1>4. \A e \in cached' :
         \/ e \in cached
         \/ e.token = TokenOf[r] /\ e.version = rver[r] /\ e.shows = shown[r]
  BY DEF Store, Keep, Listed
<1>5. \A e \in cached' : e.token \notin regressed' => e.version <= version'[e.token]
  BY <1>1, <1>2, <1>4 DEF FreshInv, ReadAt
<1>6. \A w \in Writers : TokenOf[w] \notin regressed' => WriteAt(w)'
  BY <1>1, <1>2, <1>3, <1>4 DEF FreshInv, WriteAt, cloudVars, writerVars
<1>7. ASSUME TokenOf[r] \notin regressed, NEW w \in owed[r]
      PROVE  w \in shown[r]
  <2>1. w \in Writers
    BY DEF CacheTypeOK
  <2>2. TokenOf[w] = TokenOf[r] /\ wat[w] = "ended" /\ wver[w] < rver[r]
    BY <1>2, <1>7 DEF FreshInv, ReadAt
  <2>3. WriteAt(w)
    BY <1>7, <2>1, <2>2 DEF FreshInv
  <2> QED
    BY <1>2, <2>1, <2>2, <2>3 DEF WriteAt, CacheTypeOK
<1>8. \A q \in Readers : TokenOf[q] \notin regressed' => ReadAt(q)'
  BY <1>1, <1>2, <1>3, <1>7 DEF FreshInv, ReadAt, writerVars
<1> QED
  BY <1>5, <1>6, <1>8 DEF FreshInv

\* Nothing is added to the cache, and a crash counts as setting versions back.
LEMMA ServerFresh ==
  ASSUME CacheTypeOK, FreshInv, Tick \/ Save \/ Restart
  PROVE  FreshInv'
<1>1. UNCHANGED <<cloudVars, writerVars, readerVars>>
  BY DEF Tick, Save, Restart
<1>2. CASE Tick \/ Save
  <2>1. UNCHANGED <<version, regressed>> /\ cached' \subseteq cached
    BY <1>2 DEF Tick, Save, LiveAt
  <2> QED
    BY <1>1, <2>1 DEF FreshInv, WriteAt, ReadAt, cloudVars, writerVars, readerVars
<1>3. CASE Restart
  <2>1. regressed' = Tokens /\ cached' \subseteq Entry
    BY <1>3 DEF Restart, LiveAt, CacheTypeOK
  <2> QED
    BY <2>1, CacheAssumption DEF FreshInv, Entry
<1> QED
  BY <1>2, <1>3

LEMMA StutterFresh ==
  ASSUME FreshInv, UNCHANGED vars
  PROVE  FreshInv'
  BY DEF FreshInv, WriteAt, ReadAt, vars, cacheVars, cloudVars, writerVars, readerVars

\* While a token's version is not set back, a list shows every write its token
\* had made before it was asked for.
THEOREM FreshCorrect == Spec => []FreshUnlessRegressed
<1>1. Init => FreshInv
  BY InitFresh
<1>2. CacheTypeOK /\ FreshInv /\ [Next]_vars => FreshInv'
  BY PostFresh, ReadVersionFresh, WriteVersionFresh, AskFresh, LookUpFresh, StoreFresh,
     ServerFresh, StutterFresh DEF Next
<1>3. FreshInv => FreshUnlessRegressed
  BY DEF FreshInv, ReadAt, FreshUnlessRegressed
<1> QED
  BY <1>1, <1>2, <1>3, CacheTypeCorrect, PTL DEF Spec
=============================================================================
