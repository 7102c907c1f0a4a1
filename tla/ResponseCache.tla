---------------------------- MODULE ResponseCache ----------------------------
(***************************************************************************)
(* The read-through cache of the cloud's lists (apps.integrations.zadara.  *)
(* resources): a list is kept for TTL under its token's current version,   *)
(* and a write made with a token raises that token's version.              *)
(*                                                                         *)
(* The version is read in one cache command and written in another, the    *)
(* list is fetched between two more, and web workers do this at the same   *)
(* time.  The cache server is Redis with periodic snapshots                *)
(* (docker-compose.prod.yml): after a crash it comes back as last saved.   *)
(*                                                                         *)
(* One list stands for all of them: lists share only the version.  A list  *)
(* is modelled by the writes it shows.                                     *)
(***************************************************************************)
EXTENDS Integers

CONSTANTS
    Readers,  \* calls of a list function, each made once
    Writers,  \* calls of vm_action or of a firewall-rule write, each made once
    Tokens,
    TokenOf,  \* [Readers \cup Writers -> Tokens]
    TTL,      \* how long a stored list is served, in ticks
    Lag,      \* bound: ticks between the cloud's answer and its storing
    MaxTime,  \* bound: ticks in a run
    MaxCrashes \* bound: crashes of the cache server in a run

ASSUME CacheAssumption ==
    /\ TokenOf \in [Readers \cup Writers -> Tokens]
    /\ TTL \in Nat \ {0}
    /\ Lag \in Nat
    /\ MaxTime \in Nat
    /\ MaxCrashes \in Nat

VARIABLES
    now,
    applied,    \* the cloud: writes it has carried out
    appliedAt,  \* and when
    version,    \* the cache: each token's version
    cached,     \* the cache: lists that have not expired
    saved,      \* the cache server's last snapshot of both
    crashes,    \* how often it has crashed, for MaxCrashes
    wat, wver,  \* a writer's next statement, the version it has read
    rat, rver,  \* a reader's next statement, the version it looks under
    shown,      \* the writes the list in a reader's hands shows
    fetchedAt,
    servedAt,
    \* history
    owed,       \* the same token's writes that had ended when the reader came
    regressed   \* tokens whose version has been set back

cacheVars == <<version, cached, saved, crashes, regressed>>
cloudVars == <<applied, appliedAt>>
writerVars == <<wat, wver>>
readerVars == <<rat, rver, shown, fetchedAt, servedAt, owed>>
vars == <<now, cloudVars, cacheVars, writerVars, readerVars>>

Entry == [token : Tokens, version : Nat, shows : SUBSET Writers, expires : Nat]

SameKey(e, f) == e.token = f.token /\ e.version = f.version

CacheTypeOK ==
    /\ now \in Nat
    /\ applied \subseteq Writers
    /\ appliedAt \in [Writers -> Nat]
    /\ version \in [Tokens -> Nat]
    /\ cached \subseteq Entry
    /\ \A e, f \in cached : SameKey(e, f) => e = f
    /\ \A e \in cached : now < e.expires /\ e.expires <= now + TTL
    /\ saved.version \in [Tokens -> Nat]
    /\ saved.cached \subseteq Entry
    /\ \A e, f \in saved.cached : SameKey(e, f) => e = f
    /\ \A e \in saved.cached : e.expires <= now + TTL
    /\ crashes \in 0 .. MaxCrashes
    /\ wat \in [Writers -> {"new", "invalidate", "bump", "ended", "failed"}]
    /\ wver \in [Writers -> Nat]
    /\ rat \in [Readers -> {"new", "lookup", "fetch", "store", "served", "empty", "failed"}]
    /\ rver \in [Readers -> Nat]
    /\ shown \in [Readers -> SUBSET Writers]
    /\ fetchedAt \in [Readers -> Nat]
    /\ servedAt \in [Readers -> Nat]
    /\ owed \in [Readers -> SUBSET Writers]
    /\ regressed \subseteq Tokens

Init ==
    /\ now = 0
    /\ applied = {}
    /\ appliedAt = [w \in Writers |-> 0]
    /\ version = [t \in Tokens |-> 0]
    /\ cached = {}
    /\ saved = [version |-> version, cached |-> cached]
    /\ crashes = 0
    /\ wat = [w \in Writers |-> "new"]
    /\ wver = [w \in Writers |-> 0]
    /\ rat = [r \in Readers |-> "new"]
    /\ rver = [r \in Readers |-> 0]
    /\ shown = [r \in Readers |-> {}]
    /\ fetchedAt = [r \in Readers |-> 0]
    /\ servedAt = [r \in Readers |-> 0]
    /\ owed = [r \in Readers |-> {}]
    /\ regressed = {}

-----------------------------------------------------------------------------
(* A write: the cloud is asked, then invalidate() is called. *)

WriterGo(w, statement) == wat' = [wat EXCEPT ![w] = statement]

\* Carried out and answered, carried out with the answer lost on the way, or
\* refused. An error of any kind ends the call before the invalidation.
Post(w) ==
    /\ wat[w] = "new"
    /\ \/ /\ applied' = applied \cup {w}
          /\ appliedAt' = [appliedAt EXCEPT ![w] = now]
          /\ WriterGo(w, "invalidate") \/ WriterGo(w, "failed")
       \/ WriterGo(w, "failed") /\ UNCHANGED cloudVars
    /\ UNCHANGED <<now, cacheVars, wver, readerVars>>

ReadVersion(w) ==
    /\ wat[w] = "invalidate"
    /\ wver' = [wver EXCEPT ![w] = version[TokenOf[w]]]
    /\ WriterGo(w, "bump")
    /\ UNCHANGED <<now, cloudVars, cacheVars, readerVars>>

\* The successor of what was read, whatever is there by now.
WriteVersion(w) ==
    LET t == TokenOf[w] IN
    /\ wat[w] = "bump"
    /\ version' = [version EXCEPT ![t] = wver[w] + 1]
    /\ regressed' = IF wver[w] + 1 < version[t] THEN regressed \cup {t} ELSE regressed
    /\ WriterGo(w, "ended")
    /\ UNCHANGED <<now, cloudVars, cached, saved, crashes, wver, readerVars>>

WriterDies(w) ==
    /\ wat[w] \in {"invalidate", "bump"}
    /\ WriterGo(w, "failed")
    /\ UNCHANGED <<now, cloudVars, cacheVars, wver, readerVars>>

-----------------------------------------------------------------------------
(* A read: _cached_get. *)

ReaderGo(r, statement) == rat' = [rat EXCEPT ![r] = statement]

Ask(r) ==
    /\ rat[r] = "new"
    /\ owed' = [owed EXCEPT ![r] =
                  {w \in Writers : TokenOf[w] = TokenOf[r] /\ wat[w] = "ended"}]
    /\ rver' = [rver EXCEPT ![r] = version[TokenOf[r]]]
    /\ ReaderGo(r, "lookup")
    /\ UNCHANGED <<now, cloudVars, cacheVars, writerVars, shown, fetchedAt, servedAt>>

Under(r) == {e \in cached : e.token = TokenOf[r] /\ e.version = rver[r]}

LookUp(r) ==
    /\ rat[r] = "lookup"
    /\ \/ \E e \in Under(r) :
            /\ shown' = [shown EXCEPT ![r] = e.shows]
            /\ servedAt' = [servedAt EXCEPT ![r] = now]
            /\ ReaderGo(r, "served")
       \/ /\ Under(r) = {}
          /\ ReaderGo(r, "fetch")
          /\ UNCHANGED <<shown, servedAt>>
    /\ UNCHANGED <<now, cloudVars, cacheVars, writerVars, rver, fetchedAt, owed>>

\* The cloud's answer: its list as of now, no body at all (which is not stored
\* and reads as an empty list), or an error.
Fetch(r) ==
    /\ rat[r] = "fetch"
    /\ \/ /\ shown' = [shown EXCEPT ![r] = applied]
          /\ fetchedAt' = [fetchedAt EXCEPT ![r] = now]
          /\ ReaderGo(r, "store")
       \/ /\ ReaderGo(r, "empty") \/ ReaderGo(r, "failed")
          /\ UNCHANGED <<shown, fetchedAt>>
    /\ UNCHANGED <<now, cloudVars, cacheVars, writerVars, rver, servedAt, owed>>

Listed(r, v, ttl) ==
    [token |-> TokenOf[r], version |-> v, shows |-> shown[r], expires |-> now + ttl]

Keep(e) == cached' = {f \in cached : ~ SameKey(e, f)} \cup {e}

Served(r) ==
    /\ rat[r] = "store"
    /\ servedAt' = [servedAt EXCEPT ![r] = now]
    /\ ReaderGo(r, "served")
    /\ UNCHANGED <<now, cloudVars, version, saved, crashes, regressed, writerVars, rver,
                   shown, fetchedAt, owed>>

\* Mutant: the key is computed again once the list is there.
StoreUnderCurrent(r) == Served(r) /\ Keep(Listed(r, version[TokenOf[r]], TTL))

\* Mutant: the time to live is forgotten and the backend's own applies.
StoreLonger(r) == Served(r) /\ Keep(Listed(r, rver[r], 3 * TTL))

\* Mutant: what is stored under the key already stays there too.
StoreBeside(r) == Served(r) /\ cached' = cached \cup {Listed(r, rver[r], TTL)}

Store(r) == Served(r) /\ Keep(Listed(r, rver[r], TTL))

ReaderDies(r) ==
    /\ rat[r] \in {"lookup", "fetch", "store"}
    /\ ReaderGo(r, "failed")
    /\ UNCHANGED <<now, cloudVars, cacheVars, writerVars, rver, shown, fetchedAt, servedAt, owed>>

-----------------------------------------------------------------------------
(* Time, and the cache server. *)

LiveAt(entries, t) == {e \in entries : t < e.expires}

Tick ==
    /\ now < MaxTime
    /\ \A r \in Readers : rat[r] = "store" => now < fetchedAt[r] + Lag
    /\ now' = now + 1
    /\ cached' = LiveAt(cached, now + 1)
    /\ UNCHANGED <<cloudVars, version, saved, crashes, regressed, writerVars, readerVars>>

Save ==
    /\ crashes < MaxCrashes
    /\ saved' = [version |-> version, cached |-> cached]
    /\ UNCHANGED <<now, cloudVars, version, cached, crashes, regressed, writerVars,
                   readerVars>>

\* Expiry times are saved as points in time.
Restart ==
    /\ crashes < MaxCrashes
    /\ crashes' = crashes + 1
    /\ version' = saved.version
    /\ cached' = LiveAt(saved.cached, now)
    /\ regressed' = Tokens
    /\ UNCHANGED <<now, cloudVars, saved, writerVars, readerVars>>

Next ==
    \/ \E w \in Writers : Post(w) \/ ReadVersion(w) \/ WriteVersion(w) \/ WriterDies(w)
    \/ \E r \in Readers : Ask(r) \/ LookUp(r) \/ Fetch(r) \/ Store(r) \/ ReaderDies(r)
    \/ Tick
    \/ Save
    \/ Restart

Spec == Init /\ [][Next]_vars

-----------------------------------------------------------------------------
(* Properties. *)

\* Whoever wrote, and whatever became of the invalidation, a list misses only
\* writes of the last TTL, and of the time an answer was under way: "a
\* colleague sees the change within the TTL" (resources.py).
StaleWithinTTL ==
    \A r \in Readers : rat[r] = "served" =>
        \A w \in applied : servedAt[r] - appliedAt[w] > TTL + Lag => w \in shown[r]

\* As long as a token's version has not been set back, a list shows every write
\* its token had made before it was asked for, also when older lists of that
\* token were fetched before the write and stored after it.
FreshUnlessRegressed ==
    \A r \in Readers :
        rat[r] = "served" /\ TokenOf[r] \notin regressed => owed[r] \subseteq shown[r]
=============================================================================
