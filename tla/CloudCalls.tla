------------------------------ MODULE CloudCalls ------------------------------
(***************************************************************************)
(* How one process of the cabinet talks to the cloud: the low-level call   *)
(* with its ceiling, retries and time-outs (integrations.zadara.http), the *)
(* parallel reads (common.concurrency), the service token                  *)
(* (integrations.zadara.service), and the pages and actions made of them.  *)
(*                                                                         *)
(* What a process does is a forest.  A node without a parent is a request  *)
(* of a browser; a leaf is one call of the cloud.  Between them are the    *)
(* functions that make several calls: a gather makes its parts at once, in *)
(* threads of its own, and the others make them in turn.  A part may be a  *)
(* gather again.                                                           *)
(***************************************************************************)
EXTENDS Integers, FiniteSets

CONSTANTS
    Nodes,
    Parent,      \* of a node
    NoNode,
    Gathers,     \* nodes whose parts are read at once
    After,       \* of a part: those that must have come off before it is tried
    Fatal,       \* of a node: sets of parts without all of which it fails
    Writes,      \* leaves that change something in the cloud
    Service,     \* leaves called with the service token
    UsesDb,      \* leaves whose code asks the database as well
    Gate,        \* ZADARA_MAX_CONCURRENT_REQUESTS
    MaxWorkers,
    Requests,    \* that the server lets into a process at once
    MaxRetries,
    MaxTroubles, \* bound: what goes wrong, in the cloud or beside it
    MaxTokens    \* bound: service tokens

Kids == [n \in Nodes \cup {NoNode} |-> {k \in Nodes : Parent[k] = n}]
Roots == Kids[NoNode]
Leaves == {n \in Nodes : Kids[n] = {}}

ASSUME CallsAssumption ==
    /\ NoNode \notin Nodes
    /\ Parent \in [Nodes -> Nodes \cup {NoNode}]
    \* nothing is a part of itself
    /\ \A some \in SUBSET Nodes : some # {} => \E n \in some : Parent[n] \notin some
    /\ Gathers \subseteq Nodes \ Leaves /\ Roots \cap Leaves = {}
    /\ After \in [Nodes -> SUBSET Nodes]
    /\ Fatal \in [Nodes -> SUBSET SUBSET Nodes]
    /\ Writes \subseteq Leaves /\ Service \subseteq Leaves \ Writes /\ UsesDb \subseteq Leaves
    /\ Gate \in Nat \ {0} /\ MaxWorkers \in Nat \ {0} /\ Requests \in Nat \ {0}
    /\ MaxRetries \in Nat
    /\ MaxTroubles \in Nat /\ MaxTokens \in Nat \ {0}

VARIABLES
    \* the process
    stage,     \* of a node
    free,      \* _gate
    attempt,   \* of a leaf
    linked,    \* threads with a connection to the database
    cached,    \* _cache['token'], 0 for none
    using,     \* the service token a call has in hand
    login,     \* calls that are signing the service account in
    renewed,   \* calls that were refused once and forced a new token
    why,       \* what a write or a service call failed of
    \* outside
    trail,     \* audit rows, of writes, and which could not be written
    carried,   \* how often the cloud carried a write out
    issued,    \* service tokens the cloud has issued: 1, 2, ...
    dead,      \* those it no longer takes
    troubles,  \* what has gone wrong
    \* history
    unlucky    \* calls under way when a token was revoked

cloudVars == <<trail, carried, issued, dead, troubles, unlucky>>
tokenVars == <<cached, using, login, renewed>>
vars == <<stage, free, attempt, linked, tokenVars, why, cloudVars>>

Tokens == 0..MaxTokens
Over == {"ok", "failed", "lost"}
\* What a call can fail of: no answer, 502 to 504, another 5xx, 429, another refusal, 401.
Errors == {"silent", "unwell", "broken", "limited", "refused", "unauthorized"}

\* The code it is told by: 429 and every 5xx are one, and so are a time-out and a lost
\* connection here.
CodeOf(a) ==
    CASE a = "silent" -> "no_answer"
      [] a \in {"unwell", "broken", "limited"} -> "upstream_error"
      [] OTHER -> "refusal"
Codes == {"no_answer", "upstream_error", "refusal"}

CallsTypeOK ==
    /\ stage \in [Nodes -> {"idle", "wants", "flying", "under"} \cup Over]
    /\ free \in 0..Gate
    /\ attempt \in [Leaves -> 0..MaxRetries]
    /\ linked \subseteq Nodes
    /\ cached \in Tokens /\ using \in [Service -> Tokens]
    /\ login \subseteq Service /\ renewed \subseteq Service
    /\ why \in [Writes \cup Service -> Errors \cup {"nothing"}]
    /\ trail \in [Writes -> Codes \cup {"nothing", "success", "unwritten"}]
    /\ carried \in [Writes -> Nat]
    /\ issued \in Tokens /\ dead \subseteq 1..issued
    /\ troubles \in 0..MaxTroubles
    /\ unlucky \subseteq Service

Init ==
    /\ stage = [n \in Nodes |-> "idle"]
    /\ free = Gate
    /\ attempt = [c \in Leaves |-> 0]
    /\ linked = {}
    /\ issued = 1 /\ cached = 1
    /\ dead \in SUBSET (1..issued)
    /\ using = [c \in Service |-> 0]
    /\ login = {} /\ renewed = {}
    /\ why = [c \in Writes \cup Service |-> "nothing"]
    /\ trail = [c \in Writes |-> "nothing"]
    /\ carried = [c \in Writes |-> 0]
    /\ troubles = 0 /\ unlucky = {}

Becomes(n, s) == stage' = [stage EXCEPT ![n] = s]
Troubled == troubles < MaxTroubles /\ troubles' = troubles + 1

\* What is kept of a call while it is made, and forgotten with it.
Forgets(some) ==
    /\ attempt' = [c \in Leaves |-> IF c \in some THEN 0 ELSE attempt[c]]
    /\ using' = [c \in Service |-> IF c \in some THEN 0 ELSE using[c]]
    /\ login' = login \ some
    /\ renewed' = renewed \ some

-----------------------------------------------------------------------------
(* Threads. *)

\* A gather of one source runs it inline; any other has a pool.
InPool(n) == Parent[n] \in Gathers /\ Cardinality(Kids[Parent[n]]) > 1

\* The thread a node runs in, named for the node that heads it.
ThreadOf[n \in Nodes] == IF Parent[n] = NoNode \/ InPool(n) THEN n ELSE ThreadOf[Parent[n]]

Begun(n) == stage[n] # "idle"
Broken(n) == \E parts \in Fatal[n] : \A k \in parts : stage[k] = "failed"

\* A write is not over before its row is stored or given up.
Settled(k) == stage[k] \in Over /\ (k \in Writes => trail[k] # "nothing")

\* A worker takes another source up when it has none.
HasWorker(p) == Cardinality({k \in Kids[p] : Begun(k) /\ stage[k] \notin Over}) < MaxWorkers

MayStart(n) ==
    /\ stage[n] = "idle" /\ Parent[n] # NoNode /\ stage[Parent[n]] = "under"
    /\ IF Parent[n] \in Gathers
       THEN HasWorker(Parent[n])
       ELSE /\ \A k \in After[n] : Settled(k) /\ stage[k] = "ok"
            /\ \A k \in Kids[Parent[n]] : Begun(k) => Settled(k)

\* Mutant: a page takes its place at the gate and keeps it while its parts wait.
BeginHolding(root) ==
    /\ root \in Roots /\ stage[root] = "idle"
    /\ Cardinality({r \in Roots : stage[r] = "under"}) < Requests
    /\ free > 0 /\ free' = free - 1
    /\ Becomes(root, "under")
    /\ linked' = linked \cup {root}
    /\ UNCHANGED <<attempt, tokenVars, why, cloudVars>>

\* The view looks its session up, and the thread is connected.
Begin(root) ==
    /\ root \in Roots /\ stage[root] = "idle"
    /\ Cardinality({r \in Roots : stage[r] = "under"}) < Requests
    /\ Becomes(root, "under")
    /\ linked' = linked \cup {root}
    /\ UNCHANGED <<free, attempt, tokenVars, why, cloudVars>>

\* A function that makes several calls.
Start(n) ==
    /\ MayStart(n) /\ n \notin Leaves
    /\ Becomes(n, "under")
    /\ UNCHANGED <<free, attempt, linked, tokenVars, why, cloudVars>>

\* A call.  A service call takes the token the process has, unless there is none
\* or its time is up, and signs in otherwise.
Call(n) ==
    /\ MayStart(n) /\ n \in Leaves
    /\ Becomes(n, "wants")
    /\ linked' = IF n \in UsesDb THEN linked \cup {ThreadOf[n]} ELSE linked
    /\ \/ n \notin Service /\ UNCHANGED tokenVars
       \/ /\ n \in Service /\ cached # 0
          /\ using' = [using EXCEPT ![n] = cached]
          /\ UNCHANGED <<cached, login, renewed>>
       \/ /\ n \in Service
          /\ login' = login \cup {n}
          /\ UNCHANGED <<cached, using, renewed>>
    /\ UNCHANGED <<free, attempt, why, cloudVars>>

\* Mutant: every thread's connection is closed when its work ends.
ClosesAlways(n) == linked' = linked \ {ThreadOf[n]}

\* Only in a pool's thread; the request's own is closed with the request.
Closes(n) == linked' = IF InPool(n) \/ Parent[n] = NoNode THEN linked \ {n} ELSE linked

\* Mutant: the first part that fails ends the gathering.
EndsEarly(n) == Broken(n) \/ \A k \in Kids[n] : Settled(k)

\* A gather waits for all of its parts, whatever becomes of them; the others stop
\* at the first that fails them.
Ends(n) ==
    \/ \A k \in Kids[n] : Settled(k)
    \/ n \notin Gathers /\ Broken(n) /\ \A k \in Kids[n] : Begun(k) => Settled(k)

End(n) ==
    /\ n \notin Leaves /\ stage[n] = "under" /\ Ends(n)
    /\ Becomes(n, IF Broken(n) THEN "failed" ELSE "ok")
    /\ Closes(n)
    /\ UNCHANGED <<free, attempt, tokenVars, why, cloudVars>>

-----------------------------------------------------------------------------
(* request. *)

\* Mutant: a place is taken that is not there.
AcquireAnyway(c) ==
    /\ c \in Leaves /\ stage[c] = "wants" /\ free >= 0
    /\ free' = free - 1
    /\ Becomes(c, "flying")
    /\ UNCHANGED <<attempt, linked, tokenVars, why, cloudVars>>

\* The place is held for the call and no longer.
Acquire(c) ==
    /\ c \in Leaves /\ stage[c] = "wants" /\ free > 0
    /\ free' = free - 1
    /\ Becomes(c, "flying")
    /\ UNCHANGED <<attempt, linked, tokenVars, why, cloudVars>>

\* Mutant: a place is given back with an answer only.
ReleasesAnswered(a) == free' = IF a = "silent" THEN free ELSE free + 1

Releases(a) == free' = free + 1

\* Signing in is a POST too.
Repeatable(c) == c \notin Writes /\ c \notin login

\* Mutant: whatever the method is.
RetriesAny(c, a) == attempt[c] < MaxRetries /\ a \in {"unwell", "limited"}

\* A GET after a transient error, and anything after 429, when it has slept, without
\* a place.  A call without an answer is not repeated.
Retries(c, a) == attempt[c] < MaxRetries /\ (a = "limited" \/ (a = "unwell" /\ Repeatable(c)))

\* Mutant: the token the process has will do.
NewTokenCached(c) ==
    IF c \in renewed /\ cached # 0
    THEN issued' = issued /\ cached' = cached /\ using' = [using EXCEPT ![c] = cached]
    ELSE issued' = issued + 1 /\ cached' = issued + 1 /\ using' = [using EXCEPT ![c] = issued + 1]

\* A sign-in the cloud accepts: the call goes on with its own token, whatever the
\* process keeps by then.
NewToken(c) ==
    /\ issued' = issued + 1
    /\ cached' = issued + 1
    /\ using' = [using EXCEPT ![c] = issued + 1]

\* Signed in: now the call itself.
SignedIn(c) ==
    /\ c \in login /\ issued < MaxTokens
    /\ NewToken(c)
    /\ login' = login \ {c}
    /\ attempt' = [attempt EXCEPT ![c] = 0]
    /\ Becomes(c, "wants")
    /\ UNCHANGED <<linked, renewed, why, trail, carried, dead, troubles, unlucky>>

\* The call is answered, with what was asked for.
Succeeds(c) ==
    /\ c \notin login
    /\ c \in Service => using[c] \notin dead
    /\ Becomes(c, "ok")
    /\ Closes(c)
    /\ Forgets({c})
    /\ carried' = IF c \in Writes THEN [carried EXCEPT ![c] = @ + 1] ELSE carried
    /\ UNCHANGED <<cached, why, trail, issued, dead, troubles, unlucky>>

\* 401 for a service call: the token is renewed once, whoever renews it besides.
Renews(c) ==
    /\ c \in Service \ (login \cup renewed) /\ using[c] \in dead
    /\ renewed' = renewed \cup {c} /\ login' = login \cup {c}
    /\ attempt' = [attempt EXCEPT ![c] = 0]
    /\ Becomes(c, "wants")
    /\ UNCHANGED <<linked, cached, using, why, cloudVars>>

\* Whether the cloud carried out what it did not answer for is anybody's guess.
Spoils(c, a) ==
    /\ IF c \in Service \ login /\ using[c] \in dead
       THEN a = "unauthorized" /\ c \in renewed /\ UNCHANGED troubles
       ELSE /\ Troubled
            /\ a = "unauthorized" => c \notin Service
    /\ carried' \in {carried} \cup
          {[carried EXCEPT ![w] = @ + 1] :
              w \in Writes \cap IF a \in {"silent", "unwell", "broken"} THEN {c} ELSE {}}
    /\ IF Retries(c, a)
       THEN /\ attempt' = [attempt EXCEPT ![c] = @ + 1]
            /\ Becomes(c, "wants")
            /\ UNCHANGED <<linked, why, using, login, renewed>>
       ELSE /\ why' = [k \in DOMAIN why |-> IF k = c THEN a ELSE why[k]]
            /\ Becomes(c, "failed")
            /\ Closes(c)
            /\ Forgets({c})
    /\ UNCHANGED <<cached, trail, issued, dead, unlucky>>

Answer(c) ==
    /\ c \in Leaves /\ stage[c] = "flying"
    /\ \/ (SignedIn(c) \/ Succeeds(c) \/ Renews(c)) /\ Releases("answer")
       \/ \E a \in Errors : Spoils(c, a) /\ Releases(a)

\* Mutant: what failed is shown to the user and to nobody else.
RecordSuccess(c) ==
    /\ c \in Writes /\ stage[c] \in Over /\ trail[c] = "nothing"
    /\ trail' = [trail EXCEPT ![c] = "success"]
    /\ UNCHANGED <<stage, free, attempt, linked, tokenVars, why, carried, issued, dead, troubles, unlucky>>

\* Every attempt is audited, successful or not.  If the row cannot be stored, the
\* request goes on without it.
Record(c) ==
    /\ c \in Writes /\ stage[c] \in {"ok", "failed"} /\ trail[c] = "nothing"
    /\ \/ /\ trail' = [trail EXCEPT ![c] = IF stage[c] = "ok" THEN "success" ELSE CodeOf(why[c])]
          /\ UNCHANGED troubles
       \/ trail' = [trail EXCEPT ![c] = "unwritten"] /\ Troubled
    /\ UNCHANGED <<stage, free, attempt, linked, tokenVars, why, carried, issued, dead, unlucky>>

\* invalidate, between the write and its record: what it raises is no ZadaraError, so
\* nobody records anything.
CacheRefuses(c) ==
    /\ c \in Writes /\ stage[c] = "ok" /\ trail[c] = "nothing"
    /\ Becomes(c, "failed")
    /\ trail' = [trail EXCEPT ![c] = "unwritten"]
    /\ Troubled
    /\ UNCHANGED <<free, attempt, linked, tokenVars, why, carried, issued, dead, unlucky>>

-----------------------------------------------------------------------------
(* Outside. *)

\* The cloud takes no token any more that it has issued.
Revoke ==
    /\ dead # 1..issued
    /\ dead' = 1..issued
    /\ Troubled
    /\ unlucky' = unlucky \cup {c \in Service : Begun(c) /\ stage[c] \notin Over}
    /\ UNCHANGED <<stage, free, attempt, linked, tokenVars, why, trail, carried, issued>>

\* A request with its tree below it.
Top[n \in Nodes] == IF Parent[n] = NoNode THEN n ELSE Top[Parent[n]]

\* The process is killed with all it is doing, and another takes its place.  A call
\* that was sent may be carried out all the same.
Die ==
    /\ \E root \in Roots : stage[root] = "under"
    /\ stage' = [n \in Nodes |-> IF stage[Top[n]] = "under" THEN "lost" ELSE stage[n]]
    /\ free' = Gate
    /\ linked' = {} /\ cached' = 0
    /\ Forgets(Leaves)
    /\ \E sent \in SUBSET {c \in Writes : stage[c] = "flying"} :
          carried' = [c \in Writes |-> IF c \in sent THEN carried[c] + 1 ELSE carried[c]]
    /\ UNCHANGED <<why, trail, issued, dead, troubles, unlucky>>

\* What a thread of the process does next.
Step(n) == Start(n) \/ Call(n) \/ End(n) \/ Acquire(n) \/ Answer(n) \/ Record(n)
               \/ CacheRefuses(n)

Next == (\E n \in Nodes : Begin(n) \/ Step(n)) \/ Revoke \/ Die

\* A process that runs goes on while one of its threads can: the cloud answers or
\* the call times out, and a sleep ends.
Spec == Init /\ [][Next]_vars /\ WF_vars(\E n \in Nodes : Step(n))

-----------------------------------------------------------------------------
(* Correctness. *)

\* No place at the gate is lost or made: not by a call that timed out, nor by one
\* that sleeps before it is tried again (http.py 45).
GateCounts == free = Gate - Cardinality({c \in Leaves : stage[c] = "flying"})

\* What a user asks for once the cloud does once at most, however the answer is
\* lost, late or a refusal (http.py 109).
WriteOnce == \A c \in Writes : carried[c] <= 1

\* What the trail says of a write is so.  A success happened, and what is told as refused
\* did not; a row that says upstream_error, or that no answer came, leaves both open.
\* Every write of a request that ended, in whatever way, has its row, unless the row
\* itself could not be stored or the cache failed before it (compute/views.py 92).
TrailTells ==
    \A c \in Writes :
       /\ trail[c] = "success" => carried[c] = 1
       /\ trail[c] = "refusal" => carried[c] = 0
       /\ stage[Top[c]] \in {"ok", "failed"} /\ carried[c] > 0 => trail[c] # "nothing"

\* A request under way keeps its own connection, and no thread that is gone leaves
\* one behind (concurrency.py 22).
ConnectionsKept ==
    /\ linked \subseteq {ThreadOf[n] : n \in {k \in Nodes : Begun(k) /\ stage[ThreadOf[k]] \notin Over}}
    /\ \A root \in Roots : stage[root] = "under" => root \in linked

\* When an answer is made, nothing it is made of is still under way.
NothingLeftRunning ==
    \A n \in Nodes : stage[n] \in Over => \A k \in Kids[n] : stage[k] \in Over \cup {"idle"}

\* What the process lends out it gets back: places at the gate, connections, threads.
NothingLeaks == CallsTypeOK /\ GateCounts /\ ConnectionsKept /\ NothingLeftRunning

\* A write happens once at most, and what the trail has of it is true.
WritesTold == WriteOnce /\ TrailTells

\* A service call fails for its token only if tokens were revoked while it was under
\* way: not of one that died before, nor of what others renew meanwhile.
RefusedOnlyIfRevoked ==
    \A c \in Service : why[c] = "unauthorized" => c \in unlucky

\* Whatever is under way ends, with an answer or with its process, however the reads
\* are nested and however few places there are.
Answered == (\E root \in Roots : stage[root] = "under") ~> (\A root \in Roots : stage[root] # "under")
=============================================================================
