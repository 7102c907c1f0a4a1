------------------------------ MODULE UserAdmin ------------------------------
(***************************************************************************)
(* Users switched on and off from two sides: by operators of the panel     *)
(* (apps.platform_admin), who go by a list of an account's users kept in   *)
(* the cache, and by the account's own administrators (apps.admin_api).    *)
(*                                                                         *)
(* A user is in the cloud, in a row of the cabinet's own (which may be     *)
(* blocked), in the cached list of his account and in two trails of what   *)
(* was done to him.  No transaction spans any two of them.  The model has  *)
(* both trails in one sequence, in the order in which they were written.   *)
(***************************************************************************)
EXTENDS Integers, Sequences

CONSTANTS
    Requests,
    Bodies,    \* [Requests -> SUBSET Request], what each may turn out to be
    Accounts,
    Users,
    HomeOf,    \* [Users -> Accounts]
    Admin,     \* the user who makes the requests of his account's administrators
    Cloud0,    \* the cloud's users at the start
    Rows0,     \* the cabinet's rows at the start
    Nothing,   \* left out of a request; not kept in the cache
    Never,     \* the time of what has not happened
    TTL,       \* _USERS_CACHE_TTL
    Lag,       \* bound: ticks a fetched list may be under way
    MaxTime    \* bound: ticks in a run

RequestKinds == {"list", "switch", "create", "change", "delete", "settings", "signIn"}
InCloud == {"never", "on", "off", "gone"}
InCabinet == {"none", "active", "blocked"}

Request == [kind : RequestKinds, account : Accounts, user : Users \cup {Nothing},
            enabled : {"on", "off", Nothing}, status : {"active", "blocked", "other", Nothing},
            flag : BOOLEAN]

\* A body that passes the checks made before anything is done.  An operator may
\* name another account than the user's; an administrator who changes something
\* else than `enabled` leaves it out.
Sensible(request) ==
    /\ request.user = Nothing <=> request.kind \in {"list", "settings"}
    /\ request.kind \notin {"switch", "change"} => request.enabled = Nothing
    /\ request.kind # "switch" => request.status = Nothing
    /\ request.kind = "switch" => ~(request.enabled = Nothing /\ request.status = Nothing)
    /\ request.kind \notin {"create", "settings"} => request.flag
    /\ request.kind \in {"create", "change", "delete"} => request.account = HomeOf[Admin]
    /\ request.kind \in {"create", "signIn"} => HomeOf[request.user] = request.account
    /\ request.user = Admin =>
          ~(request.kind = "delete" \/ (request.kind = "change" /\ request.enabled = "off"))

ASSUME UserAdminAssumption ==
    /\ HomeOf \in [Users -> Accounts]
    /\ Bodies \in [Requests -> SUBSET Request]
    /\ Admin \in Users
    /\ Cloud0 \in [Users -> InCloud]
    /\ Rows0 \in [Users -> InCabinet]
    /\ \A u \in Users : Cloud0[u] = "gone" => Rows0[u] = "none"
    /\ Users \cap Accounts = {}
    /\ Nothing \notin Users \cup {"on", "off", "active", "blocked", "other"}
    /\ Nothing \notin Request
    /\ Nothing \notin [shows : SUBSET Requests, until : Nat]
    /\ Never \notin Nat
    /\ TTL \in Nat /\ Lag \in Nat /\ MaxTime \in Nat

VARIABLES
    now,
    cloud,    \* the cloud's users
    members,  \* users who were given a role in a project
    rows,     \* the cabinet's own rows: users.status
    counted,  \* account_settings.count_backup_snapshots
    kept,     \* the cached list of each account: the writes it shows
    log,      \* audit rows and operators' actions
    at,       \* what is next
    ask,      \* what was asked for
    seen,     \* the writes the list in hand shows
    fetched,  \* when it was fetched
    \* history
    done,     \* when a request's write was carried out
    forgot,   \* switches that dropped the cached list
    restored, \* of these, those over which an older list was stored again
    owed,     \* switches a list has to show: forgotten, and not restored, when it looked
    untold,   \* requests that were carried out and of which the trail does not say so
    idle,     \* switches whose cabinet status met no row
    barred,   \* users blocked by an operator, and not let in again by one
    slipped,  \* sign-ins of a barred user that succeeded
    crossed   \* pairs of requests about one user or account at once

stores == <<cloud, members, rows, counted>>
listVars == <<seen, fetched, forgot, restored, owed>>
blocks == <<idle, barred, slipped>>
vars == <<now, stores, kept, log, at, ask, listVars, done, untold, blocks, crossed>>

List == [shows : SUBSET Requests, until : Nat]
Actions == {"user.update", "user.create", "user.grant_role", "user.delete",
            "account.settings.update"}
Steps == {"new", "look up", "fetch", "store", "shown", "switch", "block", "forget", "create",
          "grant", "find", "change", "delete", "drop", "set", "authenticate", "upsert",
          "record", "done"}

UserAdminTypeOK ==
    /\ now \in Nat
    /\ cloud \in [Users -> InCloud]
    /\ members \subseteq Users
    /\ rows \in [Users -> InCabinet]
    /\ counted \in [Accounts -> BOOLEAN]
    /\ kept \in [Accounts -> List \cup {Nothing}]
    /\ log \in Seq([by : Requests, action : Actions, ok : BOOLEAN])
    /\ at \in [Requests -> Steps]
    /\ ask \in [Requests -> Request \cup {Nothing}]
    /\ \A r \in Requests : at[r] = "new" <=> ask[r] = Nothing
    /\ seen \in [Requests -> SUBSET Requests]
    /\ fetched \in [Requests -> Nat]
    /\ done \in [Requests -> Nat \cup {Never}]
    /\ forgot \subseteq Requests /\ restored \subseteq forgot
    /\ owed \in [Requests -> SUBSET Requests]
    /\ untold \subseteq Requests
    /\ idle \subseteq Requests /\ barred \subseteq Users /\ slipped \subseteq Requests
    /\ crossed \subseteq SUBSET Requests

Init ==
    /\ now = 0
    /\ cloud = Cloud0 /\ members = {} /\ rows = Rows0
    /\ counted = [a \in Accounts |-> TRUE]
    /\ kept = [a \in Accounts |-> Nothing]
    /\ log = <<>>
    /\ at = [r \in Requests |-> "new"] /\ ask = [r \in Requests |-> Nothing]
    /\ seen = [r \in Requests |-> {}] /\ fetched = [r \in Requests |-> 0]
    /\ done = [r \in Requests |-> Never]
    /\ forgot = {} /\ restored = {} /\ owed = [r \in Requests |-> {}]
    /\ untold = {} /\ idle = {} /\ barred = {} /\ slipped = {} /\ crossed = {}

-----------------------------------------------------------------------------
(* What requests have in common. *)

Goes(r, step) == at' = [at EXCEPT ![r] = step]
CarriedOut(r) == done' = [done EXCEPT ![r] = IF @ = Never THEN now ELSE @]
Open(r) == at[r] \notin {"new", "shown", "done"}
Untold(r) == untold' = untold \cup {r}

\* What a request writes to.
Target(r) == IF ask[r].kind = "settings" THEN ask[r].account ELSE ask[r].user

\* services.record and audit.services.record write one row.  They never raise: a
\* caller cannot tell that the row was not written.
Writes(r, action, ok) == log' = Append(log, [by |-> r, action |-> action, ok |-> ok])

FirstStep(request) ==
    CASE request.kind = "list" -> "look up"
      [] request.kind = "switch" -> IF request.enabled = Nothing THEN "block" ELSE "switch"
      [] request.kind = "create" -> "create"
      [] request.kind \in {"change", "delete"} -> "find"
      [] request.kind = "settings" -> "set"
      [] request.kind = "signIn" -> "authenticate"

Arrive(r) ==
    /\ at[r] = "new"
    /\ \E request \in Bodies[r] :
          /\ Sensible(request)
          /\ ask' = [ask EXCEPT ![r] = request]
          /\ Goes(r, FirstStep(request))
    /\ crossed' = crossed \cup
          {{q, r} : q \in {p \in Requests :
                               /\ Open(p) /\ ask[p].kind # "list" /\ ask'[r].kind # "list"
                               /\ Target(p) = Target(r)'}}
    /\ UNCHANGED <<now, stores, kept, log, listVars, done, untold, blocks>>

\* The row of what was done, and the answer.
Record(r) ==
    /\ at[r] = "record"
    /\ \/ /\ Writes(r, CASE ask[r].kind \in {"switch", "change"} -> "user.update"
                         [] ask[r].kind = "create" -> "user.create"
                         [] ask[r].kind = "delete" -> "user.delete"
                         [] ask[r].kind = "settings" -> "account.settings.update", TRUE)
          /\ UNCHANGED untold
       \/ Untold(r) /\ UNCHANGED log
    /\ Goes(r, IF ask[r].kind = "delete" THEN "drop" ELSE "done")
    /\ UNCHANGED <<now, stores, kept, ask, listVars, done, blocks, crossed>>

\* The cloud answers with an error, or not in time: recorded as a failure.
\* Without an answer the change may have been made all the same.
Refused(r, action) ==
    /\ Writes(r, action, FALSE) \/ UNCHANGED log
    /\ Goes(r, "done")

\* A worker is killed, or the database or the cache refuses.
Die(r) ==
    /\ Open(r)
    /\ Goes(r, "done")
    /\ untold' = IF done[r] = Never THEN untold ELSE untold \cup {r}
    /\ UNCHANGED <<now, stores, kept, log, ask, listVars, done, blocks, crossed>>

-----------------------------------------------------------------------------
(* The operators' list of users: _account_users, once per account shown. *)

LookUp(r) ==
    /\ at[r] = "look up"
    /\ LET a == ask[r].account IN
       /\ owed' = [owed EXCEPT ![r] =
                      {s \in forgot \ restored : HomeOf[ask[s].user] = a}]
       /\ IF kept[a] = Nothing
          THEN Goes(r, "fetch") /\ UNCHANGED seen
          ELSE Goes(r, "shown") /\ seen' = [seen EXCEPT ![r] = kept[a].shows]
    /\ fetched' = [fetched EXCEPT ![r] = now]
    /\ UNCHANGED <<now, stores, kept, log, ask, forgot, restored, done, untold, blocks, crossed>>

\* An account that cannot be read is named as such, which ends this part.
Fetch(r) ==
    /\ at[r] = "fetch"
    /\ \/ /\ seen' = [seen EXCEPT ![r] = {w \in Requests : done[w] # Never}]
          /\ fetched' = [fetched EXCEPT ![r] = now]
          /\ Goes(r, "store")
       \/ Goes(r, "done") /\ UNCHANGED <<seen, fetched>>
    /\ UNCHANGED <<now, stores, kept, log, ask, forgot, restored, owed, done, untold, blocks, crossed>>

\* Mutant: kept for longer than the time to live.
StoreForLonger(r) ==
    /\ at[r] = "store"
    /\ kept' = [kept EXCEPT ![ask[r].account] = [shows |-> seen[r], until |-> fetched[r] + TTL + Lag + 1]]
    /\ Goes(r, "shown")
    /\ UNCHANGED <<now, stores, log, ask, seen, fetched, forgot, restored, owed, done, untold, blocks, crossed>>

Store(r) ==
    /\ at[r] = "store"
    /\ kept' = [kept EXCEPT ![ask[r].account] = [shows |-> seen[r], until |-> now + TTL]]
    /\ restored' = restored \cup
          {s \in forgot : HomeOf[ask[s].user] = ask[r].account /\ s \notin seen[r]}
    /\ Goes(r, "shown")
    /\ UNCHANGED <<now, stores, log, ask, seen, fetched, forgot, owed, done, untold, blocks, crossed>>

-----------------------------------------------------------------------------
(* An operator's switches: UserDetailView.patch. *)

\* Mutant: an error of the cloud is passed over, and the answer is a success.
SwitchUnchecked(r) ==
    /\ at[r] = "switch"
    /\ \E state \in {cloud[ask[r].user], ask[r].enabled} :
          cloud' = [cloud EXCEPT ![ask[r].user] = state]
    /\ CarriedOut(r)
    /\ Goes(r, IF ask[r].status = Nothing THEN "forget" ELSE "block")
    /\ UNCHANGED <<now, members, rows, counted, kept, log, ask, listVars, untold, blocks, crossed>>

SwitchCloud(r) ==
    /\ at[r] = "switch"
    /\ LET u == ask[r].user IN
       \/ /\ cloud[u] \in {"on", "off"}
          /\ cloud' = [cloud EXCEPT ![u] = ask[r].enabled]
          /\ CarriedOut(r)
          /\ \/ /\ Goes(r, IF ask[r].status = Nothing THEN "forget" ELSE "block")
                /\ UNCHANGED <<log, untold>>
             \/ Refused(r, "user.update") /\ Untold(r)
       \/ Refused(r, "user.update") /\ UNCHANGED <<cloud, done, untold>>
    /\ UNCHANGED <<now, members, rows, counted, kept, ask, listVars, blocks, crossed>>

\* Mutant: the rows are filtered by the account alone.
SwitchEveryone(r) ==
    /\ at[r] = "block" /\ ask[r].status # "other"
    /\ rows' = [u \in Users |-> IF rows[u] # "none" /\ HomeOf[u] = ask[r].account
                                THEN ask[r].status ELSE rows[u]]
    /\ CarriedOut(r)
    /\ Goes(r, "forget")
    /\ UNCHANGED <<now, cloud, members, counted, kept, log, ask, listVars, untold, blocks, crossed>>

\* Mutant: the status is not looked at.
SwitchToAnything(r) ==
    /\ at[r] = "block"
    /\ rows' = [rows EXCEPT ![ask[r].user] = IF @ = "none" THEN @ ELSE ask[r].status]
    /\ CarriedOut(r)
    /\ Goes(r, "forget")
    /\ UNCHANGED <<now, cloud, members, counted, kept, log, ask, listVars, untold, blocks, crossed>>

\* An unknown status is refused here, when the cloud has been changed already.
SwitchCabinet(r) ==
    /\ at[r] = "block"
    /\ LET u == ask[r].user
           hit == rows[u] # "none" /\ HomeOf[u] = ask[r].account
       IN
       \/ /\ ask[r].status = "other"
          /\ Goes(r, "done")
          /\ untold' = IF done[r] = Never THEN untold ELSE untold \cup {r}
          /\ UNCHANGED <<rows, done, idle, barred>>
       \/ /\ ask[r].status # "other"
          /\ rows' = IF hit THEN [rows EXCEPT ![u] = ask[r].status] ELSE rows
          /\ barred' = IF ~hit THEN barred
                       ELSE IF ask[r].status = "blocked" THEN barred \cup {u} ELSE barred \ {u}
          /\ idle' = IF hit THEN idle ELSE idle \cup {r}
          /\ CarriedOut(r)
          /\ Goes(r, "forget")
          /\ UNCHANGED untold
    /\ UNCHANGED <<now, cloud, members, counted, kept, log, ask, listVars, slipped, crossed>>

\* Mutant: the cached list is left alone.
ForgetNothing(r) ==
    /\ at[r] = "forget"
    /\ forgot' = IF HomeOf[ask[r].user] = ask[r].account THEN forgot \cup {r} ELSE forgot
    /\ Goes(r, "record")
    /\ UNCHANGED <<now, stores, kept, log, ask, seen, fetched, restored, owed, done, untold, blocks, crossed>>

\* resolve_domain_id, then _forget_account_users.  The directory may not be
\* readable, which raises, and it may not have the name.
Forget(r) ==
    /\ at[r] = "forget"
    /\ \/ /\ kept' = [kept EXCEPT ![ask[r].account] = Nothing]
          /\ forgot' = IF HomeOf[ask[r].user] = ask[r].account THEN forgot \cup {r} ELSE forgot
          /\ Goes(r, "record")
          /\ UNCHANGED untold
       \/ Goes(r, "record") /\ UNCHANGED <<kept, forgot, untold>>
       \/ Goes(r, "done") /\ Untold(r) /\ UNCHANGED <<kept, forgot>>
    /\ UNCHANGED <<now, stores, log, ask, seen, fetched, restored, owed, done, blocks, crossed>>

\* Mutant: the setting is written when there is no row yet, and only then.
SetCountedOnce(r) ==
    /\ at[r] = "set"
    /\ counted' = IF \E q \in Requests : done[q] # Never /\ ask[q].kind = "settings" THEN counted
                  ELSE [counted EXCEPT ![ask[r].account] = ask[r].flag]
    /\ CarriedOut(r)
    /\ Goes(r, "record")
    /\ UNCHANGED <<now, cloud, members, rows, kept, log, ask, listVars, untold, blocks, crossed>>

\* AccountDetailView.patch: one row per account, whoever writes it first.
SetCounted(r) ==
    /\ at[r] = "set"
    /\ counted' = [counted EXCEPT ![ask[r].account] = ask[r].flag]
    /\ CarriedOut(r)
    /\ Goes(r, "record")
    /\ UNCHANGED <<now, cloud, members, rows, kept, log, ask, listVars, untold, blocks, crossed>>

-----------------------------------------------------------------------------
(* An account's administrator: admin_api. *)

Create(r) ==
    /\ at[r] = "create"
    /\ LET u == ask[r].user IN
       \/ /\ cloud[u] = "never"
          /\ cloud' = [cloud EXCEPT ![u] = "on"]
          /\ CarriedOut(r)
          /\ \/ /\ Goes(r, IF ask[r].flag THEN "grant" ELSE "record")
                /\ UNCHANGED <<log, untold>>
             \/ Refused(r, "user.create") /\ Untold(r)
       \/ Refused(r, "user.create") /\ UNCHANGED <<cloud, done, untold>>
    /\ UNCHANGED <<now, members, rows, counted, kept, ask, listVars, blocks, crossed>>

\* Mutant: the failure is passed over.
GrantQuietly(r) ==
    /\ at[r] = "grant"
    /\ members' \in {members, members \cup {ask[r].user}}
    /\ Goes(r, "record")
    /\ UNCHANGED <<now, cloud, rows, counted, kept, log, ask, listVars, done, untold, blocks, crossed>>

\* Membership is a call of its own.  Its failure is recorded, as far as that
\* goes, and the creation is a success all the same.
Grant(r) ==
    /\ at[r] = "grant"
    /\ \/ members' = members \cup {ask[r].user} /\ UNCHANGED <<log, untold>>
       \/ /\ members' \in {members, members \cup {ask[r].user}}
          /\ Writes(r, "user.grant_role", FALSE)
          /\ UNCHANGED untold
       \/ Untold(r) /\ UNCHANGED <<members, log>>
    /\ Goes(r, "record")
    /\ UNCHANGED <<now, cloud, rows, counted, kept, ask, listVars, done, blocks, crossed>>

\* _user_of_account reads the account's users anew, _admin_token the vault.
FindUser(r) ==
    /\ at[r] = "find"
    /\ \/ /\ HomeOf[ask[r].user] = HomeOf[Admin]
          /\ cloud[ask[r].user] \in {"on", "off"}
          /\ Goes(r, ask[r].kind)
       \/ Goes(r, "done")
    /\ UNCHANGED <<now, stores, kept, log, ask, listVars, done, untold, blocks, crossed>>

Change(r) ==
    /\ at[r] = "change"
    /\ LET u == ask[r].user IN
       \/ /\ cloud[u] \in {"on", "off"}
          /\ cloud' = IF ask[r].enabled = Nothing THEN cloud
                      ELSE [cloud EXCEPT ![u] = ask[r].enabled]
          /\ CarriedOut(r)
          /\ \/ Goes(r, "record") /\ UNCHANGED <<log, untold>>
             \/ Refused(r, "user.update") /\ Untold(r)
       \/ Refused(r, "user.update") /\ UNCHANGED <<cloud, done, untold>>
    /\ UNCHANGED <<now, members, rows, counted, kept, ask, listVars, blocks, crossed>>

Delete(r) ==
    /\ at[r] = "delete"
    /\ LET u == ask[r].user IN
       \/ /\ cloud[u] \in {"on", "off"}
          /\ cloud' = [cloud EXCEPT ![u] = "gone"]
          /\ members' = members \ {u}
          /\ CarriedOut(r)
          /\ \/ Goes(r, "record") /\ UNCHANGED <<log, untold>>
             \/ Refused(r, "user.delete") /\ Untold(r)
       \/ Refused(r, "user.delete") /\ UNCHANGED <<cloud, members, done, untold>>
    /\ UNCHANGED <<now, rows, counted, kept, ask, listVars, blocks, crossed>>

\* Mutant: the row is left alone.
DropNothing(r) ==
    /\ at[r] = "drop"
    /\ Goes(r, "done")
    /\ UNCHANGED <<now, stores, kept, log, ask, listVars, done, untold, blocks, crossed>>

\* The cabinet's own row goes last.
Drop(r) ==
    /\ at[r] = "drop"
    /\ rows' = [rows EXCEPT ![ask[r].user] = "none"]
    /\ Goes(r, "done")
    /\ UNCHANGED <<now, cloud, members, counted, kept, log, ask, listVars, done, untold, blocks, crossed>>

-----------------------------------------------------------------------------
(* A user signs in to the cabinet: LoginView.post as far as his row goes. *)

Authenticate(r) ==
    /\ at[r] = "authenticate"
    /\ \/ cloud[ask[r].user] = "on" /\ Goes(r, "upsert")
       \/ Goes(r, "done")
    /\ UNCHANGED <<now, stores, kept, log, ask, listVars, done, untold, blocks, crossed>>

\* Mutant: signing in again makes the user active.
UpsertActive(r) ==
    /\ at[r] = "upsert"
    /\ rows' = [rows EXCEPT ![ask[r].user] = "active"]
    /\ slipped' = IF ask[r].user \in barred THEN slipped \cup {r} ELSE slipped
    /\ Goes(r, "done")
    /\ UNCHANGED <<now, cloud, members, counted, kept, log, ask, listVars, done, untold, idle, barred, crossed>>

\* upsert_user makes the row if there is none, and is_blocked is asked of it.
Upsert(r) ==
    /\ at[r] = "upsert"
    /\ LET u == ask[r].user IN
       /\ rows' = IF rows[u] = "none" THEN [rows EXCEPT ![u] = "active"] ELSE rows
       /\ slipped' = IF rows'[u] # "blocked" /\ u \in barred THEN slipped \cup {r} ELSE slipped
    /\ Goes(r, "done")
    /\ UNCHANGED <<now, cloud, members, counted, kept, log, ask, listVars, done, untold, idle, barred, crossed>>

-----------------------------------------------------------------------------
\* Time, which matters while a list is kept or under way: a kept list is gone when
\* its time is over.
Tick ==
    /\ now < MaxTime
    /\ (\E a \in Accounts : kept[a] # Nothing) \/ (\E r \in Requests : at[r] = "store")
    /\ \A r \in Requests : at[r] = "store" => now < fetched[r] + Lag
    /\ now' = now + 1
    /\ kept' = [a \in Accounts |->
                   IF kept[a] # Nothing /\ kept[a].until <= now THEN Nothing ELSE kept[a]]
    /\ UNCHANGED <<stores, log, at, ask, listVars, done, untold, blocks, crossed>>

ListStep(r) == LookUp(r) \/ Fetch(r) \/ Store(r)
OperatorStep(r) == SwitchCloud(r) \/ SwitchCabinet(r) \/ Forget(r) \/ SetCounted(r)
AdminStep(r) == Create(r) \/ Grant(r) \/ FindUser(r) \/ Change(r) \/ Delete(r) \/ Drop(r)
SignInStep(r) == Authenticate(r) \/ Upsert(r)

Next ==
    \/ \E r \in Requests :
          Arrive(r) \/ ListStep(r) \/ OperatorStep(r) \/ AdminStep(r) \/ SignInStep(r)
              \/ Record(r) \/ Die(r)
    \/ Tick

Spec == Init /\ [][Next]_vars
-----------------------------------------------------------------------------
(* Properties. *)

Entries(claims(_)) == {i \in DOMAIN log : log[i].ok /\ claims(ask[log[i].by])}
LastOf(entries) == ask[log[CHOOSE i \in entries : \A j \in entries : j <= i].by]

\* Nobody is at work on it, nobody was while somebody else was, and nobody was
\* cut short before telling.
Quiet(target) ==
    \A r \in Requests : ask[r] # Nothing /\ ask[r].kind # "list" /\ Target(r) = target =>
        /\ ~Open(r)
        /\ r \notin untold
        /\ \A q \in Requests : {q, r} \notin crossed

\* The two trails tell what became of a user: unless requests about him crossed
\* or one was cut short, the cloud has him as the last recorded success says.
TrailTells ==
    \A u \in Users : Quiet(u) =>
        LET About(request) ==
                /\ request.user = u
                /\ request.kind \in {"switch", "change"} => request.enabled # Nothing
                /\ request.kind # "signIn"
            told == Entries(About)
        IN  cloud[u] = IF told = {} THEN Cloud0[u]
                       ELSE CASE LastOf(told).kind = "create" -> "on"
                              [] LastOf(told).kind = "delete" -> "gone"
                              [] OTHER -> LastOf(told).enabled

\* So they do of an account's setting, by which its clients are billed.
SettingTold ==
    \A a \in Accounts : Quiet(a) =>
        LET About(request) == request.kind = "settings" /\ request.account = a
            told == Entries(About)
        IN  counted[a] = IF told = {} THEN TRUE ELSE LastOf(told).flag

\* Who was blocked or let in again, as the operators' trail has it, is, unless he
\* had no row yet, or not under the account that was named, or has none any more;
\* and nobody else is blocked.
BlockTold ==
    \A u \in Users : Quiet(u) =>
        LET About(request) == request.user = u /\ request.status \in {"active", "blocked"}
            told == {i \in Entries(About) : log[i].by \notin idle}
        IN  rows[u] \in IF told = {} THEN {Rows0[u], "active", "none"}
                        ELSE {LastOf(told).status, "none"}

\* Once an operator has switched and dropped the list, who looks at it sees the
\* switch, unless a list fetched before was stored again behind it.
SwitchShows ==
    \A r \in Requests : at[r] = "shown" => owed[r] \subseteq seen[r]

\* And whatever happens, a shown list misses no write that was carried out
\* longer ago than a list is kept and may have been under way.
ListAge ==
    \A r, w \in Requests : at[r] = "shown" /\ done[w] # Never /\ w \notin seen[r] =>
        fetched[r] - done[w] <= TTL + Lag

\* Whom an operator has blocked does not sign in before an operator lets him,
\* except across the deletion of his user: the deletion takes the block along.
BlockedStaysOut ==
    \A r \in slipped : \E q \in Requests :
        ask[q] # Nothing /\ ask[q].kind = "delete" /\ {q, r} \in crossed

\* Nobody is left in the cabinet who is gone from the cloud, except while he is
\* being deleted, or where that was cut short or a sign-in crossed it.
NoOrphanRow ==
    \A u \in Users : cloud[u] = "gone" /\ rows[u] # "none" =>
        \E r \in Requests :
            /\ ask[r] # Nothing /\ ask[r].kind = "delete" /\ ask[r].user = u
            /\ \/ Open(r)
               \/ r \in untold
               \/ \E q \in Requests : {q, r} \in crossed

\* A user created for a project who did not get into it: the trail says so.
GrantTold ==
    \A r \in Requests :
        (at[r] = "done" /\ r \notin untold /\ ask[r].kind = "create" /\ ask[r].flag
            /\ done[r] # Never /\ cloud[ask[r].user] # "gone")
        => \/ ask[r].user \in members
           \/ \E i \in DOMAIN log : log[i] = [by |-> r, action |-> "user.grant_role", ok |-> FALSE]

\* Everything that was done to users and accounts can be told from the trails.
TrailsTell == UserAdminTypeOK /\ TrailTells /\ SettingTold /\ BlockTold /\ GrantTold

\* An operator's list of users shows his switches, and is never older than it may be.
ListTells == SwitchShows /\ ListAge

\* The cabinet's own rows follow the cloud's users, and blocks are kept.
RowsFollow == BlockedStaysOut /\ NoOrphanRow
=============================================================================
