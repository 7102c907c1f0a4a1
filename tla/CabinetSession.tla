---------------------------- MODULE CabinetSession ----------------------------
(***************************************************************************)
(* The cabinet's sessions (apps.authentication, apps.tenants): who is      *)
(* signed in, and for which project.                                       *)
(*                                                                         *)
(* A session is kept in three places that no transaction spans: its row in *)
(* the database, the cloud token under its key in the cache (the vault),   *)
(* and the role in the user's own row.  A request reads the session's row  *)
(* when it comes and writes it back whole when its response goes out.      *)
(*                                                                         *)
(* A request may carry any key, since a browser's other tabs may have      *)
(* changed its cookie meanwhile.  The cloud's answers are choices.         *)
(***************************************************************************)
EXTENDS Integers

CONSTANTS
    Requests,
    Users,
    Nobody,    \* the user of a session that is not signed in
    Projects,
    NoProject, \* the scope of a token that reaches no project
    MemberOf,  \* [Users -> SUBSET Projects]
    RoleIn,    \* [Users -> [Scopes -> Roles]], what resolve_app_role makes of them
    Keys,      \* session keys, drawn at random
    NoKey,
    Absent,    \* no row, no token
    TTL,       \* SESSION_COOKIE_AGE and ZADARA_TOKEN_TTL, which are one setting
    Lag,       \* bound: ticks between storing a token and saving the session
    MaxTime    \* bound: ticks in a run

Roles == {"USER", "ADMIN"}
Scopes == Projects \cup {NoProject}
Anybody == Users \cup {Nobody}
Cookies == Keys \cup {NoKey}

ASSUME SessionAssumption ==
    /\ Nobody \notin Users
    /\ NoProject \notin Projects
    /\ NoKey \notin Keys
    /\ MemberOf \in [Users -> SUBSET Projects]
    /\ RoleIn \in [Users -> [Scopes -> Roles]]
    /\ TTL \in Nat \ {0}
    /\ Lag \in Nat
    /\ MaxTime \in Nat
    /\ Absent \notin [user : Anybody, scope : Scopes, expires : Nat]

VARIABLES
    now,
    rows,     \* django_session, by key
    vault,    \* the cloud tokens in the cache, by key
    appRole,  \* users.app_role
    drawn,    \* keys that have been drawn
    \* requests
    at,       \* what is next
    doing,    \* what was asked for
    key,      \* the session's key, as the request knows it
    held,     \* the session's contents, as the request knows them
    role,     \* the role in the request's copy of the user's row
    result,   \* the token in hand: whose, and its scope
    stored,   \* when it was put into the vault
    \* history
    torn,     \* keys whose token and row were not written one pair after another
    bare,     \* keys without a token since the last one, if any, was deleted
    crossed,  \* pages that a switch of their session came between
    muddled,  \* users who did two things at once or had two sessions
    astray    \* users whose role was last set by a request that saved no session

stores == <<rows, vault, appRole, drawn>>
requestVars == <<at, doing, key, held, role, result, stored>>
history == <<torn, bare, crossed, muddled, astray>>
vars == <<now, stores, requestVars, history>>

Row == [user : Anybody, scope : Scopes, expires : Nat]
Token == [user : Users, scope : Scopes, expires : Nat]
Contents == [user : Anybody, scope : Scopes]
Empty == [user |-> Nobody, scope |-> NoProject]

Statements ==
    {"new", "cloud", "upsert", "login", "token", "exchange", "store", "role", "save",
     "drop", "flush", "done", "failed"}
Asked == {"nothing", "signin", "switch", "signout", "page"}

SessionTypeOK ==
    /\ now \in Nat
    /\ rows \in [Keys -> Row \cup {Absent}]
    /\ vault \in [Cookies -> Token \cup {Absent}]
    /\ appRole \in [Users -> Roles]
    /\ drawn \subseteq Keys
    /\ \A k \in Keys : rows[k] # Absent => k \in drawn
    /\ at \in [Requests -> Statements]
    /\ doing \in [Requests -> Asked]
    /\ key \in [Requests -> Cookies]
    /\ held \in [Requests -> Contents]
    /\ role \in [Requests -> Roles]
    /\ result \in [Requests -> Contents]
    /\ stored \in [Requests -> Nat]
    /\ torn \subseteq Keys
    /\ bare \subseteq Keys
    /\ crossed \subseteq Requests
    /\ muddled \subseteq Users
    /\ astray \subseteq Users

Init ==
    /\ now = 0
    /\ rows = [k \in Keys |-> Absent]
    /\ vault = [k \in Cookies |-> Absent]
    /\ appRole = [u \in Users |-> "USER"]
    /\ drawn = {}
    /\ at = [i \in Requests |-> "new"]
    /\ doing = [i \in Requests |-> "nothing"]
    /\ key = [i \in Requests |-> NoKey]
    /\ held = [i \in Requests |-> Empty]
    /\ role = [i \in Requests |-> "USER"]
    /\ result = [i \in Requests |-> Empty]
    /\ stored = [i \in Requests |-> 0]
    /\ torn = {}
    /\ bare = {}
    /\ crossed = {}
    /\ muddled = {}
    /\ astray = {}

-----------------------------------------------------------------------------
(* What requests have in common. *)

Then(i, s) == at' = [at EXCEPT ![i] = s]

SignedIn(k) == k \in Keys /\ rows[k] # Absent /\ now < rows[k].expires /\ rows[k].user # Nobody

\* Requests that have changed, or may still change, what is kept for a user.
Working(i, u) ==
    \/ doing[i] = "signin" /\ result[i].user = u /\ at[i] \in {"login", "store", "role", "save"}
    \/ doing[i] = "switch" /\ held[i].user = u
       /\ at[i] \in {"token", "exchange", "store", "role", "save"}

OnlyOne(i, u, k) ==
    /\ \A j \in Requests \ {i} : ~ Working(j, u)
    /\ \A q \in Keys \ {k} : rows[q] # Absent => rows[q].user # u

\* Requests whose token is in the vault and whose session is not yet saved.
Unsaved(k) == {i \in Requests : key[i] = k /\ at[i] \in {"role", "save"}}

\* The session middleware and SessionAuthentication: the session's row and the
\* user's are read. A key without a row of a signed-in user counts for nothing
\* (no browser was ever given the key of a row that is nobody's).
Arrive(i, what, k) ==
    /\ at[i] = "new"
    /\ what \in {"switch", "signout", "page"} => SignedIn(k)
    /\ doing' = [doing EXCEPT ![i] = what]
    /\ IF SignedIn(k)
          THEN /\ key' = [key EXCEPT ![i] = k]
               /\ held' = [held EXCEPT ![i] = [user |-> rows[k].user, scope |-> rows[k].scope]]
               /\ role' = [role EXCEPT ![i] = appRole[rows[k].user]]
          ELSE UNCHANGED <<key, held, role>>
    /\ Then(i, CASE what = "signin" -> "cloud" [] what = "signout" -> "drop" [] OTHER -> "token")
    /\ crossed' = IF what = "page" /\ Unsaved(k) # {} THEN crossed \cup {i} ELSE crossed
    /\ muddled' = IF what = "switch" /\ ~ OnlyOne(i, rows[k].user, k)
                     THEN muddled \cup {rows[k].user} ELSE muddled
    /\ UNCHANGED <<now, stores, result, stored, torn, bare, astray>>

\* Mutant: what the vault returns is taken for a token.
ReadTokenUnchecked(i) ==
    /\ at[i] = "token"
    /\ result' = [result EXCEPT ![i] = vault[key[i]]]
    /\ Then(i, IF doing[i] = "page" THEN "done" ELSE "exchange")
    /\ UNCHANGED <<now, stores, doing, key, held, role, stored, history>>

\* _require_token: an empty vault ends the request with session_expired.
ReadToken(i) ==
    LET t == vault[key[i]] IN
    /\ at[i] = "token"
    /\ \/ /\ t # Absent
          /\ now < t.expires
          /\ result' = [result EXCEPT ![i] = [user |-> t.user, scope |-> t.scope]]
          /\ Then(i, IF doing[i] = "page" THEN "done" ELSE "exchange")
       \/ /\ t # Absent => now >= t.expires
          /\ Then(i, "failed")
          /\ UNCHANGED result
    /\ UNCHANGED <<now, stores, doing, key, held, role, stored, history>>

-----------------------------------------------------------------------------
(* Signing in (LoginView). *)

\* authenticate or authenticate_totp, and the exchange into a project: the
\* cloud's answer for some user, in one of her projects or in none.
Authenticate(i) ==
    /\ at[i] = "cloud"
    /\ \/ \E u \in Users : \E s \in MemberOf[u] \cup {NoProject} :
            /\ result' = [result EXCEPT ![i] = [user |-> u, scope |-> s]]
            /\ Then(i, "upsert")
       \/ Then(i, "failed") /\ UNCHANGED result
    /\ UNCHANGED <<now, stores, doing, key, held, role, stored, history>>

\* upsert_user writes the user's row before anything asks whether she is blocked.
Upsert(i) ==
    LET u == result[i].user
        new == RoleIn[u][result[i].scope]
    IN
    /\ at[i] = "upsert"
    /\ appRole' = [appRole EXCEPT ![u] = new]
    /\ role' = [role EXCEPT ![i] = new]
    /\ \/ /\ Then(i, "login")
          /\ astray' = astray \ {u}
       \/ /\ Then(i, "failed") \* "This account is blocked."
          /\ astray' = astray \cup {u}
    /\ muddled' = IF OnlyOne(i, u, key[i]) THEN muddled ELSE muddled \cup {u}
    /\ UNCHANGED <<now, rows, vault, drawn, doing, key, held, result, stored,
                   torn, bare, crossed>>

DrawKey(i, k) ==
    /\ k \in Keys \ drawn
    /\ drawn' = drawn \cup {k}
    /\ key' = [key EXCEPT ![i] = k]

\* Mutant: another user's session is taken over rather than flushed.
LogInKeepingKey(i) ==
    /\ at[i] = "login"
    /\ held' = [held EXCEPT ![i] = result[i]]
    /\ Then(i, "store")
    /\ \/ /\ held[i].user = Nobody
          /\ \E k \in Keys :
               /\ DrawKey(i, k)
               /\ rows' = [rows EXCEPT ![k] = [user |-> Nobody, scope |-> NoProject,
                                               expires |-> now + TTL]]
       \/ /\ held[i].user # Nobody
          /\ UNCHANGED <<key, rows, drawn>>
    /\ UNCHANGED <<now, vault, appRole, doing, role, result, stored, history>>

\* django.contrib.auth.login and what apply_scope_to_session puts into the
\* session. An anonymous session gets a key and a row at once (cycle_key); the
\* same user's keeps them; another user's is deleted (flush), and a key for the
\* new one is drawn only when it is saved.
LogIn(i) ==
    /\ at[i] = "login"
    /\ held' = [held EXCEPT ![i] = result[i]]
    /\ Then(i, "store")
    /\ \/ /\ held[i].user = Nobody
          /\ \E k \in Keys :
               /\ DrawKey(i, k)
               /\ rows' = [rows EXCEPT ![k] = [user |-> Nobody, scope |-> NoProject,
                                               expires |-> now + TTL]]
       \/ /\ held[i].user = result[i].user
          /\ UNCHANGED <<key, rows, drawn>>
       \/ /\ held[i].user \notin {Nobody, result[i].user}
          /\ rows' = [rows EXCEPT ![key[i]] = Absent]
          /\ key' = [key EXCEPT ![i] = NoKey]
          /\ UNCHANGED drawn
    /\ UNCHANGED <<now, vault, appRole, doing, role, result, stored, history>>

-----------------------------------------------------------------------------
(* Switching the project (ProjectSwitchView), and what both end with. *)

\* exchange_project: a token of the same user for another of her projects.
Exchange(i) ==
    /\ at[i] = "exchange"
    /\ \/ \E s \in MemberOf[result[i].user] :
            /\ result' = [result EXCEPT ![i] = [user |-> result[i].user, scope |-> s]]
            /\ Then(i, "store")
       \/ Then(i, "failed") /\ UNCHANGED result
    /\ UNCHANGED <<now, stores, doing, key, held, role, stored, history>>

Stored(i) ==
    /\ at[i] = "store"
    /\ stored' = [stored EXCEPT ![i] = now]
    /\ Then(i, "role")
    /\ torn' = IF Unsaved(key[i]) = {} THEN torn ELSE torn \cup ({key[i]} \ {NoKey})
    /\ bare' = bare \ {key[i]}
    /\ crossed' = crossed \cup {j \in Requests : key[j] = key[i] /\ at[j] = "token"
                                                  /\ doing[j] = "page"}
    /\ UNCHANGED <<now, rows, appRole, drawn, doing, key, held, role, result, muddled,
                   astray>>

\* Mutant: a switch leaves the old token where it is.
StoreForgotten(i) ==
    /\ Stored(i)
    /\ vault' = IF doing[i] = "signin"
                   THEN [vault EXCEPT ![key[i]] = [user |-> result[i].user,
                                      scope |-> result[i].scope, expires |-> now + TTL]]
                   ELSE vault

\* vault.store, under whatever key the request has by now, none included.
Store(i) ==
    /\ Stored(i)
    /\ vault' = [vault EXCEPT ![key[i]] = [user |-> result[i].user,
                               scope |-> result[i].scope, expires |-> now + TTL]]

\* Mutant: the role is left as signing in set it.
ApplyScopeOnly(i) ==
    /\ at[i] = "role"
    /\ held' = [held EXCEPT ![i] = result[i]]
    /\ Then(i, "save")
    /\ UNCHANGED <<now, stores, doing, key, role, result, stored, history>>

\* Mutant: the session goes on naming the project it was in.
SyncRoleOnly(i) ==
    /\ at[i] = "role"
    /\ appRole' = [appRole EXCEPT ![held[i].user] = RoleIn[held[i].user][result[i].scope]]
    /\ Then(i, "save")
    /\ UNCHANGED <<now, rows, vault, drawn, doing, key, held, role, result, stored, history>>

\* apply_scope_to_session: the session in memory, and the user's row if the
\* role differs from the one in the request's copy of that row.
ApplyScope(i) ==
    LET u == held[i].user
        new == RoleIn[u][result[i].scope]
    IN
    /\ at[i] = "role"
    /\ held' = [held EXCEPT ![i] = [user |-> u, scope |-> result[i].scope]]
    /\ appRole' = IF role[i] # new THEN [appRole EXCEPT ![u] = new] ELSE appRole
    /\ astray' = astray \ {u}
    /\ Then(i, "save")
    /\ UNCHANGED <<now, rows, vault, drawn, doing, key, role, result, stored,
                   torn, bare, crossed, muddled>>

\* Mutant: the session's two weeks, as before.
InMemoryForLonger(i) ==
    [user |-> held[i].user, scope |-> held[i].scope, expires |-> now + 3 * TTL]

InMemory(i) == [user |-> held[i].user, scope |-> held[i].scope, expires |-> now + TTL]

\* Mutant: a session that is saved is given a new key, after its token was stored.
SaveAnew(i) ==
    /\ at[i] = "save"
    /\ \E k \in Keys :
          /\ DrawKey(i, k)
          /\ rows' = [rows EXCEPT ![k] = InMemory(i)]
          /\ bare' = bare \cup {k}
    /\ Then(i, "done")
    /\ UNCHANGED <<now, vault, appRole, doing, held, role, result, stored, torn, crossed,
                   muddled, astray>>

\* The session middleware on the way out: a session without a key is given one,
\* another's row is updated as a whole, and if the row is gone by now the
\* request fails (SessionInterrupted).
Save(i) ==
    /\ at[i] = "save"
    /\ \/ \E k \in Keys :
            /\ key[i] = NoKey
            /\ DrawKey(i, k)
            /\ rows' = [rows EXCEPT ![k] = InMemory(i)]
            /\ bare' = bare \cup {k}
            /\ Then(i, "done")
       \/ /\ key[i] # NoKey
          /\ IF rows[key[i]] # Absent
                THEN rows' = [rows EXCEPT ![key[i]] = InMemory(i)] /\ Then(i, "done")
                ELSE UNCHANGED rows /\ Then(i, "failed")
          /\ UNCHANGED <<key, drawn, bare>>
    /\ UNCHANGED <<now, vault, appRole, doing, held, role, result, stored, torn, crossed,
                   muddled, astray>>

-----------------------------------------------------------------------------
(* Signing out (LogoutView; PasswordChangeView ends the same way). *)

DropToken(i) ==
    /\ at[i] = "drop"
    /\ vault' = [vault EXCEPT ![key[i]] = Absent]
    /\ bare' = bare \cup {key[i]}
    /\ Then(i, "flush")
    /\ UNCHANGED <<now, rows, appRole, drawn, doing, key, held, role, result, stored,
                   torn, crossed, muddled, astray>>

Flush(i) ==
    /\ at[i] = "flush"
    /\ rows' = [rows EXCEPT ![key[i]] = Absent]
    /\ Then(i, "done")
    /\ UNCHANGED <<now, vault, appRole, drawn, doing, key, held, role, result, stored, history>>

-----------------------------------------------------------------------------

\* A worker is killed, or a statement fails: an answer of 500 saves no session.
Die(i) ==
    /\ at[i] \notin {"new", "done", "failed"}
    /\ Then(i, "failed")
    /\ torn' = IF at[i] \in {"role", "save"} THEN torn \cup ({key[i]} \ {NoKey}) ELSE torn
    /\ astray' = IF \/ doing[i] = "signin" /\ at[i] \in {"login", "store", "role", "save"}
                    \/ doing[i] = "switch" /\ at[i] = "save"
                    THEN astray \cup {result[i].user} ELSE astray
    /\ UNCHANGED <<now, stores, doing, key, held, role, result, stored, bare, crossed, muddled>>

Tick ==
    /\ now < MaxTime
    /\ \A i \in Requests : at[i] \in {"role", "save"} => now < stored[i] + Lag
    /\ now' = now + 1
    /\ UNCHANGED <<stores, requestVars, history>>

Step(i) ==
    \/ \E what \in Asked \ {"nothing"}, k \in Cookies : Arrive(i, what, k)
    \/ ReadToken(i)
    \/ Authenticate(i)
    \/ Upsert(i)
    \/ LogIn(i)
    \/ Exchange(i)
    \/ Store(i)
    \/ ApplyScope(i)
    \/ Save(i)
    \/ DropToken(i)
    \/ Flush(i)
    \/ Die(i)

Next == (\E i \in Requests : Step(i)) \/ Tick

Spec == Init /\ [][Next]_vars

-----------------------------------------------------------------------------
(* Properties. *)

\* A session's token is its own user's, whoever signed in over whom and whatever
\* was under way then: the vault is "keyed by the user's session" (vault.py).
OwnToken ==
    \A k \in Keys : rows[k] # Absent /\ vault[k] # Absent /\ rows[k].user # Nobody =>
        vault[k].user = rows[k].user

\* "The session must not outlive the cloud token it depends on" (settings): as
\* long as its token was not deleted, or never stored, a session expires with
\* it, give or take the time between storing the one and saving the other.
TokenCoversSession ==
    \A k \in Keys \ bare : rows[k] # Absent /\ rows[k].user # Nobody =>
        vault[k] # Absent /\ rows[k].expires <= vault[k].expires + Lag

\* The project a session names is the one its token reaches, unless two
\* requests stored and saved across each other or one was cut short halfway.
ScopeAgrees ==
    \A k \in Keys \ torn :
        rows[k] # Absent /\ vault[k] # Absent /\ rows[k].user # Nobody /\ Unsaved(k) = {} =>
            rows[k].scope = vault[k].scope

\* "sync the user's role" (apply_scope_to_session): the role a user acts in is
\* the one she has in her session's project, as long as she has one session and
\* signs in and switches one at a time, with two exceptions the code has. A
\* sign-in or a switch that writes her role and dies before its session is saved,
\* and a sign-in refused because she is blocked, which has written her role by
\* then, leave her session with the role of another project. That lasts until she
\* next signs in or switches: either sets it right, whatever went before.
RoleAgrees ==
    \A k \in Keys : rows[k] # Absent /\ rows[k].user \in Users \ (muddled \cup astray) =>
        LET u == rows[k].user IN
        (\A i \in Requests : ~ Working(i, u)) => appRole[u] = RoleIn[u][rows[k].scope]

\* A page that takes the project from the session and the token from the vault
\* shows one project, unless a switch stored its token while the page read them.
PageUndivided ==
    \A i \in Requests :
        doing[i] = "page" /\ at[i] = "done" /\ i \notin crossed /\ key[i] \notin torn =>
            held[i].scope = result[i].scope

\* A session is one user's for good, and one that has been signed out does not
\* come back, although requests that knew it are still under way.
SignedOutForGood ==
    [][\A k \in drawn :
          /\ rows[k] = Absent => rows'[k] = Absent
          /\ rows[k] # Absent /\ rows'[k] # Absent =>
                rows[k].user \in {Nobody, rows'[k].user}]_vars

\* A sign-in that succeeded leaves a token for the session it leaves, until
\* somebody signs out of it: the vault is "keyed by the user's session"
\* (vault.py). The one way to lose it is to sign in over another user's session:
\* the token then lies under no key at all (see LogIn and Store).
SignInLeavesToken ==
    \A i \in Requests : doing[i] = "signin" /\ at[i] = "done" =>
        \/ vault[key[i]] # Absent
        \/ vault[NoKey] # Absent
        \/ \E j \in Requests : doing[j] = "signout" /\ key[j] = key[i]
=============================================================================
