------------------------- MODULE CabinetSessionProofs -------------------------
(***************************************************************************)
(* Theorems about CabinetSession for every set of requests, users and      *)
(* keys: types, whose a session's token is, that a session which was       *)
(* signed out stays so, that its token covers it, that both name one       *)
(* project, that a page shows one, and which role a user acts in.          *)
(***************************************************************************)
EXTENDS CabinetSession, TLAPS

\* What a request has in hand at each of its statements.
Stage(i) ==
    /\ at[i] = "new" => key[i] = NoKey /\ held[i].user = Nobody
    /\ key[i] \in Keys => key[i] \in drawn
    /\ at[i] \in {"token", "exchange", "drop", "flush"} => key[i] \in Keys
    /\ at[i] \in {"token", "exchange", "store", "role", "save", "drop", "flush"} =>
          held[i].user \in Users
    /\ at[i] \in {"cloud", "upsert", "login"} /\ held[i].user # Nobody => key[i] \in Keys
    /\ at[i] \in {"upsert", "login", "exchange", "store", "role", "save"} =>
          result[i].user \in Users
    /\ at[i] = "save" => held[i].scope = result[i].scope

TypeInv == SessionTypeOK /\ \A i \in Requests : Stage(i)

LEMMA TypeInit == Init => TypeInv
<1>1. Empty \in Contents /\ 0 \in Nat
  BY DEF Empty, Contents, Anybody, Scopes
<1>2. Init => SessionTypeOK
  BY <1>1 DEF Init, SessionTypeOK, Statements, Asked, Roles, Cookies
<1>3. NoKey \notin Keys /\ Empty.user = Nobody
  BY SessionAssumption DEF Empty
<1>4. ASSUME Init, NEW i \in Requests PROVE Stage(i)
  <2>1. at[i] = "new" /\ key[i] = NoKey /\ held[i] = Empty
    BY <1>4 DEF Init
  <2> QED BY <2>1, <1>3 DEF Stage
<1> QED BY <1>2, <1>4 DEF TypeInv

LEMMA ArriveType ==
  ASSUME TypeInv, NEW i \in Requests, NEW what \in Asked \ {"nothing"}, NEW k \in Cookies,
         Arrive(i, what, k)
  PROVE  TypeInv'
<1>1. CASE SignedIn(k)
  <2>1. k \in Keys /\ k \in drawn /\ rows[k] \in Row /\ rows[k].user \in Users
    BY <1>1 DEF SignedIn, TypeInv, SessionTypeOK, Row, Anybody
  <2>2. [user |-> rows[k].user, scope |-> rows[k].scope] \in Contents
        /\ appRole[rows[k].user] \in Roles
    BY <2>1 DEF Row, Contents, TypeInv, SessionTypeOK
  <2>3. SessionTypeOK'
    BY <1>1, <2>1, <2>2
    DEF Arrive, Then, TypeInv, SessionTypeOK, Statements, Asked, Cookies, stores
  <2>4. \A j \in Requests : Stage(j)'
    BY <1>1, <2>1, SessionAssumption
    DEF Arrive, Then, TypeInv, SessionTypeOK, Stage, Asked, stores
  <2> QED BY <2>3, <2>4 DEF TypeInv
<1>2. CASE ~ SignedIn(k)
  <2>1. what = "signin"
    BY <1>2 DEF Arrive, Asked
  <2>2. SessionTypeOK'
    <3>1. /\ doing' = [doing EXCEPT ![i] = what] /\ at' = [at EXCEPT ![i] = "cloud"]
          /\ UNCHANGED <<now, stores, key, held, role, result, stored, history>>
      BY <1>2, <2>1 DEF Arrive, Then, history
    <3> QED BY <3>1 DEF TypeInv, SessionTypeOK, Statements, Asked, stores, history
  <2>3. \A j \in Requests : Stage(j)'
    BY <1>2, <2>1, SessionAssumption
    DEF Arrive, Then, TypeInv, SessionTypeOK, Stage, Asked, stores
  <2> QED BY <2>2, <2>3 DEF TypeInv
<1> QED BY <1>1, <1>2

LEMMA ReadTokenType == ASSUME TypeInv, NEW i \in Requests, ReadToken(i) PROVE TypeInv'
<1>1. vault[key[i]] # Absent =>
        [user |-> vault[key[i]].user, scope |-> vault[key[i]].scope] \in Contents
        /\ vault[key[i]].user \in Users
  BY DEF TypeInv, SessionTypeOK, Cookies, Token, Contents, Anybody
<1>2. UNCHANGED <<now, stores, doing, key, held, role, stored, history>>
  BY DEF ReadToken
<1>3. /\ result' \in [Requests -> Contents] /\ at' \in [Requests -> Statements]
      /\ \A j \in Requests \ {i} : result'[j] = result[j] /\ at'[j] = at[j]
      /\ at'[i] = "exchange" => result'[i].user \in Users
      /\ at[i] = "token" /\ at'[i] \in {"exchange", "done", "failed"}
  BY <1>1 DEF ReadToken, Then, TypeInv, SessionTypeOK, Statements
<1>4. SessionTypeOK'
  BY <1>2, <1>3 DEF TypeInv, SessionTypeOK, stores, history
<1>5. ASSUME NEW j \in Requests PROVE Stage(j)'
  BY <1>2, <1>3 DEF TypeInv, Stage, stores, history
<1> QED BY <1>4, <1>5 DEF TypeInv

LEMMA AuthenticateType == ASSUME TypeInv, NEW i \in Requests, Authenticate(i) PROVE TypeInv'
<1>1. ASSUME NEW u \in Users, NEW s \in MemberOf[u] \cup {NoProject}
      PROVE  [user |-> u, scope |-> s] \in Contents
  BY SessionAssumption DEF Contents, Anybody, Scopes
<1>2. UNCHANGED <<now, stores, doing, key, held, role, stored, history>>
  BY DEF Authenticate
<1>3. /\ result' \in [Requests -> Contents] /\ at' \in [Requests -> Statements]
      /\ \A j \in Requests \ {i} : result'[j] = result[j] /\ at'[j] = at[j]
      /\ at'[i] = "upsert" => result'[i].user \in Users
      /\ at[i] = "cloud" /\ at'[i] \in {"upsert", "failed"}
  <2>1. ASSUME NEW u \in Users, NEW s \in MemberOf[u] \cup {NoProject},
               result' = [result EXCEPT ![i] = [user |-> u, scope |-> s]], Then(i, "upsert")
        PROVE  <1>3!1 /\ <1>3!2 /\ <1>3!3
    BY <1>1, <2>1 DEF Then, TypeInv, SessionTypeOK, Statements
  <2>2. ASSUME Then(i, "failed"), UNCHANGED result
        PROVE  <1>3!1 /\ <1>3!2 /\ <1>3!3
    BY <2>2 DEF Then, TypeInv, SessionTypeOK, Statements
  <2> QED BY <2>1, <2>2 DEF Authenticate, Then, TypeInv, SessionTypeOK
<1>4. SessionTypeOK'
  BY <1>2, <1>3 DEF TypeInv, SessionTypeOK, stores, history
<1>5. ASSUME NEW j \in Requests PROVE Stage(j)'
  BY <1>2, <1>3 DEF TypeInv, Stage, stores, history
<1> QED BY <1>4, <1>5 DEF TypeInv

LEMMA UpsertType == ASSUME TypeInv, NEW i \in Requests, Upsert(i) PROVE TypeInv'
<1>1. result[i].user \in Users /\ RoleIn[result[i].user][result[i].scope] \in Roles
  <2>1. result[i].user \in Users /\ result[i] \in Contents
    BY DEF Upsert, TypeInv, Stage, SessionTypeOK
  <2>2. RoleIn[result[i].user] \in [Scopes -> Roles]
    BY <2>1, SessionAssumption
  <2> QED BY <2>1, <2>2 DEF Contents
<1>2. UNCHANGED <<now, rows, vault, drawn, doing, key, held, result, stored, torn, bare, crossed>>
  BY DEF Upsert
<1>3. /\ appRole' \in [Users -> Roles] /\ role' \in [Requests -> Roles]
      /\ muddled' \subseteq Users /\ astray' \subseteq Users
      /\ at[i] = "upsert" /\ at' \in [Requests -> Statements]
      /\ \A j \in Requests \ {i} : at'[j] = at[j]
      /\ at'[i] \in {"login", "failed"}
  BY <1>1 DEF Upsert, Then, TypeInv, SessionTypeOK, Statements
<1>4. SessionTypeOK'
  BY <1>2, <1>3 DEF TypeInv, SessionTypeOK
<1>5. ASSUME NEW j \in Requests PROVE Stage(j)'
  BY <1>2, <1>3 DEF TypeInv, Stage
<1> QED BY <1>4, <1>5 DEF TypeInv

LEMMA LogInType == ASSUME TypeInv, NEW i \in Requests, LogIn(i) PROVE TypeInv'
<1>1. /\ at[i] = "login" /\ at' = [at EXCEPT ![i] = "store"]
      /\ held' = [held EXCEPT ![i] = result[i]] /\ result[i].user \in Users
      /\ UNCHANGED <<now, vault, appRole, doing, role, result, stored, history>>
  BY DEF LogIn, Then, TypeInv, Stage
<1>2. [user |-> Nobody, scope |-> NoProject, expires |-> now + TTL] \in Row
  BY SessionAssumption DEF Row, Anybody, Scopes, TypeInv, SessionTypeOK
<1>3. /\ rows' \in [Keys -> Row \cup {Absent}] /\ key' \in [Requests -> Cookies]
      /\ drawn' \subseteq Keys /\ drawn \subseteq drawn'
      /\ \A k \in Keys : rows'[k] # Absent => k \in drawn'
      /\ \A j \in Requests \ {i} : key'[j] = key[j]
      /\ key'[i] \in Keys => key'[i] \in drawn'
  <2>1. CASE held[i].user = Nobody
    <3>1. PICK k \in Keys :
            /\ key' = [key EXCEPT ![i] = k] /\ drawn' = drawn \cup {k}
            /\ rows' = [rows EXCEPT ![k] = [user |-> Nobody, scope |-> NoProject,
                                            expires |-> now + TTL]]
      BY <1>1, <2>1, SessionAssumption DEF LogIn, DrawKey, TypeInv, Stage
    <3>2. rows' \in [Keys -> Row \cup {Absent}] /\ key' \in [Requests -> Cookies]
      BY <3>1, <1>2 DEF TypeInv, SessionTypeOK, Cookies
    <3> QED BY <3>1, <3>2 DEF TypeInv, SessionTypeOK, Stage
  <2>2. CASE held[i].user # Nobody
    <3>1. \/ UNCHANGED <<key, rows, drawn>>
          \/ /\ rows' = [rows EXCEPT ![key[i]] = Absent] /\ key' = [key EXCEPT ![i] = NoKey]
             /\ UNCHANGED drawn
      BY <2>2 DEF LogIn
    <3>2. rows' \in [Keys -> Row \cup {Absent}] /\ key' \in [Requests -> Cookies]
      BY <3>1 DEF TypeInv, SessionTypeOK, Cookies
    <3> QED BY <3>1, <3>2, SessionAssumption DEF TypeInv, SessionTypeOK, Stage
  <2> QED BY <2>1, <2>2
<1>4. SessionTypeOK'
  BY <1>1, <1>3 DEF TypeInv, SessionTypeOK, Statements, history
<1>5. ASSUME NEW j \in Requests PROVE Stage(j)'
  BY <1>1, <1>3 DEF TypeInv, SessionTypeOK, Stage
<1> QED BY <1>4, <1>5 DEF TypeInv

LEMMA ExchangeType == ASSUME TypeInv, NEW i \in Requests, Exchange(i) PROVE TypeInv'
<1>1. result[i].user \in Users /\ at[i] = "exchange"
  BY DEF Exchange, TypeInv, Stage
<1>2. ASSUME NEW s \in MemberOf[result[i].user]
      PROVE  [user |-> result[i].user, scope |-> s] \in Contents
  BY <1>1, SessionAssumption DEF Contents, Anybody, Scopes
<1>3. UNCHANGED <<now, stores, doing, key, held, role, stored, history>>
  BY DEF Exchange
<1>4. \/ \E s \in MemberOf[result[i].user] :
            /\ result' = [result EXCEPT ![i] = [user |-> result[i].user, scope |-> s]]
            /\ at' = [at EXCEPT ![i] = "store"]
      \/ at' = [at EXCEPT ![i] = "failed"] /\ UNCHANGED result
  BY DEF Exchange, Then
<1>5. SessionTypeOK'
  BY <1>2, <1>3, <1>4 DEF TypeInv, SessionTypeOK, Statements, stores, history
<1>6. ASSUME NEW j \in Requests PROVE Stage(j)'
  BY <1>1, <1>3, <1>4 DEF TypeInv, SessionTypeOK, Stage, stores, history
<1> QED BY <1>5, <1>6 DEF TypeInv

LEMMA StoreType == ASSUME TypeInv, NEW i \in Requests, Store(i) PROVE TypeInv'
BY SessionAssumption
DEF Store, Stored, TypeInv, SessionTypeOK, Stage, Row, Token, Contents, Statements, Asked, Roles,
    Scopes, Anybody, Cookies, Then, stores, history

LEMMA ApplyScopeType == ASSUME TypeInv, NEW i \in Requests, ApplyScope(i) PROVE TypeInv'
BY SessionAssumption
DEF ApplyScope, TypeInv, SessionTypeOK, Stage, Row, Token, Contents, Statements, Asked, Roles,
    Scopes, Anybody, Cookies, Then, stores, history

LEMMA SaveType == ASSUME TypeInv, NEW i \in Requests, Save(i) PROVE TypeInv'
<1>1. /\ at[i] = "save" /\ at' \in [Requests -> Statements]
      /\ at'[i] \in {"done", "failed"}
      /\ \A j \in Requests \ {i} : at'[j] = at[j]
      /\ UNCHANGED <<now, vault, appRole, doing, held, role, result, stored, torn, crossed,
                     muddled, astray>>
  BY DEF Save, Then, TypeInv, SessionTypeOK, Statements
<1>2. InMemory(i) \in Row
  BY SessionAssumption DEF InMemory, Row, Contents, TypeInv, SessionTypeOK
<1>3. /\ rows' \in [Keys -> Row \cup {Absent}] /\ key' \in [Requests -> Cookies]
      /\ drawn' \subseteq Keys /\ drawn \subseteq drawn' /\ bare' \subseteq Keys
      /\ \A k \in Keys : rows'[k] # Absent => k \in drawn'
      /\ \A j \in Requests \ {i} : key'[j] = key[j]
      /\ key'[i] \in Keys => key'[i] \in drawn'
  BY <1>2 DEF Save, DrawKey, TypeInv, SessionTypeOK, Stage, Cookies
<1>4. SessionTypeOK'
  BY <1>1, <1>3 DEF TypeInv, SessionTypeOK
<1>5. ASSUME NEW j \in Requests PROVE Stage(j)'
  BY <1>1, <1>3 DEF TypeInv, SessionTypeOK, Stage
<1> QED BY <1>4, <1>5 DEF TypeInv

LEMMA DropTokenType == ASSUME TypeInv, NEW i \in Requests, DropToken(i) PROVE TypeInv'
BY SessionAssumption
DEF DropToken, TypeInv, SessionTypeOK, Stage, Row, Token, Contents, Statements, Asked, Roles,
    Scopes, Anybody, Cookies, Then, stores, history

LEMMA FlushType == ASSUME TypeInv, NEW i \in Requests, Flush(i) PROVE TypeInv'
BY SessionAssumption
DEF Flush, TypeInv, SessionTypeOK, Stage, Row, Token, Contents, Statements, Asked, Roles,
    Scopes, Anybody, Cookies, Then, stores, history

LEMMA DieType == ASSUME TypeInv, NEW i \in Requests, Die(i) PROVE TypeInv'
BY SessionAssumption
DEF Die, TypeInv, SessionTypeOK, Stage, Row, Token, Contents, Statements, Asked, Roles,
    Scopes, Anybody, Cookies, Then, stores, history

LEMMA TypeStep == TypeInv /\ [Next]_vars => TypeInv'
<1> SUFFICES ASSUME TypeInv, [Next]_vars PROVE TypeInv'
  OBVIOUS
<1>1. ASSUME NEW i \in Requests, Step(i) PROVE TypeInv'
  BY <1>1, ArriveType, ReadTokenType, AuthenticateType, UpsertType, LogInType, ExchangeType,
     StoreType, ApplyScopeType, SaveType, DropTokenType, FlushType, DieType DEF Step
<1>2. CASE Tick
  BY <1>2 DEF Tick, TypeInv, SessionTypeOK, Stage, stores, requestVars, history
<1>3. CASE UNCHANGED vars
  BY <1>3 DEF vars, TypeInv, SessionTypeOK, Stage, stores, requestVars, history
<1> QED BY <1>1, <1>2, <1>3 DEF Next

LEMMA TypeAlways == Spec => []TypeInv
<1> QED BY TypeInit, TypeStep, PTL DEF Spec

\* Rows, tokens and requests keep their types: no statement of any interleaving
\* stores what is not a session or hands on what is not a token.
THEOREM SessionTypeCorrect == Spec => []SessionTypeOK
<1>1. TypeInv => SessionTypeOK
  BY DEF TypeInv
<1> QED BY TypeAlways, <1>1, PTL

-----------------------------------------------------------------------------
(* Whose a session is. A key is one user's from the moment it is drawn,    *)
(* also in the hands of the requests that know it and in the vault when    *)
(* the row is gone; this is what makes OwnToken inductive.                 *)

Owned(k, u) ==
    /\ rows[k] # Absent => rows[k].user \in {Nobody, u}
    /\ vault[k] # Absent => vault[k].user = u
    /\ \A i \in Requests : key[i] = k => held[i].user = u

OwnerInv ==
    /\ \A k \in Keys : \E u \in Anybody : Owned(k, u)
    /\ \A k \in Keys \ drawn : vault[k] = Absent
    /\ \A i \in Requests :
          at[i] \in {"exchange", "store", "role", "save"} => result[i].user = held[i].user

LEMMA OwnerInit == Init => OwnerInv
<1> SUFFICES ASSUME Init PROVE OwnerInv
  OBVIOUS
<1>1. ASSUME NEW k \in Keys PROVE Owned(k, Nobody)
  BY SessionAssumption DEF Init, Owned, Cookies
<1> QED BY <1>1 DEF OwnerInv, Anybody, Init, Cookies

\* The steps that change no row, no token, no key, and nobody's session.
LEMMA OwnerKept ==
  ASSUME TypeInv, OwnerInv, UNCHANGED <<rows, vault, drawn, key>>,
         \A i \in Requests : held'[i].user = held[i].user,
         \A i \in Requests :
            at'[i] \in {"exchange", "store", "role", "save"} => result'[i].user = held[i].user
  PROVE  OwnerInv'
<1>1. ASSUME NEW k \in Keys, NEW u \in Anybody, Owned(k, u) PROVE Owned(k, u)'
  BY <1>1 DEF Owned
<1>2. \A k \in Keys : \E u \in Anybody : Owned(k, u)'
  BY <1>1 DEF OwnerInv
<1> QED BY <1>2 DEF OwnerInv

LEMMA OwnerArrive ==
  ASSUME TypeInv, OwnerInv, NEW i \in Requests, NEW what \in Asked \ {"nothing"},
         NEW q \in Cookies, Arrive(i, what, q)
  PROVE  OwnerInv'
<1>1. UNCHANGED <<rows, vault, drawn, result>>
  BY DEF Arrive, stores
<1>2. ASSUME NEW k \in Keys, NEW u \in Anybody, Owned(k, u) PROVE \E v \in Anybody : Owned(k, v)'
  <2>1. CASE SignedIn(q) /\ k = q
    <3>1. rows[k].user = u
      BY <1>2, <2>1 DEF SignedIn, Owned
    <3>2. key' = [key EXCEPT ![i] = k] /\ held'[i].user = u
          /\ \A j \in Requests \ {i} : held'[j] = held[j]
      BY <2>1, <3>1 DEF Arrive, TypeInv, SessionTypeOK
    <3>3. Owned(k, u)'
      BY <1>1, <1>2, <3>2 DEF Owned, TypeInv, SessionTypeOK
    <3> QED BY <3>3
  <2>2. CASE ~ (SignedIn(q) /\ k = q)
    <3>1. \A j \in Requests : key'[j] = k => key[j] = k /\ held'[j] = held[j]
      BY <2>2 DEF Arrive, TypeInv, SessionTypeOK, SignedIn, Stage
    <3>2. Owned(k, u)'
      BY <1>1, <1>2, <3>1 DEF Owned
    <3> QED BY <3>2
  <2> QED BY <2>1, <2>2
<1>3. \A j \in Requests :
        at'[j] \in {"exchange", "store", "role", "save"} => at'[j] = at[j] /\ held'[j] = held[j]
  <2>1. at'[i] \in {"cloud", "drop", "token"}
    BY DEF Arrive, Then, TypeInv, SessionTypeOK
  <2>2. \A j \in Requests \ {i} : at'[j] = at[j] /\ held'[j] = held[j]
    BY DEF Arrive, Then, TypeInv, SessionTypeOK
  <2> QED BY <2>1, <2>2
<1>4. \A k \in Keys : \E v \in Anybody : Owned(k, v)'
  BY <1>2 DEF OwnerInv
<1> QED BY <1>1, <1>3, <1>4 DEF OwnerInv

LEMMA OwnerReadToken ==
  ASSUME TypeInv, OwnerInv, NEW i \in Requests, ReadToken(i)
  PROVE  OwnerInv'
<1>1. PICK u \in Anybody : Owned(key[i], u)
  BY DEF OwnerInv, ReadToken, TypeInv, Stage
<1>2. held[i].user = u /\ (vault[key[i]] # Absent => vault[key[i]].user = u)
  BY <1>1 DEF Owned
<1>3. UNCHANGED <<rows, vault, drawn, key, held>>
  BY DEF ReadToken, stores
<1>4. \A j \in Requests :
        at'[j] \in {"exchange", "store", "role", "save"} => result'[j].user = held[j].user
  <2>1. at'[i] \in {"exchange", "store", "role", "save"} => result'[i].user = u
    BY <1>2 DEF ReadToken, Then, TypeInv, SessionTypeOK
  <2>2. \A j \in Requests \ {i} : at'[j] = at[j] /\ result'[j] = result[j]
    BY DEF ReadToken, Then, TypeInv, SessionTypeOK
  <2> QED BY <2>1, <2>2, <1>2 DEF OwnerInv
<1> QED BY <1>3, <1>4, OwnerKept

LEMMA OwnerLogIn ==
  ASSUME TypeInv, OwnerInv, NEW i \in Requests, LogIn(i)
  PROVE  OwnerInv'
<1>1. /\ at' = [at EXCEPT ![i] = "store"] /\ held' = [held EXCEPT ![i] = result[i]]
      /\ UNCHANGED <<vault, result>> /\ result[i].user \in Users
  BY DEF LogIn, Then, TypeInv, Stage
<1>2. \A j \in Requests :
        at'[j] \in {"exchange", "store", "role", "save"} => result'[j].user = held'[j].user
  BY <1>1 DEF OwnerInv, TypeInv, SessionTypeOK
<1>3. CASE held[i].user = Nobody
  <2>1. PICK k \in Keys \ drawn :
          /\ key' = [key EXCEPT ![i] = k] /\ drawn' = drawn \cup {k}
          /\ rows' = [rows EXCEPT ![k] = [user |-> Nobody, scope |-> NoProject,
                                          expires |-> now + TTL]]
    BY <1>1, <1>3, SessionAssumption DEF LogIn, DrawKey
  <2>2. Owned(k, result[i].user)'
    <3>1. rows'[k].user = Nobody /\ vault'[k] = Absent
      BY <1>1, <2>1 DEF OwnerInv, TypeInv, SessionTypeOK
    <3>2. \A j \in Requests : key'[j] = k => j = i
      BY <2>1 DEF TypeInv, SessionTypeOK, Stage
    <3>3. held'[i].user = result[i].user
      BY <1>1 DEF TypeInv, SessionTypeOK
    <3> QED BY <1>1, <3>1, <3>2, <3>3 DEF Owned
  <2>3. ASSUME NEW q \in Keys \ {k}, NEW u \in Anybody, Owned(q, u) PROVE Owned(q, u)'
    <3>1. rows'[q] = rows[q] /\ \A j \in Requests : key'[j] = q => j # i /\ key[j] = q
      BY <2>1 DEF TypeInv, SessionTypeOK
    <3> QED BY <1>1, <2>3, <3>1 DEF Owned, TypeInv, SessionTypeOK
  <2>4. \A q \in Keys : \E u \in Anybody : Owned(q, u)'
    BY <1>1, <2>2, <2>3 DEF OwnerInv, Anybody
  <2> QED BY <1>1, <1>2, <2>1, <2>4 DEF OwnerInv
<1>4. CASE held[i].user = result[i].user
  <2>1. UNCHANGED <<key, rows, drawn>>
    BY <1>1, <1>4, SessionAssumption DEF LogIn
  <2>2. \A j \in Requests : held'[j].user = held[j].user
    BY <1>1, <1>4 DEF TypeInv, SessionTypeOK
  <2> QED BY <1>1, <1>2, <2>1, <2>2, OwnerKept
<1>5. CASE held[i].user \notin {Nobody, result[i].user}
  <2>1. /\ rows' = [rows EXCEPT ![key[i]] = Absent] /\ key' = [key EXCEPT ![i] = NoKey]
        /\ UNCHANGED drawn
    BY <1>5 DEF LogIn
  <2>2. ASSUME NEW q \in Keys, NEW u \in Anybody, Owned(q, u) PROVE Owned(q, u)'
    <3>1. rows'[q] # Absent => rows'[q] = rows[q]
      BY <2>1 DEF TypeInv, SessionTypeOK
    <3>2. \A j \in Requests : key'[j] = q => key[j] = q /\ held'[j] = held[j]
      BY <1>1, <2>1, SessionAssumption DEF TypeInv, SessionTypeOK
    <3> QED BY <1>1, <2>2, <3>1, <3>2 DEF Owned
  <2>3. \A q \in Keys : \E u \in Anybody : Owned(q, u)'
    BY <2>2 DEF OwnerInv
  <2> QED BY <1>1, <1>2, <2>1, <2>3 DEF OwnerInv
<1> QED BY <1>3, <1>4, <1>5

LEMMA OwnerStore ==
  ASSUME TypeInv, OwnerInv, NEW i \in Requests, Store(i)
  PROVE  OwnerInv'
<1>1. /\ vault' = [vault EXCEPT ![key[i]] = [user |-> result[i].user, scope |-> result[i].scope,
                                             expires |-> now + TTL]]
      /\ at' = [at EXCEPT ![i] = "role"] /\ at[i] = "store"
      /\ UNCHANGED <<rows, drawn, key, held, result>>
  BY DEF Store, Stored, Then
<1>2. result[i].user = held[i].user /\ (key[i] \in Keys => key[i] \in drawn)
  BY <1>1 DEF OwnerInv, TypeInv, Stage
<1>3. ASSUME NEW k \in Keys, NEW u \in Anybody, Owned(k, u) PROVE Owned(k, u)'
  <2>1. CASE k = key[i]
    <3>1. vault'[k].user = u
      BY <1>1, <1>2, <1>3, <2>1 DEF TypeInv, SessionTypeOK, Owned
    <3> QED BY <1>1, <1>3, <3>1 DEF Owned
  <2>2. CASE k # key[i]
    <3>1. vault'[k] = vault[k]
      BY <1>1, <2>2 DEF TypeInv, SessionTypeOK, Cookies
    <3> QED BY <1>1, <1>3, <3>1 DEF Owned
  <2> QED BY <2>1, <2>2
<1>4. \A k \in Keys : \E u \in Anybody : Owned(k, u)'
  BY <1>3 DEF OwnerInv
<1>5. \A k \in Keys \ drawn' : vault'[k] = Absent
  BY <1>1, <1>2 DEF OwnerInv, TypeInv, SessionTypeOK, Cookies
<1>6. \A j \in Requests :
        at'[j] \in {"exchange", "store", "role", "save"} => result'[j].user = held'[j].user
  BY <1>1, <1>2 DEF OwnerInv, TypeInv, SessionTypeOK
<1> QED BY <1>4, <1>5, <1>6 DEF OwnerInv

LEMMA OwnerSave ==
  ASSUME TypeInv, OwnerInv, NEW i \in Requests, Save(i)
  PROVE  OwnerInv'
<1>1. /\ at[i] = "save" /\ at'[i] \in {"done", "failed"}
      /\ \A j \in Requests \ {i} : at'[j] = at[j]
      /\ UNCHANGED <<vault, held, result>> /\ held[i].user \in Users
  BY DEF Save, Then, TypeInv, SessionTypeOK, Stage
<1>2. \A j \in Requests :
        at'[j] \in {"exchange", "store", "role", "save"} => result'[j].user = held'[j].user
  BY <1>1 DEF OwnerInv
<1>3. CASE key[i] = NoKey
  <2>1. PICK k \in Keys \ drawn :
          /\ key' = [key EXCEPT ![i] = k] /\ drawn' = drawn \cup {k}
          /\ rows' = [rows EXCEPT ![k] = InMemory(i)]
    BY <1>3 DEF Save, DrawKey
  <2>2. Owned(k, held[i].user)'
    <3>1. rows'[k].user = held[i].user /\ vault'[k] = Absent
      BY <1>1, <2>1 DEF OwnerInv, TypeInv, SessionTypeOK, InMemory
    <3>2. \A j \in Requests : key'[j] = k => j = i
      BY <2>1 DEF TypeInv, SessionTypeOK, Stage
    <3> QED BY <1>1, <3>1, <3>2 DEF Owned
  <2>3. ASSUME NEW q \in Keys \ {k}, NEW u \in Anybody, Owned(q, u) PROVE Owned(q, u)'
    <3>1. rows'[q] = rows[q] /\ \A j \in Requests : key'[j] = q => key[j] = q
      BY <2>1 DEF TypeInv, SessionTypeOK
    <3> QED BY <1>1, <2>3, <3>1 DEF Owned
  <2>4. \A q \in Keys : \E u \in Anybody : Owned(q, u)'
    BY <1>1, <2>2, <2>3 DEF OwnerInv, Anybody
  <2> QED BY <1>1, <1>2, <2>1, <2>4 DEF OwnerInv
<1>4. CASE key[i] # NoKey
  <2>1. UNCHANGED <<key, drawn>>
        /\ (rows' = [rows EXCEPT ![key[i]] = InMemory(i)] \/ UNCHANGED rows)
    BY <1>4 DEF Save
  <2>2. ASSUME NEW q \in Keys, NEW u \in Anybody, Owned(q, u) PROVE Owned(q, u)'
    <3>1. rows'[q] = rows[q] \/ (q = key[i] /\ rows'[q].user = held[i].user)
      BY <2>1 DEF TypeInv, SessionTypeOK, InMemory
    <3>2. rows'[q] # Absent => rows'[q].user \in {Nobody, u}
      BY <2>2, <3>1 DEF Owned
    <3> QED BY <1>1, <2>1, <2>2, <3>2 DEF Owned
  <2>3. \A q \in Keys : \E u \in Anybody : Owned(q, u)'
    BY <2>2 DEF OwnerInv
  <2> QED BY <1>1, <1>2, <2>1, <2>3 DEF OwnerInv
<1> QED BY <1>3, <1>4

LEMMA OwnerSignOut ==
  ASSUME TypeInv, OwnerInv, NEW i \in Requests, DropToken(i) \/ Flush(i)
  PROVE  OwnerInv'
<1>1. /\ UNCHANGED <<drawn, key, held, result>>
      /\ \A k \in Keys : rows'[k] # Absent => rows'[k] = rows[k]
      /\ \A k \in Keys : vault'[k] # Absent => vault'[k] = vault[k]
  BY DEF DropToken, Flush, TypeInv, SessionTypeOK, Cookies
<1>2. \A j \in Requests : at'[j] \in {"exchange", "store", "role", "save"} => at'[j] = at[j]
  BY DEF DropToken, Flush, Then, TypeInv, SessionTypeOK
<1>3. ASSUME NEW k \in Keys, NEW u \in Anybody, Owned(k, u) PROVE Owned(k, u)'
  BY <1>1, <1>3 DEF Owned
<1>4. \A k \in Keys : \E u \in Anybody : Owned(k, u)'
  BY <1>3 DEF OwnerInv
<1>5. \A k \in Keys \ drawn' : vault'[k] = Absent
  BY <1>1 DEF OwnerInv
<1> QED BY <1>1, <1>2, <1>4, <1>5 DEF OwnerInv

LEMMA OwnerStep == TypeInv /\ OwnerInv /\ [Next]_vars => OwnerInv'
<1> SUFFICES ASSUME TypeInv, OwnerInv, [Next]_vars PROVE OwnerInv'
  OBVIOUS
<1>1. ASSUME NEW i \in Requests, Authenticate(i) \/ Upsert(i) \/ Exchange(i) \/ Die(i)
      PROVE  OwnerInv'
  <2>1. UNCHANGED <<rows, vault, drawn, key, held>>
    BY <1>1 DEF Authenticate, Upsert, Exchange, Die, stores
  <2>2. \A j \in Requests \ {i} : at'[j] = at[j] /\ result'[j] = result[j]
    BY <1>1 DEF Authenticate, Upsert, Exchange, Die, Then, TypeInv, SessionTypeOK
  <2>3. at'[i] \in {"exchange", "store", "role", "save"} => result'[i].user = held[i].user
    BY <1>1 DEF Authenticate, Upsert, Exchange, Die, Then, TypeInv, SessionTypeOK, OwnerInv
  <2> QED BY <2>1, <2>2, <2>3, OwnerKept DEF OwnerInv
<1>2. ASSUME NEW i \in Requests, ApplyScope(i) PROVE OwnerInv'
  <2>1. UNCHANGED <<rows, vault, drawn, key, result>> /\ at[i] = "role"
    BY <1>2 DEF ApplyScope
  <2>2. \A j \in Requests : held'[j].user = held[j].user
    BY <1>2 DEF ApplyScope, TypeInv, SessionTypeOK
  <2>3. \A j \in Requests \ {i} : at'[j] = at[j]
    BY <1>2 DEF ApplyScope, Then, TypeInv, SessionTypeOK
  <2> QED BY <2>1, <2>2, <2>3, OwnerKept DEF OwnerInv
<1>3. ASSUME NEW i \in Requests, Step(i) PROVE OwnerInv'
  BY <1>1, <1>2, <1>3, OwnerArrive, OwnerReadToken, OwnerLogIn, OwnerStore, OwnerSave,
     OwnerSignOut DEF Step
<1>4. CASE Tick \/ UNCHANGED vars
  <2>1. UNCHANGED <<rows, vault, drawn, key, held, at, result>>
    BY <1>4 DEF Tick, vars, stores, requestVars
  <2> QED BY <2>1, OwnerKept DEF OwnerInv
<1> QED BY <1>3, <1>4 DEF Next

LEMMA OwnerAlways == Spec => []OwnerInv
<1> QED BY TypeAlways, OwnerInit, OwnerStep, PTL DEF Spec

\* A session's token is its own user's, through every interleaving of sign-ins
\* over each other, switches and sign-outs.
THEOREM OwnTokenCorrect == Spec => []OwnToken
<1>1. TypeInv /\ OwnerInv => OwnToken
  <2> SUFFICES ASSUME TypeInv, OwnerInv, NEW k \in Keys, rows[k] # Absent, vault[k] # Absent,
                      rows[k].user # Nobody
               PROVE  vault[k].user = rows[k].user
    BY DEF OwnToken
  <2>1. PICK u \in Anybody : Owned(k, u)
    BY DEF OwnerInv
  <2> QED BY <2>1 DEF Owned
<1> QED BY TypeAlways, OwnerAlways, <1>1, PTL

-----------------------------------------------------------------------------
(* What becomes of rows. *)

\* The only rows a step writes: one under a key that was not drawn, one deleted,
\* or one that is there updated by a request that knows its key.
RowsMove(i) ==
    \/ UNCHANGED rows
    \/ \E k \in Keys \ drawn, r \in Row : rows' = [rows EXCEPT ![k] = r]
    \/ rows' = [rows EXCEPT ![key[i]] = Absent]
    \/ /\ key[i] \in Keys /\ rows[key[i]] # Absent /\ at[i] = "save"
       /\ rows' = [rows EXCEPT ![key[i]] = InMemory(i)]

LEMMA RowsStep == ASSUME TypeInv, NEW i \in Requests, Step(i) PROVE RowsMove(i)
<1>1. /\ [user |-> Nobody, scope |-> NoProject, expires |-> now + TTL] \in Row
      /\ InMemory(i) \in Row
  BY SessionAssumption DEF InMemory, Row, Anybody, Scopes, Contents, TypeInv, SessionTypeOK
<1>2. CASE LogIn(i)
  BY <1>1, <1>2 DEF LogIn, DrawKey, RowsMove
<1>3. CASE Save(i)
  BY <1>1, <1>3 DEF Save, DrawKey, RowsMove, TypeInv, SessionTypeOK, Cookies
<1>4. CASE Flush(i)
  BY <1>4 DEF Flush, RowsMove
<1>5. CASE ~ (LogIn(i) \/ Save(i) \/ Flush(i))
  BY <1>5 DEF Step, Arrive, ReadToken, Authenticate, Upsert, Exchange, Store, Stored, ApplyScope,
              DropToken, Die, RowsMove, stores
<1> QED BY <1>2, <1>3, <1>4, <1>5

\* A session that has been signed out stays so, and none changes hands, whatever
\* requests that knew it do afterwards.
THEOREM SignedOutCorrect == Spec => SignedOutForGood
<1> DEFINE Kept == \A k \in drawn :
              /\ rows[k] = Absent => rows'[k] = Absent
              /\ rows[k] # Absent /\ rows'[k] # Absent =>
                    rows[k].user \in {Nobody, rows'[k].user}
<1>1. ASSUME TypeInv, OwnerInv, NEW i \in Requests, Step(i) PROVE Kept
  <2> SUFFICES ASSUME NEW k \in drawn
               PROVE  /\ rows[k] = Absent => rows'[k] = Absent
                      /\ rows[k] # Absent /\ rows'[k] # Absent =>
                            rows[k].user \in {Nobody, rows'[k].user}
    OBVIOUS
  <2>1. RowsMove(i) /\ k \in Keys /\ rows \in [Keys -> Row \cup {Absent}]
    BY <1>1, RowsStep DEF TypeInv, SessionTypeOK
  <2>2. CASE rows'[k] = rows[k] \/ rows'[k] = Absent
    BY <2>2
  <2>3. CASE rows'[k] # rows[k] /\ rows'[k] # Absent
    <3>1. k = key[i] /\ rows[k] # Absent /\ rows'[k].user = held[i].user
      BY <2>1, <2>3 DEF RowsMove, InMemory
    <3>2. PICK u \in Anybody : Owned(k, u)
      BY <1>1, <2>1 DEF OwnerInv
    <3> QED BY <3>1, <3>2 DEF Owned
  <2> QED BY <2>2, <2>3
<1>2. TypeInv /\ OwnerInv /\ [Next]_vars => [Kept]_vars
  <2>1. Tick => Kept
    BY DEF Tick, stores
  <2> QED BY <1>1, <2>1 DEF Next
<1>3. Spec => [][Kept]_vars
  BY <1>2, TypeAlways, OwnerAlways, PTL DEF Spec
<1> QED BY <1>3 DEF SignedOutForGood

-----------------------------------------------------------------------------
(* Which project. Between a request's store and its save the token is      *)
(* ahead of the row; a key that is not torn has one such request at most,  *)
(* and the token is the one that request will name in the row.             *)

Ahead(k) ==
    \A i \in Unsaved(k) :
        Unsaved(k) = {i} /\ (vault[k] # Absent => vault[k].scope = result[i].scope)

Level(k) ==
    rows[k] # Absent /\ vault[k] # Absent /\ rows[k].user # Nobody /\ Unsaved(k) = {} =>
        rows[k].scope = vault[k].scope

ScopeInv == \A k \in Keys \ torn : Ahead(k) /\ Level(k)

LEMMA ScopeInit == Init => ScopeInv
BY SessionAssumption DEF Init, ScopeInv, Ahead, Level, Unsaved

\* A key whose requests, token and row are as they were, or whose row or token
\* went, or got a row that is nobody's.
LEMMA ScopeKept ==
  ASSUME NEW k \in Keys, Ahead(k), Level(k),
         Unsaved(k)' = Unsaved(k),
         \A i \in Unsaved(k) : result'[i] = result[i],
         vault'[k] = vault[k] \/ vault'[k] = Absent,
         rows'[k] = rows[k] \/ rows'[k] = Absent \/ rows'[k].user = Nobody
  PROVE  Ahead(k)' /\ Level(k)'
<1>1. Ahead(k)'
  BY DEF Ahead
<1>2. Level(k)'
  BY DEF Level
<1> QED BY <1>1, <1>2

\* The steps of a request that has stored nothing it has not saved.
LEMMA ScopeQuiet ==
  ASSUME TypeInv, ScopeInv, NEW i \in Requests, at[i] \notin {"store", "role", "save"}, Step(i)
  PROVE  ScopeInv'
<1>1. at'[i] \notin {"role", "save"} /\ \A j \in Requests \ {i} :
        at'[j] = at[j] /\ key'[j] = key[j] /\ result'[j] = result[j]
  BY DEF Step, Arrive, ReadToken, Authenticate, Upsert, LogIn, DrawKey, Exchange, Store, Stored,
         ApplyScope, Save, DropToken, Flush, Die, Then, TypeInv, SessionTypeOK
<1>2. torn' = torn
  BY DEF Step, Arrive, ReadToken, Authenticate, Upsert, LogIn, Exchange, Store, Stored, ApplyScope,
         Save, DropToken, Flush, Die, history
<1>3. ASSUME NEW k \in Keys \ torn PROVE Ahead(k)' /\ Level(k)'
  <2>1. Unsaved(k)' = Unsaved(k) /\ i \notin Unsaved(k)
    BY <1>1 DEF Unsaved
  <2>2. \A j \in Unsaved(k) : result'[j] = result[j]
    BY <1>1, <2>1 DEF Unsaved
  <2>3. vault'[k] = vault[k] \/ vault'[k] = Absent
    BY DEF Step, Arrive, ReadToken, Authenticate, Upsert, LogIn, Exchange, Store, Stored, ApplyScope,
           Save, DropToken, Flush, Die, TypeInv, SessionTypeOK, Cookies, stores
  <2>4. rows'[k] = rows[k] \/ rows'[k] = Absent \/ rows'[k].user = Nobody
    BY DEF Step, Arrive, ReadToken, Authenticate, Upsert, LogIn, DrawKey, Exchange, Store, Stored,
           ApplyScope, Save, DropToken, Flush, Die, TypeInv, SessionTypeOK, stores
  <2> QED BY <2>1, <2>2, <2>3, <2>4, ScopeKept DEF ScopeInv
<1> QED BY <1>2, <1>3 DEF ScopeInv

LEMMA ScopeStore == ASSUME TypeInv, ScopeInv, NEW i \in Requests, Store(i) PROVE ScopeInv'
<1>1. /\ at[i] = "store" /\ at' = [at EXCEPT ![i] = "role"]
      /\ UNCHANGED <<rows, key, result>>
      /\ vault' = [vault EXCEPT ![key[i]] = [user |-> result[i].user, scope |-> result[i].scope,
                                             expires |-> now + TTL]]
      /\ torn' = IF Unsaved(key[i]) = {} THEN torn ELSE torn \cup ({key[i]} \ {NoKey})
  BY DEF Store, Stored, Then
<1>2. ASSUME NEW k \in Keys \ torn' PROVE Ahead(k)' /\ Level(k)'
  <2>0. k \notin torn /\ k # NoKey
    BY <1>1, <1>2, SessionAssumption
  <2>1. CASE k = key[i]
    <3>1. Unsaved(k) = {}
      BY <1>1, <1>2, <2>0, <2>1
    <3>2. Unsaved(k)' = {i}
      BY <1>1, <2>1, <3>1 DEF Unsaved, TypeInv, SessionTypeOK
    <3>3. vault'[k].scope = result'[i].scope
      BY <1>1, <2>1 DEF TypeInv, SessionTypeOK
    <3> QED BY <3>2, <3>3 DEF Ahead, Level
  <2>2. CASE k # key[i]
    <3>1. Unsaved(k)' = Unsaved(k) /\ vault'[k] = vault[k]
      BY <1>1, <2>2 DEF Unsaved, TypeInv, SessionTypeOK, Cookies
    <3> QED BY <1>1, <2>0, <3>1, ScopeKept DEF ScopeInv
  <2> QED BY <2>1, <2>2
<1> QED BY <1>2 DEF ScopeInv

LEMMA ScopeApplyScope == ASSUME TypeInv, ScopeInv, NEW i \in Requests, ApplyScope(i) PROVE ScopeInv'
<1>1. /\ at[i] = "role" /\ at' = [at EXCEPT ![i] = "save"]
      /\ UNCHANGED <<rows, vault, key, result, torn>>
  BY DEF ApplyScope, Then, history
<1>2. ASSUME NEW k \in Keys \ torn PROVE Ahead(k)' /\ Level(k)'
  <2>1. Unsaved(k)' = Unsaved(k)
    BY <1>1 DEF Unsaved, TypeInv, SessionTypeOK
  <2> QED BY <1>1, <2>1, ScopeKept DEF ScopeInv
<1> QED BY <1>1, <1>2 DEF ScopeInv

LEMMA ScopeSave ==
  ASSUME TypeInv, OwnerInv, ScopeInv, NEW i \in Requests, Save(i)
  PROVE  ScopeInv'
<1>1. /\ at[i] = "save" /\ at'[i] \in {"done", "failed"}
      /\ \A j \in Requests \ {i} : at'[j] = at[j] /\ key'[j] = key[j]
      /\ UNCHANGED <<vault, result, torn>>
  BY DEF Save, DrawKey, Then, TypeInv, SessionTypeOK
<1>2. ASSUME NEW k \in Keys \ torn PROVE Ahead(k)' /\ Level(k)'
  <2>1. Unsaved(k)' = Unsaved(k) \ {i}
    BY <1>1 DEF Unsaved
  <2>2. Ahead(k) /\ Level(k)
    BY DEF ScopeInv
  <2>3. Ahead(k)'
    BY <1>1, <2>1, <2>2 DEF Ahead
  <2>4. CASE i \in Unsaved(k)
    <3>1. k = key[i] /\ k # NoKey
      BY <2>4, SessionAssumption DEF Unsaved
    <3>2. rows'[k] = Absent \/ rows'[k].scope = held[i].scope
      BY <3>1 DEF Save, InMemory, TypeInv, SessionTypeOK
    <3>3. held[i].scope = result[i].scope /\ (vault[k] # Absent => vault[k].scope = result[i].scope)
      BY <1>1, <2>2, <2>4 DEF Ahead, TypeInv, Stage
    <3> QED BY <1>1, <2>3, <3>2, <3>3 DEF Level
  <2>5. CASE i \notin Unsaved(k)
    <3>1. key[i] # k
      BY <1>1, <2>5 DEF Unsaved
    <3>2. rows'[k] = rows[k] \/ k \notin drawn
      BY <3>1 DEF Save, DrawKey, TypeInv, SessionTypeOK
    <3>3. rows'[k] = rows[k] \/ vault[k] = Absent
      BY <3>2 DEF OwnerInv
    <3> QED BY <1>1, <2>1, <2>2, <2>3, <2>5, <3>3 DEF Level
  <2> QED BY <2>4, <2>5
<1> QED BY <1>1, <1>2 DEF ScopeInv

LEMMA ScopeDie == ASSUME TypeInv, ScopeInv, NEW i \in Requests, Die(i) PROVE ScopeInv'
<1>1. /\ at' = [at EXCEPT ![i] = "failed"] /\ UNCHANGED <<rows, vault, key, result>>
      /\ torn' = IF at[i] \in {"role", "save"} THEN torn \cup ({key[i]} \ {NoKey}) ELSE torn
  BY DEF Die, Then, stores
<1>2. ASSUME NEW k \in Keys \ torn' PROVE Ahead(k)' /\ Level(k)'
  <2>1. k \notin torn /\ i \notin Unsaved(k)
    BY <1>1, <1>2, SessionAssumption DEF Unsaved
  <2>2. Unsaved(k)' = Unsaved(k)
    BY <1>1, <2>1 DEF Unsaved, TypeInv, SessionTypeOK
  <2> QED BY <1>1, <2>1, <2>2, ScopeKept DEF ScopeInv
<1> QED BY <1>2 DEF ScopeInv

LEMMA ScopeStep == TypeInv /\ OwnerInv /\ ScopeInv /\ [Next]_vars => ScopeInv'
<1> SUFFICES ASSUME TypeInv, OwnerInv, ScopeInv, [Next]_vars PROVE ScopeInv'
  OBVIOUS
<1>1. ASSUME NEW i \in Requests, Step(i) PROVE ScopeInv'
  <2>1. CASE at[i] \notin {"store", "role", "save"}
    BY <1>1, <2>1, ScopeQuiet
  <2>2. CASE at[i] \in {"store", "role", "save"}
    <3>1. Store(i) \/ ApplyScope(i) \/ Save(i) \/ Die(i)
      BY <1>1, <2>2 DEF Step, Arrive, ReadToken, Authenticate, Upsert, LogIn, Exchange, DropToken,
                        Flush
    <3> QED BY <3>1, ScopeStore, ScopeApplyScope, ScopeSave, ScopeDie
  <2> QED BY <2>1, <2>2
<1>2. CASE Tick \/ UNCHANGED vars
  <2>1. UNCHANGED <<rows, vault, key, at, result, torn>>
    BY <1>2 DEF Tick, vars, stores, requestVars, history
  <2>2. ASSUME NEW k \in Keys PROVE Unsaved(k)' = Unsaved(k)
    BY <2>1 DEF Unsaved
  <2> QED BY <2>1, <2>2, ScopeKept DEF ScopeInv
<1> QED BY <1>1, <1>2 DEF Next

\* A session names the project its token reaches, as long as no two requests
\* stored and saved across each other and none was cut short halfway.
THEOREM ScopeAgreesCorrect == Spec => []ScopeAgrees
<1>1. ScopeInv => ScopeAgrees
  BY DEF ScopeInv, Level, ScopeAgrees
<1> QED BY TypeAlways, OwnerAlways, ScopeInit, ScopeStep, <1>1, PTL DEF Spec

-----------------------------------------------------------------------------
(* How long. A row never expires later than a token stored now would, so   *)
(* a token outlives the row it is stored for; and a request that has       *)
(* stored its token saves its row soon enough for that token to cover it.  *)

Covered(k) ==
    rows[k] # Absent /\ rows[k].user # Nobody =>
        vault[k] # Absent /\ rows[k].expires <= vault[k].expires + Lag

InTime(i) ==
    at[i] \in {"role", "save"} =>
        /\ stored[i] <= now
        /\ now <= stored[i] + Lag
        /\ key[i] \in Keys \ bare =>
              vault[key[i]] # Absent /\ stored[i] + TTL <= vault[key[i]].expires

CoverInv ==
    /\ \A k \in Keys : rows[k] # Absent => rows[k].expires <= now + TTL
    /\ \A k \in Keys \ bare : Covered(k)
    /\ \A i \in Requests : InTime(i)

LEMMA CoverInit == Init => CoverInv
BY DEF Init, CoverInv, Covered, InTime

\* The steps that leave the vault and the rows alone, up to rows that go or are
\* nobody's, while no request starts to be between store and save.
LEMMA CoverKept ==
  ASSUME TypeInv, CoverInv, UNCHANGED <<now, vault, stored, bare>>,
         \A k \in Keys :
            \/ rows'[k] = rows[k]
            \/ rows'[k] = Absent
            \/ rows'[k].user = Nobody /\ rows'[k].expires <= now + TTL,
         \A i \in Requests : at'[i] \in {"role", "save"} =>
            at[i] \in {"role", "save"} /\ key'[i] = key[i]
  PROVE  CoverInv'
<1>1. ASSUME NEW k \in Keys, rows'[k] # Absent PROVE rows'[k].expires <= now' + TTL
  BY <1>1 DEF CoverInv
<1>2. ASSUME NEW k \in Keys \ bare PROVE Covered(k)'
  BY DEF CoverInv, Covered
<1>3. ASSUME NEW i \in Requests PROVE InTime(i)'
  BY DEF CoverInv, InTime
<1> QED BY <1>1, <1>2, <1>3 DEF CoverInv

LEMMA CoverLogIn == ASSUME TypeInv, CoverInv, NEW i \in Requests, LogIn(i) PROVE CoverInv'
<1>1. /\ at' = [at EXCEPT ![i] = "store"]
      /\ UNCHANGED <<now, vault, stored, bare>>
      /\ \A j \in Requests \ {i} : key'[j] = key[j]
  BY DEF LogIn, DrawKey, Then, history, TypeInv, SessionTypeOK
<1>2. now \in Nat /\ TTL \in Nat
  BY SessionAssumption DEF TypeInv, SessionTypeOK
<1>3. ASSUME NEW k \in Keys
      PROVE  \/ rows'[k] = rows[k]
             \/ rows'[k] = Absent
             \/ rows'[k].user = Nobody /\ rows'[k].expires <= now + TTL
  BY <1>2 DEF LogIn, DrawKey, TypeInv, SessionTypeOK
<1>4. \A j \in Requests : at'[j] \in {"role", "save"} =>
        at[j] \in {"role", "save"} /\ key'[j] = key[j]
  BY <1>1 DEF TypeInv, SessionTypeOK
<1> QED BY <1>1, <1>3, <1>4, CoverKept

LEMMA CoverStore == ASSUME TypeInv, CoverInv, NEW i \in Requests, Store(i) PROVE CoverInv'
<1>1. /\ at' = [at EXCEPT ![i] = "role"] /\ stored' = [stored EXCEPT ![i] = now]
      /\ vault' = [vault EXCEPT ![key[i]] = [user |-> result[i].user, scope |-> result[i].scope,
                                             expires |-> now + TTL]]
      /\ bare' = bare \ {key[i]} /\ UNCHANGED <<now, rows, key>>
  BY DEF Store, Stored, Then
<1>2. /\ now \in Nat /\ TTL \in Nat /\ Lag \in Nat
      /\ \A k \in Keys : rows[k] # Absent => rows[k].expires \in Nat
      /\ \A j \in Requests : stored[j] \in Nat
  BY SessionAssumption DEF TypeInv, SessionTypeOK, Row
<1>3. [user |-> result[i].user, scope |-> result[i].scope, expires |-> now + TTL] # Absent
  BY SessionAssumption DEF Store, Stored, TypeInv, SessionTypeOK, Stage, Contents, Anybody
<1>4. /\ vault'[key[i]] # Absent /\ vault'[key[i]].expires = now + TTL
      /\ \A k \in Keys \ {key[i]} : vault'[k] = vault[k]
  BY <1>1, <1>3 DEF TypeInv, SessionTypeOK, Cookies
<1>5. ASSUME NEW k \in Keys \ bare' PROVE Covered(k)'
  <2>1. CASE k = key[i]
    <3>1. rows[k] # Absent => rows[k].expires <= now + TTL
      BY DEF CoverInv
    <3> QED BY <1>1, <1>2, <1>4, <2>1, <3>1 DEF Covered
  <2>2. CASE k # key[i]
    BY <1>1, <1>4, <2>2 DEF CoverInv, Covered
  <2> QED BY <2>1, <2>2
<1>6. ASSUME NEW j \in Requests PROVE InTime(j)'
  <2>1. CASE j = i
    BY <1>1, <1>2, <1>4, <2>1 DEF InTime, TypeInv, SessionTypeOK
  <2>2. CASE j # i /\ key[j] = key[i]
    <3>1. at'[j] = at[j] /\ stored'[j] = stored[j] /\ InTime(j)
      BY <1>1, <2>2 DEF CoverInv, TypeInv, SessionTypeOK
    <3> QED BY <1>1, <1>2, <1>4, <2>2, <3>1 DEF InTime
  <2>3. CASE j # i /\ key[j] # key[i]
    <3>1. at'[j] = at[j] /\ stored'[j] = stored[j] /\ InTime(j)
      BY <1>1, <2>3 DEF CoverInv, TypeInv, SessionTypeOK
    <3> QED BY <1>1, <1>4, <2>3, <3>1 DEF InTime
  <2> QED BY <2>1, <2>2, <2>3
<1> QED BY <1>1, <1>5, <1>6 DEF CoverInv

LEMMA CoverSave == ASSUME TypeInv, CoverInv, NEW i \in Requests, Save(i) PROVE CoverInv'
<1>1. /\ at[i] = "save" /\ at'[i] \in {"done", "failed"}
      /\ \A j \in Requests \ {i} : at'[j] = at[j] /\ key'[j] = key[j]
      /\ UNCHANGED <<now, vault, stored>> /\ bare \subseteq bare'
  BY DEF Save, DrawKey, Then, TypeInv, SessionTypeOK
<1>2. /\ now \in Nat /\ TTL \in Nat /\ Lag \in Nat /\ stored[i] \in Nat
      /\ \A k \in Keys : vault[k] # Absent => vault[k].expires \in Nat
  BY SessionAssumption DEF TypeInv, SessionTypeOK, Cookies, Token
<1>3. ASSUME NEW k \in Keys
      PROVE  \/ rows'[k] = rows[k]
             \/ rows'[k] = InMemory(i) /\ (k = key[i] \/ k \in bare')
  BY DEF Save, DrawKey, TypeInv, SessionTypeOK
<1>4. InMemory(i).expires = now + TTL
  BY DEF InMemory
<1>5. ASSUME NEW k \in Keys, rows'[k] # Absent PROVE rows'[k].expires <= now' + TTL
  BY <1>1, <1>2, <1>3, <1>4, <1>5 DEF CoverInv
<1>6. ASSUME NEW k \in Keys \ bare' PROVE Covered(k)'
  <2>1. CASE rows'[k] = rows[k]
    BY <1>1, <2>1 DEF CoverInv, Covered
  <2>2. CASE rows'[k] = InMemory(i) /\ k = key[i]
    <3>1. /\ now <= stored[i] + Lag
          /\ vault[k] # Absent /\ stored[i] + TTL <= vault[k].expires
      BY <1>1, <2>2 DEF CoverInv, InTime
    <3> QED BY <1>1, <1>2, <1>4, <2>2, <3>1 DEF Covered
  <2> QED BY <1>3, <2>1, <2>2
<1>7. ASSUME NEW j \in Requests PROVE InTime(j)'
  BY <1>1 DEF CoverInv, InTime
<1> QED BY <1>5, <1>6, <1>7 DEF CoverInv

LEMMA CoverDropToken == ASSUME TypeInv, CoverInv, NEW i \in Requests, DropToken(i) PROVE CoverInv'
<1>1. /\ at' = [at EXCEPT ![i] = "flush"] /\ bare' = bare \cup {key[i]}
      /\ vault' = [vault EXCEPT ![key[i]] = Absent]
      /\ UNCHANGED <<now, rows, key, stored>>
  BY DEF DropToken, Then
<1>2. ASSUME NEW k \in Keys \ bare' PROVE vault'[k] = vault[k] /\ k \notin bare
  BY <1>1 DEF TypeInv, SessionTypeOK, Cookies
<1>3. ASSUME NEW k \in Keys \ bare' PROVE Covered(k)'
  BY <1>1, <1>2 DEF CoverInv, Covered
<1>4. ASSUME NEW j \in Requests PROVE InTime(j)'
  <2>1. at'[j] \in {"role", "save"} => at[j] = at'[j]
    BY <1>1 DEF TypeInv, SessionTypeOK
  <2> QED BY <1>1, <1>2, <2>1 DEF CoverInv, InTime
<1> QED BY <1>1, <1>3, <1>4 DEF CoverInv

LEMMA CoverTick == ASSUME TypeInv, CoverInv, Tick PROVE CoverInv'
<1>1. /\ now' = now + 1 /\ UNCHANGED <<rows, vault, at, key, stored, bare>>
      /\ \A i \in Requests : at[i] \in {"role", "save"} => now < stored[i] + Lag
  BY DEF Tick, stores, requestVars, history
<1>2. /\ now \in Nat /\ TTL \in Nat /\ Lag \in Nat
      /\ \A k \in Keys : rows[k] # Absent => rows[k].expires \in Nat
      /\ \A i \in Requests : stored[i] \in Nat
  BY SessionAssumption DEF TypeInv, SessionTypeOK, Row
<1>3. \A k \in Keys : rows'[k] # Absent => rows'[k].expires <= now' + TTL
  BY <1>1, <1>2 DEF CoverInv
<1>4. \A k \in Keys \ bare' : Covered(k)'
  BY <1>1 DEF CoverInv, Covered
<1>5. ASSUME NEW i \in Requests PROVE InTime(i)'
  BY <1>1, <1>2 DEF CoverInv, InTime
<1> QED BY <1>3, <1>4, <1>5 DEF CoverInv

LEMMA CoverStep == TypeInv /\ CoverInv /\ [Next]_vars => CoverInv'
<1> SUFFICES ASSUME TypeInv, CoverInv, [Next]_vars PROVE CoverInv'
  OBVIOUS
<1>1. ASSUME NEW i \in Requests, Step(i) PROVE CoverInv'
  <2>1. CASE LogIn(i) \/ Store(i) \/ Save(i) \/ DropToken(i)
    BY <2>1, CoverLogIn, CoverStore, CoverSave, CoverDropToken
  <2>2. CASE Flush(i)
    <3>1. /\ at' = [at EXCEPT ![i] = "done"] /\ rows' = [rows EXCEPT ![key[i]] = Absent]
          /\ UNCHANGED <<now, vault, key, stored, bare>>
      BY <2>2 DEF Flush, Then, history
    <3>2. \A k \in Keys : rows'[k] = rows[k] \/ rows'[k] = Absent
      BY <3>1 DEF TypeInv, SessionTypeOK
    <3>3. \A j \in Requests : at'[j] \in {"role", "save"} => at[j] = at'[j]
      BY <3>1 DEF TypeInv, SessionTypeOK
    <3> QED BY <3>1, <3>2, <3>3, CoverKept
  <2>3. CASE ~ (LogIn(i) \/ Store(i) \/ Save(i) \/ DropToken(i) \/ Flush(i))
    <3>1. UNCHANGED <<now, rows, vault, stored, bare>>
      BY <1>1, <2>3 DEF Step, Arrive, ReadToken, Authenticate, Upsert, Exchange, ApplyScope, Die,
                        stores, history
    <3>2. \A j \in Requests : at'[j] \in {"role", "save"} =>
            at[j] \in {"role", "save"} /\ key'[j] = key[j]
      BY <1>1, <2>3 DEF Step, Arrive, ReadToken, Authenticate, Upsert, Exchange, ApplyScope, Die,
                        Then, TypeInv, SessionTypeOK
    <3> QED BY <3>1, <3>2, CoverKept
  <2> QED BY <2>1, <2>2, <2>3
<1>2. CASE UNCHANGED vars
  <2>1. UNCHANGED <<now, rows, vault, at, key, stored, bare>>
    BY <1>2 DEF vars, stores, requestVars, history
  <2> QED BY <2>1, CoverKept
<1> QED BY <1>1, <1>2, CoverTick DEF Next

\* A session expires with its token, give or take the time between storing the
\* one and saving the other, as long as its token was not deleted.
THEOREM TokenCoversCorrect == Spec => []TokenCoversSession
<1>1. CoverInv => TokenCoversSession
  BY DEF CoverInv, Covered, TokenCoversSession
<1> QED BY TypeAlways, CoverInit, CoverStep, <1>1, PTL DEF Spec
-----------------------------------------------------------------------------
(* Pages, and the tokens that signing in leaves. Both need to know which   *)
(* statements a request of each kind goes through.                         *)

Course(i) ==
    /\ doing[i] = "nothing" => at[i] = "new"
    /\ doing[i] = "signin" =>
          at[i] \in {"cloud", "upsert", "login", "store", "role", "save", "done", "failed"}
    /\ doing[i] = "switch" =>
          at[i] \in {"token", "exchange", "store", "role", "save", "done", "failed"}
    /\ doing[i] = "signout" => at[i] \in {"drop", "flush", "done", "failed"} /\ key[i] \in Keys
    /\ doing[i] = "page" => at[i] \in {"token", "done", "failed"}

CourseInv == \A i \in Requests : Course(i)

LEMMA CourseStep == ASSUME TypeInv, CourseInv, [Next]_vars PROVE CourseInv'
<1>1. ASSUME NEW i \in Requests, Step(i) PROVE CourseInv'
  <2>1. \A j \in Requests \ {i} : at'[j] = at[j] /\ doing'[j] = doing[j] /\ key'[j] = key[j]
    BY <1>1
    DEF Step, Arrive, ReadToken, Authenticate, Upsert, LogIn, DrawKey, Exchange, Store, Stored,
        ApplyScope, Save, DropToken, Flush, Die, Then, TypeInv, SessionTypeOK
  <2>2. Course(i)'
    <3>1. ASSUME NEW what \in Asked \ {"nothing"}, NEW k \in Cookies, Arrive(i, what, k)
          PROVE  Course(i)'
      BY <3>1, SessionAssumption DEF Arrive, Then, Asked, SignedIn, Course, TypeInv, SessionTypeOK
    <3>2. CASE doing'[i] = doing[i]
      BY <1>1, <3>1, <3>2
      DEF Step, ReadToken, Authenticate, Upsert, LogIn, DrawKey, Exchange, Store, Stored,
          ApplyScope, Save, DropToken, Flush, Die, Then, Course, CourseInv, TypeInv, SessionTypeOK,
          Asked
    <3>3. CASE doing'[i] # doing[i]
      BY <1>1, <3>1, <3>3
      DEF Step, ReadToken, Authenticate, Upsert, LogIn, Exchange, Store, Stored, ApplyScope, Save,
          DropToken, Flush, Die
    <3> QED BY <3>2, <3>3
  <2> QED BY <2>1, <2>2 DEF CourseInv, Course
<1>2. CASE Tick \/ UNCHANGED vars
  BY <1>2 DEF Tick, vars, requestVars, CourseInv, Course
<1> QED BY <1>1, <1>2 DEF Next

LEMMA CourseAlways == Spec => []CourseInv
<1>1. Init => CourseInv
  BY DEF Init, CourseInv, Course
<1> QED BY <1>1, TypeAlways, CourseStep, PTL DEF Spec

\* The token a page will find, or has found, reaches the project it read.
Whole(i) ==
    doing[i] = "page" /\ i \notin crossed /\ key[i] \notin torn =>
        /\ at[i] = "token" /\ vault[key[i]] # Absent => vault[key[i]].scope = held[i].scope
        /\ at[i] = "done" => result[i].scope = held[i].scope

PageInv == \A i \in Requests : Whole(i)

\* A page that does nothing itself, and whose token stays or goes.
LEMMA WholeKept ==
  ASSUME NEW i \in Requests, Whole(i), at'[i] = at[i],
         doing'[i] = doing[i], key'[i] = key[i], held'[i] = held[i], result'[i] = result[i],
         crossed \subseteq crossed', torn \subseteq torn',
         \/ vault'[key[i]] = vault[key[i]]
         \/ vault'[key[i]] = Absent
         \/ at[i] # "token"
         \/ i \in crossed'
  PROVE  Whole(i)'
BY DEF Whole

LEMMA PageArrive ==
  ASSUME TypeInv, ScopeInv, NEW i \in Requests, NEW what \in Asked \ {"nothing"},
         NEW k \in Cookies, Arrive(i, what, k)
  PROVE  Whole(i)'
<1>1. CASE what = "page"
  <2>1. /\ SignedIn(k) /\ at'[i] = "token" /\ key'[i] = k /\ held'[i].scope = rows[k].scope
        /\ UNCHANGED <<vault, torn>>
        /\ Unsaved(k) # {} => i \in crossed'
    BY <1>1 DEF Arrive, Then, TypeInv, SessionTypeOK, stores
  <2>2. k \notin torn => Level(k)
    BY <2>1 DEF SignedIn, ScopeInv
  <2> QED BY <2>1, <2>2 DEF SignedIn, Level, Whole
<1>2. CASE what # "page"
  <2>1. doing'[i] = what
    BY DEF Arrive, TypeInv, SessionTypeOK
  <2> QED BY <1>2, <2>1 DEF Whole
<1> QED BY <1>1, <1>2

LEMMA PageStep == TypeInv /\ CourseInv /\ ScopeInv /\ PageInv /\ [Next]_vars => PageInv'
<1> SUFFICES ASSUME TypeInv, CourseInv, ScopeInv, PageInv, [Next]_vars PROVE PageInv'
  OBVIOUS
<1>1. ASSUME NEW i \in Requests, Step(i), NEW j \in Requests PROVE Whole(j)'
  <2>1. crossed \subseteq crossed' /\ torn \subseteq torn'
    BY <1>1
    DEF Step, Arrive, ReadToken, Authenticate, Upsert, LogIn, Exchange, Store, Stored, ApplyScope,
        Save, DropToken, Flush, Die, history
  <2>2. CASE j # i
    <3>1. /\ at'[j] = at[j] /\ doing'[j] = doing[j] /\ key'[j] = key[j] /\ held'[j] = held[j]
          /\ result'[j] = result[j]
      BY <1>1, <2>2
      DEF Step, Arrive, ReadToken, Authenticate, Upsert, LogIn, DrawKey, Exchange, Store, Stored,
          ApplyScope, Save, DropToken, Flush, Die, Then, TypeInv, SessionTypeOK
    <3>2. CASE ~ Store(i)
      <4>1. vault'[key[j]] = vault[key[j]] \/ vault'[key[j]] = Absent
        BY <1>1, <3>2
        DEF Step, Arrive, ReadToken, Authenticate, Upsert, LogIn, Exchange, ApplyScope, Save,
            DropToken, Flush, Die, TypeInv, SessionTypeOK, stores
      <4> QED BY <2>1, <3>1, <4>1, WholeKept DEF PageInv
    <3>3. CASE Store(i) /\ doing[j] = "page"
      <4>1. vault'[key[j]] = vault[key[j]] \/ at[j] # "token" \/ j \in crossed'
        BY <2>2, <3>3 DEF Store, Stored, TypeInv, SessionTypeOK
      <4> QED BY <2>1, <3>1, <4>1, WholeKept DEF PageInv
    <3>4. CASE doing[j] # "page"
      BY <3>1, <3>4 DEF Whole
    <3> QED BY <3>2, <3>3, <3>4
  <2>3. CASE j = i
    <3>1. CASE \E what \in Asked \ {"nothing"}, k \in Cookies : Arrive(i, what, k)
      BY <2>3, <3>1, PageArrive
    <3>2. CASE ReadToken(i)
      BY <2>3, <3>2 DEF ReadToken, Then, TypeInv, SessionTypeOK, history, PageInv, Whole
    <3>3. CASE Die(i)
      BY <2>3, <3>3 DEF Die, Then, TypeInv, SessionTypeOK, Whole
    <3>4. CASE /\ ~ \E what \in Asked \ {"nothing"}, k \in Cookies : Arrive(i, what, k)
               /\ ~ ReadToken(i) /\ ~ Die(i)
      <4>1. at[i] \notin {"token", "done", "failed"} /\ doing'[i] = doing[i]
        BY <1>1, <3>4
        DEF Step, Authenticate, Upsert, LogIn, Exchange, Store, Stored, ApplyScope, Save, DropToken,
            Flush
      <4> QED BY <2>3, <4>1 DEF CourseInv, Course, Whole
    <3> QED BY <3>1, <3>2, <3>3, <3>4
  <2> QED BY <2>2, <2>3
<1>2. CASE Tick \/ UNCHANGED vars
  BY <1>2 DEF Tick, vars, stores, requestVars, history, PageInv, Whole
<1> QED BY <1>1, <1>2 DEF PageInv, Next

\* A page shows one project, unless a switch of its session came between what
\* it read first and what it read then.
THEOREM PageCorrect == Spec => []PageUndivided
<1>1. Init => PageInv
  BY DEF Init, PageInv, Whole
<1>2. PageInv => PageUndivided
  BY DEF PageInv, Whole, PageUndivided
<1> QED
  BY <1>1, <1>2, TypeAlways, OwnerAlways, CourseAlways, ScopeInit, ScopeStep, PageStep, PTL DEF Spec

\* A token that was stored for a request's session is there, unless somebody
\* signed out of it.
Left(i) ==
    \/ vault[key[i]] # Absent
    \/ vault[NoKey] # Absent
    \/ \E j \in Requests : doing[j] = "signout" /\ key[j] = key[i]

LeftInv ==
    \A i \in Requests : doing[i] = "signin" /\ at[i] \in {"role", "save", "done"} => Left(i)

\* Tokens are replaced by tokens, but for those that signing out drops.
LEMMA TokensStay ==
  ASSUME TypeInv, CourseInv, NEW i \in Requests, Step(i)
  PROVE  /\ vault[NoKey] # Absent => vault'[NoKey] # Absent
         /\ \A k \in Keys : vault[k] # Absent =>
              \/ vault'[k] # Absent
              \/ doing'[i] = "signout" /\ key'[i] = k
<1>1. CASE Store(i)
  <2>1. [user |-> result[i].user, scope |-> result[i].scope, expires |-> now + TTL] # Absent
    BY <1>1, SessionAssumption DEF Store, Stored, TypeInv, SessionTypeOK, Stage, Contents, Anybody
  <2> QED BY <1>1, <2>1 DEF Store, TypeInv, SessionTypeOK, Cookies
<1>2. CASE DropToken(i)
  <2>1. doing'[i] = "signout" /\ key[i] \in Keys /\ key' = key
    BY <1>2 DEF DropToken, CourseInv, Course, TypeInv, SessionTypeOK, Asked
  <2> QED BY <1>2, <2>1, SessionAssumption DEF DropToken, TypeInv, SessionTypeOK, Cookies
<1>3. CASE ~ (Store(i) \/ DropToken(i))
  BY <1>3 DEF Step, Arrive, ReadToken, Authenticate, Upsert, LogIn, Exchange, ApplyScope, Save,
              Flush, Die, stores
<1> QED BY <1>1, <1>2, <1>3

LEMMA LeftStep == TypeInv /\ CourseInv /\ LeftInv /\ [Next]_vars => LeftInv'
<1> SUFFICES ASSUME TypeInv, CourseInv, LeftInv, [Next]_vars PROVE LeftInv'
  OBVIOUS
<1>1. ASSUME NEW i \in Requests, Step(i), NEW j \in Requests,
             doing'[j] = "signin", at'[j] \in {"role", "save", "done"}
      PROVE  Left(j)'
  <2>1. \A l \in Requests : doing[l] = "signout" => doing'[l] = "signout" /\ key'[l] = key[l]
    BY <1>1
    DEF Step, Arrive, ReadToken, Authenticate, Upsert, LogIn, DrawKey, Exchange, Store, Stored,
        ApplyScope, Save, DropToken, Flush, Die, CourseInv, Course, TypeInv, SessionTypeOK
  <2>2. CASE Store(i) /\ j = i
    <3>1. [user |-> result[i].user, scope |-> result[i].scope, expires |-> now + TTL] # Absent
      BY <2>2, SessionAssumption DEF Store, Stored, TypeInv, SessionTypeOK, Stage, Contents, Anybody
    <3>2. vault'[key'[i]] # Absent
      BY <2>2, <3>1 DEF Store, Stored, TypeInv, SessionTypeOK
    <3> QED BY <2>2, <3>2 DEF Left
  <2>3. CASE Save(i) /\ j = i /\ key[i] = NoKey
    <3>1. at[i] = "save" /\ doing[i] = "signin"
      BY <1>1, <2>3 DEF Save
    <3>2. vault[NoKey] # Absent
      BY <2>3, <3>1, SessionAssumption DEF LeftInv, Left, CourseInv, Course
    <3> QED BY <1>1, <3>2, TokensStay DEF Left
  <2>4. CASE ~ (j = i /\ (Store(i) \/ (Save(i) /\ key[i] = NoKey)))
    <3>1. doing[j] = "signin" /\ at[j] \in {"role", "save", "done"} /\ key'[j] = key[j]
      BY <1>1, <2>4
      DEF Step, Arrive, ReadToken, Authenticate, Upsert, LogIn, DrawKey, Exchange, Store, Stored,
          ApplyScope, Save, DropToken, Flush, Die, Then, CourseInv, Course, TypeInv, SessionTypeOK
    <3>2. CASE vault[key[j]] # Absent
      BY <1>1, <3>1, <3>2, TokensStay DEF Left, TypeInv, SessionTypeOK, Cookies
    <3>3. CASE vault[NoKey] # Absent
      BY <1>1, <3>3, TokensStay DEF Left
    <3>4. CASE \E l \in Requests : doing[l] = "signout" /\ key[l] = key[j]
      BY <2>1, <3>1, <3>4 DEF Left
    <3> QED BY <3>1, <3>2, <3>3, <3>4 DEF LeftInv, Left
  <2> QED BY <2>2, <2>3, <2>4
<1>2. CASE Tick \/ UNCHANGED vars
  BY <1>2 DEF Tick, vars, stores, requestVars, LeftInv, Left
<1> QED BY <1>1, <1>2 DEF LeftInv, Next

\* Whoever signs in has a token, wherever it lies, until somebody signs out of
\* the session.
THEOREM TokenLeftCorrect == Spec => []SignInLeavesToken
<1>1. Init => LeftInv
  BY DEF Init, LeftInv
<1>2. LeftInv => SignInLeavesToken
  BY DEF LeftInv, Left, SignInLeavesToken
<1> QED BY <1>1, <1>2, TypeAlways, CourseAlways, LeftStep, PTL DEF Spec

-----------------------------------------------------------------------------
(* Which role. While a user is not muddled, one request at most works for  *)
(* her and it knows her only session: a sign-in has set her role from the  *)
(* start, a switch sets it just before it saves. Her role is that of the   *)
(* session's project before it, and of the request's own afterwards. If    *)
(* she is astray, a request has set her role and saved no session since,   *)
(* and her role need be no project's until the next one sets it.           *)

Of(q, u) == rows[q] # Absent /\ rows[q].user = u

Matches(u) ==
    u \in astray \/ \A q \in Keys : Of(q, u) => appRole[u] = RoleIn[u][rows[q].scope]

Behind(i) == doing[i] = "switch" /\ at[i] # "save"

Prepared(i, u) ==
    /\ \A q \in Keys : Of(q, u) => q = key[i]
    /\ at[i] # "save" => role[i] = appRole[u]
    /\ ~ Behind(i) => appRole[u] = RoleIn[u][result[i].scope]
    /\ Behind(i) => Matches(u)

WorkInv(u) ==
    /\ \A i, j \in Requests : Working(i, u) /\ Working(j, u) => i = j
    /\ \A i \in Requests : Working(i, u) => Prepared(i, u)
    /\ (\A i \in Requests : ~ Working(i, u)) => Matches(u)

RoleInv ==
    /\ \A u \in Users \ muddled : WorkInv(u)
    /\ \A i \in Requests :
          at[i] \in {"cloud", "upsert", "login"} /\ held[i].user = Nobody => key[i] = NoKey

\* A step that leaves a user's role alone, makes no row hers, and lets nobody
\* work for her who did not; who stops had changed nothing.
WorkGoesOn(j, u) ==
    /\ Working(j, u)' =>
          /\ Working(j, u)
          /\ role'[j] = role[j]
          /\ at[j] = "save" => at'[j] = "save"
          /\ Behind(j)' = Behind(j)
          /\ key'[j] = key[j] \/ \A q \in Keys : ~ Of(q, u)'
          /\ ~ Behind(j) => result'[j].scope = result[j].scope
    /\ Working(j, u) /\ ~ Working(j, u)' => Behind(j)

LEMMA WorkKept ==
  ASSUME NEW u \in Users, WorkInv(u), appRole'[u] = appRole[u], u \in astray => u \in astray',
         \A q \in Keys : Of(q, u)' => Of(q, u) /\ rows'[q].scope = rows[q].scope,
         \A j \in Requests : WorkGoesOn(j, u)
  PROVE  WorkInv(u)'
<1>1. Matches(u) => Matches(u)'
  BY DEF Matches, Of
<1>2. ASSUME NEW i \in Requests, NEW j \in Requests, Working(i, u)', Working(j, u)' PROVE i = j
  BY <1>2 DEF WorkInv, WorkGoesOn
<1>3. ASSUME NEW j \in Requests, Working(j, u)' PROVE Prepared(j, u)'
  <2>1. Working(j, u) /\ Prepared(j, u) /\ WorkGoesOn(j, u)
    BY <1>3 DEF WorkInv, WorkGoesOn
  <2>2. \A q \in Keys : Of(q, u)' => q = key'[j]
    BY <1>3, <2>1 DEF Prepared, WorkGoesOn
  <2>3. /\ role'[j] = role[j] /\ (at[j] = "save" => at'[j] = "save") /\ Behind(j)' = Behind(j)
        /\ ~ Behind(j) => result'[j].scope = result[j].scope
    BY <1>3, <2>1 DEF WorkGoesOn
  <2>4. at'[j] # "save" => role'[j] = appRole'[u]
    BY <2>1, <2>3 DEF Prepared
  <2>5. ~ Behind(j)' => appRole'[u] = RoleIn[u][result'[j].scope]
    BY <2>1, <2>3 DEF Prepared
  <2>6. Behind(j)' => Matches(u)'
    BY <1>1, <2>1, <2>3 DEF Prepared
  <2> QED BY <2>2, <2>4, <2>5, <2>6 DEF Prepared
<1>4. ASSUME \A j \in Requests : ~ Working(j, u)' PROVE Matches(u)'
  <2>1. CASE \A j \in Requests : ~ Working(j, u)
    BY <1>1, <2>1 DEF WorkInv
  <2>2. CASE \E j \in Requests : Working(j, u)
    <3>1. PICK j \in Requests : Working(j, u)
      BY <2>2
    <3>2. Behind(j) /\ Prepared(j, u)
      BY <1>4, <3>1 DEF WorkInv, WorkGoesOn
    <3> QED BY <1>1, <3>2 DEF Prepared
  <2> QED BY <2>1, <2>2
<1> QED BY <1>2, <1>3, <1>4 DEF WorkInv

\* Requests other than the one that takes a step go on as they were.
LEMMA OthersGoOn ==
  ASSUME TypeInv, NEW i \in Requests, Step(i), NEW j \in Requests \ {i}, NEW u \in Users
  PROVE  WorkGoesOn(j, u) /\ Working(j, u)' = Working(j, u)
<1>1. /\ at'[j] = at[j] /\ doing'[j] = doing[j] /\ key'[j] = key[j] /\ held'[j] = held[j]
      /\ role'[j] = role[j] /\ result'[j] = result[j]
  BY DEF Step, Arrive, ReadToken, Authenticate, Upsert, LogIn, DrawKey, Exchange, Store, Stored,
         ApplyScope, Save, DropToken, Flush, Die, Then, TypeInv, SessionTypeOK
<1>2. Working(j, u)' = Working(j, u) /\ Behind(j)' = Behind(j)
  BY <1>1 DEF Working, Behind
<1> QED BY <1>1, <1>2 DEF WorkGoesOn

\* The steps before a request works for anybody, and those of a request that
\* neither signs in nor switches.
LEMMA IdleWork ==
  ASSUME TypeInv, OwnerInv, CourseInv, NEW u \in Users, WorkInv(u), NEW i \in Requests, Step(i),
         ~ Working(i, u), ~ Working(i, u)', appRole'[u] = appRole[u],
         u \in astray => u \in astray'
  PROVE  WorkInv(u)'
<1>1. \A j \in Requests : WorkGoesOn(j, u)
  BY OthersGoOn DEF WorkGoesOn
<1>2. ASSUME NEW q \in Keys, Of(q, u)' PROVE Of(q, u) /\ rows'[q].scope = rows[q].scope
  <2>1. RowsMove(i)
    BY RowsStep
  <2>2. CASE rows'[q] = rows[q]
    BY <1>2, <2>2 DEF Of
  <2>3. CASE rows'[q] # rows[q] /\ LogIn(i)
    <3>1. rows'[q].user = Nobody
      BY <1>2, <2>3 DEF LogIn, DrawKey, Of, TypeInv, SessionTypeOK
    <3> QED BY <1>2, <3>1, SessionAssumption DEF Of
  <2>4. CASE rows'[q] # rows[q] /\ Save(i)
    <3>1. rows'[q].user = held[i].user /\ at[i] = "save"
      BY <2>4 DEF Save, DrawKey, InMemory, TypeInv, SessionTypeOK
    <3>2. held[i].user = u /\ result[i].user = u
      BY <1>2, <3>1 DEF Of, OwnerInv
    <3>3. doing[i] \in {"signin", "switch"}
      BY <3>1 DEF CourseInv, Course, TypeInv, SessionTypeOK, Asked
    <3> QED BY <3>1, <3>2, <3>3 DEF Working
  <2>5. CASE Flush(i)
    BY <1>2, <2>5 DEF Flush, Of, TypeInv, SessionTypeOK
  <2>6. CASE ~ (LogIn(i) \/ Save(i) \/ Flush(i))
    <3>1. UNCHANGED rows
      BY <2>6 DEF Step, Arrive, ReadToken, Authenticate, Upsert, Exchange, Store, Stored,
                  ApplyScope, DropToken, Die, stores
    <3> QED BY <1>2, <3>1 DEF Of
  <2> QED BY <2>2, <2>3, <2>4, <2>5, <2>6
<1> QED BY <1>1, <1>2, WorkKept

LEMMA RoleArrive ==
  ASSUME TypeInv, OwnerInv, CourseInv, RoleInv, NEW i \in Requests,
         NEW what \in Asked \ {"nothing"}, NEW k \in Cookies, Arrive(i, what, k),
         NEW u \in Users \ muddled'
  PROVE  WorkInv(u)'
<1>1. /\ at[i] = "new" /\ UNCHANGED <<stores, astray>> /\ Step(i)
      /\ u \notin muddled /\ WorkInv(u)
      /\ at'[i] = (CASE what = "signin" -> "cloud" [] what = "signout" -> "drop" [] OTHER -> "token")
      /\ doing'[i] = what
  BY DEF Arrive, Then, RoleInv, Step, TypeInv, SessionTypeOK
<1>2. ~ Working(i, u)
  BY <1>1 DEF Working
<1>3. CASE what = "switch" /\ rows[k].user = u
  <2>1. /\ OnlyOne(i, u, k) /\ SignedIn(k)
        /\ held'[i].user = u /\ role'[i] = appRole[u] /\ key'[i] = k
        /\ doing'[i] = "switch" /\ at'[i] = "token"
    BY <1>1, <1>3 DEF Arrive, TypeInv, SessionTypeOK
  <2>2. \A j \in Requests : ~ Working(j, u)
    BY <1>2, <2>1 DEF OnlyOne
  <2>3. Matches(u)
    BY <1>1, <2>2 DEF WorkInv
  <2>4. Matches(u)' /\ \A q \in Keys : Of(q, u)' => q = key'[i]
    BY <1>1, <2>1, <2>3 DEF Matches, Of, OnlyOne, stores
  <2>5. Prepared(i, u)'
    BY <1>1, <2>1, <2>4 DEF Prepared, Behind, stores
  <2>6. \A j \in Requests \ {i} : ~ Working(j, u)'
    BY <1>1, <2>2, OthersGoOn
  <2>7. Working(i, u)'
    BY <2>1 DEF Working
  <2> QED BY <2>5, <2>6, <2>7 DEF WorkInv
<1>4. CASE ~ (what = "switch" /\ rows[k].user = u)
  <2>1. what = "switch" => held'[i].user # u
    BY <1>4 DEF Arrive, TypeInv, SessionTypeOK
  <2>2. ~ Working(i, u)'
    BY <1>1, <2>1 DEF Working
  <2> QED BY <1>1, <1>2, <2>2, IdleWork DEF stores
<1> QED BY <1>3, <1>4

LEMMA RoleUpsert ==
  ASSUME TypeInv, OwnerInv, CourseInv, RoleInv, NEW i \in Requests, Upsert(i),
         NEW u \in Users \ muddled'
  PROVE  WorkInv(u)'
<1>1. /\ at[i] = "upsert" /\ doing[i] = "signin" /\ at'[i] \in {"login", "failed"}
      /\ Step(i) /\ UNCHANGED <<rows, key, result, doing>>
  BY DEF Upsert, Then, Step, TypeInv, SessionTypeOK, CourseInv, Course, Asked
<1>2. u \notin muddled /\ WorkInv(u) /\ ~ Working(i, u)
  BY <1>1 DEF Upsert, RoleInv, Working
<1>3. CASE result[i].user = u /\ at'[i] = "login"
  <2>1. OnlyOne(i, u, key[i])
    BY <1>3, <1>1 DEF Upsert
  <2>2. role'[i] = RoleIn[u][result[i].scope] /\ appRole'[u] = RoleIn[u][result[i].scope]
    BY <1>3 DEF Upsert, TypeInv, SessionTypeOK
  <2>3. \A q \in Keys : Of(q, u)' => q = key'[i]
    BY <1>1, <2>1 DEF OnlyOne, Of
  <2>4. Prepared(i, u)'
    BY <1>1, <2>2, <2>3 DEF Prepared, Behind
  <2>5. \A j \in Requests \ {i} : ~ Working(j, u)'
    BY <1>1, <2>1, OthersGoOn DEF OnlyOne
  <2>6. Working(i, u)'
    BY <1>1, <1>3 DEF Working
  <2> QED BY <2>4, <2>5, <2>6 DEF WorkInv
<1>4. CASE result[i].user # u
  <2>1. ~ Working(i, u)' /\ appRole'[u] = appRole[u] /\ (u \in astray => u \in astray')
    BY <1>1, <1>4 DEF Upsert, Then, Working, TypeInv, SessionTypeOK
  <2> QED BY <1>1, <1>2, <2>1, IdleWork
<1>5. CASE result[i].user = u /\ at'[i] = "failed"
  <2>1. OnlyOne(i, u, key[i]) /\ u \in astray'
    BY <1>1, <1>5 DEF Upsert, Then, TypeInv, SessionTypeOK
  <2>2. \A j \in Requests : ~ Working(j, u)'
    BY <1>1, <1>5, <2>1, OthersGoOn DEF OnlyOne, Working
  <2> QED BY <2>1, <2>2 DEF WorkInv, Matches
<1> QED BY <1>1, <1>3, <1>4, <1>5

LEMMA RoleLogIn ==
  ASSUME TypeInv, OwnerInv, CourseInv, RoleInv, NEW i \in Requests, LogIn(i),
         NEW u \in Users \ muddled'
  PROVE  WorkInv(u)'
<1>1. /\ at[i] = "login" /\ doing[i] = "signin" /\ at'[i] = "store" /\ Step(i)
      /\ UNCHANGED <<appRole, doing, role, result, astray>>
      /\ u \notin muddled /\ WorkInv(u) /\ result[i].user \in Users
  BY DEF LogIn, Then, Step, TypeInv, SessionTypeOK, Stage, CourseInv, Course, Asked, RoleInv, history
<1>2. CASE result[i].user = u
  <2>1. Working(i, u) /\ Working(i, u)' /\ ~ Behind(i) /\ ~ Behind(i)'
    BY <1>1, <1>2 DEF Working, Behind
  <2>2. \A q \in Keys : Of(q, u) => q = key[i]
    BY <1>1, <2>1 DEF WorkInv, Prepared
  <2>3. /\ \A q \in Keys : Of(q, u)' => Of(q, u) /\ rows'[q] = rows[q]
        /\ key'[i] = key[i] \/ \A q \in Keys : ~ Of(q, u)'
    <3>1. CASE held[i].user = Nobody
      <4>1. key[i] = NoKey /\ \A q \in Keys : ~ Of(q, u)
        BY <1>1, <2>2, <3>1, SessionAssumption DEF RoleInv
      <4>2. \A q \in Keys : rows'[q] = rows[q] \/ rows'[q].user = Nobody
        BY <1>2, <3>1, SessionAssumption DEF LogIn, DrawKey, TypeInv, SessionTypeOK
      <4> QED BY <4>1, <4>2, SessionAssumption DEF Of
    <3>2. CASE held[i].user = u
      BY <1>2, <3>2, SessionAssumption DEF LogIn, Of
    <3>3. CASE held[i].user \notin {Nobody, u}
      <4>1. rows' = [rows EXCEPT ![key[i]] = Absent]
        BY <1>2, <3>3 DEF LogIn
      <4> QED BY <2>2, <4>1 DEF Of, TypeInv, SessionTypeOK
    <3> QED BY <3>1, <3>2, <3>3
  <2>4. WorkGoesOn(i, u)
    BY <1>1, <2>1, <2>3 DEF WorkGoesOn, Behind
  <2>5. \A j \in Requests : WorkGoesOn(j, u)
    BY <1>1, <2>4, OthersGoOn
  <2> QED BY <1>1, <2>3, <2>5, WorkKept
<1>3. CASE result[i].user # u
  <2>1. ~ Working(i, u) /\ ~ Working(i, u)'
    BY <1>1, <1>3 DEF Working
  <2> QED BY <1>1, <2>1, IdleWork
<1> QED BY <1>2, <1>3

LEMMA RoleGoesOn ==
  ASSUME TypeInv, OwnerInv, CourseInv, RoleInv, NEW i \in Requests,
         ReadToken(i) \/ Exchange(i) \/ Store(i) \/ Die(i), NEW u \in Users \ muddled'
  PROVE  WorkInv(u)'
<1>1. /\ UNCHANGED <<rows, appRole, doing, key, held, role>> /\ Step(i)
      /\ UNCHANGED muddled /\ astray \subseteq astray'
      /\ \/ at'[i] \in {"exchange", "store", "role", "done", "failed"} /\ at[i] # "save"
         \/ Die(i)
  BY DEF ReadToken, Exchange, Store, Stored, Die, Then, Step, stores, history, TypeInv,
         SessionTypeOK
<1>2. u \notin muddled /\ WorkInv(u)
  BY <1>1 DEF RoleInv
<1>3. CASE Working(i, u)
  <2>1. CASE Die(i)
    <3>1. at'[i] = "failed" /\ ~ Working(i, u)'
      BY <2>1 DEF Die, Then, TypeInv, SessionTypeOK, Working
    <3>2. CASE Behind(i)
      BY <1>1, <1>2, <3>1, <3>2, OthersGoOn, WorkKept DEF WorkGoesOn, Of
    <3>3. CASE ~ Behind(i)
      <4>1. doing[i] = "signin" \/ at[i] = "save"
        BY <1>3, <3>3 DEF Working, Behind
      <4>2. result[i].user = u
        BY <1>3, <4>1 DEF Working, OwnerInv
      <4>3. u \in astray'
        BY <1>3, <2>1, <4>1, <4>2 DEF Working, Die
      <4>4. \A j \in Requests : ~ Working(j, u)'
        BY <1>1, <1>2, <1>3, <3>1, OthersGoOn DEF WorkInv
      <4> QED BY <4>3, <4>4 DEF WorkInv, Matches
    <3> QED BY <3>2, <3>3
  <2>2. CASE ReadToken(i) \/ Exchange(i)
    <3>1. Behind(i) /\ (Behind(i)' \/ ~ Working(i, u)')
      BY <1>3, <2>2 DEF ReadToken, Exchange, Then, CourseInv, Course, Working, Behind, TypeInv,
                        SessionTypeOK
    <3>2. WorkGoesOn(i, u)
      BY <1>1, <1>3, <2>2, <3>1 DEF WorkGoesOn, Behind, ReadToken, Exchange
    <3> QED BY <1>1, <1>2, <3>2, OthersGoOn, WorkKept DEF Of
  <2>3. CASE Store(i)
    <3>1. at[i] = "store" /\ at'[i] = "role" /\ UNCHANGED result
      BY <2>3 DEF Store, Stored, Then, TypeInv, SessionTypeOK
    <3>2. Working(i, u)' /\ Behind(i)' = Behind(i)
      BY <1>1, <1>3, <3>1 DEF Working, Behind
    <3>3. WorkGoesOn(i, u)
      BY <1>1, <1>3, <3>1, <3>2 DEF WorkGoesOn
    <3> QED BY <1>1, <1>2, <3>3, OthersGoOn, WorkKept DEF Of
  <2> QED BY <2>1, <2>2, <2>3
<1>4. CASE ~ Working(i, u)
  <2>1. ~ Working(i, u)'
    <3>1. CASE ReadToken(i)
      BY <1>1, <1>4, <3>1 DEF ReadToken, Then, CourseInv, Course, Working, TypeInv, SessionTypeOK
    <3>2. CASE Exchange(i)
      BY <1>1, <1>4, <3>2 DEF Exchange, Then, CourseInv, Course, Working, TypeInv, SessionTypeOK
    <3>3. CASE Store(i)
      BY <1>1, <1>4, <3>3 DEF Store, Stored, Then, Working, TypeInv, SessionTypeOK
    <3>4. CASE Die(i)
      BY <3>4 DEF Die, Then, Working, TypeInv, SessionTypeOK
    <3> QED BY <3>1, <3>2, <3>3, <3>4
  <2> QED BY <1>1, <1>2, <1>4, <2>1, IdleWork
<1> QED BY <1>3, <1>4

LEMMA RoleApplyScope ==
  ASSUME TypeInv, OwnerInv, CourseInv, RoleInv, NEW i \in Requests, ApplyScope(i),
         NEW u \in Users \ muddled'
  PROVE  WorkInv(u)'
<1>1. /\ at[i] = "role" /\ at'[i] = "save" /\ Step(i) /\ UNCHANGED <<rows, doing, key, role, result>>
      /\ doing[i] \in {"signin", "switch"} /\ result[i].user = held[i].user
      /\ held[i].user \in Users /\ held'[i].user = held[i].user
      /\ appRole \in [Users -> Roles] /\ u \notin muddled /\ WorkInv(u)
  BY DEF ApplyScope, Then, Step, TypeInv, SessionTypeOK, Stage, CourseInv, Course, OwnerInv, Asked,
         history, RoleInv
<1>2. CASE held[i].user = u
  <2>1. Working(i, u) /\ Working(i, u)'
    BY <1>1, <1>2 DEF Working
  <2>2. Prepared(i, u) /\ \A j \in Requests \ {i} : ~ Working(j, u)
    BY <1>1, <2>1 DEF WorkInv
  <2>3. appRole'[u] = RoleIn[u][result'[i].scope]
    BY <1>1, <1>2, <2>2 DEF ApplyScope, Prepared
  <2>4. Prepared(i, u)'
    BY <1>1, <2>2, <2>3 DEF Prepared, Of, Behind
  <2>5. \A j \in Requests \ {i} : ~ Working(j, u)'
    BY <1>1, <2>2, OthersGoOn
  <2> QED BY <2>1, <2>4, <2>5 DEF WorkInv
<1>3. CASE held[i].user # u
  <2>1. /\ ~ Working(i, u) /\ ~ Working(i, u)' /\ appRole'[u] = appRole[u]
        /\ u \in astray => u \in astray'
    BY <1>1, <1>3 DEF Working, ApplyScope
  <2> QED BY <1>1, <2>1, IdleWork
<1> QED BY <1>2, <1>3

LEMMA RoleSave ==
  ASSUME TypeInv, OwnerInv, CourseInv, RoleInv, NEW i \in Requests, Save(i),
         NEW u \in Users \ muddled'
  PROVE  WorkInv(u)'
<1>1. /\ at[i] = "save" /\ at'[i] \in {"done", "failed"} /\ Step(i)
      /\ UNCHANGED <<appRole, doing, role, result, astray>>
      /\ doing[i] \in {"signin", "switch"} /\ result[i].user = held[i].user
      /\ held[i].scope = result[i].scope /\ u \notin muddled /\ WorkInv(u)
  BY DEF Save, Then, Step, TypeInv, SessionTypeOK, Stage, CourseInv, Course, OwnerInv, Asked,
         RoleInv
<1>2. ~ Working(i, u)'
  BY <1>1 DEF Working
<1>3. CASE held[i].user = u
  <2>1. Working(i, u) /\ ~ Behind(i)
    BY <1>1, <1>3 DEF Working, Behind
  <2>2. Prepared(i, u) /\ \A j \in Requests \ {i} : ~ Working(j, u)
    BY <1>1, <2>1 DEF WorkInv
  <2>3. appRole[u] = RoleIn[u][held[i].scope] /\ \A q \in Keys : Of(q, u) => q = key[i]
    BY <1>1, <2>1, <2>2 DEF Prepared
  <2>4. ASSUME NEW q \in Keys, Of(q, u)' PROVE rows'[q].scope = held[i].scope
    <3>1. CASE key[i] = NoKey
      <4>1. ~ Of(q, u)
        BY <2>3, <3>1, SessionAssumption
      <4> QED BY <2>4, <3>1, <4>1 DEF Save, DrawKey, InMemory, Of, TypeInv, SessionTypeOK
    <3>2. CASE key[i] # NoKey
      <4>1. q # key[i] => rows'[q] = rows[q]
        BY <3>2 DEF Save, TypeInv, SessionTypeOK
      <4>2. q = key[i]
        BY <2>3, <2>4, <4>1 DEF Of
      <4> QED BY <2>4, <3>2, <4>2 DEF Save, InMemory, Of, TypeInv, SessionTypeOK
    <3> QED BY <3>1, <3>2
  <2>5. Matches(u)'
    BY <1>1, <2>3, <2>4 DEF Matches
  <2>6. \A j \in Requests : ~ Working(j, u)'
    BY <1>1, <1>2, <2>2, OthersGoOn
  <2> QED BY <2>5, <2>6 DEF WorkInv
<1>4. CASE held[i].user # u
  <2>1. ~ Working(i, u)
    BY <1>1, <1>4 DEF Working
  <2> QED BY <1>1, <1>2, <2>1, IdleWork
<1> QED BY <1>3, <1>4

LEMMA RoleStep == TypeInv /\ OwnerInv /\ CourseInv /\ RoleInv /\ [Next]_vars => RoleInv'
<1> SUFFICES ASSUME TypeInv, OwnerInv, CourseInv, RoleInv, [Next]_vars PROVE RoleInv'
  OBVIOUS
<1>1. ASSUME NEW i \in Requests, Step(i), NEW u \in Users \ muddled' PROVE WorkInv(u)'
  <2>1. CASE Authenticate(i) \/ DropToken(i) \/ Flush(i)
    <3>1. UNCHANGED <<appRole, muddled, astray>> /\ ~ Working(i, u) /\ ~ Working(i, u)'
      BY <2>1 DEF Authenticate, DropToken, Flush, Then, Working, TypeInv, SessionTypeOK, stores,
                  history
    <3> QED BY <1>1, <3>1, IdleWork DEF RoleInv
  <2> QED BY <1>1, <2>1, RoleArrive, RoleUpsert, RoleLogIn, RoleGoesOn, RoleApplyScope, RoleSave
       DEF Step
<1>2. ASSUME NEW i \in Requests, Step(i), NEW j \in Requests,
             at'[j] \in {"cloud", "upsert", "login"}, held'[j].user = Nobody
      PROVE  key'[j] = NoKey
  <2>1. CASE at[j] = "new"
    <3>1. key[j] = NoKey
      BY <2>1 DEF TypeInv, Stage
    <3>2. CASE key'[j] = key[j]
      BY <3>1, <3>2
    <3>3. CASE key'[j] # key[j]
      BY <1>2, <2>1, <3>3
      DEF Step, Arrive, SignedIn, ReadToken, Authenticate, Upsert, LogIn, DrawKey, Exchange, Store,
          Stored, ApplyScope, Save, DropToken, Flush, Die, Then, TypeInv, SessionTypeOK
    <3> QED BY <3>2, <3>3
  <2>2. CASE at[j] # "new"
    <3>1. at[j] \in {"cloud", "upsert", "login"} /\ held'[j] = held[j] /\ key'[j] = key[j]
      BY <1>2, <2>2
      DEF Step, Arrive, ReadToken, Authenticate, Upsert, LogIn, DrawKey, Exchange, Store, Stored,
          ApplyScope, Save, DropToken, Flush, Die, Then, TypeInv, SessionTypeOK
    <3> QED BY <1>2, <3>1 DEF RoleInv
  <2> QED BY <2>1, <2>2
<1>3. CASE Tick \/ UNCHANGED vars
  BY <1>3 DEF Tick, vars, stores, requestVars, history, RoleInv, WorkInv, Working, Prepared, Behind,
              Matches, Of
<1> QED BY <1>1, <1>2, <1>3 DEF RoleInv, Next

\* A user's role is the one she has in her session's project, as long as she has
\* one session and signs in and switches one at a time, unless a request set it
\* and then died before its session was saved, or refused her as blocked, and she
\* has not signed in or switched since.
THEOREM RoleCorrect == Spec => []RoleAgrees
<1>1. Init => RoleInv
  BY DEF Init, RoleInv, WorkInv, Working, Matches, Of
<1>2. RoleInv => RoleAgrees
  BY DEF RoleInv, WorkInv, Matches, Of, RoleAgrees
<1> QED BY <1>1, <1>2, TypeAlways, OwnerAlways, CourseAlways, RoleStep, PTL DEF Spec
=============================================================================
