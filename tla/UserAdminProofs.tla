-------------------------- MODULE UserAdminProofs --------------------------
(***************************************************************************)
(* Theorems about UserAdmin for every set of requests, users and accounts: *)
(* types, that a list of users shows an operator's switches and is not     *)
(* older than it may be, that the cabinet's rows follow the cloud's users, *)
(* and that the trails tell what was done to both.                         *)
(***************************************************************************)
EXTENDS UserAdmin, TLAPS

\* What a request that is under way asks for.
Fits(request, step) ==
    /\ request \in Request
    /\ request.kind \notin {"list", "settings"} => request.user \in Users
    /\ step \in {"look up", "fetch", "store", "shown"} => request.kind = "list"
    /\ step \in {"switch", "block", "forget"} => request.kind = "switch"
    /\ step = "switch" => request.enabled \in {"on", "off"}
    /\ step = "block" => request.status \in {"active", "blocked", "other"}
    /\ step \in {"create", "grant"} => request.kind = "create"
    /\ step = "find" => request.kind \in {"change", "delete"}
    /\ step = "change" => request.kind = "change"
    /\ step \in {"delete", "drop"} => request.kind = "delete"
    /\ step = "set" => request.kind = "settings"
    /\ step \in {"authenticate", "upsert"} => request.kind = "signIn"
    /\ step = "record" =>
          request.kind \in {"switch", "create", "change", "delete", "settings"}

TypeInv == UserAdminTypeOK /\ \A r \in Requests : at[r] # "new" => Fits(ask[r], at[r])

LEMMA RequestFields ==
  ASSUME NEW request \in Request
  PROVE  /\ request.kind \in RequestKinds /\ request.account \in Accounts
         /\ request.user \in Users \cup {Nothing}
         /\ request.enabled \in {"on", "off", Nothing}
         /\ request.status \in {"active", "blocked", "other", Nothing}
         /\ request.flag \in BOOLEAN
  BY DEF Request

LEMMA FirstStepFits ==
  ASSUME NEW request \in Request, Sensible(request)
  PROVE  FirstStep(request) \in Steps \ {"new"} /\ Fits(request, FirstStep(request))
<1>1. request.kind \notin {"list", "settings"} => request.user \in Users
  BY RequestFields DEF Sensible
<1>2. CASE request.kind = "list"
  <2>1. FirstStep(request) = "look up"
    BY <1>2 DEF FirstStep
  <2> QED BY <1>1, <1>2, <2>1 DEF Fits, Steps
<1>3. CASE request.kind = "switch"
  <2>1. FirstStep(request) = IF request.enabled = Nothing THEN "block" ELSE "switch"
    BY <1>3 DEF FirstStep
  <2> QED BY <1>1, <1>3, <2>1, RequestFields DEF Fits, Steps, Sensible
<1>4. CASE request.kind = "create"
  <2>1. FirstStep(request) = "create"
    BY <1>4 DEF FirstStep
  <2> QED BY <1>1, <1>4, <2>1 DEF Fits, Steps
<1>5. CASE request.kind \in {"change", "delete"}
  <2>1. FirstStep(request) = "find"
    BY <1>5 DEF FirstStep
  <2> QED BY <1>1, <1>5, <2>1 DEF Fits, Steps
<1>6. CASE request.kind = "settings"
  <2>1. FirstStep(request) = "set"
    BY <1>6 DEF FirstStep
  <2> QED BY <1>1, <1>6, <2>1 DEF Fits, Steps
<1>7. CASE request.kind = "signIn"
  <2>1. FirstStep(request) = "authenticate"
    BY <1>7 DEF FirstStep
  <2> QED BY <1>1, <1>7, <2>1 DEF Fits, Steps
<1> QED BY <1>2, <1>3, <1>4, <1>5, <1>6, <1>7, RequestFields DEF RequestKinds

LEMMA TypeInit == Init => TypeInv
<1> SUFFICES ASSUME Init PROVE TypeInv
  OBVIOUS
<1>1. UserAdminTypeOK
  BY UserAdminAssumption DEF Init, UserAdminTypeOK, Steps
<1> QED BY <1>1 DEF TypeInv, Init

\* A request goes on to what fits what it asked for; the stores are seen to below.
StoresOK ==
    /\ now \in Nat
    /\ cloud \in [Users -> InCloud]
    /\ members \subseteq Users
    /\ rows \in [Users -> InCabinet]
    /\ counted \in [Accounts -> BOOLEAN]
    /\ kept \in [Accounts -> List \cup {Nothing}]
    /\ log \in Seq([by : Requests, action : Actions, ok : BOOLEAN])
    /\ seen \in [Requests -> SUBSET Requests]
    /\ fetched \in [Requests -> Nat]
    /\ done \in [Requests -> Nat \cup {Never}]
    /\ forgot \subseteq Requests /\ restored \subseteq forgot
    /\ owed \in [Requests -> SUBSET Requests]
    /\ untold \subseteq Requests
    /\ idle \subseteq Requests /\ barred \subseteq Users /\ slipped \subseteq Requests
    /\ crossed \subseteq SUBSET Requests

LEMMA GoesOn ==
  ASSUME TypeInv, NEW r \in Requests, at[r] # "new", NEW step \in Steps \ {"new"}, Goes(r, step),
         Fits(ask[r], step), UNCHANGED ask, StoresOK'
  PROVE  TypeInv'
<1>1. at' \in [Requests -> Steps] /\ \A q \in Requests \ {r} : at'[q] = at[q]
  BY DEF Goes, TypeInv, UserAdminTypeOK
<1>2. at'[r] = step
  BY DEF Goes, TypeInv, UserAdminTypeOK
<1> QED BY <1>1, <1>2 DEF TypeInv, UserAdminTypeOK, StoresOK

LEMMA ArriveType == ASSUME TypeInv, NEW r \in Requests, Arrive(r) PROVE TypeInv'
<1>1. PICK request \in Bodies[r] :
        /\ Sensible(request)
        /\ ask' = [ask EXCEPT ![r] = request]
        /\ Goes(r, FirstStep(request))
  BY DEF Arrive
<1>2. request \in Request /\ request # Nothing
  BY UserAdminAssumption
<1>3. FirstStep(request) \in Steps \ {"new"} /\ Fits(request, FirstStep(request))
  BY <1>1, <1>2, FirstStepFits
<1>4. StoresOK'
  <2>1. crossed' \subseteq SUBSET Requests
    <3> DEFINE met == {p \in Requests : /\ Open(p) /\ ask[p].kind # "list" /\ ask'[r].kind # "list"
                                        /\ Target(p) = Target(r)'}
    <3>1. crossed' = crossed \cup {{q, r} : q \in met}
      BY DEF Arrive
    <3>2. crossed \subseteq SUBSET Requests /\ met \subseteq Requests
      BY DEF TypeInv, UserAdminTypeOK
    <3> HIDE DEF met
    <3> QED BY <3>1, <3>2
  <2>2. UNCHANGED <<now, stores, kept, log, listVars, done, untold, blocks>>
    BY DEF Arrive
  <2> QED BY <2>1, <2>2 DEF TypeInv, UserAdminTypeOK, StoresOK, stores, listVars, blocks
<1>5. at' \in [Requests -> Steps] /\ ask' \in [Requests -> Request \cup {Nothing}]
      /\ at'[r] = FirstStep(request) /\ ask'[r] = request
      /\ \A q \in Requests \ {r} : at'[q] = at[q] /\ ask'[q] = ask[q]
  BY <1>1, <1>2, <1>3 DEF Goes, TypeInv, UserAdminTypeOK
<1> QED BY <1>2, <1>3, <1>4, <1>5 DEF TypeInv, UserAdminTypeOK, StoresOK

LEMMA FieldsOf ==
  ASSUME TypeInv, NEW r \in Requests, at[r] # "new"
  PROVE  /\ Fits(ask[r], at[r]) /\ ask[r] \in Request
         /\ ask[r].account \in Accounts /\ ask[r].kind \in RequestKinds
         /\ ask[r].kind \notin {"list", "settings"} => ask[r].user \in Users
         /\ ask[r].enabled \in {"on", "off", Nothing}
         /\ ask[r].status \in {"active", "blocked", "other", Nothing}
         /\ ask[r].flag \in BOOLEAN
<1>1. Fits(ask[r], at[r]) /\ ask[r] \in Request
  BY DEF TypeInv, Fits
<1> QED BY <1>1, RequestFields DEF Fits

\* What is written to a trail is a row of a trail.
LEMMA WritesType ==
  ASSUME TypeInv, NEW r \in Requests, NEW action \in Actions, NEW ok \in BOOLEAN,
         Writes(r, action, ok) \/ UNCHANGED log
  PROVE  log' \in Seq([by : Requests, action : Actions, ok : BOOLEAN])
<1> DEFINE Rows == [by : Requests, action : Actions, ok : BOOLEAN]
<1>1. log \in Seq(Rows)
  BY DEF TypeInv, UserAdminTypeOK
<1>2. [by |-> r, action |-> action, ok |-> ok] \in Rows
  OBVIOUS
<1> HIDE DEF Rows
<1>3. log' \in Seq(Rows)
  BY <1>1, <1>2 DEF Writes
<1> QED BY <1>3 DEF Rows

LEMMA RecordType == ASSUME TypeInv, NEW r \in Requests, Record(r) PROVE TypeInv'
<1>1. at[r] = "record" /\ Fits(ask[r], at[r])
  BY FieldsOf DEF Record
<1> DEFINE action == CASE ask[r].kind \in {"switch", "change"} -> "user.update"
                       [] ask[r].kind = "create" -> "user.create"
                       [] ask[r].kind = "delete" -> "user.delete"
                       [] ask[r].kind = "settings" -> "account.settings.update"
<1>2. action \in Actions
  <2>1. ask[r].kind \in {"switch", "change"} => action = "user.update"
    OBVIOUS
  <2>2. ask[r].kind = "create" => action = "user.create"
    OBVIOUS
  <2>3. ask[r].kind = "delete" => action = "user.delete"
    OBVIOUS
  <2>4. ask[r].kind = "settings" => action = "account.settings.update"
    OBVIOUS
  <2> HIDE DEF action
  <2> QED BY <1>1, <2>1, <2>2, <2>3, <2>4 DEF Fits, Actions
<1>3. Writes(r, action, TRUE) \/ UNCHANGED log
  BY DEF Record
<1> HIDE DEF action
<1>4. log' \in Seq([by : Requests, action : Actions, ok : BOOLEAN])
  BY <1>2, <1>3, WritesType
<1>5. StoresOK'
  BY <1>4 DEF Record, Untold, TypeInv, UserAdminTypeOK, StoresOK, stores, listVars, blocks
<1>6. CASE ask[r].kind = "delete"
  <2>1. Goes(r, "drop") /\ UNCHANGED ask
    BY <1>6 DEF Record
  <2>2. Fits(ask[r], "drop") /\ "drop" \in Steps \ {"new"} /\ at[r] # "new"
    BY <1>1, <1>6 DEF Fits, Steps
  <2> QED BY <1>5, <2>1, <2>2, GoesOn
<1>7. CASE ask[r].kind # "delete"
  <2>1. Goes(r, "done") /\ UNCHANGED ask
    BY <1>7 DEF Record
  <2>2. Fits(ask[r], "done") /\ "done" \in Steps \ {"new"} /\ at[r] # "new"
    BY <1>1 DEF Fits, Steps
  <2> QED BY <1>5, <2>1, <2>2, GoesOn
<1> QED BY <1>6, <1>7

LEMMA DieType == ASSUME TypeInv, NEW r \in Requests, Die(r) PROVE TypeInv'
<1>1. at[r] # "new" /\ Goes(r, "done") /\ UNCHANGED ask
  BY DEF Die, Open
<1>2. Fits(ask[r], "done") /\ "done" \in Steps \ {"new"}
  BY <1>1, FieldsOf DEF Fits, Steps
<1>3. StoresOK'
  BY DEF Die, TypeInv, UserAdminTypeOK, StoresOK, stores, listVars, blocks
<1> QED BY <1>1, <1>2, <1>3, GoesOn

\* The statements a request can go on to.
LEMMA GoesAny ==
  ASSUME TypeInv, NEW r \in Requests, at[r] # "new", UNCHANGED ask, StoresOK',
         \E step \in Steps \ {"new"} : Goes(r, step) /\ Fits(ask[r], step)
  PROVE  TypeInv'
<1>1. PICK step \in Steps \ {"new"} : Goes(r, step) /\ Fits(ask[r], step)
  OBVIOUS
<1> QED BY <1>1, GoesOn

LEMMA ListType == ASSUME TypeInv, NEW r \in Requests, ListStep(r) PROVE TypeInv'
<1>1. at[r] \in {"look up", "fetch", "store"} /\ UNCHANGED ask
  BY DEF ListStep, LookUp, Fetch, Store
<1>2. /\ Fits(ask[r], at[r]) /\ ask[r].account \in Accounts
      /\ Fits(ask[r], "fetch") /\ Fits(ask[r], "store") /\ Fits(ask[r], "shown") /\ Fits(ask[r], "done")
  BY <1>1, FieldsOf DEF Fits
<1>3. \E step \in Steps \ {"new"} : Goes(r, step) /\ Fits(ask[r], step)
  BY <1>2 DEF ListStep, LookUp, Fetch, Store, Steps
<1>4. CASE LookUp(r)
  <2>1. \A a \in Accounts : kept[a] # Nothing => kept[a].shows \subseteq Requests
    BY DEF TypeInv, UserAdminTypeOK, List
  <2>2. StoresOK'
    BY <1>2, <1>4, <2>1 DEF LookUp, TypeInv, UserAdminTypeOK, StoresOK, stores, blocks
  <2> QED BY <1>1, <1>3, <2>2, GoesAny
<1>5. CASE Fetch(r)
  <2> DEFINE carried == {w \in Requests : done[w] # Never}
  <2>1. carried \subseteq Requests
    OBVIOUS
  <2>2. seen' \in [Requests -> SUBSET Requests] /\ fetched' \in [Requests -> Nat]
    <3>1. \/ seen' = [seen EXCEPT ![r] = carried] /\ fetched' = [fetched EXCEPT ![r] = now]
          \/ UNCHANGED <<seen, fetched>>
      BY <1>5 DEF Fetch
    <3> HIDE DEF carried
    <3>2. seen \in [Requests -> SUBSET Requests] /\ fetched \in [Requests -> Nat] /\ now \in Nat
      BY DEF TypeInv, UserAdminTypeOK
    <3>3. fetched' \in [Requests -> Nat]
      BY <3>1, <3>2
    <3>4. carried \in SUBSET Requests
      BY <2>1
    <3>5. seen' \in [Requests -> SUBSET Requests]
      BY <3>1, <3>2, <3>4
    <3> QED BY <3>3, <3>5
  <2>3. UNCHANGED <<now, stores, kept, log, forgot, restored, owed, done, untold, blocks, crossed>>
    BY <1>5 DEF Fetch
  <2>4. StoresOK'
    BY <2>2, <2>3 DEF TypeInv, UserAdminTypeOK, StoresOK, stores, blocks
  <2> QED BY <1>1, <1>3, <2>4, GoesAny
<1>6. CASE Store(r)
  <2>1. [shows |-> seen[r], until |-> now + TTL] \in List
    BY UserAdminAssumption DEF List, TypeInv, UserAdminTypeOK
  <2>2. StoresOK'
    BY <1>2, <1>6, <2>1 DEF Store, TypeInv, UserAdminTypeOK, StoresOK, stores, blocks
  <2> QED BY <1>1, <1>3, <2>2, GoesAny
<1> QED BY <1>4, <1>5, <1>6 DEF ListStep

\* The time of what is carried out.
LEMMA CarriedOutType ==
  ASSUME TypeInv, NEW r \in Requests, CarriedOut(r) \/ UNCHANGED done
  PROVE  done' \in [Requests -> Nat \cup {Never}]
BY DEF CarriedOut, TypeInv, UserAdminTypeOK

LEMMA RefusedType ==
  ASSUME TypeInv, NEW r \in Requests, NEW action \in Actions, Refused(r, action) \/ UNCHANGED log
  PROVE  log' \in Seq([by : Requests, action : Actions, ok : BOOLEAN])
BY WritesType DEF Refused

LEMMA OperatorType == ASSUME TypeInv, NEW r \in Requests, OperatorStep(r) PROVE TypeInv'
<1>1. at[r] \in {"switch", "block", "forget", "set"} /\ UNCHANGED ask
  BY DEF OperatorStep, SwitchCloud, SwitchCabinet, Forget, SetCounted
<1>2. /\ Fits(ask[r], at[r]) /\ ask[r].account \in Accounts /\ Fits(ask[r], "done")
      /\ ask[r].status \in {"active", "blocked", "other", Nothing} /\ ask[r].flag \in BOOLEAN
  BY <1>1, FieldsOf DEF Fits
<1>3. "user.update" \in Actions /\ Nothing \notin {"active", "blocked", "other"}
  BY UserAdminAssumption DEF Actions
<1>4. CASE SwitchCloud(r)
  <2>1. /\ at[r] = "switch" /\ ask[r].user \in Users /\ ask[r].enabled \in {"on", "off"}
        /\ ask[r].kind = "switch"
    BY <1>2, <1>4 DEF SwitchCloud, Fits
  <2>2. log' \in Seq([by : Requests, action : Actions, ok : BOOLEAN])
    BY <1>3, <1>4, RefusedType DEF SwitchCloud
  <2>3. done' \in [Requests -> Nat \cup {Never}]
    BY <1>4, CarriedOutType DEF SwitchCloud
  <2>4. cloud' \in [Users -> InCloud]
    BY <1>4, <2>1 DEF SwitchCloud, TypeInv, UserAdminTypeOK, InCloud
  <2>5. untold' \subseteq Requests
    BY <1>4 DEF SwitchCloud, Untold, TypeInv, UserAdminTypeOK
  <2>6. StoresOK'
    BY <1>4, <2>2, <2>3, <2>4, <2>5 DEF SwitchCloud, TypeInv, UserAdminTypeOK, StoresOK, listVars,
                                        blocks
  <2>7. ask[r].status # Nothing => Fits(ask[r], "block")
    BY <1>2, <2>1 DEF Fits
  <2>8. Fits(ask[r], "forget")
    BY <1>2, <2>1 DEF Fits
  <2>9. \E step \in Steps \ {"new"} : Goes(r, step) /\ Fits(ask[r], step)
    BY <1>2, <1>4, <2>7, <2>8 DEF SwitchCloud, Refused, Steps
  <2> QED BY <1>1, <2>6, <2>9, GoesAny
<1>5. CASE SwitchCabinet(r)
  <2>1. at[r] = "block" /\ ask[r].user \in Users /\ ask[r].status \in {"active", "blocked", "other"}
        /\ ask[r].kind = "switch"
    BY <1>2, <1>5 DEF SwitchCabinet, Fits
  <2>2. done' \in [Requests -> Nat \cup {Never}]
    BY <1>5, CarriedOutType DEF SwitchCabinet
  <2>3. rows' \in [Users -> InCabinet]
    BY <1>5, <2>1 DEF SwitchCabinet, TypeInv, UserAdminTypeOK, InCabinet
  <2>4. barred' \subseteq Users /\ idle' \subseteq Requests /\ untold' \subseteq Requests
    BY <1>5, <2>1 DEF SwitchCabinet, TypeInv, UserAdminTypeOK
  <2>5. StoresOK'
    BY <1>5, <2>2, <2>3, <2>4 DEF SwitchCabinet, TypeInv, UserAdminTypeOK, StoresOK, listVars
  <2>6. Fits(ask[r], "forget")
    BY <1>2, <2>1 DEF Fits
  <2>7. \E step \in Steps \ {"new"} : Goes(r, step) /\ Fits(ask[r], step)
    BY <1>2, <1>5, <2>6 DEF SwitchCabinet, Steps
  <2> QED BY <1>1, <2>5, <2>7, GoesAny
<1>6. CASE Forget(r)
  <2>1. kept' \in [Accounts -> List \cup {Nothing}]
    BY <1>2, <1>6 DEF Forget, TypeInv, UserAdminTypeOK
  <2>2. forgot' \subseteq Requests /\ forgot \subseteq forgot' /\ untold' \subseteq Requests
    BY <1>6 DEF Forget, Untold, TypeInv, UserAdminTypeOK
  <2>3. StoresOK'
    BY <1>6, <2>1, <2>2 DEF Forget, TypeInv, UserAdminTypeOK, StoresOK, stores, blocks
  <2>4. Fits(ask[r], "record")
    BY <1>2, <1>6 DEF Forget, Fits
  <2>5. \E step \in Steps \ {"new"} : Goes(r, step) /\ Fits(ask[r], step)
    BY <1>2, <1>6, <2>4 DEF Forget, Steps
  <2> QED BY <1>1, <2>3, <2>5, GoesAny
<1>7. CASE SetCounted(r)
  <2>1. done' \in [Requests -> Nat \cup {Never}]
    BY <1>7, CarriedOutType DEF SetCounted
  <2>2. StoresOK'
    BY <1>2, <1>7, <2>1 DEF SetCounted, TypeInv, UserAdminTypeOK, StoresOK, listVars, blocks
  <2>3. Fits(ask[r], "record")
    BY <1>2, <1>7 DEF SetCounted, Fits
  <2>4. \E step \in Steps \ {"new"} : Goes(r, step) /\ Fits(ask[r], step)
    BY <1>7, <2>3 DEF SetCounted, Steps
  <2> QED BY <1>1, <2>2, <2>4, GoesAny
<1> QED BY <1>4, <1>5, <1>6, <1>7 DEF OperatorStep

LEMMA AdminType == ASSUME TypeInv, NEW r \in Requests, AdminStep(r) PROVE TypeInv'
<1>1. at[r] \in {"create", "grant", "find", "change", "delete", "drop"} /\ UNCHANGED ask
  BY DEF AdminStep, Create, Grant, FindUser, Change, Delete, Drop
<1>2. /\ Fits(ask[r], at[r]) /\ ask[r].user \in Users /\ Fits(ask[r], "done")
      /\ ask[r].enabled \in {"on", "off", Nothing}
  BY <1>1, FieldsOf DEF Fits
<1>3. at[r] \in {"create", "grant", "change", "delete"} => Fits(ask[r], "record")
  BY <1>2 DEF Fits
<1>4. at[r] = "create" => Fits(ask[r], "grant")
  BY <1>2 DEF Fits
<1>5. at[r] = "find" => ask[r].kind \in {"change", "delete"} /\ Fits(ask[r], ask[r].kind)
  BY <1>2 DEF Fits
<1>6. \E step \in Steps \ {"new"} : Goes(r, step) /\ Fits(ask[r], step)
  <2>1. CASE Create(r)
    BY <1>2, <1>3, <1>4, <2>1 DEF Create, Refused, Steps
  <2>2. CASE Grant(r) \/ Drop(r)
    BY <1>2, <1>3, <2>2 DEF Grant, Drop, Steps
  <2>3. CASE FindUser(r)
    BY <1>2, <1>5, <2>3 DEF FindUser, Steps
  <2>4. CASE Change(r) \/ Delete(r)
    BY <1>2, <1>3, <2>4 DEF Change, Delete, Refused, Steps
  <2> QED BY <2>1, <2>2, <2>3, <2>4 DEF AdminStep
<1>7. log' \in Seq([by : Requests, action : Actions, ok : BOOLEAN])
  <2>1. {"user.create", "user.update", "user.delete", "user.grant_role"} \subseteq Actions
    BY DEF Actions
  <2>2. CASE Create(r) \/ Change(r) \/ Delete(r)
    BY <2>1, <2>2, RefusedType DEF Create, Change, Delete
  <2>3. CASE Grant(r)
    BY <2>1, <2>3, WritesType DEF Grant
  <2>4. CASE FindUser(r) \/ Drop(r)
    BY <2>4 DEF FindUser, Drop, TypeInv, UserAdminTypeOK
  <2> QED BY <2>2, <2>3, <2>4 DEF AdminStep
<1>8. done' \in [Requests -> Nat \cup {Never}]
  <2>1. CarriedOut(r) \/ UNCHANGED done
    BY DEF AdminStep, Create, Grant, FindUser, Change, Delete, Drop
  <2> QED BY <2>1, CarriedOutType
<1>9. cloud' \in [Users -> InCloud] /\ members' \subseteq Users /\ rows' \in [Users -> InCabinet]
  <2>1. cloud' \in [Users -> InCloud]
    <3>1. CASE Create(r) \/ Delete(r)
      <4>1. \/ cloud' = [cloud EXCEPT ![ask[r].user] = "on"]
            \/ cloud' = [cloud EXCEPT ![ask[r].user] = "gone"]
            \/ UNCHANGED cloud
        BY <3>1 DEF Create, Delete
      <4> QED BY <1>2, <4>1 DEF TypeInv, UserAdminTypeOK, InCloud
    <3>2. CASE Change(r)
      <4>1. \/ ask[r].enabled # Nothing /\ cloud' = [cloud EXCEPT ![ask[r].user] = ask[r].enabled]
            \/ UNCHANGED cloud
        BY <3>2 DEF Change
      <4> QED BY <1>2, <4>1 DEF TypeInv, UserAdminTypeOK, InCloud
    <3>3. CASE Grant(r) \/ FindUser(r) \/ Drop(r)
      BY <3>3 DEF Grant, FindUser, Drop, TypeInv, UserAdminTypeOK, stores
    <3> QED BY <3>1, <3>2, <3>3 DEF AdminStep
  <2>2. members' \subseteq Users
    <3>1. CASE Grant(r) \/ Delete(r)
      BY <1>2, <3>1 DEF Grant, Delete, TypeInv, UserAdminTypeOK
    <3>2. CASE ~ (Grant(r) \/ Delete(r))
      BY <3>2 DEF AdminStep, Create, FindUser, Change, Drop, TypeInv, UserAdminTypeOK, stores
    <3> QED BY <3>1, <3>2
  <2>3. rows' \in [Users -> InCabinet]
    <3>1. CASE Drop(r)
      BY <1>2, <3>1 DEF Drop, TypeInv, UserAdminTypeOK, InCabinet
    <3>2. CASE ~ Drop(r)
      BY <3>2 DEF AdminStep, Create, Grant, FindUser, Change, Delete, TypeInv, UserAdminTypeOK, stores
    <3> QED BY <3>1, <3>2
  <2> QED BY <2>1, <2>2, <2>3
<1>10. untold' \subseteq Requests
  BY DEF AdminStep, Create, Grant, FindUser, Change, Delete, Drop, Untold, TypeInv, UserAdminTypeOK
<1>11. UNCHANGED <<now, counted, kept, listVars, blocks, crossed>>
  BY DEF AdminStep, Create, Grant, FindUser, Change, Delete, Drop, stores
<1>12. StoresOK'
  BY <1>7, <1>8, <1>9, <1>10, <1>11 DEF TypeInv, UserAdminTypeOK, StoresOK, listVars, blocks
<1> QED BY <1>1, <1>6, <1>12, GoesAny

LEMMA SignInType == ASSUME TypeInv, NEW r \in Requests, SignInStep(r) PROVE TypeInv'
<1>1. at[r] \in {"authenticate", "upsert"} /\ UNCHANGED ask
  BY DEF SignInStep, Authenticate, Upsert
<1>2. /\ ask[r].user \in Users /\ Fits(ask[r], "done") /\ Fits(ask[r], "upsert")
  BY <1>1, FieldsOf DEF Fits
<1>3. \E step \in Steps \ {"new"} : Goes(r, step) /\ Fits(ask[r], step)
  BY <1>2 DEF SignInStep, Authenticate, Upsert, Steps
<1>4. rows' \in [Users -> InCabinet] /\ slipped' \subseteq Requests
  BY <1>2 DEF SignInStep, Authenticate, Upsert, TypeInv, UserAdminTypeOK, InCabinet, stores, blocks
<1>5. UNCHANGED <<now, cloud, members, counted, kept, log, listVars, done, untold, idle, barred,
                  crossed>>
  BY DEF SignInStep, Authenticate, Upsert, stores, blocks
<1>6. StoresOK'
  BY <1>4, <1>5 DEF TypeInv, UserAdminTypeOK, StoresOK, listVars
<1> QED BY <1>1, <1>3, <1>6, GoesAny

LEMMA TickType == ASSUME TypeInv, Tick PROVE TypeInv'
<1>1. now' \in Nat /\ kept' \in [Accounts -> List \cup {Nothing}]
  BY DEF Tick, TypeInv, UserAdminTypeOK
<1>2. UNCHANGED <<stores, log, at, ask, listVars, done, untold, blocks, crossed>>
  BY DEF Tick
<1> QED BY <1>1, <1>2 DEF TypeInv, UserAdminTypeOK, stores, listVars, blocks

LEMMA TypeStep == TypeInv /\ [Next]_vars => TypeInv'
<1>1. TypeInv /\ UNCHANGED vars => TypeInv'
  BY DEF vars, stores, listVars, blocks, TypeInv, UserAdminTypeOK
<1> QED BY <1>1, ArriveType, ListType, OperatorType, AdminType, SignInType, RecordType, DieType,
           TickType DEF Next

LEMMA TypeAlways == Spec => []TypeInv
<1> QED BY TypeInit, TypeStep, PTL DEF Spec

-----------------------------------------------------------------------------
(* What a step leaves as it is. *)

StepOf(r) ==
    \/ Arrive(r) \/ ListStep(r) \/ OperatorStep(r) \/ AdminStep(r) \/ SignInStep(r)
    \/ Record(r) \/ Die(r)

Unmoved(q) == at'[q] = at[q] /\ ask'[q] = ask[q]

LEMMA OthersUnmoved ==
  ASSUME TypeInv, NEW r \in Requests, StepOf(r), NEW q \in Requests \ {r}
  PROVE  Unmoved(q)
<1>1. \E step : Goes(r, step)
  BY DEF StepOf, Arrive, ListStep, LookUp, Fetch, Store, OperatorStep, SwitchCloud, SwitchCabinet,
         Forget, SetCounted, AdminStep, Create, Grant, FindUser, Change, Delete, Drop, SignInStep,
         Authenticate, Upsert, Record, Die, Refused
<1>2. ask'[q] = ask[q]
  BY DEF StepOf, Arrive, ListStep, LookUp, Fetch, Store, OperatorStep, SwitchCloud, SwitchCabinet,
         Forget, SetCounted, AdminStep, Create, Grant, FindUser, Change, Delete, Drop, SignInStep,
         Authenticate, Upsert, Record, Die, TypeInv, UserAdminTypeOK
<1> QED BY <1>1, <1>2 DEF Unmoved, Goes, TypeInv, UserAdminTypeOK

\* What is asked stays asked, and what is put on record stays there.
Lasting ==
    /\ \A q \in Requests : at[q] # "new" => ask'[q] = ask[q] /\ at'[q] # "new"
    /\ crossed \subseteq crossed'
    /\ untold \subseteq untold'

LEMMA StepLasting == ASSUME TypeInv, NEW r \in Requests, StepOf(r) PROVE Lasting
<1>1. ASSUME NEW q \in Requests, at[q] # "new" PROVE ask'[q] = ask[q] /\ at'[q] # "new"
  <2>1. CASE q # r
    BY <1>1, <2>1, OthersUnmoved DEF Unmoved
  <2>2. CASE q = r
    <3>1. ask' = ask
      BY <1>1, <2>2
      DEF StepOf, Arrive, ListStep, LookUp, Fetch, Store, OperatorStep, SwitchCloud, SwitchCabinet,
          Forget, SetCounted, AdminStep, Create, Grant, FindUser, Change, Delete, Drop, SignInStep,
          Authenticate, Upsert, Record, Die
    <3>2. TypeInv'
      BY ArriveType, ListType, OperatorType, AdminType, SignInType, RecordType, DieType DEF StepOf
    <3> QED BY <1>1, <3>1, <3>2 DEF TypeInv, UserAdminTypeOK
  <2> QED BY <2>1, <2>2
<1>2. crossed \subseteq crossed'
  BY DEF StepOf, Arrive, ListStep, LookUp, Fetch, Store, OperatorStep, SwitchCloud, SwitchCabinet,
         Forget, SetCounted, AdminStep, Create, Grant, FindUser, Change, Delete, Drop, SignInStep,
         Authenticate, Upsert, Record, Die
<1>3. untold \subseteq untold'
  BY DEF StepOf, Arrive, ListStep, LookUp, Fetch, Store, OperatorStep, SwitchCloud, SwitchCabinet,
         Forget, SetCounted, AdminStep, Create, Grant, FindUser, Change, Delete, Drop, SignInStep,
         Authenticate, Upsert, Record, Die, Untold
<1> QED BY <1>1, <1>2, <1>3 DEF Lasting

\* A user who is gone stays gone, and only a deletion makes him so.
LEMMA GoneForGood ==
  ASSUME TypeInv, NEW r \in Requests, StepOf(r), NEW u \in Users
  PROVE  /\ cloud[u] = "gone" => cloud'[u] = "gone"
         /\ cloud'[u] = "gone" /\ cloud[u] # "gone" => Delete(r) /\ ask[r].user = u
<1>1. CASE SwitchCloud(r)
  <2>1. ask[r].enabled \in {"on", "off"}
    BY <1>1, FieldsOf DEF SwitchCloud, Fits
  <2>2. \/ UNCHANGED cloud
        \/ /\ cloud[ask[r].user] \in {"on", "off"}
           /\ cloud' = [cloud EXCEPT ![ask[r].user] = ask[r].enabled]
    BY <1>1 DEF SwitchCloud
  <2> QED BY <2>1, <2>2 DEF TypeInv, UserAdminTypeOK
<1>2. CASE Create(r)
  <2>1. \/ UNCHANGED cloud
        \/ cloud[ask[r].user] = "never" /\ cloud' = [cloud EXCEPT ![ask[r].user] = "on"]
    BY <1>2 DEF Create
  <2> QED BY <2>1 DEF TypeInv, UserAdminTypeOK
<1>3. CASE Change(r)
  <2>1. ask[r].enabled # Nothing => ask[r].enabled \in {"on", "off"}
    BY <1>3, FieldsOf DEF Change
  <2>2. \/ UNCHANGED cloud
        \/ /\ cloud[ask[r].user] \in {"on", "off"} /\ ask[r].enabled # Nothing
           /\ cloud' = [cloud EXCEPT ![ask[r].user] = ask[r].enabled]
    BY <1>3 DEF Change
  <2> QED BY <2>1, <2>2 DEF TypeInv, UserAdminTypeOK
<1>4. CASE Delete(r)
  <2>1. \/ UNCHANGED cloud
        \/ cloud' = [cloud EXCEPT ![ask[r].user] = "gone"]
    BY <1>4 DEF Delete
  <2> QED BY <1>4, <2>1 DEF TypeInv, UserAdminTypeOK
<1>5. CASE ~ (SwitchCloud(r) \/ Create(r) \/ Change(r) \/ Delete(r))
  <2>1. UNCHANGED cloud
    BY <1>5
    DEF StepOf, Arrive, ListStep, LookUp, Fetch, Store, OperatorStep, SwitchCabinet, Forget,
        SetCounted, AdminStep, Grant, FindUser, Drop, SignInStep, Authenticate, Upsert, Record, Die,
        stores
  <2> QED BY <2>1
<1> QED BY <1>1, <1>2, <1>3, <1>4, <1>5

\* What is carried out is carried out now, and once.
LEMMA DoneNow ==
  ASSUME TypeInv, NEW r \in Requests, StepOf(r), NEW w \in Requests
  PROVE  done'[w] = done[w] \/ (done[w] = Never /\ done'[w] = now)
<1>1. CarriedOut(r) \/ UNCHANGED done
  BY DEF StepOf, Arrive, ListStep, LookUp, Fetch, Store, OperatorStep, SwitchCloud, SwitchCabinet,
         Forget, SetCounted, AdminStep, Create, Grant, FindUser, Change, Delete, Drop, SignInStep,
         Authenticate, Upsert, Record, Die
<1> QED BY <1>1 DEF CarriedOut, TypeInv, UserAdminTypeOK

\* After it, a request is carried out.
LEMMA CarriedOutDone ==
  ASSUME TypeInv, NEW r \in Requests, CarriedOut(r)
  PROVE  done'[r] # Never
BY UserAdminAssumption DEF CarriedOut, TypeInv, UserAdminTypeOK


-----------------------------------------------------------------------------
(* The cabinet's rows follow the cloud's users. *)

Deletes(q, u) == ask[q] # Nothing /\ ask[q].kind = "delete" /\ ask[q].user = u
Crossed(q, r) == {q, r} \in crossed

\* Requests about one user or account that are under way have crossed.
CrossInv ==
    \A q, r \in Requests :
        /\ q # r /\ Open(q) /\ Open(r) /\ ask[q].kind # "list" /\ ask[r].kind # "list"
        /\ Target(q) = Target(r)
        => Crossed(q, r)

\* A deletion that has its record or the row still to do has done the cloud's part.
DeletionInv ==
    \A r \in Requests : at[r] \in {"record", "drop"} /\ ask[r].kind = "delete" =>
        done[r] # Never /\ cloud[ask[r].user] = "gone"

\* Who signed in and is gone was deleted meanwhile.
UpsertInv ==
    \A r \in Requests : at[r] = "upsert" /\ cloud[ask[r].user] = "gone" =>
        \E q \in Requests : Deletes(q, ask[r].user) /\ Crossed(q, r)

\* Only a deletion takes a block away.
BarredInv == \A u \in barred : rows[u] = "blocked" \/ cloud[u] = "gone"

SlippedInv ==
    \A r \in slipped :
        at[r] # "new" /\ \E q \in Requests : Deletes(q, ask[r].user) /\ Crossed(q, r)

Excused(r) ==
    at[r] \in {"record", "drop"} \/ r \in untold \/ \E q \in Requests : Crossed(q, r)
OrphanInv ==
    \A u \in Users : cloud[u] = "gone" /\ rows[u] # "none" =>
        \E r \in Requests : Deletes(r, u) /\ Excused(r)

RowsInv == CrossInv /\ DeletionInv /\ UpsertInv /\ BarredInv /\ SlippedInv /\ OrphanInv

LEMMA RowsInit == Init => RowsInv
<1> SUFFICES ASSUME Init PROVE RowsInv
  OBVIOUS
<1>1. \A r \in Requests : at[r] = "new"
  BY DEF Init
<1>2. CrossInv /\ DeletionInv /\ UpsertInv
  BY <1>1 DEF CrossInv, DeletionInv, UpsertInv, Open
<1>3. BarredInv /\ SlippedInv
  BY DEF Init, BarredInv, SlippedInv
<1>4. OrphanInv
  BY UserAdminAssumption DEF Init, OrphanInv
<1> QED BY <1>2, <1>3, <1>4 DEF RowsInv

\* A request that takes a step was open, or arrives.
LEMMA WasOpen == ASSUME NEW r \in Requests, StepOf(r), ~ Arrive(r) PROVE Open(r) /\ UNCHANGED ask
BY DEF StepOf, Arrive, ListStep, LookUp, Fetch, Store, OperatorStep, SwitchCloud, SwitchCabinet,
       Forget, SetCounted, AdminStep, Create, Grant, FindUser, Change, Delete, Drop, SignInStep,
       Authenticate, Upsert, Record, Die, Open

LEMMA CrossStep == ASSUME TypeInv, CrossInv, NEW r \in Requests, StepOf(r) PROVE CrossInv'
<1> SUFFICES ASSUME NEW p \in Requests, NEW q \in Requests, p # q, Open(p)', Open(q)',
                    ask'[p].kind # "list", ask'[q].kind # "list", Target(p)' = Target(q)'
             PROVE  Crossed(p, q)'
  BY DEF CrossInv
<1>1. Lasting
  BY StepLasting
<1>2. CASE ~ Arrive(r)
  <2>1. Open(p) /\ Open(q) /\ UNCHANGED ask
    BY <1>2, WasOpen, OthersUnmoved DEF Unmoved, Open
  <2>2. Crossed(p, q)
    BY <2>1 DEF CrossInv, Target
  <2> QED BY <1>1, <2>2 DEF Lasting, Crossed
<1>3. CASE Arrive(r)
  <2>1. ASSUME NEW s \in Requests, s # r, Open(s)', ask'[s].kind # "list", ask'[r].kind # "list",
               Target(s)' = Target(r)'
        PROVE  {s, r} \in crossed'
    <3>1. at'[s] = at[s] /\ ask'[s] = ask[s]
      BY <2>1, OthersUnmoved DEF Unmoved
    <3>2. Open(s) /\ ask[s].kind # "list" /\ Target(s) = Target(r)'
      BY <2>1, <3>1 DEF Open, Target
    <3> QED BY <1>3, <2>1, <3>2 DEF Arrive
  <2>2. CASE p = r
    BY <2>1, <2>2 DEF Crossed
  <2>3. CASE q = r
    BY <2>1, <2>3 DEF Crossed
  <2>4. CASE p # r /\ q # r
    <3>1. Unmoved(p) /\ Unmoved(q)
      BY <2>4, OthersUnmoved
    <3>2. Crossed(p, q)
      BY <3>1 DEF CrossInv, Unmoved, Open, Target
    <3> QED BY <1>1, <3>2 DEF Lasting, Crossed
  <2> QED BY <2>2, <2>3, <2>4
<1> QED BY <1>2, <1>3

\* A deletion stays one, and so does what excuses it, until its row is dropped.
LEMMA DeletesLasts ==
  ASSUME TypeInv, Lasting, NEW q \in Requests, NEW u, Deletes(q, u)
  PROVE  Deletes(q, u)'
<1>1. at[q] # "new"
  BY DEF Deletes, TypeInv, UserAdminTypeOK
<1> QED BY <1>1 DEF Deletes, Lasting

LEMMA CrossedLasts == ASSUME Lasting, NEW q, NEW r, Crossed(q, r) PROVE Crossed(q, r)'
BY DEF Lasting, Crossed

LEMMA DeletionStep ==
  ASSUME TypeInv, DeletionInv, NEW r \in Requests, StepOf(r) PROVE DeletionInv'
<1> SUFFICES ASSUME NEW q \in Requests, at'[q] \in {"record", "drop"}, ask'[q].kind = "delete"
             PROVE  done'[q] # Never /\ cloud'[ask'[q].user] = "gone"
  BY DEF DeletionInv
<1>1. TypeInv'
  BY ArriveType, ListType, OperatorType, AdminType, SignInType, RecordType, DieType DEF StepOf
<1>2. ask'[q].user \in Users
  BY <1>1 DEF TypeInv, Fits
<1>3. CASE at[q] \in {"record", "drop"}
  <2>1. ask'[q] = ask[q]
    BY <1>3, StepLasting DEF Lasting
  <2>2. done[q] # Never /\ cloud[ask[q].user] = "gone"
    BY <1>3, <2>1 DEF DeletionInv
  <2> QED BY <1>2, <2>1, <2>2, DoneNow, GoneForGood
<1>4. CASE at[q] \notin {"record", "drop"}
  <2>1. q = r
    BY <1>4, OthersUnmoved DEF Unmoved
  <2>2. ~ Arrive(r)
    <3>1. ASSUME Arrive(r) PROVE FALSE
      <4>1. PICK request \in Bodies[r] :
              Sensible(request) /\ ask' = [ask EXCEPT ![r] = request] /\ Goes(r, FirstStep(request))
        BY <3>1 DEF Arrive
      <4>2. ask'[r] = request /\ at'[r] = FirstStep(request)
        BY <4>1 DEF Goes, TypeInv, UserAdminTypeOK
      <4>3. request.kind = "delete" => FirstStep(request) = "find"
        BY DEF FirstStep
      <4> QED BY <2>1, <4>2, <4>3
    <3> QED BY <3>1
  <2>3. UNCHANGED ask /\ at[r] # "new"
    BY <2>2, WasOpen DEF Open
  <2>4. Fits(ask[r], at[r]) /\ ask[r].kind = "delete"
    BY <2>1, <2>3, FieldsOf
  <2>5. at[r] \in {"find", "delete", "drop", "record", "done"} \cup Steps
    BY DEF TypeInv, UserAdminTypeOK
  <2>6. Delete(r) \/ FindUser(r) \/ Die(r)
    BY <1>4, <2>1, <2>2, <2>4
    DEF Fits, StepOf, ListStep, LookUp, Fetch, Store, OperatorStep, SwitchCloud, SwitchCabinet,
        Forget, SetCounted, AdminStep, Create, Grant, Change, Drop, SignInStep, Authenticate, Upsert,
        Record
  <2>7. CASE FindUser(r) \/ Die(r)
    <3>1. at'[r] \in {ask[r].kind, "done"}
      BY <2>7 DEF FindUser, Die, Goes, TypeInv, UserAdminTypeOK
    <3> QED BY <2>1, <2>4, <3>1
  <2>8. CASE Delete(r)
    <3>1. at'[r] # "done"
      BY <2>1
    <3>2. /\ cloud' = [cloud EXCEPT ![ask[r].user] = "gone"]
          /\ CarriedOut(r)
      BY <2>8, <3>1 DEF Delete, Refused, Goes, TypeInv, UserAdminTypeOK
    <3>3. cloud'[ask[r].user] = "gone"
      BY <1>2, <2>1, <2>3, <3>2 DEF TypeInv, UserAdminTypeOK
    <3> QED BY <2>1, <2>3, <3>2, <3>3, CarriedOutDone
  <2> QED BY <2>6, <2>7, <2>8
<1> QED BY <1>3, <1>4

LEMMA UpsertStep ==
  ASSUME TypeInv, CrossInv, UpsertInv, NEW r \in Requests, StepOf(r) PROVE UpsertInv'
<1> SUFFICES ASSUME NEW q \in Requests, at'[q] = "upsert", cloud'[ask'[q].user] = "gone"
             PROVE  \E p \in Requests : Deletes(p, ask[q].user)' /\ Crossed(p, q)'
  BY DEF UpsertInv
<1>1. Lasting /\ TypeInv'
  BY StepLasting, ArriveType, ListType, OperatorType, AdminType, SignInType, RecordType, DieType
  DEF StepOf
<1>2. ask'[q].user \in Users /\ ask'[q].kind = "signIn"
  BY <1>1 DEF TypeInv, Fits
<1>3. ASSUME NEW p \in Requests, Deletes(p, ask[q].user), Crossed(p, q), ask'[q] = ask[q]
      PROVE  \E s \in Requests : Deletes(s, ask[q].user)' /\ Crossed(s, q)'
  <2>1. Deletes(p, ask[q].user)'
    BY <1>1, <1>3 DEF Deletes, Lasting, TypeInv, UserAdminTypeOK
  <2>2. Crossed(p, q)'
    BY <1>1, <1>3, CrossedLasts
  <2> QED BY <2>1, <2>2
<1>4. CASE at[q] = "upsert"
  <2>1. ask'[q] = ask[q]
    BY <1>1, <1>4 DEF Lasting
  <2>2. CASE cloud[ask[q].user] = "gone"
    BY <1>3, <1>4, <2>1, <2>2 DEF UpsertInv
  <2>3. CASE cloud[ask[q].user] # "gone"
    <3>1. Delete(r) /\ ask[r].user = ask[q].user
      BY <1>2, <2>1, <2>3, GoneForGood
    <3>2. at[r] = "delete" /\ ask[r].kind = "delete"
      BY <3>1, FieldsOf DEF Delete, Fits
    <3>3. Crossed(r, q)
      BY <1>2, <1>4, <2>1, <3>1, <3>2 DEF CrossInv, Open, Target
    <3>4. Deletes(r, ask[q].user)
      BY <3>1, <3>2 DEF Deletes, TypeInv, UserAdminTypeOK
    <3> QED BY <1>3, <2>1, <3>3, <3>4
  <2> QED BY <2>2, <2>3
<1>5. CASE at[q] # "upsert"
  <2>1. q = r
    BY <1>5, OthersUnmoved DEF Unmoved
  <2>2. ~ Arrive(r)
    <3>1. ASSUME Arrive(r) PROVE FALSE
      <4>1. PICK request \in Bodies[r] :
              Sensible(request) /\ ask' = [ask EXCEPT ![r] = request] /\ Goes(r, FirstStep(request))
        BY <3>1 DEF Arrive
      <4>2. ask'[r] = request /\ at'[r] = FirstStep(request)
        BY <4>1 DEF Goes, TypeInv, UserAdminTypeOK
      <4>3. request.kind = "signIn" => FirstStep(request) = "authenticate"
        BY DEF FirstStep
      <4> QED BY <1>2, <2>1, <4>2, <4>3
    <3> QED BY <3>1
  <2>3. UNCHANGED ask /\ at[r] # "new"
    BY <2>2, WasOpen DEF Open
  <2>4. Fits(ask[r], at[r]) /\ ask[r].kind = "signIn"
    BY <1>2, <2>1, <2>3, FieldsOf
  <2>5. Authenticate(r) \/ Die(r)
    BY <1>5, <2>1, <2>2, <2>4
    DEF Fits, StepOf, ListStep, LookUp, Fetch, Store, OperatorStep, SwitchCloud, SwitchCabinet,
        Forget, SetCounted, AdminStep, Create, Grant, FindUser, Change, Delete, Drop, SignInStep,
        Upsert, Record
  <2>6. cloud'[ask[r].user] # "gone"
    <3>1. at'[r] # "done"
      BY <2>1
    <3>2. cloud[ask[r].user] = "on" /\ UNCHANGED cloud
      BY <2>5, <3>1 DEF Authenticate, Die, Goes, TypeInv, UserAdminTypeOK, stores
    <3> QED BY <3>2
  <2> QED BY <2>1, <2>3, <2>6
<1> QED BY <1>4, <1>5

\* How a step changes the cabinet's rows.
LEMMA RowsStep ==
  ASSUME TypeInv, NEW r \in Requests, StepOf(r), NEW u \in Users
  PROVE  \/ rows'[u] = rows[u]
         \/ SwitchCabinet(r) /\ rows[u] # "none" /\ ask[r].user = u
         \/ Drop(r) /\ ask[r].user = u /\ rows'[u] = "none"
         \/ Upsert(r) /\ ask[r].user = u /\ rows[u] = "none"
<1>1. CASE SwitchCabinet(r)
  <2>1. UNCHANGED rows \/ (rows[ask[r].user] # "none"
                           /\ rows' = [rows EXCEPT ![ask[r].user] = ask[r].status])
    BY <1>1 DEF SwitchCabinet
  <2> QED BY <1>1, <2>1 DEF TypeInv, UserAdminTypeOK
<1>2. CASE Drop(r)
  BY <1>2 DEF Drop, TypeInv, UserAdminTypeOK
<1>3. CASE Upsert(r)
  <2>1. UNCHANGED rows \/ (rows[ask[r].user] = "none"
                           /\ rows' = [rows EXCEPT ![ask[r].user] = "active"])
    BY <1>3 DEF Upsert
  <2> QED BY <1>3, <2>1 DEF TypeInv, UserAdminTypeOK
<1>4. CASE ~ (SwitchCabinet(r) \/ Drop(r) \/ Upsert(r))
  <2>1. UNCHANGED rows
    BY <1>4
    DEF StepOf, Arrive, ListStep, LookUp, Fetch, Store, OperatorStep, SwitchCloud, Forget,
        SetCounted, AdminStep, Create, Grant, FindUser, Change, Delete, SignInStep, Authenticate,
        Record, Die, stores
  <2> QED BY <2>1
<1> QED BY <1>1, <1>2, <1>3, <1>4

LEMMA BarredStep ==
  ASSUME TypeInv, DeletionInv, BarredInv, NEW r \in Requests, StepOf(r) PROVE BarredInv'
<1> SUFFICES ASSUME NEW u \in barred', cloud'[u] # "gone" PROVE rows'[u] = "blocked"
  BY DEF BarredInv
<1>1. TypeInv'
  BY ArriveType, ListType, OperatorType, AdminType, SignInType, RecordType, DieType DEF StepOf
<1>2. u \in Users
  BY <1>1 DEF TypeInv, UserAdminTypeOK
<1>3. cloud[u] # "gone"
  BY <1>2, GoneForGood
<1>4. CASE SwitchCabinet(r)
  <2>1. CASE u = ask[r].user
    <3>1. \/ rows' = [rows EXCEPT ![u] = ask[r].status] /\ ask[r].status = "blocked"
          \/ UNCHANGED <<rows, barred>>
      BY <1>4, <2>1 DEF SwitchCabinet
    <3> QED BY <1>2, <1>3, <3>1 DEF BarredInv, TypeInv, UserAdminTypeOK
  <2>2. CASE u # ask[r].user
    <3>1. u \in barred
      BY <1>4, <2>2 DEF SwitchCabinet
    <3>2. rows'[u] = rows[u]
      BY <1>2, <1>4, <2>2, RowsStep DEF SwitchCabinet, Drop, Upsert
    <3> QED BY <1>3, <3>1, <3>2 DEF BarredInv
  <2> QED BY <2>1, <2>2
<1>5. CASE ~ SwitchCabinet(r)
  <2>1. u \in barred
    BY <1>5
    DEF StepOf, Arrive, ListStep, LookUp, Fetch, Store, OperatorStep, SwitchCloud, Forget,
        SetCounted, AdminStep, Create, Grant, FindUser, Change, Delete, Drop, SignInStep,
        Authenticate, Upsert, Record, Die, blocks
  <2>2. rows[u] = "blocked"
    BY <1>3, <2>1 DEF BarredInv
  <2>3. ~ (Drop(r) /\ ask[r].user = u)
    <3>1. ASSUME Drop(r), ask[r].user = u PROVE FALSE
      <4>1. at[r] = "drop" /\ ask[r].kind = "delete"
        BY <3>1, FieldsOf DEF Drop, Fits
      <4> QED BY <1>3, <3>1, <4>1 DEF DeletionInv
    <3> QED BY <3>1
  <2> QED BY <1>2, <1>5, <2>2, <2>3, RowsStep
<1> QED BY <1>4, <1>5

LEMMA SlippedStep ==
  ASSUME TypeInv, UpsertInv, BarredInv, SlippedInv, NEW r \in Requests, StepOf(r) PROVE SlippedInv'
<1> SUFFICES ASSUME NEW q \in slipped'
             PROVE  at'[q] # "new" /\ \E p \in Requests : Deletes(p, ask[q].user)' /\ Crossed(p, q)'
  BY DEF SlippedInv
<1>1. Lasting /\ TypeInv'
  BY StepLasting, ArriveType, ListType, OperatorType, AdminType, SignInType, RecordType, DieType
  DEF StepOf
<1>2. q \in Requests
  BY <1>1 DEF TypeInv, UserAdminTypeOK
<1>3. SUFFICES at[q] # "new" /\ \E p \in Requests : Deletes(p, ask[q].user) /\ Crossed(p, q)
  <2>1. PICK p \in Requests : Deletes(p, ask[q].user) /\ Crossed(p, q)
    BY <1>3
  <2>2. Deletes(p, ask[q].user)'
    BY <1>1, <2>1 DEF Deletes, Lasting, TypeInv, UserAdminTypeOK
  <2>3. Crossed(p, q)'
    BY <1>1, <2>1, CrossedLasts
  <2>4. at'[q] # "new"
    BY <1>1, <1>2, <1>3 DEF Lasting
  <2> QED BY <2>2, <2>3, <2>4
<1>4. CASE q \in slipped
  BY <1>4 DEF SlippedInv
<1>5. CASE q \notin slipped
  <2>1. Upsert(r) /\ q = r
    BY <1>5
    DEF StepOf, Arrive, ListStep, LookUp, Fetch, Store, OperatorStep, SwitchCloud, SwitchCabinet,
        Forget, SetCounted, AdminStep, Create, Grant, FindUser, Change, Delete, Drop, SignInStep,
        Authenticate, Upsert, Record, Die, blocks
  <2>2. at[r] = "upsert" /\ UNCHANGED ask /\ ask[r].user \in Users
    BY <2>1, FieldsOf DEF Upsert, Fits
  <2>3. ask[r].user \in barred /\ rows'[ask[r].user] # "blocked"
    BY <1>5, <2>1 DEF Upsert
  <2>4. rows[ask[r].user] # "blocked"
    BY <2>1, <2>3 DEF Upsert
  <2>5. cloud[ask[r].user] = "gone"
    BY <2>3, <2>4 DEF BarredInv
  <2>6. \E p \in Requests : Deletes(p, ask[r].user) /\ Crossed(p, r)
    BY <2>2, <2>5 DEF UpsertInv
  <2> QED BY <2>1, <2>2, <2>6
<1> QED BY <1>4, <1>5

LEMMA OrphanStep ==
  ASSUME TypeInv, RowsInv, NEW r \in Requests, StepOf(r) PROVE OrphanInv'
<1> SUFFICES ASSUME NEW u \in Users, cloud'[u] = "gone", rows'[u] # "none"
             PROVE  \E q \in Requests : Deletes(q, u)' /\ Excused(q)'
  BY DEF OrphanInv
<1>1. Lasting
  BY StepLasting
\* A crossed deletion excuses for good.
<1>2. ASSUME NEW p \in Requests, NEW q \in Requests, Deletes(p, u), Crossed(p, q)
      PROVE  Deletes(p, u)' /\ Excused(p)'
  <2>1. Crossed(p, q)' /\ Crossed(q, p)'
    BY <1>1, <1>2, CrossedLasts DEF Crossed
  <2> QED BY <1>1, <1>2, <2>1, DeletesLasts DEF Excused
<1>3. CASE cloud[u] # "gone"
  <2>1. Delete(r) /\ ask[r].user = u
    BY <1>3, GoneForGood
  <2>2. cloud' # cloud
    BY <1>3
  <2>3. at'[r] = "record" \/ r \in untold'
    BY <2>1, <2>2 DEF Delete, Goes, Untold, TypeInv, UserAdminTypeOK
  <2>4. Deletes(r, u)
    BY <2>1, FieldsOf DEF Delete, Fits, Deletes, TypeInv, UserAdminTypeOK
  <2> QED BY <1>1, <2>3, <2>4, DeletesLasts DEF Excused
<1>4. CASE cloud[u] = "gone" /\ rows[u] = "none"
  <2>1. Upsert(r) /\ ask[r].user = u
    BY <1>4, RowsStep
  <2>2. PICK q \in Requests : Deletes(q, u) /\ Crossed(q, r)
    BY <1>4, <2>1 DEF RowsInv, UpsertInv, Upsert
  <2> QED BY <1>2, <2>2
<1>5. CASE cloud[u] = "gone" /\ rows[u] # "none"
  <2>1. PICK q \in Requests : Deletes(q, u) /\ Excused(q)
    BY <1>5 DEF RowsInv, OrphanInv
  <2>2. Deletes(q, u)'
    BY <1>1, <2>1, DeletesLasts
  <2>3. CASE \E p \in Requests : Crossed(p, q)
    <3>1. PICK p \in Requests : Crossed(p, q)
      BY <2>3
    <3>2. Crossed(q, p)
      BY <3>1 DEF Crossed
    <3> QED BY <1>2, <2>1, <3>2
  <2>4. CASE q \in untold
    BY <1>1, <2>2, <2>4 DEF Lasting, Excused
  <2>5. CASE at[q] \in {"record", "drop"}
    <3>1. CASE q # r
      BY <2>2, <2>5, <3>1, OthersUnmoved DEF Unmoved, Excused
    <3>2. CASE q = r
      <4>1. ask[r].kind = "delete" /\ ask[r].user = u /\ done[r] # Never
        BY <2>1, <2>5, <3>2 DEF Deletes, RowsInv, DeletionInv
      <4>2. Record(r) \/ Drop(r) \/ Die(r)
        BY <2>5, <3>2
        DEF StepOf, Arrive, ListStep, LookUp, Fetch, Store, OperatorStep, SwitchCloud, SwitchCabinet,
            Forget, SetCounted, AdminStep, Create, Grant, FindUser, Change, Delete, SignInStep,
            Authenticate, Upsert
      <4>3. CASE Record(r)
        <5>1. at'[r] = "drop"
          BY <4>1, <4>3 DEF Record, Goes, TypeInv, UserAdminTypeOK
        <5> QED BY <2>2, <3>2, <5>1 DEF Excused
      <4>4. CASE Die(r)
        <5>1. r \in untold'
          BY <4>1, <4>4 DEF Die
        <5> QED BY <2>2, <3>2, <5>1 DEF Excused
      <4>5. CASE Drop(r)
        BY <4>1, <4>5 DEF Drop, TypeInv, UserAdminTypeOK
      <4> QED BY <4>2, <4>3, <4>4, <4>5
    <3> QED BY <3>1, <3>2
  <2> QED BY <2>1, <2>3, <2>4, <2>5 DEF Excused
<1> QED BY <1>3, <1>4, <1>5

LEMMA RowsAlways == Spec => []RowsInv
<1>1. TypeInv /\ RowsInv /\ [Next]_vars => RowsInv'
  <2> SUFFICES ASSUME TypeInv, RowsInv, [Next]_vars PROVE RowsInv'
    OBVIOUS
  <2>1. ASSUME NEW r \in Requests, StepOf(r) PROVE RowsInv'
    BY <2>1, CrossStep, DeletionStep, UpsertStep, BarredStep, SlippedStep, OrphanStep DEF RowsInv
  <2>2. CASE Tick \/ UNCHANGED vars
    <3>1. UNCHANGED <<cloud, rows, at, ask, done, untold, barred, slipped, crossed>>
      BY <2>2 DEF Tick, vars, stores, blocks
    <3> QED BY <3>1 DEF RowsInv, CrossInv, DeletionInv, UpsertInv, BarredInv, SlippedInv, OrphanInv,
                        Excused, Deletes, Crossed, Open, Target
  <2> QED BY <2>1, <2>2 DEF Next, StepOf
<1> QED BY <1>1, RowsInit, TypeAlways, PTL DEF Spec

\* Whom an operator has blocked does not sign in before an operator lets him (accounts:
\* is_blocked, upsert_user), and nobody keeps a row who is gone from the cloud (admin_api:
\* the deletion drops the row last), but for what crossed a deletion or was cut short.
THEOREM RowsCorrect == Spec => []RowsFollow
<1>1. TypeInv /\ RowsInv => RowsFollow
  <2> SUFFICES ASSUME TypeInv, RowsInv PROVE RowsFollow
    OBVIOUS
  <2>1. BlockedStaysOut
    BY DEF RowsInv, SlippedInv, BlockedStaysOut, Deletes, Crossed
  <2>2. NoOrphanRow
    <3> SUFFICES ASSUME NEW u \in Users, cloud[u] = "gone", rows[u] # "none"
                 PROVE  \E r \in Requests :
                          /\ ask[r] # Nothing /\ ask[r].kind = "delete" /\ ask[r].user = u
                          /\ \/ Open(r)
                             \/ r \in untold
                             \/ \E q \in Requests : {q, r} \in crossed
      BY DEF NoOrphanRow
    <3>1. PICK r \in Requests : Deletes(r, u) /\ Excused(r)
      BY DEF RowsInv, OrphanInv
    <3> QED BY <3>1 DEF Deletes, Excused, Crossed, Open
  <2> QED BY <2>1, <2>2 DEF RowsFollow
<1> QED BY <1>1, TypeAlways, RowsAlways, PTL

-----------------------------------------------------------------------------
(* An operator's list of users. *)

\* The switches that dropped an account's list, and no older one was stored since.
Shown(a) == {s \in forgot \ restored : HomeOf[ask[s].user] = a}

\* What a list that was fetched at some time does not show was done no sooner.
Missing(shows, w) == done[w] # Never /\ w \notin shows

ForgotInv ==
    /\ \A r \in Requests : at[r] = "forget" => done[r] # Never
    /\ \A s \in forgot : done[s] # Never /\ at[s] # "new"

KeptAs(a) ==
    /\ Shown(a) \subseteq kept[a].shows
    /\ now <= kept[a].until /\ kept[a].until <= now + TTL
    /\ \A w \in Requests : Missing(kept[a].shows, w) => kept[a].until <= done[w] + TTL + Lag

KeptInv == \A a \in Accounts : kept[a] # Nothing => KeptAs(a)

\* A list in hand.
ViewOK(r) ==
    /\ at[r] = "fetch" => owed[r] \subseteq forgot
    /\ at[r] \in {"store", "shown"} => owed[r] \subseteq seen[r]
    /\ at[r] = "store" => now <= fetched[r] + Lag
    /\ \A w \in Requests : at[r] = "store" /\ Missing(seen[r], w) => fetched[r] <= done[w]
    /\ \A w \in Requests : at[r] = "shown" /\ Missing(seen[r], w) =>
           fetched[r] - done[w] <= TTL + Lag

PastInv ==
    \A r \in Requests : fetched[r] <= now /\ (done[r] # Never => done[r] <= now)

ListInv == ForgotInv /\ KeptInv /\ PastInv /\ \A r \in Requests : ViewOK(r)

LEMMA ListInit == Init => ListInv
<1> SUFFICES ASSUME Init PROVE ListInv
  OBVIOUS
<1>1. \A r \in Requests : at[r] = "new" /\ fetched[r] = 0 /\ done[r] = Never
  BY DEF Init
<1>2. forgot = {} /\ now = 0 /\ \A a \in Accounts : kept[a] = Nothing
  BY DEF Init
<1> QED BY <1>1, <1>2 DEF ListInv, ForgotInv, KeptInv, PastInv, ViewOK

\* The times the proof is about.
LEMMA Times ==
  ASSUME TypeInv
  PROVE  /\ now \in Nat /\ TTL \in Nat /\ Lag \in Nat
         /\ \A r \in Requests : fetched[r] \in Nat /\ (done[r] # Never => done[r] \in Nat)
         /\ \A a \in Accounts : kept[a] # Nothing =>
                kept[a].until \in Nat /\ kept[a].shows \subseteq Requests
BY UserAdminAssumption DEF TypeInv, UserAdminTypeOK, List

LEMMA ForgotStep == ASSUME TypeInv, ForgotInv, NEW r \in Requests, StepOf(r) PROVE ForgotInv'
<1>1. Lasting /\ TypeInv'
  BY StepLasting, ArriveType, ListType, OperatorType, AdminType, SignInType, RecordType, DieType
  DEF StepOf
<1>2. \A w \in Requests : done[w] # Never => done'[w] # Never
  BY DoneNow
<1>3. ASSUME NEW q \in Requests, at'[q] = "forget" PROVE done'[q] # Never
  <2>1. CASE at[q] = "forget"
    BY <1>2, <2>1 DEF ForgotInv
  <2>2. CASE at[q] # "forget"
    <3>1. q = r
      BY <1>3, <2>2, OthersUnmoved DEF Unmoved
    <3>2. ~ Arrive(r)
      <4>1. ASSUME Arrive(r) PROVE FALSE
        <5>1. PICK request \in Bodies[r] : Sensible(request) /\ Goes(r, FirstStep(request))
          BY <4>1 DEF Arrive
        <5>2. request \in Request
          BY UserAdminAssumption
        <5>3. at'[r] = FirstStep(request)
          BY <5>1 DEF Goes, TypeInv, UserAdminTypeOK
        <5>4. FirstStep(request) # "forget"
          <6>1. request.kind = "list" => FirstStep(request) = "look up"
            BY DEF FirstStep
          <6>2. request.kind = "switch" => FirstStep(request) \in {"block", "switch"}
            BY DEF FirstStep
          <6>3. request.kind = "create" => FirstStep(request) = "create"
            BY DEF FirstStep
          <6>4. request.kind \in {"change", "delete"} => FirstStep(request) = "find"
            BY DEF FirstStep
          <6>5. request.kind = "settings" => FirstStep(request) = "set"
            BY DEF FirstStep
          <6>6. request.kind = "signIn" => FirstStep(request) = "authenticate"
            BY DEF FirstStep
          <6> QED BY <5>2, <6>1, <6>2, <6>3, <6>4, <6>5, <6>6, RequestFields DEF RequestKinds
        <5> QED BY <1>3, <3>1, <5>3, <5>4
      <4> QED BY <4>1
    <3>3. at[r] # "new" /\ Fits(ask[r], at[r]) /\ UNCHANGED ask
      BY <3>2, WasOpen, FieldsOf DEF Open
    <3>4. ask[r].kind = "switch"
      BY <1>1, <1>3, <3>1, <3>3 DEF TypeInv, Fits
    <3>5. SwitchCloud(r) \/ SwitchCabinet(r) \/ Forget(r) \/ Record(r) \/ Die(r)
      BY <3>2, <3>3, <3>4
      DEF Fits, StepOf, ListStep, LookUp, Fetch, Store, OperatorStep, SetCounted, AdminStep, Create,
          Grant, FindUser, Change, Delete, Drop, SignInStep, Authenticate, Upsert
    <3>6. CarriedOut(r)
      BY <1>3, <3>1, <3>5
      DEF SwitchCloud, SwitchCabinet, Forget, Record, Die, Refused, Goes, TypeInv, UserAdminTypeOK
    <3> QED BY <3>1, <3>6, CarriedOutDone
  <2> QED BY <2>1, <2>2
<1>4. ASSUME NEW s \in forgot' PROVE done'[s] # Never /\ at'[s] # "new"
  <2>1. CASE s \in forgot
    <3>1. s \in Requests /\ done[s] # Never /\ at[s] # "new"
      BY <2>1 DEF ForgotInv, TypeInv, UserAdminTypeOK
    <3> QED BY <1>1, <1>2, <3>1 DEF Lasting
  <2>2. CASE s \notin forgot
    <3>1. Forget(r) /\ s = r
      BY <1>4, <2>2
      DEF StepOf, Arrive, ListStep, LookUp, Fetch, Store, OperatorStep, SwitchCloud, SwitchCabinet,
          Forget, SetCounted, AdminStep, Create, Grant, FindUser, Change, Delete, Drop, SignInStep,
          Authenticate, Upsert, Record, Die, listVars
    <3>2. at[r] = "forget"
      BY <3>1 DEF Forget
    <3> QED BY <1>1, <1>2, <3>1, <3>2 DEF ForgotInv, Lasting
  <2> QED BY <2>1, <2>2
<1> QED BY <1>3, <1>4 DEF ForgotInv

LEMMA PastStep == ASSUME TypeInv, PastInv, NEW r \in Requests, StepOf(r) PROVE PastInv'
<1>1. UNCHANGED now
  BY DEF StepOf, Arrive, ListStep, LookUp, Fetch, Store, OperatorStep, SwitchCloud, SwitchCabinet,
         Forget, SetCounted, AdminStep, Create, Grant, FindUser, Change, Delete, Drop, SignInStep,
         Authenticate, Upsert, Record, Die
<1>2. UNCHANGED fetched \/ fetched' = [fetched EXCEPT ![r] = now]
  BY DEF StepOf, Arrive, ListStep, LookUp, Fetch, Store, OperatorStep, SwitchCloud, SwitchCabinet,
         Forget, SetCounted, AdminStep, Create, Grant, FindUser, Change, Delete, Drop, SignInStep,
         Authenticate, Upsert, Record, Die, listVars
<1>3. \A q \in Requests : fetched'[q] = fetched[q] \/ fetched'[q] = now
  BY <1>2 DEF TypeInv, UserAdminTypeOK
<1> QED BY <1>1, <1>3, DoneNow, Times DEF PastInv

\* What is missing from a list that was not missing before has been done just now.
LEMMA MissingNow ==
  ASSUME TypeInv, NEW r \in Requests, StepOf(r), NEW shows, NEW w \in Requests, Missing(shows, w)'
  PROVE  (Missing(shows, w) /\ done'[w] = done[w]) \/ done'[w] = now
BY DoneNow DEF Missing

\* Before somebody forgets a list, or stores one, a kept list is left as it is.
LEMMA ShownLasts ==
  ASSUME TypeInv, ForgotInv, NEW r \in Requests, StepOf(r), UNCHANGED <<forgot, restored>>,
         NEW a \in Accounts
  PROVE  Shown(a)' = Shown(a)
<1>1. \A s \in forgot : ask'[s] = ask[s]
  BY StepLasting DEF Lasting, ForgotInv, TypeInv, UserAdminTypeOK
<1> QED BY <1>1 DEF Shown

LEMMA KeptLasts ==
  ASSUME TypeInv, KeptInv, NEW r \in Requests, StepOf(r), UNCHANGED now, NEW a \in Accounts,
         kept[a] # Nothing, kept'[a] = kept[a], Shown(a)' \subseteq Shown(a)
  PROVE  KeptAs(a)'
<1>1. KeptAs(a)
  BY DEF KeptInv, KeptAs
<1>2. ASSUME NEW w \in Requests, Missing(kept[a].shows, w)'
      PROVE  kept'[a].until <= done'[w] + TTL + Lag
  <2>1. (Missing(kept[a].shows, w) /\ done'[w] = done[w]) \/ done'[w] = now
    BY <1>2, DoneNow DEF Missing
  <2> QED BY <1>1, <2>1, Times DEF KeptAs
<1>3. Shown(a)' \subseteq kept'[a].shows
  BY <1>1 DEF KeptAs
<1>4. now' <= kept'[a].until /\ kept'[a].until <= now' + TTL
  BY <1>1 DEF KeptAs
<1> QED BY <1>2, <1>3, <1>4 DEF KeptAs

LEMMA KeptStep ==
  ASSUME TypeInv, ListInv, NEW r \in Requests, StepOf(r) PROVE KeptInv'
<1> SUFFICES ASSUME NEW a \in Accounts, kept'[a] # Nothing PROVE KeptAs(a)'
  BY DEF KeptInv, KeptAs
<1>1. UNCHANGED now
  BY DEF StepOf, Arrive, ListStep, LookUp, Fetch, Store, OperatorStep, SwitchCloud, SwitchCabinet,
         Forget, SetCounted, AdminStep, Create, Grant, FindUser, Change, Delete, Drop, SignInStep,
         Authenticate, Upsert, Record, Die
<1>2. ForgotInv /\ KeptInv
  BY DEF ListInv
<1>3. \A s \in forgot : ask'[s] = ask[s]
  BY <1>2, StepLasting DEF Lasting, ForgotInv, TypeInv, UserAdminTypeOK
<1>4. CASE Store(r)
  <2>1. ask[r].account \in Accounts /\ UNCHANGED <<ask, done, forgot>>
    BY <1>4, FieldsOf DEF Store
  <2>2. CASE a = ask[r].account
    <3>1. kept'[a].shows = seen[r] /\ kept'[a].until = now + TTL
      BY <1>4, <2>1, <2>2 DEF Store, TypeInv, UserAdminTypeOK
    <3>2. Shown(a)' \subseteq seen[r]
      BY <1>4, <2>1, <2>2 DEF Store, Shown
    <3>3. ASSUME NEW w \in Requests, Missing(seen[r], w)
          PROVE  now + TTL <= done[w] + TTL + Lag
      <4>1. at[r] = "store" /\ ViewOK(r)
        BY <1>4 DEF Store, ListInv
      <4>2. now <= fetched[r] + Lag /\ fetched[r] <= done[w]
        BY <3>3, <4>1 DEF ViewOK
      <4> QED BY <3>3, <4>2, Times DEF Missing
    <3>4. \A w \in Requests : Missing(kept[a].shows, w)' => Missing(seen[r], w)
      BY <2>1, <3>1 DEF Missing
    <3> QED BY <1>1, <2>1, <3>1, <3>2, <3>3, <3>4, Times DEF KeptAs
  <2>3. CASE a # ask[r].account
    <3>1. kept'[a] = kept[a]
      BY <1>4, <2>3 DEF Store, TypeInv, UserAdminTypeOK
    <3>2. Shown(a)' \subseteq Shown(a)
      BY <1>4, <2>1 DEF Store, Shown
    <3> QED BY <1>1, <1>2, <3>1, <3>2, KeptLasts
  <2> QED BY <2>2, <2>3
<1>5. CASE Forget(r)
  <2>1. /\ kept'[a] = kept[a]
        /\ (\A s \in forgot' \ forgot : HomeOf[ask[s].user] # a)
        /\ UNCHANGED <<restored, ask>>
    BY <1>5 DEF Forget, TypeInv, UserAdminTypeOK
  <2>2. Shown(a)' \subseteq Shown(a)
    BY <2>1 DEF Shown
  <2> QED BY <1>1, <1>2, <2>1, <2>2, KeptLasts
<1>6. CASE ~ (Store(r) \/ Forget(r))
  <2>1. UNCHANGED <<kept, forgot, restored>>
    BY <1>6
    DEF StepOf, Arrive, ListStep, LookUp, Fetch, OperatorStep, SwitchCloud, SwitchCabinet,
        SetCounted, AdminStep, Create, Grant, FindUser, Change, Delete, Drop, SignInStep,
        Authenticate, Upsert, Record, Die, listVars
  <2>2. Shown(a)' \subseteq Shown(a)
    BY <1>2, <2>1, ShownLasts
  <2> QED BY <1>1, <1>2, <2>1, <2>2, KeptLasts
<1> QED BY <1>4, <1>5, <1>6

\* A list in hand that is left alone.
LEMMA ViewLasts ==
  ASSUME TypeInv, PastInv, NEW r \in Requests, StepOf(r), UNCHANGED now, NEW q \in Requests,
         ViewOK(q), at'[q] = at[q] \/ at'[q] \notin {"fetch", "store", "shown"},
         owed'[q] = owed[q], seen'[q] = seen[q], fetched'[q] = fetched[q], forgot \subseteq forgot'
  PROVE  ViewOK(q)'
<1>1. ASSUME NEW w \in Requests, Missing(seen[q], w)'
      PROVE  (Missing(seen[q], w) /\ done'[w] = done[w]) \/ done'[w] = now
  BY <1>1, DoneNow DEF Missing
<1>2. ASSUME NEW w \in Requests, at'[q] = "store", Missing(seen[q], w)'
      PROVE  fetched'[q] <= done'[w]
  <2>1. (Missing(seen[q], w) /\ done'[w] = done[w]) \/ done'[w] = now
    BY <1>2, DoneNow DEF Missing
  <2> QED BY <1>2, <2>1, Times DEF ViewOK, PastInv
<1>3. ASSUME NEW w \in Requests, at'[q] = "shown", Missing(seen[q], w)'
      PROVE  fetched'[q] - done'[w] <= TTL + Lag
  <2>1. (Missing(seen[q], w) /\ done'[w] = done[w]) \/ done'[w] = now
    BY <1>3, DoneNow DEF Missing
  <2>2. fetched[q] <= now
    BY DEF PastInv
  <2> QED BY <1>3, <2>1, <2>2, Times DEF ViewOK
<1>4. /\ at'[q] = "fetch" => owed'[q] \subseteq forgot'
      /\ at'[q] \in {"store", "shown"} => owed'[q] \subseteq seen'[q]
      /\ at'[q] = "store" => now' <= fetched'[q] + Lag
  BY DEF ViewOK
<1> QED BY <1>2, <1>3, <1>4 DEF ViewOK

LEMMA ViewStep ==
  ASSUME TypeInv, ListInv, NEW r \in Requests, StepOf(r), NEW q \in Requests PROVE ViewOK(q)'
<1>1. UNCHANGED now
  BY DEF StepOf, Arrive, ListStep, LookUp, Fetch, Store, OperatorStep, SwitchCloud, SwitchCabinet,
         Forget, SetCounted, AdminStep, Create, Grant, FindUser, Change, Delete, Drop, SignInStep,
         Authenticate, Upsert, Record, Die
<1>2. ViewOK(q) /\ PastInv /\ KeptInv /\ ForgotInv
  BY DEF ListInv
<1>3. forgot \subseteq forgot'
  BY DEF StepOf, Arrive, ListStep, LookUp, Fetch, Store, OperatorStep, SwitchCloud, SwitchCabinet,
         Forget, SetCounted, AdminStep, Create, Grant, FindUser, Change, Delete, Drop, SignInStep,
         Authenticate, Upsert, Record, Die, listVars
<1>4. CASE q # r
  <2>1. UNCHANGED <<owed, seen, fetched>> \/ LookUp(r) \/ Fetch(r)
    BY DEF StepOf, Arrive, ListStep, Store, OperatorStep, SwitchCloud, SwitchCabinet,
           Forget, SetCounted, AdminStep, Create, Grant, FindUser, Change, Delete, Drop, SignInStep,
           Authenticate, Upsert, Record, Die, listVars
  <2>2. owed'[q] = owed[q] /\ seen'[q] = seen[q] /\ fetched'[q] = fetched[q]
    <3>1. /\ UNCHANGED owed \/ \E new : owed' = [owed EXCEPT ![r] = new]
          /\ UNCHANGED seen \/ \E new : seen' = [seen EXCEPT ![r] = new]
          /\ UNCHANGED fetched \/ fetched' = [fetched EXCEPT ![r] = now]
      BY <2>1, Zenon DEF LookUp, Fetch
    <3> QED BY <1>4, <3>1 DEF TypeInv, UserAdminTypeOK
  <2>3. at'[q] = at[q]
    BY <1>4, OthersUnmoved DEF Unmoved
  <2> QED BY <1>1, <1>2, <1>3, <2>2, <2>3, ViewLasts
<1>5. CASE q = r /\ LookUp(r)
  <2> DEFINE a == ask[r].account
  <2>1. a \in Accounts /\ at[r] = "look up" /\ UNCHANGED <<done, forgot, kept, ask>>
    BY <1>5, FieldsOf DEF LookUp
  <2>2. owed'[r] = Shown(a)
    BY <1>5 DEF LookUp, Shown, TypeInv, UserAdminTypeOK
  <2>3. fetched'[r] = now
    BY <1>5 DEF LookUp, TypeInv, UserAdminTypeOK
  <2>4. CASE kept[a] = Nothing
    <3>1. at'[r] = "fetch"
      BY <1>5, <2>4 DEF LookUp, Goes, TypeInv, UserAdminTypeOK
    <3> QED BY <1>5, <2>1, <2>2, <3>1 DEF ViewOK, Shown
  <2>5. CASE kept[a] # Nothing
    <3>1. at'[r] = "shown" /\ seen'[r] = kept[a].shows
      BY <1>5, <2>5 DEF LookUp, Goes, TypeInv, UserAdminTypeOK
    <3>2. KeptAs(a)
      BY <1>2, <2>1, <2>5 DEF KeptInv, KeptAs
    <3>3. ASSUME NEW w \in Requests, Missing(seen[r], w)'
          PROVE  fetched'[r] - done'[w] <= TTL + Lag
      <4>1. Missing(kept[a].shows, w) /\ done'[w] = done[w]
        BY <2>1, <3>1, <3>3 DEF Missing
      <4>2. now <= kept[a].until /\ kept[a].until <= done[w] + TTL + Lag /\ done[w] # Never
        BY <3>2, <4>1 DEF KeptAs, Missing
      <4>3. now \in Nat /\ done[w] \in Nat /\ kept[a].until \in Nat /\ TTL \in Nat /\ Lag \in Nat
        BY <2>1, <2>5, <4>2, Times
      <4> HIDE DEF a
      <4> QED BY <2>3, <4>1, <4>2, <4>3
    <3>4. owed'[r] \subseteq seen'[r]
      BY <2>2, <3>1, <3>2 DEF KeptAs
    <3> QED BY <1>5, <3>1, <3>3, <3>4 DEF ViewOK
  <2> QED BY <2>4, <2>5
<1>6. CASE q = r /\ Fetch(r)
  <2>1. UNCHANGED <<owed, done, now>>
    BY <1>6 DEF Fetch
  <2>2. \/ /\ at'[r] = "store" /\ fetched'[r] = now
           /\ seen'[r] = {w \in Requests : done[w] # Never}
        \/ at'[r] = "done"
    BY <1>6 DEF Fetch, Goes, TypeInv, UserAdminTypeOK
  <2>3. owed[r] \subseteq {w \in Requests : done[w] # Never}
    BY <1>2, <1>6 DEF ViewOK, Fetch, ForgotInv, TypeInv, UserAdminTypeOK
  <2>4. at'[r] = "store" => \A w \in Requests : ~ Missing(seen[r], w)'
    BY <2>1, <2>2 DEF Missing
  <2>5. at'[r] = "store" => owed'[r] \subseteq seen'[r]
    BY <2>1, <2>2, <2>3
  <2>6. at'[r] = "store" => now' <= fetched'[r] + Lag
    BY <2>1, <2>2, Times
  <2>7. at'[r] \in {"store", "done"}
    BY <2>2
  <2> QED BY <1>6, <2>4, <2>5, <2>6, <2>7 DEF ViewOK
<1>7. CASE q = r /\ Store(r)
  <2>1. at'[r] = "shown" /\ UNCHANGED <<owed, seen, fetched, done>> /\ at[r] = "store"
    BY <1>7 DEF Store, Goes, TypeInv, UserAdminTypeOK
  <2>2. ASSUME NEW w \in Requests, Missing(seen[r], w)'
        PROVE  fetched'[r] - done'[w] <= TTL + Lag
    <3>1. Missing(seen[r], w)
      BY <2>1, <2>2 DEF Missing
    <3>2. fetched[r] <= done[w] /\ done[w] # Never
      BY <1>2, <1>7, <2>1, <3>1 DEF ViewOK, Missing
    <3> QED BY <2>1, <3>2, Times
  <2> QED BY <1>2, <1>7, <2>1, <2>2 DEF ViewOK
<1>8. CASE q = r /\ ~ (LookUp(r) \/ Fetch(r) \/ Store(r))
  <2>1. UNCHANGED <<owed, seen, fetched>>
    BY <1>8
    DEF StepOf, Arrive, ListStep, OperatorStep, SwitchCloud, SwitchCabinet, Forget, SetCounted,
        AdminStep, Create, Grant, FindUser, Change, Delete, Drop, SignInStep, Authenticate, Upsert,
        Record, Die, listVars
  <2>2. at'[r] \notin {"fetch", "store", "shown"}
    <3>1. CASE Arrive(r)
      <4>1. PICK request \in Bodies[r] : Sensible(request) /\ Goes(r, FirstStep(request))
        BY <3>1 DEF Arrive
      <4>2. request \in Request
        BY UserAdminAssumption
      <4>3. at'[r] = FirstStep(request)
        BY <4>1 DEF Goes, TypeInv, UserAdminTypeOK
      <4>4. request.kind = "list" => FirstStep(request) = "look up"
        BY DEF FirstStep
      <4>5. \A step \in {"fetch", "store", "shown"} : Fits(request, step) => request.kind = "list"
        BY DEF Fits
      <4>6. Fits(request, FirstStep(request))
        BY <4>1, <4>2, FirstStepFits
      <4> QED BY <4>3, <4>4, <4>5, <4>6
    <3>2. CASE Die(r)
      BY <3>2 DEF Die, Goes, TypeInv, UserAdminTypeOK
    <3>3. CASE OperatorStep(r)
      BY <3>3 DEF OperatorStep, SwitchCloud, SwitchCabinet, Forget, SetCounted, Refused, Goes,
                  TypeInv, UserAdminTypeOK
    <3>4. CASE AdminStep(r)
      <4>1. FindUser(r) => ask[r].kind \in {"change", "delete"}
        BY FieldsOf DEF FindUser, Fits
      <4>2. CASE FindUser(r)
        BY <4>1, <4>2 DEF FindUser, Goes, TypeInv, UserAdminTypeOK
      <4>3. CASE Create(r) \/ Grant(r) \/ Drop(r)
        BY <4>3 DEF Create, Grant, Drop, Refused, Goes, TypeInv, UserAdminTypeOK
      <4>4. CASE Change(r) \/ Delete(r)
        BY <4>4 DEF Change, Delete, Refused, Goes, TypeInv, UserAdminTypeOK
      <4> QED BY <3>4, <4>2, <4>3, <4>4 DEF AdminStep
    <3>5. CASE SignInStep(r)
      BY <3>5 DEF SignInStep, Authenticate, Upsert, Goes, TypeInv, UserAdminTypeOK
    <3>6. CASE Record(r)
      BY <3>6 DEF Record, Goes, TypeInv, UserAdminTypeOK
    <3> QED BY <1>8, <3>1, <3>2, <3>3, <3>4, <3>5, <3>6 DEF StepOf, ListStep
  <2> QED BY <1>1, <1>2, <1>3, <1>8, <2>1, <2>2, ViewLasts
<1> QED BY <1>4, <1>5, <1>6, <1>7, <1>8

\* A list that is kept, or under way, is not older than it may be after a tick either.
LEMMA ListTick == ASSUME TypeInv, ListInv, Tick PROVE ListInv'
<1>1. /\ now' = now + 1 /\ UNCHANGED <<at, ask, seen, fetched, forgot, restored, owed, done>>
      /\ \A r \in Requests : at[r] = "store" => now < fetched[r] + Lag
  BY DEF Tick, listVars
<1>2. ForgotInv'
  BY <1>1 DEF ListInv, ForgotInv
<1>3. PastInv'
  BY <1>1, Times DEF ListInv, PastInv
<1>4. ASSUME NEW a \in Accounts, kept'[a] # Nothing PROVE KeptAs(a)'
  <2>1. kept'[a] = kept[a] /\ ~ (kept[a].until <= now) /\ kept[a] # Nothing
    BY <1>4 DEF Tick
  <2>2. KeptAs(a)
    BY <2>1 DEF ListInv, KeptInv, KeptAs
  <2>3. now' <= kept'[a].until /\ kept'[a].until <= now' + TTL
    BY <1>1, <2>1, <2>2, Times DEF KeptAs
  <2>4. Shown(a)' \subseteq kept'[a].shows
    BY <1>1, <2>1, <2>2 DEF KeptAs, Shown
  <2>5. \A w \in Requests : Missing(kept[a].shows, w)' => kept'[a].until <= done'[w] + TTL + Lag
    BY <1>1, <2>1, <2>2 DEF KeptAs, Missing
  <2> QED BY <2>3, <2>4, <2>5 DEF KeptAs
<1>5. ASSUME NEW r \in Requests PROVE ViewOK(r)'
  <2>1. ViewOK(r)
    BY DEF ListInv
  <2>2. at[r] = "store" => now' <= fetched[r] + Lag
    BY <1>1, Times
  <2> QED BY <1>1, <2>1, <2>2 DEF ViewOK, Missing
<1>6. KeptInv'
  BY <1>4 DEF KeptInv, KeptAs
<1> QED BY <1>2, <1>3, <1>5, <1>6 DEF ListInv

LEMMA ListAlways == Spec => []ListInv
<1>1. TypeInv /\ ListInv /\ [Next]_vars => ListInv'
  <2> SUFFICES ASSUME TypeInv, ListInv, [Next]_vars PROVE ListInv'
    OBVIOUS
  <2>1. ASSUME NEW r \in Requests, StepOf(r) PROVE ListInv'
    <3>1. ForgotInv /\ PastInv
      BY DEF ListInv
    <3> QED BY <2>1, <3>1, ForgotStep, PastStep, KeptStep, ViewStep DEF ListInv
  <2>2. CASE UNCHANGED vars
    <3>1. UNCHANGED <<now, kept, at, ask, seen, fetched, forgot, restored, owed, done>>
      BY <2>2 DEF vars, listVars
    <3> QED BY <3>1 DEF ListInv, ForgotInv, KeptInv, KeptAs, PastInv, ViewOK, Shown, Missing
  <2> QED BY <2>1, <2>2, ListTick DEF Next, StepOf
<1> QED BY <1>1, ListInit, TypeAlways, PTL DEF Spec

\* Who looks at an account's users sees every switch that dropped the list, unless an
\* older one was stored again behind it (_forget_account_users), and misses no write longer
\* than a list is kept and may have been under way (_USERS_CACHE_TTL).
THEOREM ListCorrect == Spec => []ListTells
<1>1. TypeInv /\ ListInv => ListTells
  BY DEF ListInv, ViewOK, Missing, ListTells, SwitchShows, ListAge
<1> QED BY <1>1, TypeAlways, ListAlways, PTL

\* Every variable keeps its type, and no request has a body before it has arrived.
THEOREM TypeCorrect == Spec => []UserAdminTypeOK
<1>1. TypeInv => UserAdminTypeOK
  BY DEF TypeInv
<1> QED BY <1>1, TypeAlways, PTL

-----------------------------------------------------------------------------
(* The trails. *)

LogRow == [by : Requests, action : Actions, ok : BOOLEAN]

\* The successes a trail has of some requests, and whose is the last.
Told(trail, some) == {i \in DOMAIN trail : trail[i].ok /\ trail[i].by \in some}
LastBy(trail, some) ==
    trail[CHOOSE i \in Told(trail, some) : \A j \in Told(trail, some) : j <= i].by
HasLast(trail, some) ==
    Told(trail, some) # {} => \E i \in Told(trail, some) : \A j \in Told(trail, some) : j <= i

\* Who is recorded with success has nothing left to do but to drop a row.
LogInv ==
    /\ \A i \in DOMAIN log : log[i].ok => at[log[i].by] \in {"drop", "done"}
    /\ \A some \in SUBSET Requests : HasLast(log, some)

\* When a request has been carried out.
DoneInv ==
    \A r \in Requests :
       /\ at[r] # "new" => Sensible(ask[r])
       /\ at[r] \in {"forget", "grant", "record", "drop"} => done[r] # Never
       /\ at[r] = "block" /\ ask[r].enabled # Nothing => done[r] # Never
       /\ at[r] \in {"new", "create"} => done[r] = Never
       /\ at[r] \in {"new", "switch", "block"} => r \notin idle

\* The requests about a user or an account, and whether something befell them.
Asked(x) == {r \in Requests : at[r] # "new" /\ ask[r].kind # "list" /\ Target(r) = x}
Undisturbed(x) == \A r \in Asked(x) : r \notin untold /\ \A q \in Requests : ~ Crossed(q, r)

\* Those that change the user in the cloud, his row, an account's setting.
Turns(u) ==
    {r \in Requests : /\ at[r] # "new" /\ ask[r].user = u
                      /\ ask[r].kind \in {"switch", "create", "change", "delete"}
                      /\ ask[r].kind \in {"switch", "change"} => ask[r].enabled # Nothing}
Blocks(u) ==
    {r \in Requests \ idle : /\ at[r] # "new" /\ ask[r].user = u /\ ask[r].kind = "switch"
                             /\ ask[r].status \in {"active", "blocked"}}
Sets(a) == {r \in Requests : at[r] # "new" /\ ask[r].account = a /\ ask[r].kind = "settings"}

TurnsTo(request) ==
    IF request.kind = "create" THEN "on" ELSE IF request.kind = "delete" THEN "gone"
    ELSE request.enabled

\* Carried out, and not told yet.
Turned(r) == at[r] \in {"block", "forget", "grant", "record"}
Blocked(r) == at[r] \in {"forget", "record"}

CloudTold(u) ==
    Undisturbed(u) =>
       /\ \A r \in Turns(u) : Turned(r) => cloud[u] = TurnsTo(ask[r])
       /\ (\A r \in Turns(u) : ~ Turned(r)) =>
             cloud[u] = IF Told(log, Turns(u)) = {} THEN Cloud0[u]
                        ELSE TurnsTo(ask[LastBy(log, Turns(u))])

\* A row that was switched is missing only of a user who is gone.
RowTold(u) ==
    Undisturbed(u) =>
       /\ \A r \in Blocks(u) : Blocked(r) => rows[u] = ask[r].status
       /\ (\A r \in Blocks(u) : ~ Blocked(r)) =>
             IF Told(log, Blocks(u)) = {} THEN rows[u] \in {Rows0[u], "active", "none"}
             ELSE \/ rows[u] = ask[LastBy(log, Blocks(u))].status
                  \/ rows[u] = "none" /\ cloud[u] = "gone"

CountedTold(a) ==
    Undisturbed(a) =>
       /\ \A r \in Sets(a) : at[r] = "record" => counted[a] = ask[r].flag
       /\ (\A r \in Sets(a) : at[r] # "record") =>
             counted[a] = IF Told(log, Sets(a)) = {} THEN TRUE
                          ELSE ask[LastBy(log, Sets(a))].flag

\* A user who was created for a project is in it, or the trail says that he is not.
Granted(r) ==
    \/ ask[r].user \in members
    \/ \E i \in DOMAIN log : log[i] = [by |-> r, action |-> "user.grant_role", ok |-> FALSE]
GrantInv ==
    \A r \in Requests :
        at[r] \in {"record", "done"} /\ ask[r].kind = "create" /\ ask[r].flag
           /\ done[r] # Never /\ r \notin untold /\ cloud[ask[r].user] # "gone"
        => Granted(r)

TellInv ==
    /\ LogInv /\ DoneInv /\ GrantInv
    /\ \A u \in Users : CloudTold(u) /\ RowTold(u)
    /\ \A a \in Accounts : CountedTold(a)

\* Adding a row to a trail.
LEMMA ToldAppend ==
  ASSUME NEW trail \in Seq(LogRow), NEW row \in LogRow, NEW some
  PROVE  /\ DOMAIN Append(trail, row) = DOMAIN trail \cup {Len(trail) + 1}
         /\ \A i \in DOMAIN trail : Append(trail, row)[i] = trail[i] /\ i < Len(trail) + 1 /\ i \in Int
         /\ Append(trail, row)[Len(trail) + 1] = row
         /\ row.ok /\ row.by \in some =>
               Told(Append(trail, row), some) = Told(trail, some) \cup {Len(trail) + 1}
         /\ ~ (row.ok /\ row.by \in some) => Told(Append(trail, row), some) = Told(trail, some)
<1> DEFINE longer == Append(trail, row)
<1>1. /\ DOMAIN longer = DOMAIN trail \cup {Len(trail) + 1}
      /\ \A i \in DOMAIN trail : longer[i] = trail[i] /\ i < Len(trail) + 1 /\ i \in Int
      /\ longer[Len(trail) + 1] = row
      /\ Len(trail) + 1 \notin DOMAIN trail
  OBVIOUS
<1> HIDE DEF longer
<1>2. row.ok /\ row.by \in some => Told(longer, some) = Told(trail, some) \cup {Len(trail) + 1}
  BY <1>1 DEF Told
<1>3. ~ (row.ok /\ row.by \in some) => Told(longer, some) = Told(trail, some)
  BY <1>1 DEF Told
<1> QED BY <1>1, <1>2, <1>3 DEF longer

LEMMA LastAppend ==
  ASSUME NEW trail \in Seq(LogRow), NEW row \in LogRow, NEW some, HasLast(trail, some)
  PROVE  /\ HasLast(Append(trail, row), some)
         /\ row.ok /\ row.by \in some =>
               Told(Append(trail, row), some) # {} /\ LastBy(Append(trail, row), some) = row.by
         /\ ~ (row.ok /\ row.by \in some) /\ Told(trail, some) # {} =>
               LastBy(Append(trail, row), some) = LastBy(trail, some)
<1> DEFINE longer == Append(trail, row)
           end == Len(trail) + 1
<1>1. /\ \A i \in DOMAIN trail : longer[i] = trail[i] /\ i < end /\ i \in Int
      /\ longer[end] = row /\ end \in Int
      /\ row.ok /\ row.by \in some => Told(longer, some) = Told(trail, some) \cup {end}
      /\ ~ (row.ok /\ row.by \in some) => Told(longer, some) = Told(trail, some)
  BY ToldAppend
<1>2. Told(trail, some) \subseteq DOMAIN trail
  BY DEF Told
<1> HIDE DEF longer, end
<1>3. CASE row.ok /\ row.by \in some
  <2>1. end \in Told(longer, some) /\ \A j \in Told(longer, some) : j <= end
    BY <1>1, <1>2, <1>3
  <2>2. \A i \in Told(longer, some) : (\A j \in Told(longer, some) : j <= i) => i = end
    BY <1>1, <1>2, <1>3, <2>1
  <2>3. (CHOOSE i \in Told(longer, some) : \A j \in Told(longer, some) : j <= i) = end
    BY <2>1, <2>2
  <2>4. LastBy(longer, some) = row.by
    BY <1>1, <2>3 DEF LastBy
  <2> QED BY <1>3, <2>1, <2>4 DEF HasLast, longer
<1>4. CASE ~ (row.ok /\ row.by \in some)
  <2>1. Told(longer, some) = Told(trail, some)
    BY <1>1, <1>4
  <2>2. HasLast(longer, some)
    BY <2>1 DEF HasLast
  <2>3. ASSUME Told(trail, some) # {} PROVE LastBy(longer, some) = LastBy(trail, some)
    <3> DEFINE last == CHOOSE i \in Told(trail, some) : \A j \in Told(trail, some) : j <= i
    <3>1. last \in Told(trail, some)
      BY <2>3 DEF HasLast
    <3>2. LastBy(longer, some) = longer[last].by /\ LastBy(trail, some) = trail[last].by
      BY <2>1 DEF LastBy
    <3> HIDE DEF last
    <3> QED BY <1>1, <1>2, <3>1, <3>2
  <2> QED BY <1>4, <2>2, <2>3 DEF longer
<1> QED BY <1>3, <1>4

\* Who is the last is one of those it is asked of.
LEMMA LastIsOne ==
  ASSUME TypeInv, LogInv, NEW some \in SUBSET Requests, Told(log, some) # {}
  PROVE  LastBy(log, some) \in some /\ at[LastBy(log, some)] \in {"drop", "done"}
<1> DEFINE last == CHOOSE i \in Told(log, some) : \A j \in Told(log, some) : j <= i
<1>1. last \in Told(log, some)
  BY DEF LogInv, HasLast
<1>2. LastBy(log, some) = log[last].by
  BY DEF LastBy
<1> HIDE DEF last
<1> QED BY <1>1, <1>2 DEF Told, LogInv

\* Two sets of requests that do not differ in who has been recorded.
LEMMA ToldAlike ==
  ASSUME TypeInv, LogInv, NEW some, NEW others,
         \A q \in Requests : at[q] \in {"drop", "done"} => (q \in some <=> q \in others)
  PROVE  Told(log, some) = Told(log, others) /\ LastBy(log, some) = LastBy(log, others)
<1>1. \A i \in DOMAIN log : log[i] \in LogRow
  <2>1. log \in Seq(LogRow)
    BY DEF TypeInv, UserAdminTypeOK, LogRow
  <2> QED BY <2>1
<1>2. \A i \in DOMAIN log : log[i].by \in Requests
  BY <1>1 DEF LogRow
<1>3. Told(log, some) = Told(log, others)
  BY <1>2 DEF Told, LogInv
<1> QED BY <1>3 DEF LastBy

\* What a step writes.
LEMMA LogStep ==
  ASSUME TypeInv, NEW r \in Requests, StepOf(r)
  PROVE  /\ log \in Seq(LogRow)
         /\ \/ log' = log
            \/ \E row \in LogRow : log' = Append(log, row) /\ row.by = r /\ (row.ok => Record(r))
         /\ Record(r) => \/ r \in untold' /\ log' = log
                         \/ \E row \in LogRow : log' = Append(log, row) /\ row.by = r /\ row.ok
<1>1. log \in Seq(LogRow)
  BY DEF TypeInv, UserAdminTypeOK, LogRow
<1>2. ASSUME NEW action \in Actions, NEW ok \in BOOLEAN, Writes(r, action, ok)
      PROVE  \E row \in LogRow : log' = Append(log, row) /\ row.by = r /\ row.ok = ok
  <2>1. [by |-> r, action |-> action, ok |-> ok] \in LogRow
    BY DEF LogRow
  <2> QED BY <1>2, <2>1 DEF Writes
<1>3. \A action \in Actions : Refused(r, action) =>
         log' = log \/ \E row \in LogRow : log' = Append(log, row) /\ row.by = r /\ ~ row.ok
  BY <1>2 DEF Refused
<1>4. CASE Record(r)
  <2>1. at[r] = "record" /\ Fits(ask[r], at[r])
    BY <1>4, FieldsOf DEF Record
  <2> DEFINE action == CASE ask[r].kind \in {"switch", "change"} -> "user.update"
                         [] ask[r].kind = "create" -> "user.create"
                         [] ask[r].kind = "delete" -> "user.delete"
                         [] ask[r].kind = "settings" -> "account.settings.update"
  <2>2. ask[r].kind \in {"switch", "change"} => action = "user.update"
    OBVIOUS
  <2>3. ask[r].kind = "create" => action = "user.create"
    OBVIOUS
  <2>4. ask[r].kind = "delete" => action = "user.delete"
    OBVIOUS
  <2>5. ask[r].kind = "settings" => action = "account.settings.update"
    OBVIOUS
  <2>6. Writes(r, action, TRUE) \/ (Untold(r) /\ UNCHANGED log)
    BY <1>4 DEF Record
  <2> HIDE DEF action
  <2>7. action \in Actions
    BY <2>1, <2>2, <2>3, <2>4, <2>5 DEF Fits, Actions
  <2> QED BY <1>1, <1>2, <1>4, <2>6, <2>7 DEF Untold
<1>5. CASE SwitchCloud(r) \/ Change(r) \/ Create(r) \/ Delete(r)
  <2>1. {"user.update", "user.create", "user.delete"} \subseteq Actions
    BY DEF Actions
  <2>2. \E action \in Actions : Refused(r, action) \/ log' = log
    BY <1>5, <2>1 DEF SwitchCloud, Change, Create, Delete
  <2>3. ~ Record(r)
    BY <1>5 DEF SwitchCloud, Change, Create, Delete, Record
  <2> QED BY <1>1, <1>3, <2>2, <2>3
<1>6. CASE Grant(r)
  <2>1. "user.grant_role" \in Actions
    BY DEF Actions
  <2>2. log' = log \/ Writes(r, "user.grant_role", FALSE)
    BY <1>6 DEF Grant
  <2>3. ~ Record(r)
    BY <1>6 DEF Grant, Record
  <2> QED BY <1>1, <1>2, <2>1, <2>2, <2>3
<1>7. CASE ~ (Record(r) \/ SwitchCloud(r) \/ Change(r) \/ Create(r) \/ Delete(r) \/ Grant(r))
  <2>1. UNCHANGED log
    BY <1>7
    DEF StepOf, Arrive, ListStep, LookUp, Fetch, Store, OperatorStep, SwitchCabinet, Forget,
        SetCounted, AdminStep, FindUser, Drop, SignInStep, Authenticate, Upsert, Die
  <2> QED BY <1>1, <1>7, <2>1
<1> QED BY <1>4, <1>5, <1>6, <1>7

\* Recorded success stays the last of those it was the last of.
LEMMA ToldLasts ==
  ASSUME TypeInv, LogInv, NEW r \in Requests, StepOf(r), NEW some \in SUBSET Requests, NEW others,
         \A q \in Requests : at[q] \in {"drop", "done"} => (q \in some <=> q \in others),
         ~ Record(r) \/ r \notin others
  PROVE  /\ Told(log', others) = Told(log, some)
         /\ Told(log, some) # {} =>
               /\ LastBy(log', others) = LastBy(log, some)
               /\ LastBy(log, some) \in some
               /\ ask'[LastBy(log, some)] = ask[LastBy(log, some)]
<1>1. Told(log, others) = Told(log, some) /\ LastBy(log, others) = LastBy(log, some)
  BY ToldAlike
<1>2. Told(log, some) # {} =>
         LastBy(log, some) \in some /\ ask'[LastBy(log, some)] = ask[LastBy(log, some)]
  BY LastIsOne, StepLasting DEF Lasting
<1>3. HasLast(log, others)
  BY <1>1 DEF LogInv, HasLast
<1>4. CASE log' = log
  BY <1>1, <1>2, <1>4
<1>5. CASE log' # log
  <2>1. PICK row \in LogRow : log' = Append(log, row) /\ ~ (row.ok /\ row.by \in others)
    BY <1>5, LogStep
  <2>2. Told(log', others) = Told(log, others)
    BY <2>1, LogStep, ToldAppend
  <2>3. Told(log, others) # {} => LastBy(log', others) = LastBy(log, others)
    BY <1>3, <2>1, LogStep, LastAppend
  <2> QED BY <1>1, <1>2, <2>2, <2>3
<1> QED BY <1>4, <1>5

\* A success that has just been recorded is the last.
LEMMA ToldNow ==
  ASSUME TypeInv, LogInv, NEW r \in Requests, StepOf(r), Record(r), r \notin untold',
         NEW some \in SUBSET Requests, r \in some
  PROVE  Told(log', some) # {} /\ LastBy(log', some) = r
<1>1. PICK row \in LogRow : log' = Append(log, row) /\ row.by = r /\ row.ok
  BY LogStep
<1>2. HasLast(log, some)
  BY DEF LogInv
<1> QED BY <1>1, <1>2, LogStep, LastAppend

LEMMA LogKeeps == ASSUME TypeInv, LogInv, NEW r \in Requests, StepOf(r) PROVE LogInv'
<1>1. ASSUME NEW q \in Requests, at[q] \in {"drop", "done"} PROVE at'[q] \in {"drop", "done"}
  <2>1. CASE q # r
    BY <1>1, <2>1, OthersUnmoved DEF Unmoved
  <2>2. CASE q = r
    <3>1. Drop(r) \/ Die(r)
      BY <1>1, <2>2
      DEF StepOf, Arrive, ListStep, LookUp, Fetch, Store, OperatorStep, SwitchCloud, SwitchCabinet,
          Forget, SetCounted, AdminStep, Create, Grant, FindUser, Change, Delete, SignInStep,
          Authenticate, Upsert, Record
    <3> QED BY <2>2, <3>1 DEF Drop, Die, Goes, TypeInv, UserAdminTypeOK
  <2> QED BY <2>1, <2>2
<1>2. log \in Seq(LogRow) /\ \A i \in DOMAIN log : log[i].by \in Requests
  <2>1. log \in Seq(LogRow)
    BY LogStep
  <2>2. \A i \in DOMAIN log : log[i] \in LogRow
    BY <2>1
  <2> QED BY <2>1, <2>2 DEF LogRow
<1>3. CASE log' = log
  <2>1. \A i \in DOMAIN log' : log'[i].ok => at'[log'[i].by] \in {"drop", "done"}
    BY <1>1, <1>2, <1>3 DEF LogInv
  <2>2. \A some \in SUBSET Requests : HasLast(log', some)
    BY <1>3 DEF LogInv
  <2> QED BY <2>1, <2>2 DEF LogInv, HasLast, Told
<1>4. CASE log' # log
  <2>1. PICK row \in LogRow : log' = Append(log, row) /\ row.by = r /\ (row.ok => Record(r))
    BY <1>4, LogStep
  <2>2. Record(r) => at'[r] \in {"drop", "done"}
    BY DEF Record, Goes, TypeInv, UserAdminTypeOK
  <2>3. /\ DOMAIN log' = DOMAIN log \cup {Len(log) + 1}
        /\ \A i \in DOMAIN log : log'[i] = log[i]
        /\ log'[Len(log) + 1] = row
    BY <1>2, <2>1, ToldAppend
  <2>4. \A i \in DOMAIN log' : log'[i].ok => at'[log'[i].by] \in {"drop", "done"}
    BY <1>1, <1>2, <2>1, <2>2, <2>3 DEF LogInv
  <2>5. \A some \in SUBSET Requests : HasLast(log', some)
    BY <1>2, <2>1, LastAppend DEF LogInv
  <2> QED BY <2>4, <2>5 DEF LogInv, HasLast, Told
<1> QED BY <1>3, <1>4

\* What has befallen the requests about a user has befallen them for good.
LEMMA WasUndisturbed ==
  ASSUME TypeInv, NEW r \in Requests, StepOf(r), NEW x, Undisturbed(x)'
  PROVE  Undisturbed(x) /\ Asked(x) \subseteq Asked(x)'
<1>1. Lasting
  BY StepLasting
<1>2. Asked(x) \subseteq Asked(x)'
  BY <1>1 DEF Lasting, Asked, Target
<1> QED BY <1>1, <1>2 DEF Undisturbed, Lasting, Crossed

\* Who works on a user undisturbed works alone.
LEMMA AloneAtIt ==
  ASSUME TypeInv, CrossInv, NEW r \in Requests, StepOf(r), NEW x, Undisturbed(x)', r \in Asked(x)',
         NEW q \in Requests \ {r}, q \in Asked(x)'
  PROVE  ~ Open(q) /\ Unmoved(q)
<1>1. Unmoved(q) /\ Lasting
  BY OthersUnmoved, StepLasting
<1>2. SUFFICES ASSUME Open(q) PROVE FALSE
  BY <1>1
<1>3. Open(q)' /\ ask'[q].kind # "list" /\ ask'[r].kind # "list" /\ Target(q)' = Target(r)'
  BY <1>1, <1>2 DEF Unmoved, Open, Asked
<1>4. CASE Arrive(r)
  <2>1. ask[q].kind # "list" /\ Target(q) = Target(r)'
    BY <1>1, <1>3 DEF Unmoved, Target
  <2>2. {q, r} \in crossed'
    BY <1>2, <1>3, <1>4, <2>1 DEF Arrive
  <2> QED BY <2>2 DEF Undisturbed, Crossed
<1>5. CASE ~ Arrive(r)
  <2>1. Open(r) /\ UNCHANGED ask
    BY <1>5, WasOpen
  <2>2. Crossed(q, r)
    BY <1>2, <1>3, <2>1 DEF CrossInv, Target
  <2> QED BY <1>1, <2>2 DEF Undisturbed, Crossed, Lasting
<1> QED BY <1>4, <1>5

\* How a request arrives.
LEMMA ArriveFacts ==
  ASSUME TypeInv, NEW r \in Requests, Arrive(r)
  PROVE  /\ at[r] = "new" /\ Sensible(ask'[r]) /\ Fits(ask'[r], at'[r]) /\ at'[r] # "new"
         /\ ask'[r].kind = "switch" =>
               at'[r] = IF ask'[r].enabled = Nothing THEN "block" ELSE "switch"
         /\ at'[r] \in {"look up", "block", "switch", "create", "find", "set", "authenticate"}
         /\ UNCHANGED <<stores, log, done, untold, blocks>>
<1>1. PICK request \in Bodies[r] :
        Sensible(request) /\ ask' = [ask EXCEPT ![r] = request] /\ Goes(r, FirstStep(request))
  BY DEF Arrive
<1>2. request \in Request
  BY UserAdminAssumption
<1>3. ask'[r] = request /\ at'[r] = FirstStep(request)
  BY <1>1, <1>2, FirstStepFits DEF Goes, TypeInv, UserAdminTypeOK
<1>4. Fits(request, FirstStep(request)) /\ FirstStep(request) # "new"
  BY <1>1, <1>2, FirstStepFits
<1>5. request.kind = "switch" =>
         FirstStep(request) = IF request.enabled = Nothing THEN "block" ELSE "switch"
  BY DEF FirstStep
<1>6. FirstStep(request) \in {"look up", "block", "switch", "create", "find", "set", "authenticate"}
  <2>1. request.kind \in RequestKinds
    BY <1>2, RequestFields
  <2>2. /\ request.kind = "list" => FirstStep(request) = "look up"
        /\ request.kind = "create" => FirstStep(request) = "create"
        /\ request.kind \in {"change", "delete"} => FirstStep(request) = "find"
    BY DEF FirstStep
  <2>3. /\ request.kind = "settings" => FirstStep(request) = "set"
        /\ request.kind = "signIn" => FirstStep(request) = "authenticate"
    BY DEF FirstStep
  <2> QED BY <1>5, <2>1, <2>2, <2>3 DEF RequestKinds
<1>7. at[r] = "new" /\ UNCHANGED <<stores, log, done, untold, blocks>>
  BY DEF Arrive
<1>8. Sensible(ask'[r]) /\ Fits(ask'[r], at'[r]) /\ at'[r] # "new"
  BY <1>1, <1>3, <1>4
<1>9. ask'[r].kind = "switch" =>
         at'[r] = IF ask'[r].enabled = Nothing THEN "block" ELSE "switch"
  BY <1>3, <1>5
<1> QED BY <1>3, <1>6, <1>7, <1>8, <1>9

\* What is next after a step.
LEMMA GoesTo ==
  ASSUME TypeInv, NEW r \in Requests, StepOf(r), ~ Arrive(r)
  PROVE  /\ at'[r] = "block" => SwitchCloud(r) /\ CarriedOut(r)
         /\ at'[r] = "forget" => (SwitchCloud(r) \/ SwitchCabinet(r)) /\ CarriedOut(r)
         /\ at'[r] = "grant" => Create(r) /\ CarriedOut(r)
         /\ at'[r] = "record" =>
               \/ Forget(r) \/ Grant(r)
               \/ (SetCounted(r) \/ Create(r) \/ Change(r) \/ Delete(r)) /\ CarriedOut(r)
         /\ at'[r] = "drop" => Record(r)
         /\ at'[r] \notin {"new", "create", "switch"}
<1>1. \A step : Goes(r, step) => at'[r] = step
  BY DEF Goes, TypeInv, UserAdminTypeOK
<1>2. \A action : Refused(r, action) => at'[r] = "done"
  BY <1>1 DEF Refused
<1>3. CASE ListStep(r) \/ SignInStep(r)
  BY <1>1, <1>3 DEF ListStep, LookUp, Fetch, Store, SignInStep, Authenticate, Upsert
<1>4. CASE OperatorStep(r)
  BY <1>1, <1>2, <1>4 DEF OperatorStep, SwitchCloud, SwitchCabinet, Forget, SetCounted
<1>5. CASE Create(r) \/ Grant(r) \/ Change(r) \/ Delete(r) \/ Drop(r)
  BY <1>1, <1>2, <1>5 DEF Create, Grant, Change, Delete, Drop
<1>6. CASE FindUser(r)
  <2>1. at[r] = "find" /\ Fits(ask[r], at[r])
    BY <1>6, FieldsOf DEF FindUser
  <2>2. at'[r] \in {"change", "delete", "done"}
    BY <1>1, <1>6, <2>1 DEF FindUser, Fits
  <2> QED BY <2>2
<1>7. CASE Record(r)
  <2>1. at'[r] \in {"drop", "done"}
    <3>1. Goes(r, IF ask[r].kind = "delete" THEN "drop" ELSE "done")
      BY <1>7 DEF Record
    <3> QED BY <1>1, <3>1
  <2> QED BY <1>7, <2>1
<1>8. CASE Die(r)
  BY <1>1, <1>8 DEF Die
<1> QED BY <1>3, <1>4, <1>5, <1>6, <1>7, <1>8 DEF StepOf, AdminStep

LEMMA IdleStep ==
  ASSUME NEW r \in Requests, StepOf(r)
  PROVE  /\ idle \subseteq idle'
         /\ idle' \subseteq idle \cup {r} /\ (idle' # idle => SwitchCabinet(r))
<1>1. CASE SwitchCabinet(r)
  BY <1>1 DEF SwitchCabinet
<1>2. CASE ~ SwitchCabinet(r)
  <2>1. UNCHANGED idle
    BY <1>2
    DEF StepOf, Arrive, ListStep, LookUp, Fetch, Store, OperatorStep, SwitchCloud, Forget,
        SetCounted, AdminStep, Create, Grant, FindUser, Change, Delete, Drop, SignInStep,
        Authenticate, Upsert, Record, Die, blocks
  <2> QED BY <2>1
<1> QED BY <1>1, <1>2

LEMMA DoneKeeps == ASSUME TypeInv, DoneInv, NEW r \in Requests, StepOf(r) PROVE DoneInv'
<1> SUFFICES ASSUME NEW q \in Requests
             PROVE  /\ at'[q] # "new" => Sensible(ask'[q])
                    /\ at'[q] \in {"forget", "grant", "record", "drop"} => done'[q] # Never
                    /\ at'[q] = "block" /\ ask'[q].enabled # Nothing => done'[q] # Never
                    /\ at'[q] \in {"new", "create"} => done'[q] = Never
                    /\ at'[q] \in {"new", "switch", "block"} => q \notin idle'
  BY DEF DoneInv
<1>1. CASE q # r
  <2>1. Unmoved(q) /\ (q \in idle' => q \in idle)
    BY <1>1, OthersUnmoved, IdleStep
  <2>2. done'[q] = done[q]
    <3>1. CarriedOut(r) \/ UNCHANGED done
      BY DEF StepOf, Arrive, ListStep, LookUp, Fetch, Store, OperatorStep, SwitchCloud, SwitchCabinet,
             Forget, SetCounted, AdminStep, Create, Grant, FindUser, Change, Delete, Drop, SignInStep,
             Authenticate, Upsert, Record, Die
    <3> QED BY <1>1, <3>1 DEF CarriedOut, TypeInv, UserAdminTypeOK
  <2> QED BY <2>1, <2>2 DEF Unmoved, DoneInv
<1>2. CASE q = r /\ Arrive(r)
  <2>1. Sensible(ask'[r]) /\ at[r] = "new" /\ at'[r] \notin {"new", "forget", "grant", "record", "drop"}
    BY <1>2, ArriveFacts
  <2>2. at'[r] = "block" => ask'[r].enabled = Nothing
    <3>1. Fits(ask'[r], at'[r])
      BY <1>2, ArriveFacts
    <3>2. at'[r] = "block" => ask'[r].kind = "switch"
      BY <3>1 DEF Fits
    <3>3. at'[r] = "block" => at'[r] = IF ask'[r].enabled = Nothing THEN "block" ELSE "switch"
      BY <1>2, <3>2, ArriveFacts
    <3> QED BY <3>3
  <2>3. done'[r] = Never /\ r \notin idle'
    <3>1. done' = done /\ idle' = idle
      BY <1>2, ArriveFacts DEF blocks
    <3> QED BY <2>1, <3>1 DEF DoneInv
  <2> QED BY <1>2, <2>1, <2>2, <2>3
<1>3. CASE q = r /\ ~ Arrive(r)
  <2>1. Open(r) /\ UNCHANGED ask /\ Sensible(ask[r]) /\ Fits(ask[r], at[r])
    BY <1>3, WasOpen, FieldsOf DEF Open, DoneInv
  <2>2. at'[r] \notin {"new", "create"}
    BY <1>3, GoesTo
  <2>3. at'[r] \in {"block", "forget", "grant", "record", "drop"} =>
           \/ CarriedOut(r)
           \/ done'[r] = done[r] /\ at[r] \in {"forget", "grant", "record", "drop"}
    BY <1>3, GoesTo DEF Forget, Grant, Record
  <2>4. at'[r] \in {"new", "switch", "block"} => r \notin idle'
    <3>1. at'[r] \in {"new", "switch", "block"} => SwitchCloud(r)
      BY <1>3, GoesTo
    <3> QED BY <3>1 DEF DoneInv, SwitchCloud, blocks
  <2> QED BY <1>3, <2>1, <2>2, <2>3, <2>4, CarriedOutDone DEF DoneInv
<1> QED BY <1>1, <1>2, <1>3

-----------------------------------------------------------------------------
(* What is told of a user in the cloud. *)

\* A request that changes a user in the cloud, and goes on without being cut short.
LEMMA TurnStep ==
  ASSUME TypeInv, DoneInv, NEW r \in Requests, StepOf(r), ~ Arrive(r), NEW u \in Users,
         r \in Turns(u), r \notin untold'
  PROVE  /\ Turned(r)' => cloud'[u] = TurnsTo(ask[r]) \/ (Turned(r) /\ cloud'[u] = cloud[u])
         /\ ~ Turned(r)' => cloud'[u] = cloud[u] /\ (Turned(r) => Record(r))
<1>1. /\ at[r] # "new" /\ Fits(ask[r], at[r]) /\ Sensible(ask[r]) /\ ask[r].user = u
      /\ ask[r].kind \in {"switch", "create", "change", "delete"}
      /\ ask[r].kind \in {"switch", "change"} => ask[r].enabled # Nothing
  BY FieldsOf DEF Turns, DoneInv
<1>2. \A step : Goes(r, step) => at'[r] = step
  BY DEF Goes, TypeInv, UserAdminTypeOK
<1>3. \A action : Refused(r, action) => at'[r] = "done"
  BY <1>2 DEF Refused
<1>4. \A state : cloud' = [cloud EXCEPT ![u] = state] => cloud'[u] = state
  BY DEF TypeInv, UserAdminTypeOK
<1>5. ~ Untold(r)
  BY DEF Untold
<1>6. CASE SwitchCloud(r)
  <2>1. at[r] = "switch" /\ ask[r].kind = "switch"
    BY <1>1, <1>6 DEF SwitchCloud, Fits
  <2>2. \/ cloud' = [cloud EXCEPT ![u] = ask[r].enabled] /\ at'[r] \in {"forget", "block"}
        \/ cloud' = cloud /\ at'[r] = "done"
    BY <1>1, <1>2, <1>3, <1>5, <1>6 DEF SwitchCloud
  <2> QED BY <1>4, <2>1, <2>2 DEF Turned, TurnsTo
<1>7. CASE SwitchCabinet(r)
  <2>1. at[r] = "block" /\ ask[r].kind = "switch" /\ cloud' = cloud
    BY <1>1, <1>7 DEF SwitchCabinet, Fits
  <2>2. done[r] # Never
    BY <1>1, <2>1 DEF DoneInv
  <2>3. at'[r] = "forget"
    BY <1>2, <1>7, <2>2 DEF SwitchCabinet
  <2> QED BY <2>1, <2>3 DEF Turned
<1>8. CASE Forget(r) \/ Grant(r)
  <2>1. at[r] \in {"forget", "grant"} /\ cloud' = cloud
    BY <1>8 DEF Forget, Grant, stores
  <2>2. at'[r] = "record"
    BY <1>2, <1>5, <1>8 DEF Forget, Grant
  <2> QED BY <2>1, <2>2 DEF Turned
<1>9. CASE Create(r)
  <2>1. at[r] = "create" /\ ask[r].kind = "create"
    BY <1>1, <1>9 DEF Create, Fits
  <2>2. \/ cloud' = [cloud EXCEPT ![u] = "on"] /\ at'[r] \in {"grant", "record"}
        \/ cloud' = cloud /\ at'[r] = "done"
    BY <1>1, <1>2, <1>3, <1>5, <1>9 DEF Create
  <2> QED BY <1>4, <2>1, <2>2 DEF Turned, TurnsTo
<1>10. CASE Change(r)
  <2>1. at[r] = "change" /\ ask[r].kind = "change"
    BY <1>1, <1>10 DEF Change, Fits
  <2>2. \/ cloud' = [cloud EXCEPT ![u] = ask[r].enabled] /\ at'[r] = "record"
        \/ cloud' = cloud /\ at'[r] = "done"
    BY <1>1, <1>2, <1>3, <1>5, <1>10, <2>1 DEF Change
  <2> QED BY <1>4, <2>1, <2>2 DEF Turned, TurnsTo
<1>11. CASE Delete(r)
  <2>1. at[r] = "delete" /\ ask[r].kind = "delete"
    BY <1>1, <1>11 DEF Delete, Fits
  <2>2. \/ cloud' = [cloud EXCEPT ![u] = "gone"] /\ at'[r] = "record"
        \/ cloud' = cloud /\ at'[r] = "done"
    BY <1>1, <1>2, <1>3, <1>5, <1>11 DEF Delete
  <2> QED BY <1>4, <2>1, <2>2 DEF Turned, TurnsTo
<1>12. CASE FindUser(r) \/ Drop(r)
  <2>1. at[r] \in {"find", "drop"} /\ cloud' = cloud
    BY <1>12 DEF FindUser, Drop, stores
  <2>2. at'[r] \in {"change", "delete", "done"}
    BY <1>1, <1>2, <1>12 DEF FindUser, Drop, Fits
  <2> QED BY <2>1, <2>2 DEF Turned
<1>13. CASE Record(r)
  <2>1. cloud' = cloud
    BY <1>13 DEF Record, stores
  <2>2. Goes(r, IF ask[r].kind = "delete" THEN "drop" ELSE "done")
    BY <1>13 DEF Record
  <2>3. at'[r] \in {"drop", "done"}
    BY <1>2, <2>2
  <2> QED BY <1>13, <2>1, <2>3 DEF Turned
<1>14. CASE Die(r)
  <2>1. cloud' = cloud /\ at'[r] = "done" /\ done[r] = Never
    BY <1>2, <1>14 DEF Die, stores
  <2>2. at[r] = "block" => ask[r].kind = "switch"
    BY <1>1 DEF Fits
  <2>3. ~ Turned(r)
    BY <1>1, <2>1, <2>2 DEF DoneInv, Turned
  <2> QED BY <2>1, <2>3 DEF Turned
<1>15. CASE ListStep(r) \/ SetCounted(r) \/ SignInStep(r)
  <2>1. at[r] \in {"look up", "fetch", "store", "set", "authenticate", "upsert"}
    BY <1>15 DEF ListStep, LookUp, Fetch, Store, SetCounted, SignInStep, Authenticate, Upsert
  <2> QED BY <1>1, <2>1 DEF Fits
<1> QED BY <1>6, <1>7, <1>8, <1>9, <1>10, <1>11, <1>12, <1>13, <1>14, <1>15
        DEF StepOf, OperatorStep, AdminStep

\* Nobody else changes the user.
LEMMA CloudLeft ==
  ASSUME TypeInv, NEW r \in Requests, StepOf(r), NEW u \in Users, r \notin Turns(u)
  PROVE  cloud'[u] = cloud[u]
<1>1. CASE SwitchCloud(r)
  <2>1. at[r] = "switch" /\ Fits(ask[r], at[r])
    BY <1>1, FieldsOf DEF SwitchCloud
  <2>2. ask[r].user # u
    BY <2>1, UserAdminAssumption DEF Turns, Fits
  <2>3. \E state : cloud' \in {cloud, [cloud EXCEPT ![ask[r].user] = state]}
    BY <1>1 DEF SwitchCloud
  <2> QED BY <2>2, <2>3 DEF TypeInv, UserAdminTypeOK
<1>2. CASE Create(r) \/ Delete(r)
  <2>1. at[r] \in {"create", "delete"} /\ Fits(ask[r], at[r])
    BY <1>2, FieldsOf DEF Create, Delete
  <2>2. ask[r].user # u
    BY <2>1 DEF Turns, Fits
  <2>3. \E state : cloud' \in {cloud, [cloud EXCEPT ![ask[r].user] = state]}
    BY <1>2 DEF Create, Delete
  <2> QED BY <2>2, <2>3 DEF TypeInv, UserAdminTypeOK
<1>3. CASE Change(r)
  <2>1. at[r] = "change" /\ Fits(ask[r], at[r])
    BY <1>3, FieldsOf DEF Change
  <2>2. ask[r].user # u \/ ask[r].enabled = Nothing
    BY <2>1 DEF Turns, Fits
  <2>3. \/ cloud' = cloud
        \/ ask[r].enabled # Nothing /\ cloud' = [cloud EXCEPT ![ask[r].user] = ask[r].enabled]
    BY <1>3 DEF Change
  <2> QED BY <2>2, <2>3 DEF TypeInv, UserAdminTypeOK
<1>4. CASE ~ (SwitchCloud(r) \/ Create(r) \/ Delete(r) \/ Change(r))
  <2>1. UNCHANGED cloud
    BY <1>4
    DEF StepOf, Arrive, ListStep, LookUp, Fetch, Store, OperatorStep, SwitchCabinet, Forget,
        SetCounted, AdminStep, Grant, FindUser, Drop, SignInStep, Authenticate, Upsert, Record, Die,
        stores
  <2> QED BY <2>1
<1> QED BY <1>1, <1>2, <1>3, <1>4

\* Those who have arrived go on asking for the same.
LEMMA TurnsLast ==
  ASSUME TypeInv, NEW r \in Requests, StepOf(r), NEW u
  PROVE  /\ \A q \in Requests : at[q] # "new" => (q \in Turns(u)' <=> q \in Turns(u))
         /\ \A q \in Requests \ {r} : q \in Turns(u)' <=> q \in Turns(u)
         /\ Turns(u)' \subseteq Asked(u)'
<1>1. \A q \in Requests : at[q] # "new" => ask'[q] = ask[q] /\ at'[q] # "new"
  BY StepLasting DEF Lasting
<1>2. \A q \in Requests \ {r} : at'[q] = at[q] /\ ask'[q] = ask[q]
  BY OthersUnmoved DEF Unmoved
<1>3. \A q \in Requests : at[q] # "new" => (q \in Turns(u)' <=> q \in Turns(u))
  BY <1>1 DEF Turns
<1>4. \A q \in Requests \ {r} : q \in Turns(u)' <=> q \in Turns(u)
  BY <1>2 DEF Turns
<1>5. Turns(u)' \subseteq Asked(u)'
  BY DEF Turns, Asked, Target
<1> QED BY <1>3, <1>4, <1>5

LEMMA CloudKeeps ==
  ASSUME TypeInv, CrossInv, LogInv, DoneInv, NEW r \in Requests, StepOf(r), NEW u \in Users,
         CloudTold(u)
  PROVE  CloudTold(u)'
<1> SUFFICES ASSUME Undisturbed(u)'
             PROVE  /\ \A q \in Turns(u)' : Turned(q)' => cloud'[u] = TurnsTo(ask'[q])
                    /\ (\A q \in Turns(u)' : ~ Turned(q)') =>
                          cloud'[u] = IF Told(log', Turns(u)') = {} THEN Cloud0[u]
                                      ELSE TurnsTo(ask'[LastBy(log', Turns(u)')])
  BY DEF CloudTold, Told, LastBy
<1>1. /\ \A q \in Turns(u) : Turned(q) => cloud[u] = TurnsTo(ask[q])
      /\ (\A q \in Turns(u) : ~ Turned(q)) =>
            cloud[u] = IF Told(log, Turns(u)) = {} THEN Cloud0[u]
                       ELSE TurnsTo(ask[LastBy(log, Turns(u))])
  BY WasUndisturbed DEF CloudTold
<1>2. /\ \A q \in Requests : at[q] # "new" => (q \in Turns(u)' <=> q \in Turns(u))
      /\ \A q \in Requests \ {r} : q \in Turns(u)' <=> q \in Turns(u)
      /\ Turns(u)' \subseteq Asked(u)'
      /\ Turns(u) \subseteq Requests /\ Turns(u)' \subseteq Requests
  BY TurnsLast DEF Turns
<1>3. \A q \in Requests \ {r} : (Turned(q)' <=> Turned(q)) /\ ask'[q] = ask[q]
  BY OthersUnmoved DEF Unmoved, Turned
<1>4. ~ Record(r) \/ r \notin Turns(u)' =>
         /\ Told(log', Turns(u)') = Told(log, Turns(u))
         /\ Told(log, Turns(u)) # {} =>
               TurnsTo(ask'[LastBy(log', Turns(u)')]) = TurnsTo(ask[LastBy(log, Turns(u))])
  <2> SUFFICES ASSUME ~ Record(r) \/ r \notin Turns(u)'
               PROVE  /\ Told(log', Turns(u)') = Told(log, Turns(u))
                      /\ Told(log, Turns(u)) # {} =>
                            ask'[LastBy(log', Turns(u)')] = ask[LastBy(log, Turns(u))]
    OBVIOUS
  <2> DEFINE others == Turns(u)'
  <2>1. \A q \in Requests : at[q] \in {"drop", "done"} => (q \in Turns(u) <=> q \in others)
    BY <1>2
  <2>2. ~ Record(r) \/ r \notin others
    OBVIOUS
  <2> HIDE DEF others
  <2>3. /\ Told(log', others) = Told(log, Turns(u))
        /\ Told(log, Turns(u)) # {} =>
              /\ LastBy(log', others) = LastBy(log, Turns(u))
              /\ ask'[LastBy(log, Turns(u))] = ask[LastBy(log, Turns(u))]
    BY <1>2, <2>1, <2>2, ToldLasts
  <2> QED BY <2>3 DEF others
<1>5. CASE r \notin Turns(u)'
  <2>1. Turns(u)' = Turns(u)
    <3>1. r \notin Turns(u)
      BY <1>2, <1>5 DEF Turns
    <3> QED BY <1>2, <1>5, <3>1
  <2>2. cloud'[u] = cloud[u]
    BY <1>5, <2>1, CloudLeft
  <2>3. \A q \in Turns(u)' : (Turned(q)' <=> Turned(q)) /\ ask'[q] = ask[q]
    BY <1>2, <1>3, <1>5
  <2> HIDE DEF Turns
  <2> QED BY <1>1, <1>4, <1>5, <2>1, <2>2, <2>3
<1>6. CASE r \in Turns(u)'
  <2>1. \A q \in Turns(u)' \ {r} : ~ Turned(q) /\ ~ Turned(q)'
    <3> SUFFICES ASSUME NEW q \in Turns(u)' \ {r} PROVE ~ Turned(q) /\ ~ Turned(q)'
      OBVIOUS
    <3>1. ~ Open(q)
      BY <1>2, <1>6, AloneAtIt
    <3> QED BY <1>2, <1>3, <3>1 DEF Open, Turned
  <2>2. r \notin untold'
    BY <1>2, <1>6 DEF Undisturbed
  <2>3. CASE Arrive(r)
    <3>1. cloud' = cloud /\ ~ Record(r) /\ at[r] = "new"
      BY <2>3, ArriveFacts DEF stores, Record
    <3>2. ~ Turned(r)'
      <4>1. at'[r] \in {"look up", "block", "switch", "create", "find", "set", "authenticate"}
            /\ Fits(ask'[r], at'[r])
        BY <2>3, ArriveFacts
      <4>2. ask'[r].kind = "switch" => ask'[r].enabled # Nothing /\ at'[r] = "switch"
        BY <1>6, <2>3, ArriveFacts DEF Turns
      <4>3. at'[r] # "block"
        BY <4>1, <4>2 DEF Fits
      <4> QED BY <4>1, <4>3 DEF Turned
    <3>3. \A q \in Turns(u) : q # r /\ ~ Turned(q)
      BY <1>2, <2>1, <3>1 DEF Turns
    <3> QED BY <1>1, <1>4, <2>1, <3>1, <3>2, <3>3
  <2>4. CASE ~ Arrive(r)
    <3>1. r \in Turns(u) /\ ask'[r] = ask[r]
      BY <1>2, <1>6, <2>4, WasOpen DEF Open
    <3>2. /\ Turned(r)' => cloud'[u] = TurnsTo(ask[r]) \/ (Turned(r) /\ cloud'[u] = cloud[u])
          /\ ~ Turned(r)' => cloud'[u] = cloud[u] /\ (Turned(r) => Record(r))
      BY <2>2, <2>4, <3>1, TurnStep
    <3>3. CASE Turned(r)'
      BY <1>1, <1>6, <2>1, <3>1, <3>2, <3>3
    <3>4. CASE ~ Turned(r)' /\ Turned(r)
      <4>1. Record(r) /\ cloud'[u] = TurnsTo(ask[r])
        BY <1>1, <3>1, <3>2, <3>4
      <4> DEFINE others == Turns(u)'
      <4>2. others \in SUBSET Requests /\ r \in others
        BY <1>2, <1>6
      <4> HIDE DEF others
      <4>3. Told(log', others) # {} /\ LastBy(log', others) = r
        BY <2>2, <4>1, <4>2, ToldNow
      <4>4. cloud'[u] = IF Told(log', Turns(u)') = {} THEN Cloud0[u]
                        ELSE TurnsTo(ask'[LastBy(log', Turns(u)')])
        BY <3>1, <4>1, <4>3 DEF others
      <4> QED BY <2>1, <3>4, <4>4
    <3>5. CASE ~ Turned(r)' /\ ~ Turned(r)
      <4>1. ~ Record(r)
        BY <3>5 DEF Record, Turned
      <4>2. \A q \in Turns(u) : ~ Turned(q)
        BY <1>2, <2>1, <3>5
      <4> QED BY <1>1, <1>4, <2>1, <3>2, <3>5, <4>1, <4>2
    <3> QED BY <3>3, <3>4, <3>5
  <2> QED BY <2>3, <2>4
<1> QED BY <1>5, <1>6

-----------------------------------------------------------------------------
(* What is told of a user's row. *)

\* An operator's switch of a row that is there.
LEMMA BlockStep ==
  ASSUME TypeInv, DoneInv, NEW r \in Requests, StepOf(r), ~ Arrive(r), NEW u \in Users,
         r \in Blocks(u), r \notin idle', r \notin untold'
  PROVE  /\ Blocked(r)' => rows'[u] = ask[r].status \/ (Blocked(r) /\ rows'[u] = rows[u])
         /\ ~ Blocked(r)' => rows'[u] = rows[u] /\ (Blocked(r) => Record(r))
<1>1. /\ at[r] # "new" /\ Fits(ask[r], at[r]) /\ ask[r].user = u /\ ask[r].kind = "switch"
      /\ ask[r].status \in {"active", "blocked"} /\ ask[r].status # Nothing
  BY FieldsOf, UserAdminAssumption DEF Blocks
<1>2. \A step : Goes(r, step) => at'[r] = step
  BY DEF Goes, TypeInv, UserAdminTypeOK
<1>3. \A action : Refused(r, action) => at'[r] = "done"
  BY <1>2 DEF Refused
<1>4. ~ Untold(r)
  BY DEF Untold
<1>5. CASE SwitchCloud(r)
  <2>1. at[r] = "switch" /\ rows' = rows /\ at'[r] \in {"block", "done"}
    BY <1>1, <1>2, <1>3, <1>5 DEF SwitchCloud
  <2> QED BY <2>1 DEF Blocked
<1>6. CASE SwitchCabinet(r)
  <2>1. at[r] = "block" /\ rows' = [rows EXCEPT ![u] = ask[r].status] /\ at'[r] = "forget"
    BY <1>1, <1>2, <1>6 DEF SwitchCabinet
  <2>2. rows'[u] = ask[r].status
    BY <2>1 DEF TypeInv, UserAdminTypeOK
  <2> QED BY <2>1, <2>2 DEF Blocked
<1>7. CASE Forget(r)
  <2>1. at[r] = "forget" /\ rows' = rows /\ at'[r] = "record"
    BY <1>2, <1>4, <1>7 DEF Forget, stores
  <2> QED BY <2>1 DEF Blocked
<1>8. CASE Record(r)
  <2>1. rows' = rows /\ Goes(r, IF ask[r].kind = "delete" THEN "drop" ELSE "done")
    BY <1>8 DEF Record, stores
  <2>2. at'[r] \in {"drop", "done"}
    BY <1>2, <2>1
  <2> QED BY <1>8, <2>1, <2>2 DEF Blocked
<1>9. CASE Die(r)
  <2>1. rows' = rows /\ at'[r] = "done" /\ done[r] = Never
    BY <1>2, <1>9 DEF Die, stores
  <2>2. ~ Blocked(r)
    BY <1>1, <2>1 DEF DoneInv, Blocked
  <2> QED BY <2>1, <2>2 DEF Blocked
<1>10. CASE ListStep(r) \/ SetCounted(r) \/ AdminStep(r) \/ SignInStep(r)
  <2>1. at[r] \in {"look up", "fetch", "store", "set", "create", "grant", "find", "change", "delete",
                   "drop", "authenticate", "upsert"}
    BY <1>10 DEF ListStep, LookUp, Fetch, Store, SetCounted, AdminStep, Create, Grant, FindUser,
                 Change, Delete, Drop, SignInStep, Authenticate, Upsert
  <2> QED BY <1>1, <2>1 DEF Fits
<1> QED BY <1>5, <1>6, <1>7, <1>8, <1>9, <1>10 DEF StepOf, OperatorStep

LEMMA BlocksLast ==
  ASSUME TypeInv, NEW r \in Requests, StepOf(r), NEW u
  PROVE  /\ \A q \in Requests : at[q] \in {"drop", "done"} => (q \in Blocks(u)' <=> q \in Blocks(u))
         /\ \A q \in Requests \ {r} : q \in Blocks(u)' <=> q \in Blocks(u)
         /\ r \in Blocks(u) /\ r \notin Blocks(u)' => SwitchCabinet(r)
         /\ r \in Blocks(u)' /\ at[r] # "new" => r \in Blocks(u)
         /\ Blocks(u)' \subseteq Asked(u)'
<1>1. \A q \in Requests : at[q] # "new" => ask'[q] = ask[q] /\ at'[q] # "new"
  BY StepLasting DEF Lasting
<1>2. \A q \in Requests \ {r} : at'[q] = at[q] /\ ask'[q] = ask[q] /\ (q \in idle' <=> q \in idle)
  BY OthersUnmoved, IdleStep DEF Unmoved
<1>3. at[r] \in {"drop", "done"} => idle' = idle
  BY IdleStep DEF SwitchCabinet
<1>4. \A q \in Requests \ {r} : q \in Blocks(u)' <=> q \in Blocks(u)
  BY <1>2 DEF Blocks
<1>5. at[r] \in {"drop", "done"} => (r \in Blocks(u)' <=> r \in Blocks(u))
  BY <1>1, <1>3 DEF Blocks
<1>6. r \in Blocks(u) /\ r \notin Blocks(u)' => SwitchCabinet(r)
  BY <1>1, IdleStep DEF Blocks
<1>7. r \in Blocks(u)' /\ at[r] # "new" => r \in Blocks(u)
  BY <1>1, IdleStep DEF Blocks
<1>8. Blocks(u)' \subseteq Asked(u)'
  BY DEF Blocks, Asked, Target
<1> QED BY <1>4, <1>5, <1>6, <1>7, <1>8

\* What else befalls the row.
LEMMA RowLeft ==
  ASSUME TypeInv, DoneInv, DeletionInv, UpsertInv, NEW r \in Requests, StepOf(r), NEW u \in Users,
         r \notin Blocks(u)', Undisturbed(u)'
  PROVE  \/ rows'[u] = rows[u]
         \/ rows'[u] = "none" /\ cloud'[u] = "gone"
         \/ rows'[u] = "active" /\ rows[u] = "none" /\ cloud[u] # "gone"
<1>1. CASE SwitchCabinet(r) /\ rows[u] # "none" /\ ask[r].user = u
  <2>1. /\ at[r] = "block" /\ Fits(ask[r], at[r]) /\ UNCHANGED ask /\ at'[r] # "new"
        /\ r \notin idle
    BY <1>1, FieldsOf, StepLasting DEF SwitchCabinet, DoneInv, Lasting
  <2>2. r \in idle' \/ ask[r].status = "other"
    BY <1>1, <2>1 DEF Blocks, Fits
  <2>3. ask[r].status = "other" => rows' = rows
    BY <1>1 DEF SwitchCabinet
  <2>4. ask[r].status # "other" => rows' = rows
    BY <1>1, <2>1, <2>2 DEF SwitchCabinet
  <2> QED BY <2>3, <2>4
<1>2. CASE Drop(r) /\ ask[r].user = u /\ rows'[u] = "none"
  <2>1. at[r] = "drop" /\ Fits(ask[r], at[r])
    BY <1>2, FieldsOf DEF Drop
  <2>2. cloud[u] = "gone"
    BY <1>2, <2>1 DEF DeletionInv, Fits
  <2> QED BY <1>2, <2>2, GoneForGood
<1>3. CASE Upsert(r) /\ ask[r].user = u /\ rows[u] = "none"
  <2>1. at[r] = "upsert" /\ Fits(ask[r], at[r]) /\ UNCHANGED ask /\ at'[r] # "new"
    BY <1>3, FieldsOf, StepLasting DEF Upsert, Lasting
  <2>2. r \in Asked(u)'
    BY <1>3, <2>1 DEF Asked, Target, Fits
  <2>3. cloud[u] # "gone"
    BY <1>3, <2>1, <2>2, StepLasting DEF UpsertInv, Undisturbed, Crossed, Lasting
  <2>4. rows'[u] = "active"
    BY <1>3 DEF Upsert, TypeInv, UserAdminTypeOK
  <2> QED BY <1>3, <2>3, <2>4
<1> QED BY <1>1, <1>2, <1>3, RowsStep

LEMMA RowKeeps ==
  ASSUME TypeInv, CrossInv, DeletionInv, UpsertInv, LogInv, DoneInv, NEW r \in Requests, StepOf(r),
         NEW u \in Users, RowTold(u)
  PROVE  RowTold(u)'
<1> DEFINE others == Blocks(u)'
           Tells(told, status) ==
              IF told = {} THEN rows[u] \in {Rows0[u], "active", "none"}
              ELSE rows[u] = status \/ (rows[u] = "none" /\ cloud[u] = "gone")
           TellsNow(told, status) ==
              IF told = {} THEN rows'[u] \in {Rows0[u], "active", "none"}
              ELSE rows'[u] = status \/ (rows'[u] = "none" /\ cloud'[u] = "gone")
<1> SUFFICES ASSUME Undisturbed(u)'
             PROVE  /\ \A q \in others : Blocked(q)' => rows'[u] = ask'[q].status
                    /\ (\A q \in others : ~ Blocked(q)') =>
                          TellsNow(Told(log', others), ask'[LastBy(log', others)].status)
  BY DEF RowTold, Told, LastBy
<1>1. /\ \A q \in Blocks(u) : Blocked(q) => rows[u] = ask[q].status
      /\ (\A q \in Blocks(u) : ~ Blocked(q)) =>
            Tells(Told(log, Blocks(u)), ask[LastBy(log, Blocks(u))].status)
  BY WasUndisturbed DEF RowTold
<1>2. /\ \A q \in Requests : at[q] \in {"drop", "done"} => (q \in others <=> q \in Blocks(u))
      /\ \A q \in Requests \ {r} : q \in others <=> q \in Blocks(u)
      /\ r \in Blocks(u) /\ r \notin others => SwitchCabinet(r)
      /\ r \in others /\ at[r] # "new" => r \in Blocks(u)
      /\ others \subseteq Asked(u)'
  BY BlocksLast
<1>3. Blocks(u) \subseteq Requests /\ others \subseteq Requests
  BY DEF Blocks
<1>4. \A q \in Requests \ {r} : (Blocked(q)' <=> Blocked(q)) /\ ask'[q] = ask[q]
  BY OthersUnmoved DEF Unmoved, Blocked
<1>5. \A q \in Blocks(u) : ask[q].status \in {"active", "blocked"}
  BY DEF Blocks
<1> HIDE DEF others
<1>6. ~ Record(r) \/ r \notin others =>
         /\ Told(log', others) = Told(log, Blocks(u))
         /\ Told(log, Blocks(u)) # {} =>
               /\ ask'[LastBy(log', others)] = ask[LastBy(log, Blocks(u))]
               /\ LastBy(log, Blocks(u)) \in Blocks(u)
  BY <1>2, <1>3, ToldLasts
<1>7. CASE r \notin others
  <2>1. \A q \in others : q \in Blocks(u) /\ q # r
    BY <1>2, <1>3, <1>7
  <2>2. \A q \in Blocks(u) : q \in others \/ ~ Blocked(q)
    BY <1>2, <1>3, <1>7 DEF SwitchCabinet, Blocked
  <2>3. \/ rows'[u] = rows[u]
        \/ rows'[u] = "none" /\ cloud'[u] = "gone"
        \/ rows'[u] = "active" /\ rows[u] = "none" /\ cloud[u] # "gone"
    BY <1>7, RowLeft DEF others
  <2>4. ASSUME NEW q \in others, Blocked(q)' PROVE rows'[u] = ask'[q].status
    <3>1. rows[u] = ask[q].status /\ ask'[q] = ask[q] /\ ask[q].status \in {"active", "blocked"}
          /\ Blocked(q)
      BY <1>1, <1>3, <1>4, <1>5, <2>1, <2>4
    <3>2. ~ (Drop(r) \/ Upsert(r)) \/ ask[r].user # u
      <4> SUFFICES ASSUME Drop(r) \/ Upsert(r), ask[r].user = u PROVE FALSE
        OBVIOUS
      <4>1. at[r] \in {"drop", "upsert"} /\ Fits(ask[r], at[r]) /\ UNCHANGED ask /\ at'[r] # "new"
        BY FieldsOf, StepLasting DEF Drop, Upsert, Lasting
      <4>2. r \in Asked(u)'
        BY <4>1 DEF Asked, Target, Fits
      <4>3. q \in Asked(u)' /\ q \in Requests \ {r}
        BY <1>2, <1>3, <2>1
      <4>4. ~ Open(q)
        BY <4>2, <4>3, AloneAtIt
      <4> QED BY <3>1, <4>4 DEF Open, Blocked
    <3>3. ~ (SwitchCabinet(r) /\ ask[r].user = u)
      <4> SUFFICES ASSUME SwitchCabinet(r), ask[r].user = u PROVE FALSE
        OBVIOUS
      <4>1. at[r] = "block" /\ Fits(ask[r], at[r]) /\ UNCHANGED ask /\ at'[r] # "new"
        BY FieldsOf, StepLasting DEF SwitchCabinet, Lasting
      <4>2. r \in Asked(u)'
        BY <4>1 DEF Asked, Target, Fits
      <4>3. q \in Asked(u)' /\ q \in Requests \ {r}
        BY <1>2, <1>3, <2>1
      <4>4. ~ Open(q)
        BY <4>2, <4>3, AloneAtIt
      <4> QED BY <3>1, <4>4 DEF Open, Blocked
    <3>4. rows'[u] = rows[u]
      BY <3>2, <3>3, RowsStep
    <3> QED BY <3>1, <3>4
  <2>5. ASSUME \A q \in others : ~ Blocked(q)'
        PROVE  TellsNow(Told(log', others), ask'[LastBy(log', others)].status)
    <3>1. \A q \in Blocks(u) : ~ Blocked(q)
      BY <1>3, <1>4, <1>7, <2>1, <2>2, <2>5
    <3>2. Tells(Told(log, Blocks(u)), ask[LastBy(log, Blocks(u))].status)
      BY <1>1, <3>1
    <3>3. CASE Told(log, Blocks(u)) = {}
      BY <1>6, <1>7, <2>3, <3>2, <3>3
    <3>4. CASE Told(log, Blocks(u)) # {}
      <4>1. ask'[LastBy(log', others)] = ask[LastBy(log, Blocks(u))]
            /\ ask[LastBy(log, Blocks(u))].status \in {"active", "blocked"}
        BY <1>5, <1>6, <1>7, <3>4
      <4>2. cloud[u] = "gone" => cloud'[u] = "gone"
        BY GoneForGood
      <4> QED BY <1>6, <1>7, <2>3, <3>2, <3>4, <4>1, <4>2
    <3> QED BY <3>3, <3>4
  <2> QED BY <2>4, <2>5
<1>8. CASE r \in others
  <2>1. \A q \in others \ {r} : ~ Blocked(q) /\ ~ Blocked(q)'
    <3> SUFFICES ASSUME NEW q \in others \ {r} PROVE ~ Blocked(q) /\ ~ Blocked(q)'
      OBVIOUS
    <3>1. ~ Open(q)
      BY <1>2, <1>3, <1>8, AloneAtIt
    <3> QED BY <1>3, <1>4, <3>1 DEF Open, Blocked
  <2>2. r \notin untold' /\ r \notin idle'
    BY <1>2, <1>8 DEF Undisturbed, others, Blocks
  <2>3. \A q \in Blocks(u) \ {r} : ~ Blocked(q)
    BY <1>2, <1>3, <2>1
  <2>4. CASE Arrive(r)
    <3>1. rows' = rows /\ cloud' = cloud /\ ~ Record(r) /\ at[r] = "new" /\ ~ Blocked(r)'
      BY <2>4, ArriveFacts DEF stores, Record, Blocked
    <3>2. ~ Blocked(r)
      BY <3>1 DEF Blocked
    <3>3. Tells(Told(log, Blocks(u)), ask[LastBy(log, Blocks(u))].status)
      BY <1>1, <2>3, <3>2
    <3>4. TellsNow(Told(log', others), ask'[LastBy(log', others)].status)
      BY <1>6, <3>1, <3>3
    <3> QED BY <2>1, <3>1, <3>4
  <2>5. CASE ~ Arrive(r)
    <3>1. r \in Blocks(u) /\ ask'[r] = ask[r]
      BY <1>2, <1>8, <2>5, WasOpen DEF Open
    <3>2. /\ Blocked(r)' => rows'[u] = ask[r].status \/ (Blocked(r) /\ rows'[u] = rows[u])
          /\ ~ Blocked(r)' => rows'[u] = rows[u] /\ (Blocked(r) => Record(r))
      BY <2>2, <2>5, <3>1, BlockStep
    <3>3. CASE Blocked(r)'
      BY <1>1, <1>8, <2>1, <3>1, <3>2, <3>3
    <3>4. CASE ~ Blocked(r)' /\ Blocked(r)
      <4>1. Record(r) /\ rows'[u] = ask[r].status
        BY <1>1, <3>1, <3>2, <3>4
      <4>2. Told(log', others) # {} /\ LastBy(log', others) = r
        BY <1>3, <1>8, <2>2, <4>1, ToldNow
      <4> QED BY <2>1, <3>1, <3>4, <4>1, <4>2
    <3>5. CASE ~ Blocked(r)' /\ ~ Blocked(r)
      <4>1. ~ Record(r) /\ rows'[u] = rows[u]
        BY <3>2, <3>5 DEF Record, Blocked
      <4>2. Tells(Told(log, Blocks(u)), ask[LastBy(log, Blocks(u))].status)
        BY <1>1, <2>3, <3>5
      <4>3. cloud[u] = "gone" => cloud'[u] = "gone"
        BY GoneForGood
      <4>4. TellsNow(Told(log', others), ask'[LastBy(log', others)].status)
        BY <1>6, <4>1, <4>2, <4>3
      <4> QED BY <2>1, <3>5, <4>4
    <3> QED BY <3>3, <3>4, <3>5
  <2> QED BY <2>4, <2>5
<1> QED BY <1>7, <1>8

-----------------------------------------------------------------------------
(* What is told of an account's setting, and of a new user's project. *)

LEMMA CountedKeeps ==
  ASSUME TypeInv, CrossInv, LogInv, DoneInv, NEW r \in Requests, StepOf(r), NEW a \in Accounts,
         CountedTold(a)
  PROVE  CountedTold(a)'
<1> DEFINE others == Sets(a)'
           Flag(told, flag) == IF told = {} THEN TRUE ELSE flag
<1> SUFFICES ASSUME Undisturbed(a)'
             PROVE  /\ \A q \in others : at'[q] = "record" => counted'[a] = ask'[q].flag
                    /\ (\A q \in others : at'[q] # "record") =>
                          counted'[a] = Flag(Told(log', others), ask'[LastBy(log', others)].flag)
  BY DEF CountedTold, Told, LastBy
<1>1. /\ \A q \in Sets(a) : at[q] = "record" => counted[a] = ask[q].flag
      /\ (\A q \in Sets(a) : at[q] # "record") =>
            counted[a] = Flag(Told(log, Sets(a)), ask[LastBy(log, Sets(a))].flag)
  BY WasUndisturbed DEF CountedTold
<1>2. /\ \A q \in Requests : at[q] # "new" => (q \in others <=> q \in Sets(a)) /\ ask'[q] = ask[q]
      /\ \A q \in Requests \ {r} : q \in others <=> q \in Sets(a)
      /\ Sets(a) \subseteq Requests /\ others \subseteq Requests
      /\ \A q \in Sets(a) : at[q] # "new"
  <2>1. \A q \in Requests : at[q] # "new" => ask'[q] = ask[q] /\ at'[q] # "new"
    BY StepLasting DEF Lasting
  <2>2. \A q \in Requests \ {r} : at'[q] = at[q] /\ ask'[q] = ask[q]
    BY OthersUnmoved DEF Unmoved
  <2>3. \A q \in Requests : at[q] # "new" => (q \in others <=> q \in Sets(a))
    BY <2>1 DEF Sets
  <2>4. \A q \in Requests \ {r} : q \in others <=> q \in Sets(a)
    BY <2>2 DEF Sets
  <2> QED BY <2>1, <2>3, <2>4 DEF Sets
<1>3. others \subseteq Asked(a)'
  BY DEF Sets, Asked, Target
<1>4. \A q \in Requests \ {r} : at'[q] = at[q] /\ ask'[q] = ask[q]
  BY OthersUnmoved DEF Unmoved
<1>5. r \in others => ask'[r].account = a /\ ask'[r].kind = "settings"
  BY DEF Sets
<1>6. SetCounted(r) => Fits(ask[r], at[r]) /\ at[r] = "set" /\ UNCHANGED ask
  BY FieldsOf DEF SetCounted
<1>7. SetCounted(r) /\ ask[r].account = a => r \in Sets(a)
  BY <1>6 DEF Sets, Fits
<1> HIDE DEF others, Flag
<1>8. ~ Record(r) \/ r \notin others =>
         /\ Told(log', others) = Told(log, Sets(a))
         /\ Told(log, Sets(a)) # {} => ask'[LastBy(log', others)] = ask[LastBy(log, Sets(a))]
  BY <1>2, ToldLasts
<1>9. ~ SetCounted(r) => counted' = counted
  BY DEF StepOf, Arrive, ListStep, LookUp, Fetch, Store, OperatorStep, SwitchCloud, SwitchCabinet,
         Forget, AdminStep, Create, Grant, FindUser, Change, Delete, Drop, SignInStep, Authenticate,
         Upsert, Record, Die, stores
<1>10. CASE r \notin others
  <2>1. others = Sets(a) /\ r \notin Sets(a)
    BY <1>2, <1>10
  <2>2. counted'[a] = counted[a]
    <3>1. SetCounted(r) => counted' = [counted EXCEPT ![ask[r].account] = ask[r].flag]
                           /\ ask[r].account # a
      BY <1>7, <2>1 DEF SetCounted
    <3> QED BY <1>9, <3>1 DEF TypeInv, UserAdminTypeOK
  <2>3. \A q \in others : at'[q] = at[q] /\ ask'[q] = ask[q]
    BY <1>2, <1>4, <1>10
  <2>4. Flag(Told(log', others), ask'[LastBy(log', others)].flag)
           = Flag(Told(log, Sets(a)), ask[LastBy(log, Sets(a))].flag)
    BY <1>8, <1>10 DEF Flag
  <2> QED BY <1>1, <2>1, <2>2, <2>3, <2>4
<1>11. CASE r \in others
  <2>1. \A q \in others \ {r} : at[q] # "record" /\ at'[q] # "record"
    <3> SUFFICES ASSUME NEW q \in others \ {r} PROVE at[q] # "record" /\ at'[q] # "record"
      OBVIOUS
    <3>1. ~ Open(q)
      BY <1>2, <1>3, <1>11, AloneAtIt
    <3> QED BY <1>2, <1>4, <3>1 DEF Open
  <2>2. r \notin untold'
    BY <1>3, <1>11 DEF Undisturbed
  <2>3. \A q \in Sets(a) \ {r} : at[q] # "record"
    BY <1>2, <2>1
  <2>4. ASSUME ~ Record(r)
        PROVE  Flag(Told(log', others), ask'[LastBy(log', others)].flag)
                  = Flag(Told(log, Sets(a)), ask[LastBy(log, Sets(a))].flag)
    BY <1>8, <2>4 DEF Flag
  <2>5. CASE Arrive(r)
    <3>1. at[r] = "new" /\ at'[r] # "record" /\ ~ Record(r) /\ counted' = counted
      BY <2>5, ArriveFacts DEF Record, stores
    <3> QED BY <1>1, <2>1, <2>3, <2>4, <3>1
  <2>6. CASE ~ Arrive(r)
    <3>1. Open(r) /\ r \in Sets(a) /\ ask'[r] = ask[r] /\ Fits(ask[r], at[r])
          /\ ask[r].kind = "settings" /\ ask[r].account = a
      BY <1>2, <1>5, <1>11, <2>6, WasOpen, FieldsOf DEF Open
    <3>2. SetCounted(r) \/ Record(r) \/ Die(r)
      <4>1. ListStep(r) => at[r] \in {"look up", "fetch", "store"}
        BY DEF ListStep, LookUp, Fetch, Store
      <4>2. OperatorStep(r) => SetCounted(r) \/ at[r] \in {"switch", "block", "forget"}
        BY DEF OperatorStep, SwitchCloud, SwitchCabinet, Forget
      <4>3. AdminStep(r) => at[r] \in {"create", "grant", "find", "change", "delete", "drop"}
        BY DEF AdminStep, Create, Grant, FindUser, Change, Delete, Drop
      <4>4. SignInStep(r) => at[r] \in {"authenticate", "upsert"}
        BY DEF SignInStep, Authenticate, Upsert
      <4> QED BY <2>6, <3>1, <4>1, <4>2, <4>3, <4>4 DEF StepOf, Fits
    <3>3. CASE SetCounted(r)
      <4>1. counted' = [counted EXCEPT ![a] = ask[r].flag] /\ at'[r] = "record"
        BY <3>1, <3>3 DEF SetCounted, Goes, TypeInv, UserAdminTypeOK
      <4>2. counted'[a] = ask[r].flag
        BY <4>1 DEF TypeInv, UserAdminTypeOK
      <4> QED BY <1>11, <2>1, <3>1, <4>1, <4>2
    <3>4. CASE Record(r)
      <4>1. at[r] = "record" /\ counted' = counted /\ at'[r] # "record"
        <5>1. Goes(r, IF ask[r].kind = "delete" THEN "drop" ELSE "done")
          BY <3>4 DEF Record
        <5>2. at[r] = "record" /\ counted' = counted
          BY <3>4 DEF Record, stores
        <5> QED BY <5>1, <5>2 DEF Goes, TypeInv, UserAdminTypeOK
      <4>2. Told(log', others) # {} /\ LastBy(log', others) = r
        BY <1>2, <1>11, <2>2, <3>4, ToldNow
      <4>3. counted'[a] = Flag(Told(log', others), ask'[LastBy(log', others)].flag)
        BY <1>1, <3>1, <4>1, <4>2 DEF Flag
      <4> QED BY <2>1, <4>1, <4>3
    <3>5. CASE Die(r)
      <4>1. at'[r] = "done" /\ counted' = counted /\ done[r] = Never /\ ~ Record(r)
        <5>1. at'[r] = "done" /\ counted' = counted /\ done[r] = Never
          BY <2>2, <3>5 DEF Die, Goes, TypeInv, UserAdminTypeOK, stores
        <5>2. at[r] # "record"
          BY <5>1 DEF DoneInv
        <5> QED BY <5>1, <5>2 DEF Record
      <4>2. at[r] # "record"
        BY <4>1 DEF DoneInv
      <4> QED BY <1>1, <2>1, <2>3, <2>4, <4>1, <4>2
    <3> QED BY <3>2, <3>3, <3>4, <3>5
  <2> QED BY <2>5, <2>6
<1> QED BY <1>10, <1>11

\* What has been recorded of a user's project stays recorded.
LEMMA GrantedLasts ==
  ASSUME TypeInv, NEW r \in Requests, StepOf(r), NEW q \in Requests, at[q] # "new", Granted(q),
         ask[q].user \in Users, cloud'[ask[q].user] # "gone"
  PROVE  Granted(q)'
<1>1. ask'[q] = ask[q]
  BY StepLasting DEF Lasting
<1>2. CASE ask[q].user \in members
  <2>1. members \subseteq members' \/ (Delete(r) /\ members' = members \ {ask[r].user}
                                        /\ cloud' = [cloud EXCEPT ![ask[r].user] = "gone"])
    <3>1. CASE Delete(r)
      BY <3>1 DEF Delete
    <3>2. CASE ~ Delete(r)
      BY <3>2
      DEF StepOf, Arrive, ListStep, LookUp, Fetch, Store, OperatorStep, SwitchCloud, SwitchCabinet,
          Forget, SetCounted, AdminStep, Create, Grant, FindUser, Change, Drop, SignInStep,
          Authenticate, Upsert, Record, Die, stores
    <3> QED BY <3>1, <3>2
  <2>2. ask[q].user \in members'
    BY <1>2, <2>1 DEF TypeInv, UserAdminTypeOK
  <2> QED BY <1>1, <2>2 DEF Granted
<1>3. CASE \E i \in DOMAIN log : log[i] = [by |-> q, action |-> "user.grant_role", ok |-> FALSE]
  <2>1. \A i \in DOMAIN log : i \in DOMAIN log' /\ log'[i] = log[i]
    <3>1. CASE log' = log
      BY <3>1
    <3>2. CASE log' # log
      BY <3>2, LogStep, ToldAppend
    <3> QED BY <3>1, <3>2
  <2> QED BY <1>3, <2>1 DEF Granted
<1> QED BY <1>2, <1>3 DEF Granted

LEMMA GrantKeeps ==
  ASSUME TypeInv, DoneInv, GrantInv, NEW r \in Requests, StepOf(r) PROVE GrantInv'
<1> SUFFICES ASSUME NEW q \in Requests, at'[q] \in {"record", "done"}, ask'[q].kind = "create",
                    ask'[q].flag, done'[q] # Never, q \notin untold', cloud'[ask'[q].user] # "gone"
             PROVE  Granted(q)'
  BY DEF GrantInv
<1>1. Lasting
  BY StepLasting
<1>2. ASSUME at[q] \in {"record", "done"}, done[q] # Never PROVE Granted(q)'
  <2>1. ask'[q] = ask[q] /\ Fits(ask[q], at[q]) /\ q \notin untold
    BY <1>1, <1>2, FieldsOf DEF Lasting
  <2>2. ask[q].user \in Users
    BY <2>1 DEF Fits
  <2>3. cloud[ask[q].user] # "gone"
    BY <2>1, <2>2, GoneForGood
  <2>4. Granted(q)
    BY <1>2, <2>1, <2>3 DEF GrantInv
  <2> QED BY <1>2, <2>1, <2>2, <2>4, GrantedLasts
<1>3. CASE q # r
  <2>1. Unmoved(q)
    BY <1>3, OthersUnmoved
  <2>2. done'[q] = done[q]
    <3>1. CarriedOut(r) \/ UNCHANGED done
      BY DEF StepOf, Arrive, ListStep, LookUp, Fetch, Store, OperatorStep, SwitchCloud, SwitchCabinet,
             Forget, SetCounted, AdminStep, Create, Grant, FindUser, Change, Delete, Drop, SignInStep,
             Authenticate, Upsert, Record, Die
    <3> QED BY <1>3, <3>1 DEF CarriedOut, TypeInv, UserAdminTypeOK
  <2> QED BY <1>2, <2>1, <2>2 DEF Unmoved
<1>4. CASE q = r /\ Arrive(r)
  BY <1>4, ArriveFacts
<1>5. CASE q = r /\ ~ Arrive(r)
  <2>1. Open(r) /\ ask'[r] = ask[r] /\ Fits(ask[r], at[r])
    BY <1>5, WasOpen, FieldsOf DEF Open
  <2>2. ask[r].kind = "create" /\ ask[r].flag /\ ask[r].user \in Users
    BY <1>5, <2>1 DEF Fits
  <2>3. Create(r) \/ Grant(r) \/ Record(r) \/ Die(r)
    <3>1. ListStep(r) => at[r] \in {"look up", "fetch", "store"}
      BY DEF ListStep, LookUp, Fetch, Store
    <3>2. OperatorStep(r) => at[r] \in {"switch", "block", "forget", "set"}
      BY DEF OperatorStep, SwitchCloud, SwitchCabinet, Forget, SetCounted
    <3>3. AdminStep(r) => Create(r) \/ Grant(r) \/ at[r] \in {"find", "change", "delete", "drop"}
      BY DEF AdminStep, FindUser, Change, Delete, Drop
    <3>4. SignInStep(r) => at[r] \in {"authenticate", "upsert"}
      BY DEF SignInStep, Authenticate, Upsert
    <3> QED BY <1>5, <2>1, <2>2, <3>1, <3>2, <3>3, <3>4 DEF StepOf, Fits
  <2>4. \A step : Goes(r, step) => at'[r] = step
    BY DEF Goes, TypeInv, UserAdminTypeOK
  <2>5. CASE Create(r)
    <3>1. at[r] = "create" /\ done[r] = Never
      BY <2>5 DEF Create, DoneInv
    <3>2. ~ Untold(r)
      BY <1>5 DEF Untold
    <3>3. at'[r] = "grant" \/ done' = done
      BY <2>2, <2>4, <2>5, <3>2 DEF Create
    <3> QED BY <1>5, <3>1, <3>3
  <2>6. CASE Grant(r)
    <3>1. ~ Untold(r)
      BY <1>5 DEF Untold
    <3>2. \/ members' = members \cup {ask[r].user}
          \/ log' = Append(log, [by |-> r, action |-> "user.grant_role", ok |-> FALSE])
      BY <2>6, <3>1 DEF Grant, Writes
    <3>3. CASE members' = members \cup {ask[r].user}
      BY <1>5, <2>1, <3>3 DEF Granted
    <3>4. CASE log' = Append(log, [by |-> r, action |-> "user.grant_role", ok |-> FALSE])
      <4>1. [by |-> r, action |-> "user.grant_role", ok |-> FALSE] \in LogRow
        BY DEF LogRow, Actions
      <4>2. /\ DOMAIN log' = DOMAIN log \cup {Len(log) + 1}
            /\ log'[Len(log) + 1] = [by |-> r, action |-> "user.grant_role", ok |-> FALSE]
        BY <3>4, <4>1, LogStep, ToldAppend
      <4> QED BY <1>5, <4>2 DEF Granted
    <3> QED BY <3>2, <3>3, <3>4
  <2>7. CASE Record(r)
    <3>1. at[r] = "record" /\ done[r] # Never
      BY <2>7 DEF Record, DoneInv
    <3> QED BY <1>2, <1>5, <3>1
  <2>8. CASE Die(r)
    <3>1. done' = done /\ (done[r] = Never \/ r \in untold')
      BY <2>8 DEF Die
    <3> QED BY <1>5, <3>1
  <2> QED BY <2>3, <2>5, <2>6, <2>7, <2>8
<1> QED BY <1>3, <1>4, <1>5

-----------------------------------------------------------------------------
(* The trails tell. *)

LEMMA TellInit == Init => TellInv
<1> SUFFICES ASSUME Init PROVE TellInv
  OBVIOUS
<1>1. log = <<>> /\ \A r \in Requests : at[r] = "new"
  BY DEF Init
<1>2. DOMAIN log = {}
  BY <1>1
<1>3. \A some : Told(log, some) = {}
  BY <1>2 DEF Told
<1>4. LogInv
  BY <1>2, <1>3 DEF LogInv, HasLast
<1>5. DoneInv /\ GrantInv
  BY <1>1 DEF Init, DoneInv, GrantInv
<1>6. \A u \in Users : CloudTold(u) /\ RowTold(u)
  BY <1>1, <1>3 DEF Init, CloudTold, RowTold, Turned, Blocked, Turns, Blocks
<1>7. \A a \in Accounts : CountedTold(a)
  BY <1>1, <1>3 DEF Init, CountedTold, Sets
<1> QED BY <1>4, <1>5, <1>6, <1>7 DEF TellInv

LEMMA TellStep == TypeInv /\ RowsInv /\ TellInv /\ [Next]_vars => TellInv'
<1> SUFFICES ASSUME TypeInv, RowsInv, TellInv, [Next]_vars PROVE TellInv'
  OBVIOUS
<1>1. /\ CrossInv /\ DeletionInv /\ UpsertInv /\ LogInv /\ DoneInv /\ GrantInv
      /\ \A u \in Users : CloudTold(u) /\ RowTold(u)
      /\ \A a \in Accounts : CountedTold(a)
  BY DEF RowsInv, TellInv
<1>2. ASSUME NEW r \in Requests, StepOf(r) PROVE TellInv'
  <2>1. LogInv' /\ DoneInv' /\ GrantInv'
    BY <1>1, <1>2, LogKeeps, DoneKeeps, GrantKeeps
  <2>2. \A u \in Users : CloudTold(u)' /\ RowTold(u)'
    BY <1>1, <1>2, CloudKeeps, RowKeeps
  <2>3. \A a \in Accounts : CountedTold(a)'
    BY <1>1, <1>2, CountedKeeps
  <2> QED BY <2>1, <2>2, <2>3 DEF TellInv
<1>3. CASE Tick \/ UNCHANGED vars
  <2>1. UNCHANGED <<stores, log, at, ask, done, untold, idle, crossed>>
    BY <1>3 DEF Tick, vars, blocks
  <2>2. LogInv' /\ DoneInv' /\ GrantInv'
    BY <1>1, <2>1 DEF LogInv, DoneInv, GrantInv, HasLast, Told, Granted, stores
  <2>3. \A x : /\ Undisturbed(x)' <=> Undisturbed(x)
               /\ Turns(x)' = Turns(x) /\ Blocks(x)' = Blocks(x) /\ Sets(x)' = Sets(x)
    BY <2>1 DEF Undisturbed, Asked, Target, Crossed, Turns, Blocks, Sets
  <2>4. \A u \in Users : CloudTold(u)' /\ RowTold(u)'
    <3> SUFFICES ASSUME NEW u \in Users PROVE CloudTold(u)' /\ RowTold(u)'
      OBVIOUS
    <3>1. CloudTold(u) /\ RowTold(u)
      BY <1>1
    <3>2. CloudTold(u)'
      BY <2>1, <2>3, <3>1 DEF CloudTold, Turned, Told, LastBy, stores
    <3>3. RowTold(u)'
      BY <2>1, <2>3, <3>1 DEF RowTold, Blocked, Told, LastBy, stores
    <3> QED BY <3>2, <3>3
  <2>5. \A a \in Accounts : CountedTold(a)'
    <3> SUFFICES ASSUME NEW a \in Accounts PROVE CountedTold(a)'
      OBVIOUS
    <3>1. CountedTold(a)
      BY <1>1
    <3>2. Sets(a)' = Sets(a) /\ (Undisturbed(a)' <=> Undisturbed(a))
      BY <2>3
    <3>3. Told(log, Sets(a))' = Told(log, Sets(a)) /\ LastBy(log, Sets(a))' = LastBy(log, Sets(a))
      BY <2>1, <3>2 DEF Told, LastBy
    <3>4. counted' = counted /\ at' = at /\ ask' = ask
      BY <2>1 DEF stores
    <3> HIDE DEF Told, LastBy, Sets, Undisturbed
    <3> QED BY <3>1, <3>2, <3>3, <3>4 DEF CountedTold
  <2> QED BY <2>2, <2>4, <2>5 DEF TellInv
<1> QED BY <1>2, <1>3 DEF Next, StepOf

LEMMA TellAlways == Spec => []TellInv
<1> QED BY TellInit, TellStep, TypeAlways, RowsAlways, PTL DEF Spec

\* The last of those the trails have is whom the properties ask.
LEMMA LastIsLast ==
  ASSUME NEW some, Told(log, some) # {}
  PROVE  ask[log[CHOOSE i \in Told(log, some) : \A j \in Told(log, some) : j <= i].by]
            = ask[LastBy(log, some)]
BY DEF LastBy

\* Who is on record is not new, and asked for something sensible.
LEMMA OnRecord ==
  ASSUME TypeInv, TellInv
  PROVE  \A i \in DOMAIN log : log[i].ok =>
            /\ log[i].by \in Requests /\ at[log[i].by] # "new"
            /\ Sensible(ask[log[i].by]) /\ ask[log[i].by] \in Request
<1>1. \A i \in DOMAIN log : log[i] \in LogRow
  <2>1. log \in Seq(LogRow)
    BY DEF TypeInv, UserAdminTypeOK, LogRow
  <2> QED BY <2>1
<1>2. \A i \in DOMAIN log : log[i].by \in Requests
  BY <1>1 DEF LogRow
<1>3. \A i \in DOMAIN log : log[i].ok => at[log[i].by] # "new"
  BY DEF TellInv, LogInv
<1>4. \A r \in Requests : at[r] # "new" => Sensible(ask[r]) /\ ask[r] \in Request
  BY FieldsOf DEF TellInv, DoneInv
<1> QED BY <1>2, <1>3, <1>4

LEMMA QuietUndisturbed ==
  ASSUME TypeInv, NEW x, Quiet(x)
  PROVE  Undisturbed(x) /\ \A r \in Asked(x) : ~ Open(r)
<1>1. \A r \in Asked(x) : r \in Requests /\ ask[r] # Nothing /\ ask[r].kind # "list" /\ Target(r) = x
  BY DEF Asked, TypeInv, UserAdminTypeOK
<1> QED BY <1>1 DEF Quiet, Undisturbed, Crossed

LEMMA TellCloud == ASSUME TypeInv, TellInv PROVE TrailTells
<1> SUFFICES ASSUME NEW u \in Users, Quiet(u)
             PROVE  LET About(request) ==
                            /\ request.user = u
                            /\ request.kind \in {"switch", "change"} => request.enabled # Nothing
                            /\ request.kind # "signIn"
                        told == Entries(About)
                    IN  cloud[u] = IF told = {} THEN Cloud0[u]
                                   ELSE CASE LastOf(told).kind = "create" -> "on"
                                          [] LastOf(told).kind = "delete" -> "gone"
                                          [] OTHER -> LastOf(told).enabled
  BY DEF TrailTells
<1> DEFINE About(request) ==
              /\ request.user = u
              /\ request.kind \in {"switch", "change"} => request.enabled # Nothing
              /\ request.kind # "signIn"
           told == {i \in DOMAIN log : log[i].ok /\ About(ask[log[i].by])}
           last == LastOf(told)
<1>1. told = Told(log, Turns(u))
  <2>1. ASSUME NEW i \in DOMAIN log, log[i].ok PROVE About(ask[log[i].by]) <=> log[i].by \in Turns(u)
    <3>1. /\ log[i].by \in Requests /\ at[log[i].by] # "new" /\ Sensible(ask[log[i].by])
          /\ ask[log[i].by].kind \in RequestKinds
      BY <2>1, OnRecord, RequestFields
    <3>2. u # Nothing
      BY UserAdminAssumption
    <3> QED BY <3>1, <3>2 DEF Sensible, Turns, RequestKinds
  <2> HIDE DEF About
  <2> QED BY <2>1 DEF Told
<1>2. \A r \in Turns(u) : ~ Turned(r)
  <2>1. Turns(u) \subseteq Asked(u)
    BY DEF Turns, Asked, Target
  <2> QED BY <2>1, QuietUndisturbed DEF Open, Turned
<1>3. cloud[u] = IF told = {} THEN Cloud0[u] ELSE TurnsTo(ask[LastBy(log, Turns(u))])
  BY <1>1, <1>2, QuietUndisturbed DEF TellInv, CloudTold
<1>4. told # {} => last = ask[LastBy(log, Turns(u))]
  BY <1>1, LastIsLast DEF LastOf
<1>5. cloud[u] = IF told = {} THEN Cloud0[u]
                 ELSE CASE last.kind = "create" -> "on"
                        [] last.kind = "delete" -> "gone"
                        [] OTHER -> last.enabled
  <2> HIDE DEF told, last
  <2>1. CASE told = {}
    BY <1>3, <2>1
  <2>2. CASE told # {} /\ last.kind = "create"
    BY <1>3, <1>4, <2>2 DEF TurnsTo
  <2>3. CASE told # {} /\ last.kind = "delete"
    BY <1>3, <1>4, <2>3 DEF TurnsTo
  <2>4. CASE told # {} /\ last.kind # "create" /\ last.kind # "delete"
    BY <1>3, <1>4, <2>4 DEF TurnsTo
  <2> QED BY <2>1, <2>2, <2>3, <2>4
<1> QED BY <1>5 DEF Entries

LEMMA TellSettings == ASSUME TypeInv, TellInv PROVE SettingTold
<1> SUFFICES ASSUME NEW a \in Accounts, Quiet(a)
             PROVE  LET About(request) == request.kind = "settings" /\ request.account = a
                        told == Entries(About)
                    IN  counted[a] = IF told = {} THEN TRUE ELSE LastOf(told).flag
  BY DEF SettingTold
<1> DEFINE About(request) == request.kind = "settings" /\ request.account = a
           told == {i \in DOMAIN log : log[i].ok /\ About(ask[log[i].by])}
<1>1. told = Told(log, Sets(a))
  <2>1. ASSUME NEW i \in DOMAIN log, log[i].ok PROVE About(ask[log[i].by]) <=> log[i].by \in Sets(a)
    BY <2>1, OnRecord DEF Sets
  <2> HIDE DEF About
  <2> QED BY <2>1 DEF Told
<1>2. \A r \in Sets(a) : at[r] # "record"
  <2>1. Sets(a) \subseteq Asked(a)
    BY DEF Sets, Asked, Target
  <2> QED BY <2>1, QuietUndisturbed DEF Open
<1>3. counted[a] = IF told = {} THEN TRUE ELSE ask[LastBy(log, Sets(a))].flag
  BY <1>1, <1>2, QuietUndisturbed DEF TellInv, CountedTold
<1>4. told # {} => LastOf(told) = ask[LastBy(log, Sets(a))]
  BY <1>1, LastIsLast DEF LastOf
<1>5. counted[a] = IF told = {} THEN TRUE ELSE LastOf(told).flag
  <2> HIDE DEF told
  <2> QED BY <1>3, <1>4
<1> QED BY <1>5 DEF Entries

LEMMA TellBlocks == ASSUME TypeInv, TellInv PROVE BlockTold
<1> SUFFICES ASSUME NEW u \in Users, Quiet(u)
             PROVE  LET About(request) == request.user = u /\ request.status \in {"active", "blocked"}
                        told == {i \in Entries(About) : log[i].by \notin idle}
                    IN  rows[u] \in IF told = {} THEN {Rows0[u], "active", "none"}
                                    ELSE {LastOf(told).status, "none"}
  BY DEF BlockTold
<1> DEFINE About(request) == request.user = u /\ request.status \in {"active", "blocked"}
           entries == {i \in DOMAIN log : log[i].ok /\ About(ask[log[i].by])}
           told == {i \in entries : log[i].by \notin idle}
<1>1. told = Told(log, Blocks(u))
  <2>1. ASSUME NEW i \in DOMAIN log, log[i].ok
        PROVE  About(ask[log[i].by]) /\ log[i].by \notin idle <=> log[i].by \in Blocks(u)
    <3>1. /\ log[i].by \in Requests /\ at[log[i].by] # "new" /\ Sensible(ask[log[i].by])
      BY <2>1, OnRecord
    <3>2. Nothing \notin {"active", "blocked"}
      BY UserAdminAssumption
    <3> QED BY <3>1, <3>2 DEF Sensible, Blocks
  <2> HIDE DEF About
  <2> QED BY <2>1 DEF Told
<1>2. \A r \in Blocks(u) : ~ Blocked(r)
  <2>1. Blocks(u) \subseteq Asked(u)
    BY DEF Blocks, Asked, Target
  <2> QED BY <2>1, QuietUndisturbed DEF Open, Blocked
<1>3. IF told = {} THEN rows[u] \in {Rows0[u], "active", "none"}
      ELSE rows[u] \in {ask[LastBy(log, Blocks(u))].status, "none"}
  <2>1. IF Told(log, Blocks(u)) = {} THEN rows[u] \in {Rows0[u], "active", "none"}
        ELSE \/ rows[u] = ask[LastBy(log, Blocks(u))].status
             \/ rows[u] = "none" /\ cloud[u] = "gone"
    BY <1>2, QuietUndisturbed DEF TellInv, RowTold
  <2> HIDE DEF told
  <2> QED BY <1>1, <2>1
<1>4. told # {} => LastOf(told) = ask[LastBy(log, Blocks(u))]
  BY <1>1, LastIsLast DEF LastOf
<1>5. rows[u] \in IF told = {} THEN {Rows0[u], "active", "none"} ELSE {LastOf(told).status, "none"}
  <2> HIDE DEF told
  <2> QED BY <1>3, <1>4
<1> QED BY <1>5 DEF Entries

\* What was done to users and accounts can be told from the trails: where nothing crossed
\* and nothing was cut short, the cloud (the writes of platform_admin/views.py and
\* admin_api/views.py), the cabinet's rows and the account's setting are as the last success
\* on record says.
THEOREM TrailsCorrect == Spec => []TrailsTell
<1>1. TypeInv /\ TellInv => TrailsTell
  <2> SUFFICES ASSUME TypeInv, TellInv PROVE TrailsTell
    OBVIOUS
  <2>1. TrailTells /\ SettingTold /\ BlockTold
    BY TellCloud, TellSettings, TellBlocks
  <2>2. GrantTold
    <3> SUFFICES ASSUME NEW r \in Requests, at[r] = "done", r \notin untold, ask[r].kind = "create",
                        ask[r].flag, done[r] # Never, cloud[ask[r].user] # "gone"
                 PROVE  \/ ask[r].user \in members
                        \/ \E i \in DOMAIN log :
                              log[i] = [by |-> r, action |-> "user.grant_role", ok |-> FALSE]
      BY DEF GrantTold
    <3> QED BY DEF TellInv, GrantInv, Granted
  <2> QED BY <2>1, <2>2 DEF TrailsTell, TypeInv
<1> QED BY <1>1, TypeAlways, TellAlways, PTL
=============================================================================
