------------------------- MODULE OperatorSignInProofs -------------------------
(***************************************************************************)
(* Theorems about OperatorSignIn, for any requests, tickets, lifetimes and *)
(* limits.                                                                 *)
(***************************************************************************)
EXTENDS OperatorSignIn, TLAPS

-----------------------------------------------------------------------------
(* Types. *)

LEMMA CopyIsOperator ==
  ASSUME SignInTypeOK, NEW r \in Requests, at[r] \in Reading
  PROVE  copy[r] \in Operator
BY DEF SignInTypeOK

LEMMA Fields ==
  ASSUME NEW o \in Operator
  PROVE  /\ o.active \in BOOLEAN /\ o.failed \in Nat /\ o.locked \in Nat
         /\ o.secret \in Secrets \cup {NoSecret} /\ o.code \in BOOLEAN
BY DEF Operator

LEMMA WithSecret ==
  ASSUME NEW o \in Operator, NEW s \in Secrets \cup {NoSecret}
  PROVE  /\ [o EXCEPT !.secret = s] \in Operator /\ [o EXCEPT !.secret = s].failed = o.failed
         /\ [o EXCEPT !.secret = s].locked = o.locked /\ [o EXCEPT !.secret = s].secret = s
BY DEF Operator

LEMMA WithSettings ==
  ASSUME NEW o \in Operator, NEW n,
         n = [o EXCEPT !.code = ~o.code] \/ n = [o EXCEPT !.active = ~o.active]
  PROVE  n \in Operator /\ n.failed = o.failed /\ n.locked = o.locked /\ n.secret = o.secret
BY DEF Operator

\* What ends a request, and no other.
LEMMA EndsFacts ==
  ASSUME SignInTypeOK, NEW r \in Requests, Ends(r)
  PROVE  /\ at' \in [Requests -> Steps] /\ at'[r] = "done"
         /\ copy' \in [Requests -> Operator \cup {NoCopy}]
         /\ pending' \in [Requests -> Tickets \cup {NoSecret}]
         /\ \A q \in Requests : q # r => at'[q] = at[q] /\ copy'[q] = copy[q] /\ pending'[q] = pending[q]
         /\ \A q \in Requests : at'[q] \in Reading => q # r
         /\ pending'[r] = NoSecret
         /\ shown' \in [Requests -> Code \cup {NoCode}]
         /\ shown'[r] = NoCode /\ \A q \in Requests : q # r => shown'[q] = shown[q]
BY DEF SignInTypeOK, Goes, Ends, Steps, Reading

\* Who has a code between its check and its mark.
ShownOK ==
    /\ shown \in [Requests -> Code \cup {NoCode}]
    /\ \A r \in Requests : at[r] = "mark" <=> shown[r] # NoCode

LEMMA EndsShown ==
  ASSUME SignInTypeOK, NEW r \in Requests, Ends(r)
  PROVE  ShownOK'
<1>1. at'[r] # "mark"
  BY EndsFacts
<1> QED
  BY <1>1, EndsFacts DEF SignInTypeOK, ShownOK

\* A request that shows no code, before or after.
LEMMA GoesShown ==
  ASSUME SignInTypeOK, NEW r \in Requests, shown' = shown, at[r] # "mark", at'[r] # "mark",
         \A q \in Requests : q # r => at'[q] = at[q]
  PROVE  ShownOK'
BY DEF SignInTypeOK, ShownOK

\* The columns a failure writes.
LEMMA CountFacts ==
  ASSUME SignInTypeOK, NEW r \in Requests, CountFailure(r)
  PROVE  /\ operator' \in Operator /\ operator'.secret = operator.secret
         /\ \/ /\ copy[r].failed + 1 >= MaxFailures
               /\ operator'.failed = 0 /\ strikes' = 0 /\ operator'.locked = now + Lockout
            \/ /\ copy[r].failed + 1 < MaxFailures
               /\ operator'.failed = copy[r].failed + 1 /\ strikes' = strikes + 1
               /\ operator'.locked = copy[r].locked
<1>1. copy[r] \in Operator
  BY CopyIsOperator DEF CountFailure, Reading
<1>2. /\ copy[r].failed \in Nat /\ copy[r].locked \in Nat /\ now \in Nat
      /\ now + Lockout \in Nat /\ MaxFailures \in Nat /\ operator \in Operator
  BY <1>1, Fields, SignInAssumption DEF SignInTypeOK
<1> DEFINE failed == copy[r].failed + 1
           full == failed >= MaxFailures
           f == IF full THEN 0 ELSE failed
           l == IF full THEN now + Lockout ELSE copy[r].locked
<1>3. operator' = [operator EXCEPT !.failed = f, !.locked = l] /\ strikes' = IF full THEN 0 ELSE strikes + 1
  BY DEF CountFailure
<1>4. f \in Nat /\ l \in Nat
  BY <1>2
<1>5. /\ operator' \in Operator /\ operator'.failed = f /\ operator'.locked = l
      /\ operator'.secret = operator.secret
  <2> HIDE DEF f, l
  <2> QED
    <3>1. operator'.failed = f
      BY <1>2, <1>3 DEF Operator
    <3>2. operator'.locked = l
      BY <1>2, <1>3 DEF Operator
    <3>3. operator'.secret = operator.secret
      BY <1>2, <1>3 DEF Operator
    <3>4. operator' \in Operator
      BY <1>2, <1>3, <1>4 DEF Operator
    <3> QED
      BY <3>1, <3>2, <3>3, <3>4
<1> QED
  BY <1>2, <1>3, <1>5

LEMMA CountType ==
  ASSUME SignInTypeOK, NEW r \in Requests, CountFailure(r)
  PROVE  SignInTypeOK'
<1>1. operator' \in Operator /\ operator'.failed < MaxFailures /\ strikes' \in Nat
  <2>1. copy[r].failed \in Nat /\ MaxFailures \in Nat \ {0} /\ strikes \in Nat
    BY CopyIsOperator, Fields, SignInAssumption DEF CountFailure, Reading, SignInTypeOK
  <2> QED
    BY <2>1, CountFacts
<1>2. Ends(r) /\ UNCHANGED <<now, tickets, used, ticket, changes, accepted, sessions, crossed, together, fresh>>
  BY DEF CountFailure, cacheVars
<1> QED
  BY <1>1, <1>2, EndsFacts, EndsShown DEF SignInTypeOK, ShownOK

LEMMA PasswordType ==
  ASSUME SignInTypeOK, NEW r \in Requests, PasswordStep(r) \/ Die(r)
  PROVE  SignInTypeOK'
<1>1. CASE ReadOperator(r)
  <2>1. copy' \in [Requests -> Operator \cup {NoCopy}] /\ crossed' \in BOOLEAN
    <3>1. copy' \in [Requests -> Operator \cup {NoCopy}]
      BY <1>1 DEF SignInTypeOK, ReadOperator, Read
    <3>2. crossed' \in BOOLEAN
      BY <1>1, Zenon DEF SignInTypeOK, ReadOperator, Read
    <3> QED
      BY <3>1, <3>2
  <2>2. at' \in [Requests -> Steps]
    BY <1>1 DEF SignInTypeOK, ReadOperator, Goes, Steps
  <2>3. \A q \in Requests : at'[q] \in Reading => copy'[q] # NoCopy
    BY <1>1, SignInAssumption DEF SignInTypeOK, ReadOperator, Read, Goes, Reading, Operator, Secrets
  <2>4. ShownOK'
    BY <1>1, GoesShown DEF SignInTypeOK, ReadOperator, Goes
  <2> QED
    BY <1>1, <2>1, <2>2, <2>3, <2>4 DEF SignInTypeOK, ReadOperator, ShownOK, cacheVars
<1>2. CASE CheckPassword(r)
  <2>1. ShownOK'
    BY <1>2, GoesShown DEF SignInTypeOK, CheckPassword, Goes, requestVars, heldVars
  <2> QED
    BY <1>2, <2>1 DEF SignInTypeOK, CheckPassword, Goes, Steps, Reading, ShownOK, cacheVars, requestVars,
                      heldVars, history
<1>3. CASE IssueTicket(r)
  <2>1. /\ Ends(r)
        /\ UNCHANGED <<now, operator, used, changes, accepted, sessions, strikes, crossed, together>>
    BY <1>3 DEF IssueTicket
  <2>2. PICK t \in Tickets :
          /\ tickets' = [tickets EXCEPT ![t] =
                [until |-> now + TicketTTL,
                 enrols |-> IF copy[r].code \/ copy[r].secret # NoSecret THEN NoSecret ELSE t]]
          /\ ticket' = [ticket EXCEPT ![r] = t]
          /\ fresh' = IF copy[r].secret = NoSecret THEN fresh \cup {t} ELSE fresh
    BY <1>3 DEF IssueTicket
  <2>3. now + TicketTTL \in Nat
    BY SignInAssumption DEF SignInTypeOK
  <2>4. tickets' \in [Tickets -> Ticket]
    BY <2>2, <2>3 DEF SignInTypeOK, Ticket
  <2>5. ticket' \in [Requests -> Tickets \cup {NoTicket}] /\ fresh' \subseteq Tickets
    BY <2>2 DEF SignInTypeOK
  <2> QED
    BY <2>1, <2>4, <2>5, EndsFacts, EndsShown DEF SignInTypeOK, ShownOK
<1>4. CASE Die(r)
  BY <1>4, EndsFacts, EndsShown DEF SignInTypeOK, ShownOK, Die, cacheVars, history
<1> QED
  BY <1>1, <1>2, <1>3, <1>4 DEF PasswordStep

LEMMA DropType ==
  ASSUME SignInTypeOK, NEW t, Drop(t)
  PROVE  tickets' \in [Tickets -> Ticket]
BY DEF SignInTypeOK, Drop, Ticket, Gone

LEMMA InTimeType ==
  ASSUME SignInTypeOK, NEW r \in Requests, NEW code \in InTime(r)
  PROVE  code \in Code /\ code # NoCode
<1>1. now \in Nat
  BY DEF SignInTypeOK
<1>2. code \in Code
  BY <1>1 DEF InTime, Code, Window
<1> QED
  BY <1>2, SignInAssumption DEF Code

\* What a request does at its mark.
LEMMA MarkFacts ==
  ASSUME SignInTypeOK, NEW r \in Requests, MarkCode(r)
  PROVE  /\ shown[r] \in Code /\ shown' = [shown EXCEPT ![r] = NoCode]
         /\ at[r] = "mark" /\ at'[r] \in {"count", "revoke", "enrol"}
         /\ \A q \in Requests : q # r => at'[q] = at[q]
         /\ \/ used' = used /\ accepted' = accepted
            \/ /\ ~Marked(shown[r])
               /\ used' = used \cup {[code |-> shown[r], until |-> now + ReplayTTL]}
               /\ accepted' = accepted \cup {[by |-> r, code |-> shown[r], at |-> now]}
BY DEF SignInTypeOK, MarkCode, Goes

LEMMA FactorType ==
  ASSUME SignInTypeOK, NEW r \in Requests, FactorStep(r)
  PROVE  SignInTypeOK'
<1>1. CASE LoadTicket(r)
  <2>1. /\ UNCHANGED <<now, operator, cacheVars, copy, changes, accepted, sessions, strikes, crossed, fresh>>
        /\ at' \in [Requests -> Steps]
        /\ \A q \in Requests : at'[q] \in Reading => q # r /\ at'[q] = at[q]
    BY <1>1 DEF SignInTypeOK, LoadTicket, Goes, Steps, Reading
  <2>2. ticket' \in [Requests -> Tickets \cup {NoTicket}]
    BY <1>1 DEF SignInTypeOK, LoadTicket
  <2>3. pending' \in [Requests -> Tickets \cup {NoSecret}]
    BY <1>1 DEF SignInTypeOK, LoadTicket, Ticket
  <2>4. together' \subseteq SUBSET Requests
    BY <1>1 DEF SignInTypeOK, LoadTicket
  <2>5. ShownOK'
    BY <1>1, GoesShown DEF SignInTypeOK, LoadTicket, Goes
  <2> QED
    BY <2>1, <2>2, <2>3, <2>4, <2>5 DEF SignInTypeOK, ShownOK, cacheVars
<1>2. CASE ReadAgain(r)
  <2>1. copy' \in [Requests -> Operator \cup {NoCopy}] /\ crossed' \in BOOLEAN
    <3>1. copy' \in [Requests -> Operator \cup {NoCopy}]
      BY <1>2 DEF SignInTypeOK, ReadAgain, Read
    <3>2. crossed' \in BOOLEAN
      BY <1>2, Zenon DEF SignInTypeOK, ReadAgain, Read
    <3> QED
      BY <3>1, <3>2
  <2>2. at' \in [Requests -> Steps]
    BY <1>2 DEF SignInTypeOK, ReadAgain, Goes, Steps
  <2>3. \A q \in Requests : at'[q] \in Reading => copy'[q] # NoCopy
    BY <1>2, SignInAssumption DEF SignInTypeOK, ReadAgain, Read, Goes, Reading, Operator, Secrets
  <2>4. ShownOK'
    BY <1>2, GoesShown DEF SignInTypeOK, ReadAgain, Goes
  <2> QED
    BY <1>2, <2>1, <2>2, <2>3, <2>4 DEF SignInTypeOK, ReadAgain, ShownOK, cacheVars
<1>3. CASE Refuse(r)
  BY <1>3, EndsFacts, EndsShown, DropType DEF SignInTypeOK, ShownOK, Refuse, history
<1>4. CASE CheckFactor(r)
  <2>1. /\ UNCHANGED <<now, operator, cacheVars, ticket, pending, copy, changes, history>>
        /\ at[r] = "factor" /\ at' \in [Requests -> Steps]
        /\ \A q \in Requests : at'[q] \in Reading => at[q] \in Reading
        /\ \A q \in Requests : q # r => at'[q] = at[q]
    BY <1>4 DEF SignInTypeOK, CheckFactor, Goes, Steps, Reading
  <2>2. ShownOK'
    <3>1. CASE shown' = shown /\ at'[r] # "mark"
      BY <2>1, <3>1, GoesShown
    <3>2. CASE \E code \in InTime(r) : shown' = [shown EXCEPT ![r] = code] /\ at'[r] = "mark"
      BY <2>1, <3>2, InTimeType DEF SignInTypeOK, ShownOK
    <3> QED
      BY <1>4, <3>1, <3>2 DEF CheckFactor, Goes, SignInTypeOK
  <2> QED
    BY <2>1, <2>2 DEF SignInTypeOK, ShownOK, cacheVars, history
<1>9. CASE MarkCode(r)
  <2>1. UNCHANGED <<now, operator, tickets, ticket, pending, copy, changes, sessions, strikes, crossed, together, fresh>>
    BY <1>9 DEF MarkCode
  <2>2. /\ at' \in [Requests -> Steps]
        /\ \A q \in Requests : at'[q] \in Reading => at[q] \in Reading
    BY <1>9 DEF SignInTypeOK, MarkCode, Goes, Steps, Reading
  <2>3. used' \subseteq [code : Code, until : Nat] /\ accepted' \subseteq [by : Requests, code : Code, at : Nat]
    <3>1. now \in Nat /\ now + ReplayTTL \in Nat
      BY DEF SignInTypeOK, ReplayTTL, Window
    <3> QED
      BY <1>9, <3>1, MarkFacts DEF SignInTypeOK
  <2>4. ShownOK'
    BY <1>9, MarkFacts DEF SignInTypeOK, ShownOK
  <2> QED
    BY <2>1, <2>2, <2>3, <2>4 DEF SignInTypeOK, ShownOK
<1>5. CASE Enrol(r)
  <2>1. operator' \in Operator /\ operator'.failed = operator.failed
    BY <1>5, WithSecret DEF SignInTypeOK, Enrol, Secrets
  <2>2. ShownOK'
    BY <1>5, GoesShown DEF SignInTypeOK, Enrol, Goes, requestVars, heldVars
  <2> QED
    BY <1>5, <2>1, <2>2 DEF SignInTypeOK, Enrol, Goes, Steps, Reading, ShownOK, cacheVars, requestVars,
                            heldVars, history
<1>6. CASE Revoke(r)
  <2>1. ShownOK'
    BY <1>6, GoesShown DEF SignInTypeOK, Revoke, Goes, requestVars, heldVars
  <2> QED
    BY <1>6, <2>1, DropType DEF SignInTypeOK, Revoke, Goes, Steps, Reading, ShownOK, requestVars, heldVars, history
<1>7. CASE Succeed(r)
  <2>1. operator' \in Operator /\ operator'.failed = 0
    <3>1. operator \in Operator /\ 0 \in Nat /\ operator' = [operator EXCEPT !.failed = 0, !.locked = 0]
      BY <1>7 DEF SignInTypeOK, Succeed
    <3> QED
      BY <3>1 DEF Operator
  <2>2. 0 < MaxFailures
    BY SignInAssumption
  <2>3. ShownOK'
    BY <1>7, GoesShown DEF SignInTypeOK, Succeed, Goes, requestVars, heldVars
  <2> QED
    BY <1>7, <2>1, <2>2, <2>3 DEF SignInTypeOK, Succeed, Goes, Steps, Reading, ShownOK, cacheVars, requestVars,
                                  heldVars
<1>8. CASE SaveSession(r)
  BY <1>8, EndsFacts, EndsShown DEF SignInTypeOK, ShownOK, SaveSession, cacheVars
<1> QED
  BY <1>1, <1>2, <1>3, <1>4, <1>5, <1>6, <1>7, <1>8, <1>9 DEF FactorStep

LEMMA TypeStep ==
  ASSUME SignInTypeOK, [Next]_vars
  PROVE  SignInTypeOK'
<1>1. CASE ChangeOperator
  <2>1. operator' \in Operator /\ operator'.failed = operator.failed
    BY <1>1, WithSettings DEF SignInTypeOK, ChangeOperator
  <2> QED
    BY <1>1, <2>1 DEF SignInTypeOK, ChangeOperator, cacheVars, requestVars, heldVars, history
<1>2. CASE Tick
  BY <1>2 DEF SignInTypeOK, Tick, cacheVars, requestVars, heldVars, history
<1>3. CASE UNCHANGED vars
  BY <1>3 DEF SignInTypeOK, vars, cacheVars, requestVars, heldVars, history
<1> QED
  BY <1>1, <1>2, <1>3, CountType, PasswordType, FactorType DEF Next

LEMMA InitType == Init => SignInTypeOK
<1> SUFFICES ASSUME Init PROVE SignInTypeOK
  OBVIOUS
<1>1. PICK secret \in {NoSecret, OldSecret}, code \in BOOLEAN :
          /\ operator = [active |-> TRUE, failed |-> 0, locked |-> 0, secret |-> secret, code |-> code]
          /\ tickets = [t \in Tickets |->
                IF t \notin Issued0 THEN Gone
                ELSE [until |-> TicketTTL,
                      enrols |-> IF secret = NoSecret /\ ~code THEN t ELSE NoSecret]]
          /\ fresh = IF secret = NoSecret THEN Issued0 ELSE {}
  BY DEF Init
<1>2. operator \in Operator /\ operator.failed < MaxFailures
  BY <1>1, SignInAssumption DEF Operator, Secrets
<1>3. tickets \in [Tickets -> Ticket]
  BY <1>1, SignInAssumption DEF Ticket, Gone
<1>4. fresh \subseteq Tickets
  BY <1>1, SignInAssumption
<1>5. /\ at \in [Requests -> Steps] /\ \A r \in Requests : at[r] \notin Reading
  BY DEF Init, Steps, Reading
<1> QED
  BY <1>2, <1>3, <1>4, <1>5 DEF Init, SignInTypeOK, Reading

-----------------------------------------------------------------------------
(* A code is accepted once in its window: a mark is never over before it. *)

MarkInv ==
    /\ \A r \in Requests : at[r] = "mark" => shown[r].step <= now + Window
    /\ \A a \in accepted : \E mark \in used : mark.code = a.code /\ mark.until > a.code.step + Window

LEMMA ShownIsCode ==
  ASSUME SignInTypeOK, NEW r \in Requests, at[r] = "mark"
  PROVE  shown[r] \in Code /\ shown[r].step \in Int
BY DEF SignInTypeOK, Code

LEMMA OnceStep ==
  ASSUME SignInTypeOK, MarkInv, SingleUse, [Next]_vars
  PROVE  MarkInv' /\ SingleUse'
<1>1. now \in Nat
  BY DEF SignInTypeOK
<1>2. ASSUME accepted' = accepted, used' = used, now' \in {now, now + 1},
             \A q \in Requests : at'[q] = "mark" =>
                shown'[q].step <= now + Window \/ (at[q] = "mark" /\ shown'[q] = shown[q])
      PROVE  MarkInv' /\ SingleUse'
  <2>1. ASSUME NEW q \in Requests, at'[q] = "mark" PROVE shown'[q].step <= now' + Window
    <3>1. CASE at[q] = "mark" /\ shown'[q] = shown[q]
      BY <3>1, <1>1, <1>2, ShownIsCode DEF MarkInv, Window
    <3>2. CASE shown'[q].step <= now + Window
      <4>1. shown'[q].step \in Int
        BY <2>1, ShownIsCode, TypeStep DEF SignInTypeOK, Code
      <4> QED
        BY <3>2, <4>1, <1>1, <1>2 DEF Window
    <3> QED
      BY <1>2, <2>1, <3>1, <3>2
  <2> QED
    BY <1>2, <2>1 DEF MarkInv, SingleUse, Overdue
<1>3. ASSUME NEW r \in Requests, MarkCode(r), ~Marked(shown[r]),
             used' = used \cup {[code |-> shown[r], until |-> now + ReplayTTL]},
             accepted' = accepted \cup {[by |-> r, code |-> shown[r], at |-> now]}
      PROVE  MarkInv' /\ SingleUse'
  <2> DEFINE code == shown[r]
             mark == [code |-> code, until |-> now + ReplayTTL]
             new == [by |-> r, code |-> code, at |-> now]
  <2>1. /\ code \in Code /\ code.step \in Int /\ code.step <= now + Window
        /\ now' = now /\ \A q \in Requests : at'[q] = "mark" => at[q] = "mark" /\ shown'[q] = shown[q]
    <3>1. at[r] = "mark"
      BY <1>3, MarkFacts
    <3>2. \A q \in Requests : at'[q] = "mark" => at[q] = "mark" /\ shown'[q] = shown[q]
      BY <1>3, MarkFacts DEF SignInTypeOK
    <3> QED
      BY <1>3, <3>1, <3>2, ShownIsCode DEF MarkInv, MarkCode
  <2>2. now + ReplayTTL > code.step + Window
    BY <1>1, <2>1 DEF ReplayTTL, Window
  <2>3. mark \in used' /\ mark.code = code /\ mark.until = now + ReplayTTL
    BY <1>3
  <2>4. /\ used \subseteq used' /\ accepted' = accepted \cup {new} /\ ~Marked(code)
        /\ new.code = code /\ new.at = now
    BY <1>3
  <2> HIDE DEF code, mark, new
  <2>5. MarkInv'
    BY <2>1, <2>2, <2>3, <2>4 DEF MarkInv
  <2>6. ASSUME NEW a \in accepted, a.code = code PROVE now > code.step + Window
    <3>1. PICK m \in used : m.code = code /\ m.until > code.step + Window
      BY <2>6 DEF MarkInv
    <3>2. m.until \in Nat /\ ~(m.until > now)
      BY <2>4, <3>1 DEF SignInTypeOK, Marked
    <3> QED
      BY <1>1, <2>1, <3>1, <3>2 DEF Window
  <2>7. \A a \in accepted : a.code = code => Overdue(new)
    BY <2>4, <2>6 DEF Overdue
  <2>8. SingleUse'
    BY <2>4, <2>7 DEF SingleUse, Overdue
  <2> QED
    BY <2>5, <2>8
<1>4. ASSUME NEW r \in Requests, MarkCode(r) PROVE MarkInv' /\ SingleUse'
  <2>1. now' = now /\ \A q \in Requests : at'[q] = "mark" => at[q] = "mark" /\ shown'[q] = shown[q]
    BY <1>4, MarkFacts DEF MarkCode, SignInTypeOK
  <2> QED
    BY <1>4, <2>1, <1>2, <1>3, MarkFacts
<1>5. ASSUME NEW r \in Requests, CheckFactor(r) PROVE MarkInv' /\ SingleUse'
  <2>1. /\ UNCHANGED <<accepted, used, now>> /\ at[r] = "factor"
        /\ \A q \in Requests : q # r => at'[q] = at[q] /\ shown'[q] = shown[q]
    BY <1>5 DEF CheckFactor, Goes, cacheVars, history, SignInTypeOK
  <2>2. at'[r] = "mark" => shown'[r].step <= now + Window
    <3>1. \A code \in InTime(r) : code.step <= now + Window
      BY <1>1 DEF InTime, Window
    <3> QED
      BY <1>5, <3>1 DEF CheckFactor, Goes, SignInTypeOK
  <2> QED
    BY <1>2, <2>1, <2>2
<1>6. ASSUME NEW r \in Requests, CheckPassword(r) \/ ReadOperator(r) \/ LoadTicket(r) \/ ReadAgain(r)
             \/ Enrol(r) \/ Revoke(r) \/ Succeed(r)
      PROVE  MarkInv' /\ SingleUse'
  <2>1. /\ UNCHANGED <<accepted, used, now, shown>> /\ at'[r] # "mark"
        /\ \A q \in Requests : q # r => at'[q] = at[q]
    BY <1>6 DEF CheckPassword, ReadOperator, LoadTicket, ReadAgain, Enrol, Revoke, Succeed, Goes, cacheVars,
                requestVars, heldVars, history, SignInTypeOK
  <2> QED
    BY <1>2, <2>1
<1>7. ASSUME NEW r \in Requests, IssueTicket(r) \/ CountFailure(r) \/ Die(r) \/ Refuse(r) \/ SaveSession(r)
      PROVE  MarkInv' /\ SingleUse'
  <2>1. UNCHANGED <<accepted, used, now>> /\ Ends(r)
    BY <1>7 DEF IssueTicket, CountFailure, Die, Refuse, SaveSession, cacheVars, history
  <2>2. at'[r] = "done" /\ \A q \in Requests : q # r => at'[q] = at[q] /\ shown'[q] = shown[q]
    BY <2>1, EndsFacts
  <2> QED
    BY <1>2, <2>1, <2>2
<1>8. ASSUME ChangeOperator \/ Tick \/ UNCHANGED vars PROVE MarkInv' /\ SingleUse'
  <2>1. UNCHANGED <<accepted, used, at, shown>> /\ now' \in {now, now + 1}
    BY <1>8 DEF ChangeOperator, Tick, vars, history, cacheVars, requestVars, heldVars
  <2> QED
    BY <1>2, <2>1
<1> QED
  BY <1>4, <1>5, <1>6, <1>7, <1>8 DEF Next, PasswordStep, FactorStep

-----------------------------------------------------------------------------
(* A ticket makes one session: whoever is done with it has dropped it, and it is
   never issued again. *)

\* A request that has the ticket in hand, or made a session of it.
Holds(r) == at[r] \in Verifying \/ r \in sessions

TicketInv ==
    /\ \A r \in Requests :
          /\ Holds(r) => ticket[r] \in Tickets
          /\ r \in sessions => at[r] = "done"
          /\ at[r] \in {"succeed", "save"} \/ r \in sessions => tickets[ticket[r]] = Gone
    /\ \A q, r \in Requests : q # r /\ Holds(q) /\ Holds(r) /\ ticket[q] = ticket[r] => {q, r} \in together

\* Requests that hold no more, and keep their tickets, while none is issued.
LEMMA TicketKept ==
  ASSUME SignInTypeOK, TicketInv, NEW r \in Requests,
         UNCHANGED <<ticket, sessions>>, together \subseteq together',
         \A q \in Requests : q # r => at'[q] = at[q],
         at[r] # "done", at'[r] \in Verifying => at[r] \in Verifying,
         \A t \in Tickets : tickets'[t] = tickets[t] \/ tickets'[t] = Gone,
         at'[r] \in {"succeed", "save"} => tickets'[ticket[r]] = Gone
  PROVE  TicketInv'
<1>1. r \notin sessions
  BY DEF TicketInv
<1>2. \A q \in Requests : Holds(q)' => Holds(q)
  BY DEF Holds
<1>3. \A q \in Requests : at'[q] \in {"succeed", "save"} \/ q \in sessions' =>
        tickets'[ticket'[q]] = Gone /\ (q \in sessions' => at'[q] = "done")
  <2> SUFFICES ASSUME NEW q \in Requests, at'[q] \in {"succeed", "save"} \/ q \in sessions
               PROVE  tickets'[ticket[q]] = Gone /\ (q \in sessions => at'[q] = "done")
    OBVIOUS
  <2>1. CASE q = r
    BY <2>1, <1>1
  <2>2. CASE q # r
    <3>1. (at[q] \in {"succeed", "save"} \/ q \in sessions) /\ ticket[q] \in Tickets
      BY <2>2 DEF TicketInv, Holds, Verifying
    <3> QED
      BY <2>2, <3>1 DEF TicketInv
  <2> QED
    BY <2>1, <2>2
<1> QED
  BY <1>2, <1>3 DEF TicketInv

LEMMA LoadKept ==
  ASSUME SignInTypeOK, TicketInv, NEW r \in Requests, LoadTicket(r)
  PROVE  TicketInv'
<1>1. /\ at[r] = "new" /\ r \notin sessions /\ UNCHANGED <<tickets, sessions>>
      /\ \A q \in Requests : q # r => at'[q] = at[q] /\ ticket'[q] = ticket[q]
      /\ at'[r] \in {"verify", "done"}
  BY DEF LoadTicket, SignInTypeOK, TicketInv, Goes, cacheVars
<1>2. CASE at'[r] = "done" /\ ticket' = ticket /\ together' = together
  <2>1. \A q \in Requests : Holds(q)' => Holds(q) /\ q # r
    BY <1>1, <1>2 DEF Holds, Verifying
  <2> QED
    BY <1>1, <1>2, <2>1 DEF TicketInv
<1>3. ASSUME NEW t \in Tickets, Lives(t), ticket' = [ticket EXCEPT ![r] = t],
             together' = together \cup {{q, r} : q \in {p \in Requests : ticket[p] = t /\ at[p] \in Verifying}},
             at'[r] = "verify"
      PROVE  TicketInv'
  <2>1. ticket'[r] = t
    BY <1>3 DEF SignInTypeOK
  <2>2. \A q \in Requests : q # r => (Holds(q)' <=> Holds(q))
    BY <1>1 DEF Holds
  <2>3. tickets[t] # Gone
    BY <1>3 DEF Lives, Gone, SignInTypeOK
  <2>4. \A q \in Requests : q # r /\ Holds(q) /\ ticket[q] = t => {q, r} \in together'
    <3> SUFFICES ASSUME NEW q \in Requests, q # r, Holds(q), ticket[q] = t PROVE {q, r} \in together'
      OBVIOUS
    <3>1. q \notin sessions
      BY <2>3 DEF TicketInv
    <3>2. at[q] \in Verifying
      BY <3>1 DEF Holds
    <3> QED
      BY <3>2, <1>3
  <2>5. ASSUME NEW p \in Requests, NEW q \in Requests, p # q, Holds(p)', Holds(q)', ticket'[p] = ticket'[q]
        PROVE  {p, q} \in together'
    <3>1. CASE p = r
      <4>1. {q, p} \in together'
        BY <3>1, <2>1, <2>2, <2>4, <2>5, <1>1
      <4>2. {q, p} = {p, q}
        OBVIOUS
      <4> QED
        BY <4>1, <4>2
    <3>2. CASE q = r
      BY <3>2, <2>1, <2>2, <2>4, <2>5, <1>1
    <3>3. CASE p # r /\ q # r
      BY <3>3, <2>2, <2>5, <1>1, <1>3 DEF TicketInv
    <3> QED
      BY <3>1, <3>2, <3>3
  <2>6. ASSUME NEW q \in Requests
        PROVE  /\ Holds(q)' => ticket'[q] \in Tickets
               /\ q \in sessions' => at'[q] = "done"
               /\ at'[q] \in {"succeed", "save"} \/ q \in sessions' => tickets'[ticket'[q]] = Gone
    <3>1. CASE q = r
      BY <3>1, <2>1, <1>1, <1>3
    <3>2. CASE q # r
      BY <3>2, <2>2, <1>1 DEF TicketInv
    <3> QED
      BY <3>1, <3>2
  <2> QED
    BY <2>5, <2>6 DEF TicketInv
<1> QED
  BY <1>2, <1>3 DEF LoadTicket, Goes, SignInTypeOK

LEMMA IssueKept ==
  ASSUME SignInTypeOK, TicketInv, NEW r \in Requests, IssueTicket(r)
  PROVE  TicketInv'
<1>1. /\ at[r] = "issue" /\ at'[r] = "done" /\ r \notin sessions
      /\ UNCHANGED <<sessions, together>>
      /\ \A q \in Requests : q # r => at'[q] = at[q]
  BY EndsFacts DEF IssueTicket, TicketInv
<1>2. PICK t \in Tickets :
        /\ \A q \in Requests : ticket[q] # t
        /\ \A u \in Tickets : u # t => tickets'[u] = tickets[u]
        /\ \A q \in Requests : q # r => ticket'[q] = ticket[q]
  BY DEF IssueTicket, SignInTypeOK
<1>3. \A q \in Requests : Holds(q)' => Holds(q) /\ q # r
  BY <1>1 DEF Holds, Verifying
<1>4. ASSUME NEW q \in Requests, at'[q] \in {"succeed", "save"} \/ q \in sessions'
      PROVE  tickets'[ticket'[q]] = Gone
  <2>1. q # r /\ (at[q] \in {"succeed", "save"} \/ q \in sessions) /\ ticket[q] \in Tickets
    BY <1>1, <1>4 DEF TicketInv, Holds, Verifying
  <2> QED
    BY <2>1, <1>2 DEF TicketInv
<1> QED
  BY <1>1, <1>2, <1>3, <1>4 DEF TicketInv

LEMMA SaveKept ==
  ASSUME SignInTypeOK, TicketInv, NEW r \in Requests, SaveSession(r)
  PROVE  TicketInv'
<1>1. /\ at[r] = "save" /\ at'[r] = "done" /\ UNCHANGED <<ticket, tickets, together>>
      /\ sessions' = sessions \cup {r} /\ \A q \in Requests : q # r => at'[q] = at[q]
  BY EndsFacts DEF SaveSession, cacheVars
<1>2. \A q \in Requests : Holds(q)' => Holds(q)
  BY <1>1 DEF Holds, Verifying
<1> QED
  BY <1>1, <1>2 DEF TicketInv

LEMMA TicketStep ==
  ASSUME SignInTypeOK, TicketInv, [Next]_vars
  PROVE  TicketInv'
<1>1. ASSUME NEW r \in Requests,
             ReadOperator(r) \/ CheckPassword(r) \/ CountFailure(r) \/ Die(r) \/ ReadAgain(r)
                \/ CheckFactor(r) \/ MarkCode(r) \/ Enrol(r) \/ Succeed(r)
      PROVE  TicketInv'
  <2>1. UNCHANGED <<ticket, sessions, tickets, together>>
    BY <1>1 DEF ReadOperator, CheckPassword, CountFailure, Die, ReadAgain, CheckFactor, MarkCode, Enrol, Succeed,
                cacheVars, requestVars, history
  <2>2. /\ at[r] # "done" /\ \A q \in Requests : q # r => at'[q] = at[q]
        /\ at'[r] \in Verifying => at[r] \in Verifying
        /\ at'[r] \in {"succeed", "save"} => at[r] \in {"succeed", "save"}
    BY <1>1 DEF ReadOperator, CheckPassword, CountFailure, Die, ReadAgain, CheckFactor, MarkCode, Enrol, Succeed,
                Goes, Ends, Verifying, SignInTypeOK
  <2>3. at'[r] \in {"succeed", "save"} => tickets'[ticket[r]] = Gone
    BY <2>1, <2>2 DEF TicketInv
  <2> QED
    BY <2>1, <2>2, <2>3, TicketKept
<1>2. ASSUME NEW r \in Requests, Refuse(r) \/ Revoke(r) PROVE TicketInv'
  <2>1. UNCHANGED <<ticket, sessions, together>> /\ Drop(ticket[r]) /\ at[r] \in {"refuse", "revoke"}
    BY <1>2 DEF Refuse, Revoke, requestVars, history
  <2>2. /\ \A q \in Requests : q # r => at'[q] = at[q]
        /\ at'[r] \in {"done", "succeed"}
    BY <1>2 DEF Refuse, Revoke, Goes, Ends, SignInTypeOK
  <2>3. ticket[r] \in Tickets
    BY <2>1 DEF TicketInv, Holds, Verifying
  <2>4. /\ tickets'[ticket[r]] = Gone
        /\ \A t \in Tickets : tickets'[t] = tickets[t] \/ tickets'[t] = Gone
    BY <2>1, <2>3 DEF Drop, SignInTypeOK
  <2> QED
    BY <2>1, <2>2, <2>4, TicketKept DEF Verifying
<1>3. ASSUME UNCHANGED <<at, ticket, sessions, together, tickets>> PROVE TicketInv'
  BY <1>3 DEF TicketInv, Holds
<1>4. ChangeOperator \/ Tick \/ UNCHANGED vars => UNCHANGED <<at, ticket, sessions, together, tickets>>
  BY DEF ChangeOperator, Tick, vars, cacheVars, requestVars, history
<1> QED
  BY <1>1, <1>2, <1>3, <1>4, LoadKept, IssueKept, SaveKept DEF Next, PasswordStep, FactorStep

-----------------------------------------------------------------------------
(* The lock a request has read was over, and the secret it may write is a fresh one. *)

\* What is in hand, or can be taken: copies of unlocked rows, secrets of fresh tickets.
InHand ==
    /\ \A r \in Requests : at[r] \in Reading => copy[r].locked <= now
    /\ \A t \in Tickets : tickets[t].enrols # NoSecret => tickets[t].enrols \in fresh
    /\ \A r \in Requests : pending[r] # NoSecret => pending[r] \in fresh
    /\ \A r \in Requests : at[r] = "enrol" => pending[r] # NoSecret

\* A request that reads no row and takes no ticket.
LEMMA InHandKept ==
  ASSUME SignInTypeOK, InHand, NEW r \in Requests, now' = now, fresh' = fresh,
         \A q \in Requests : q # r => at'[q] = at[q] /\ copy'[q] = copy[q] /\ pending'[q] = pending[q],
         at'[r] \in Reading => at[r] \in Reading /\ copy'[r] = copy[r],
         at'[r] = "enrol" => pending'[r] # NoSecret,
         pending'[r] \in {NoSecret, pending[r]},
         \A t \in Tickets : tickets'[t] = tickets[t] \/ tickets'[t] = Gone
  PROVE  InHand'
<1>1. Gone.enrols = NoSecret
  BY DEF Gone
<1> QED
  BY <1>1 DEF InHand

LEMMA ReadFacts ==
  ASSUME SignInTypeOK, NEW r \in Requests, ~IsLocked(operator), Read(r)
  PROVE  copy'[r] = operator /\ operator.locked <= now /\ \A q \in Requests : q # r => copy'[q] = copy[q]
<1>1. operator.locked \in Nat /\ now \in Nat
  BY Fields DEF SignInTypeOK
<1> QED
  BY <1>1 DEF SignInTypeOK, IsLocked, Read

LEMMA InHandStep ==
  ASSUME SignInTypeOK, InHand, [Next]_vars
  PROVE  InHand'
<1>1. ASSUME NEW r \in Requests, ReadOperator(r) \/ ReadAgain(r) PROVE InHand'
  <2>1. /\ UNCHANGED <<now, tickets, fresh, pending>>
        /\ \A q \in Requests : q # r => at'[q] = at[q]
        /\ at'[r] \in {"password", "factor", "done", "refuse"}
    BY <1>1 DEF ReadOperator, ReadAgain, Goes, cacheVars, SignInTypeOK
  <2>2. \/ ~IsLocked(operator) /\ Read(r)
        \/ copy' = copy /\ at'[r] \notin Reading
    BY <1>1 DEF ReadOperator, ReadAgain, Goes, Reading, SignInTypeOK
  <2>3. CASE ~IsLocked(operator) /\ Read(r)
    BY <2>1, <2>3, ReadFacts DEF InHand
  <2>4. CASE copy' = copy /\ at'[r] \notin Reading
    BY <2>1, <2>4 DEF InHand
  <2> QED
    BY <2>2, <2>3, <2>4
<1>2. ASSUME NEW r \in Requests, CheckPassword(r) \/ Succeed(r) \/ Enrol(r) \/ CheckFactor(r) \/ MarkCode(r) PROVE InHand'
  <2>1. /\ UNCHANGED <<now, fresh, tickets, copy, pending>>
        /\ at[r] \in Reading /\ \A q \in Requests : q # r => at'[q] = at[q]
        /\ at'[r] = "enrol" => pending[r] # NoSecret
    BY <1>2 DEF CheckPassword, Succeed, Enrol, CheckFactor, MarkCode, Goes, Reading, SignInTypeOK, cacheVars,
                requestVars, heldVars, history
  <2> QED
    BY <2>1, InHandKept
<1>3. ASSUME NEW r \in Requests, CountFailure(r) \/ Die(r) \/ SaveSession(r) \/ Refuse(r) PROVE InHand'
  <2>1. UNCHANGED <<now, fresh>> /\ Ends(r)
    BY <1>3 DEF CountFailure, Die, SaveSession, Refuse, history
  <2>2. \A t \in Tickets : tickets'[t] = tickets[t] \/ tickets'[t] = Gone
    BY <1>3 DEF CountFailure, Die, SaveSession, Refuse, Drop, cacheVars, SignInTypeOK
  <2> QED
    BY <2>1, <2>2, EndsFacts, InHandKept DEF Reading
<1>4. ASSUME NEW r \in Requests, Revoke(r) PROVE InHand'
  <2>1. /\ UNCHANGED <<now, fresh, copy, pending>> /\ at[r] \in Reading /\ at'[r] = "succeed"
        /\ \A q \in Requests : q # r => at'[q] = at[q]
    BY <1>4 DEF Revoke, Goes, Reading, SignInTypeOK, requestVars, heldVars, history
  <2>2. \A t \in Tickets : tickets'[t] = tickets[t] \/ tickets'[t] = Gone
    BY <1>4 DEF Revoke, Drop, SignInTypeOK
  <2> QED
    BY <2>1, <2>2, InHandKept
<1>5. ASSUME NEW r \in Requests, LoadTicket(r) PROVE InHand'
  <2>1. /\ UNCHANGED <<now, fresh, tickets, copy>> /\ at'[r] \in {"verify", "done"}
        /\ \A q \in Requests : q # r => at'[q] = at[q] /\ pending'[q] = pending[q]
    BY <1>5 DEF LoadTicket, Goes, SignInTypeOK, cacheVars
  <2>2. pending'[r] = pending[r] \/ \E t \in Tickets : pending'[r] = tickets[t].enrols
    BY <1>5 DEF LoadTicket, SignInTypeOK
  <2> QED
    BY <2>1, <2>2 DEF InHand, Reading
<1>6. ASSUME NEW r \in Requests, IssueTicket(r) PROVE InHand'
  <2>1. now' = now /\ Ends(r)
    BY <1>6 DEF IssueTicket
  <2>2. fresh \subseteq fresh'
    BY <1>6 DEF IssueTicket
  <2>3. \A t \in Tickets : tickets'[t] = tickets[t] \/ tickets'[t].enrols = NoSecret \/ tickets'[t].enrols \in fresh'
    BY <1>6 DEF IssueTicket, SignInTypeOK
  <2>4. \A q \in Requests : at'[q] \in Reading \cup {"enrol"} => q # r
    BY <2>1, EndsFacts DEF Reading
  <2> QED
    BY <2>1, <2>2, <2>3, <2>4, EndsFacts DEF InHand, Reading
<1>7. ASSUME ChangeOperator \/ UNCHANGED vars PROVE InHand'
  BY <1>7 DEF ChangeOperator, vars, cacheVars, requestVars, heldVars, history, InHand
<1>8. ASSUME Tick PROVE InHand'
  <2>1. now' = now + 1 /\ now \in Nat /\ UNCHANGED <<tickets, fresh, at, copy, pending>>
    BY <1>8 DEF Tick, cacheVars, requestVars, heldVars, history, SignInTypeOK
  <2>2. \A r \in Requests : at[r] \in Reading => copy[r].locked \in Nat
    BY CopyIsOperator, Fields
  <2> QED
    BY <2>1, <2>2 DEF InHand
<1> QED
  BY <1>1, <1>2, <1>3, <1>4, <1>5, <1>6, <1>7, <1>8 DEF Next, PasswordStep, FactorStep

\* The two columns only three actions write.
LEMMA LockStep ==
  ASSUME SignInTypeOK, InHand, [Next]_vars, IsLocked(operator), operator'.locked # operator.locked
  PROVE  \E r \in Requests : /\ at[r] \in {"count", "succeed"} /\ at'[r] # at[r]
                             /\ copy[r].locked # operator.locked
<1>1. ASSUME NEW r \in Requests, at[r] \in {"count", "succeed"} PROVE copy[r].locked # operator.locked
  <2>1. copy[r].locked <= now /\ copy[r].locked \in Nat /\ now \in Nat /\ operator.locked \in Nat
    BY <1>1, CopyIsOperator, Fields DEF InHand, Reading, SignInTypeOK
  <2> QED
    BY <2>1 DEF IsLocked
<1>2. ASSUME NEW r \in Requests, CountFailure(r) \/ Succeed(r)
      PROVE  at[r] \in {"count", "succeed"} /\ at'[r] # at[r]
  BY <1>2 DEF CountFailure, Succeed, Ends, Goes, SignInTypeOK
<1>3. ASSUME NEW r \in Requests, Enrol(r) PROVE FALSE
  BY <1>3, WithSecret DEF Enrol, SignInTypeOK, Secrets
<1>4. ASSUME ChangeOperator PROVE FALSE
  BY <1>4, WithSettings DEF ChangeOperator, SignInTypeOK
<1>5. ASSUME operator' = operator PROVE FALSE
  BY <1>5
<1>6. ASSUME NEW r \in Requests,
             PasswordStep(r) \/ LoadTicket(r) \/ ReadAgain(r) \/ Refuse(r) \/ CheckFactor(r) \/ MarkCode(r)
                \/ Revoke(r) \/ SaveSession(r) \/ Die(r)
      PROVE  operator' = operator
  BY <1>6 DEF PasswordStep, ReadOperator, CheckPassword, IssueTicket, LoadTicket, ReadAgain, Refuse,
              CheckFactor, MarkCode, Revoke, SaveSession, Die
<1>7. Tick \/ UNCHANGED vars => operator' = operator
  BY DEF Tick, vars
<1> QED
  BY <1>1, <1>2, <1>3, <1>4, <1>5, <1>6, <1>7 DEF Next, FactorStep

LEMMA SecretStep ==
  ASSUME SignInTypeOK, InHand, [Next]_vars, operator'.secret # operator.secret
  PROVE  operator'.secret \in fresh
<1>1. ASSUME NEW r \in Requests, Enrol(r) PROVE operator'.secret \in fresh
  <2>1. operator'.secret = pending[r] /\ at[r] = "enrol"
    BY <1>1, WithSecret DEF Enrol, SignInTypeOK, Secrets
  <2> QED
    BY <2>1 DEF InHand
<1>2. ASSUME NEW r \in Requests, CountFailure(r) PROVE FALSE
  BY <1>2, CountFacts
<1>3. ASSUME NEW r \in Requests, Succeed(r) PROVE FALSE
  BY <1>3 DEF Succeed, SignInTypeOK, Operator
<1>4. ASSUME ChangeOperator PROVE FALSE
  BY <1>4, WithSettings DEF ChangeOperator, SignInTypeOK
<1>5. ASSUME NEW r \in Requests,
             PasswordStep(r) \/ LoadTicket(r) \/ ReadAgain(r) \/ Refuse(r) \/ CheckFactor(r) \/ MarkCode(r)
                \/ Revoke(r) \/ SaveSession(r) \/ Die(r)
      PROVE  operator' = operator
  BY <1>5 DEF PasswordStep, ReadOperator, CheckPassword, IssueTicket, LoadTicket, ReadAgain, Refuse,
              CheckFactor, MarkCode, Revoke, SaveSession, Die
<1>6. Tick \/ UNCHANGED vars => operator' = operator
  BY DEF Tick, vars
<1> QED
  BY <1>1, <1>2, <1>3, <1>4, <1>5, <1>6 DEF Next, FactorStep

-----------------------------------------------------------------------------
(* While requests do not overlap, the one that has read the row has it as it is. *)

CountInv ==
    ~crossed =>
       /\ operator.failed = strikes
       /\ \A r \in Requests : at[r] \in Reading => copy[r].failed = operator.failed
       /\ \A q, r \in Requests : at[q] \in Reading /\ at[r] \in Reading => q = r

LEMMA CountKept ==
  ASSUME CountInv, crossed' = crossed, strikes' = strikes, operator'.failed = operator.failed,
         \A q \in Requests : at'[q] \in Reading => at[q] \in Reading /\ copy'[q] = copy[q]
  PROVE  CountInv'
BY DEF CountInv

LEMMA CountStep ==
  ASSUME SignInTypeOK, CountInv, [Next]_vars
  PROVE  CountInv'
<1>1. ASSUME NEW r \in Requests, ReadOperator(r) \/ ReadAgain(r) PROVE CountInv'
  <2>1. /\ UNCHANGED <<operator, strikes>>
        /\ \A q \in Requests : q # r => at'[q] = at[q]
    BY <1>1 DEF ReadOperator, ReadAgain, Goes, SignInTypeOK
  <2>2. CASE ~IsLocked(operator) /\ Read(r)
    <3>1. ASSUME ~crossed' PROVE ~crossed /\ \A q \in Requests \ {r} : at[q] \notin Reading
      BY <3>1, <2>2, Zenon DEF Read
    <3>2. copy'[r] = operator
      BY <2>2, ReadFacts
    <3> QED
      BY <2>1, <3>1, <3>2 DEF CountInv
  <2>3. CASE UNCHANGED <<copy, crossed>> /\ at'[r] \notin Reading
    BY <2>1, <2>3, CountKept
  <2> QED
    BY <1>1, <2>2, <2>3 DEF ReadOperator, ReadAgain, Goes, Reading, SignInTypeOK
<1>2. ASSUME NEW r \in Requests, CheckPassword(r) \/ CheckFactor(r) \/ MarkCode(r) \/ Revoke(r) PROVE CountInv'
  <2>1. /\ UNCHANGED <<operator, strikes, crossed, copy>> /\ at[r] \in Reading
        /\ \A q \in Requests : q # r => at'[q] = at[q]
    BY <1>2 DEF CheckPassword, CheckFactor, MarkCode, Revoke, Goes, Reading, SignInTypeOK, requestVars, heldVars,
                history
  <2> QED
    BY <2>1, CountKept
<1>3. ASSUME NEW r \in Requests, Enrol(r) PROVE CountInv'
  <2>1. /\ UNCHANGED <<strikes, crossed, copy>> /\ operator'.failed = operator.failed /\ at[r] \in Reading
        /\ \A q \in Requests : q # r => at'[q] = at[q]
    BY <1>3, WithSecret DEF Enrol, Goes, Reading, SignInTypeOK, Secrets, requestVars, heldVars, history
  <2> QED
    BY <2>1, CountKept
<1>4. ASSUME NEW r \in Requests, IssueTicket(r) \/ Refuse(r) \/ SaveSession(r) \/ Die(r) PROVE CountInv'
  <2>1. UNCHANGED <<operator, strikes, crossed>> /\ Ends(r)
    BY <1>4 DEF IssueTicket, Refuse, SaveSession, Die, history
  <2> QED
    BY <2>1, EndsFacts, CountKept
<1>5. ASSUME NEW r \in Requests, LoadTicket(r) PROVE CountInv'
  <2>1. /\ UNCHANGED <<operator, strikes, crossed, copy>> /\ at'[r] \notin Reading
        /\ \A q \in Requests : q # r => at'[q] = at[q]
    BY <1>5 DEF LoadTicket, Goes, Reading, SignInTypeOK
  <2> QED
    BY <2>1, CountKept
<1>6. ASSUME NEW r \in Requests, CountFailure(r) PROVE CountInv'
  <2>1. crossed' = crossed /\ Ends(r) /\ at[r] \in Reading
    BY <1>6 DEF CountFailure, Reading
  <2>2. ~crossed => \A q \in Requests : at'[q] \notin Reading
    BY <2>1, EndsFacts DEF CountInv
  <2>3. ~crossed => copy[r].failed = strikes
    BY <2>1 DEF CountInv
  <2> QED
    BY <1>6, <2>1, <2>2, <2>3, CountFacts DEF CountInv
<1>7. ASSUME NEW r \in Requests, Succeed(r) PROVE CountInv'
  <2>1. crossed' = crossed /\ strikes' = 0 /\ at[r] \in Reading
    BY <1>7 DEF Succeed, Reading
  <2>2. operator'.failed = 0
    BY <1>7 DEF Succeed, SignInTypeOK, Operator
  <2>3. at'[r] = "save" /\ \A q \in Requests : q # r => at'[q] = at[q]
    BY <1>7 DEF Succeed, Goes, SignInTypeOK
  <2>4. ~crossed => \A q \in Requests : at'[q] \notin Reading
    BY <2>1, <2>3 DEF CountInv, Reading
  <2> QED
    BY <2>1, <2>2, <2>4 DEF CountInv
<1>8. ASSUME ChangeOperator PROVE CountInv'
  BY <1>8, WithSettings, CountKept DEF ChangeOperator, SignInTypeOK, requestVars, heldVars, history
<1>9. ASSUME Tick \/ UNCHANGED vars PROVE CountInv'
  BY <1>9, CountKept DEF Tick, vars, requestVars, heldVars, history
<1> QED
  BY <1>1, <1>2, <1>3, <1>4, <1>5, <1>6, <1>7, <1>8, <1>9 DEF Next, PasswordStep, FactorStep

-----------------------------------------------------------------------------
(* The theorems. *)

Inv == SignInTypeOK /\ MarkInv /\ SingleUse /\ TicketInv /\ InHand /\ CountInv

LEMMA InvInit == Init => Inv
<1> SUFFICES ASSUME Init PROVE Inv
  OBVIOUS
<1>1. MarkInv /\ SingleUse
  BY DEF Init, MarkInv, SingleUse
<1>2. TicketInv
  BY DEF Init, TicketInv, Holds, Verifying
<1>3. InHand
  <2>1. \A t \in Tickets : tickets[t].enrols # NoSecret => tickets[t].enrols \in fresh
    BY DEF Init, Gone
  <2> QED
    BY <2>1 DEF Init, InHand, Reading
<1>4. CountInv
  BY DEF Init, CountInv, Reading
<1> QED
  BY <1>1, <1>2, <1>3, <1>4, InitType DEF Inv

LEMMA InvStep ==
  ASSUME Inv, [Next]_vars
  PROVE  Inv'
BY TypeStep, OnceStep, TicketStep, InHandStep, CountStep DEF Inv

LEMMA InvAlways == Spec => []Inv
BY InvInit, InvStep, PTL DEF Spec

\* Whoever presents a code or a ticket twice, at once or one after the other, it is
\* used once; a second session of a ticket takes two requests that had loaded it, and a
\* second use of a code one request held between check and mark until the code's window
\* had closed.
THEOREM UsedOnceCorrect == Spec => []UsedOnce
<1>1. Inv => UsedOnce
  BY DEF Inv, UsedOnce, TicketInv, TicketOnce, Holds, SignInTypeOK
<1> QED
  BY <1>1, InvAlways, PTL

\* Wrong answers count, at either step, as long as requests do not overlap.
THEOREM WrongAnswersCorrect == Spec => []WrongAnswersCount
<1>1. Inv => WrongAnswersCount
  BY DEF Inv, CountInv, WrongAnswersCount
<1> QED
  BY <1>1, InvAlways, PTL

\* A lockout is undone before its time only by who had read the row before it, and a
\* confirmed secret replaced only by that of a ticket issued before it was confirmed.
THEOREM StandsCorrect == Spec => LockAndSecretStand
<1>1. Inv /\ [Next]_vars =>
        [IsLocked(operator) /\ operator'.locked # operator.locked =>
          \E r \in Requests : /\ at[r] \in {"count", "succeed"} /\ at'[r] # at[r]
                              /\ copy[r].locked # operator.locked]_vars
  BY LockStep DEF Inv
<1>2. Inv /\ [Next]_vars =>
        [operator.secret # NoSecret /\ operator'.secret # operator.secret =>
          operator'.secret \in fresh]_vars
  <2>1. ASSUME Inv, [Next]_vars, operator'.secret # operator.secret PROVE operator'.secret \in fresh
    BY <2>1, SecretStep DEF Inv
  <2> QED
    BY <2>1
<1> QED
  BY <1>1, <1>2, InvAlways, PTL DEF Spec, LockAndSecretStand, LockStands, ConfirmedStays
=============================================================================
