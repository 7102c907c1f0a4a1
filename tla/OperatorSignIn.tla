---------------------------- MODULE OperatorSignIn ----------------------------
(***************************************************************************)
(* Signing in to the operators' panel (apps.platform_admin.auth_views):    *)
(* a password buys a ticket, and a ticket with a second factor a session.  *)
(*                                                                         *)
(* Each request reads the operator's row once and works on its copy; what  *)
(* it writes back are columns computed from that copy.  Tickets and used   *)
(* codes are in the cache, which is not part of the database's             *)
(* transactions, and there are none here.                                  *)
(*                                                                         *)
(* The module is about one operator.  Operators share nothing: tickets and *)
(* used codes carry the operator's id.  A tick is one step of TOTP.        *)
(***************************************************************************)
EXTENDS Integers

CONSTANTS
    Requests,
    Tickets,
    Issued0,     \* tickets of earlier sign-ins that are still alive
    NoSecret,    \* an operator who has not enrolled; a ticket that enrols nobody
    NoTicket,
    NoCopy,      \* a request that has not read the operator's row
    NoCode,      \* a request that has no code between its check and its mark
    OldSecret,   \* the secret of an operator who has
    MaxFailures, \* MAX_FAILED_ATTEMPTS
    Lockout,     \* LOCKOUT_MINUTES, in ticks
    TicketTTL,   \* tickets.TTL_SECONDS, in ticks
    Presented,   \* bound: the steps whose codes users enter
    MaxChanges,  \* bound: what happens to the operator apart from signing in
    MaxTime      \* bound: ticks and such changes in a run

Window == 1  \* VALID_WINDOW

\* Mutant: held for one side of the window.
ReplayTTLShort == Window + 1

\* _REPLAY_TTL, in ticks.
ReplayTTL == 2 * Window + 1

\* Each enrolling ticket has a fresh secret, and is its name here.
Secrets == Tickets \cup {OldSecret}

ASSUME SignInAssumption ==
    /\ NoSecret \notin Secrets
    /\ NoTicket \notin Tickets
    /\ OldSecret \notin Tickets
    /\ NoCopy \notin [active : BOOLEAN, failed : Nat, locked : Nat,
                      secret : Secrets \cup {NoSecret}, code : BOOLEAN]
    /\ NoCode \notin [secret : Secrets, step : Int]
    /\ Issued0 \subseteq Tickets
    /\ MaxFailures \in Nat \ {0} /\ Presented \subseteq Int
    /\ Lockout \in Nat /\ TicketTTL \in Nat /\ MaxChanges \in Nat /\ MaxTime \in Nat

VARIABLES
    now,
    operator,  \* the operator's row
    tickets,   \* the cache's tickets: until when, and the secret they enrol
    used,      \* the cache's used codes
    \* requests
    at,        \* what is next
    ticket,    \* the ticket presented, or issued
    pending,   \* what the ticket held when it was loaded
    copy,      \* the operator's row as it was read
    shown,     \* the code found in time, until it is marked
    \* the rest
    changes,   \* of the operator's settings
    \* history
    accepted,  \* by whom which code was accepted, and when it was marked
    sessions,  \* requests that ended in a session
    strikes,   \* wrong answers since the last success or lockout
    crossed,   \* two requests had read the row before either was done with it
    together,  \* pairs of requests that had loaded one ticket at once
    fresh      \* tickets issued to an operator without a confirmed secret

cacheVars == <<tickets, used>>
heldVars == <<pending, copy, shown>>
requestVars == <<ticket, heldVars>>
history == <<accepted, sessions, strikes, crossed, together, fresh>>
vars == <<now, operator, cacheVars, at, requestVars, changes, history>>

\* A lock until 0 is none: times are compared with now.
Operator == [active : BOOLEAN, failed : Nat, locked : Nat,
             secret : Secrets \cup {NoSecret}, code : BOOLEAN]
Ticket == [until : Nat, enrols : Tickets \cup {NoSecret}]
Gone == [until |-> 0, enrols |-> NoSecret]
Code == [secret : Secrets, step : Int]
Steps == {"new", "password", "issue", "verify", "refuse", "factor", "mark",
          "count", "enrol", "revoke", "succeed", "save", "done"}

\* Where a request works on its copy of the row.
Reading == {"password", "issue", "factor", "mark", "count", "enrol", "revoke", "succeed"}
\* Where it has a ticket in hand.
Verifying == {"verify", "refuse", "factor", "mark", "enrol", "revoke", "succeed", "save"}

SignInTypeOK ==
    /\ now \in Nat
    /\ operator \in Operator
    /\ operator.failed < MaxFailures
    /\ tickets \in [Tickets -> Ticket]
    /\ used \subseteq [code : Code, until : Nat]
    /\ at \in [Requests -> Steps]
    /\ ticket \in [Requests -> Tickets \cup {NoTicket}]
    /\ pending \in [Requests -> Tickets \cup {NoSecret}]
    /\ copy \in [Requests -> Operator \cup {NoCopy}]
    /\ \A r \in Requests : at[r] \in Reading => copy[r] # NoCopy
    /\ shown \in [Requests -> Code \cup {NoCode}]
    /\ \A r \in Requests : at[r] = "mark" <=> shown[r] # NoCode
    /\ changes \in Nat
    /\ accepted \subseteq [by : Requests, code : Code, at : Nat]
    /\ sessions \subseteq Requests
    /\ strikes \in Nat
    /\ crossed \in BOOLEAN
    /\ together \subseteq SUBSET Requests
    /\ fresh \subseteq Tickets

Init ==
    /\ now = 0
    /\ \E secret \in {NoSecret, OldSecret}, code \in BOOLEAN :
          /\ operator = [active |-> TRUE, failed |-> 0, locked |-> 0, secret |-> secret, code |-> code]
          /\ tickets = [t \in Tickets |->
                IF t \notin Issued0 THEN Gone
                ELSE [until |-> TicketTTL,
                      enrols |-> IF secret = NoSecret /\ ~code THEN t ELSE NoSecret]]
          /\ fresh = IF secret = NoSecret THEN Issued0 ELSE {}
    /\ used = {}
    /\ at = [r \in Requests |-> "new"]
    /\ ticket = [r \in Requests |-> NoTicket]
    /\ pending = [r \in Requests |-> NoSecret]
    /\ copy = [r \in Requests |-> NoCopy]
    /\ shown = [r \in Requests |-> NoCode]
    /\ changes = 0
    /\ accepted = {} /\ sessions = {} /\ strikes = 0 /\ crossed = FALSE /\ together = {}

-----------------------------------------------------------------------------
Goes(r, step) == at' = [at EXCEPT ![r] = step]

\* The request is over, and what it had read is forgotten.
Ends(r) ==
    /\ Goes(r, "done")
    /\ copy' = [copy EXCEPT ![r] = NoCopy]
    /\ pending' = [pending EXCEPT ![r] = NoSecret]
    /\ shown' = [shown EXCEPT ![r] = NoCode]

IsLocked(row) == row.locked > now
Lives(t) == tickets[t].until > now

Read(r) ==
    /\ copy' = [copy EXCEPT ![r] = operator]
    /\ crossed' = (crossed \/ \E q \in Requests \ {r} : at[q] \in Reading)

\* Mutant: one failure too many before the lockout.
CountFailureLate(r) ==
    /\ at[r] = "count"
    /\ LET failed == copy[r].failed + 1
           full == failed > MaxFailures
       IN  /\ operator' = [operator EXCEPT
                 !.failed = IF full THEN 0 ELSE failed,
                 !.locked = IF full THEN now + Lockout ELSE copy[r].locked]
           /\ strikes' = IF full THEN 0 ELSE strikes + 1
    /\ Ends(r)
    /\ UNCHANGED <<now, cacheVars, ticket, changes, accepted, sessions, crossed, together, fresh>>

\* PlatformAdmin.note_failure: both columns are computed from the copy.
CountFailure(r) ==
    /\ at[r] = "count"
    /\ LET failed == copy[r].failed + 1
           full == failed >= MaxFailures
       IN  /\ operator' = [operator EXCEPT
                 !.failed = IF full THEN 0 ELSE failed,
                 !.locked = IF full THEN now + Lockout ELSE copy[r].locked]
           /\ strikes' = IF full THEN 0 ELSE strikes + 1
    /\ Ends(r)
    /\ UNCHANGED <<now, cacheVars, ticket, changes, accepted, sessions, crossed, together, fresh>>

\* A worker is killed, or the database or the cache refuses: no session is saved.
Die(r) ==
    /\ at[r] \notin {"new", "done"}
    /\ Ends(r)
    /\ UNCHANGED <<now, operator, cacheVars, ticket, changes, history>>

-----------------------------------------------------------------------------
(* Step 1, LoginView: the password. *)

ReadOperator(r) ==
    /\ at[r] = "new"
    /\ \/ /\ operator.active /\ ~IsLocked(operator)
          /\ Read(r)
          /\ Goes(r, "password")
       \/ /\ ~operator.active \/ IsLocked(operator)
          /\ Goes(r, "done")
          /\ UNCHANGED <<copy, crossed>>
    /\ UNCHANGED <<now, operator, cacheVars, ticket, pending, shown, changes, accepted, sessions,
                   strikes, together, fresh>>

CheckPassword(r) ==
    /\ at[r] = "password"
    /\ Goes(r, "issue") \/ Goes(r, "count")
    /\ UNCHANGED <<now, operator, cacheVars, requestVars, changes, history>>

\* Mutant: the right password alone starts the count afresh.
IssueTicketForgiving(r) ==
    /\ at[r] = "issue"
    /\ operator' = [operator EXCEPT !.failed = 0]
    /\ Ends(r)
    /\ UNCHANGED <<now, cacheVars, ticket, changes, history>>

\* Mutant: an operator who has enrolled is offered a new secret all the same.
IssueTicketAnew(r) ==
    /\ at[r] = "issue"
    /\ \E t \in Tickets :
          /\ tickets[t] = Gone /\ t \notin fresh \cup Issued0
          /\ tickets' = [tickets EXCEPT ![t] = [until |-> now + TicketTTL, enrols |-> t]]
          /\ ticket' = [ticket EXCEPT ![r] = t]
    /\ Ends(r)
    /\ UNCHANGED <<now, operator, used, changes, history>>

\* An operator with neither a code nor a confirmed secret is handed a fresh one.
IssueTicket(r) ==
    /\ at[r] = "issue"
    /\ \E t \in Tickets :
          /\ tickets[t] = Gone /\ t \notin fresh \cup Issued0
          /\ \A q \in Requests : ticket[q] # t
          /\ tickets' = [tickets EXCEPT ![t] =
                [until |-> now + TicketTTL,
                 enrols |-> IF copy[r].code \/ copy[r].secret # NoSecret THEN NoSecret ELSE t]]
          /\ ticket' = [ticket EXCEPT ![r] = t]
          /\ fresh' = IF copy[r].secret = NoSecret THEN fresh \cup {t} ELSE fresh
    /\ Ends(r)
    /\ UNCHANGED <<now, operator, used, changes, accepted, sessions, strikes, crossed, together>>

-----------------------------------------------------------------------------
(* Step 2, LoginVerifyView: the second factor. *)

\* tickets.load leaves the ticket where it is, so that a code can be tried again.
LoadTicket(r) ==
    /\ at[r] = "new"
    /\ \E t \in Tickets :
          \/ /\ Lives(t)
             /\ ticket' = [ticket EXCEPT ![r] = t]
             /\ pending' = [pending EXCEPT ![r] = tickets[t].enrols]
             /\ together' = together \cup
                   {{q, r} : q \in {p \in Requests : ticket[p] = t /\ at[p] \in Verifying}}
             /\ Goes(r, "verify")
          \/ /\ ~Lives(t)
             /\ Goes(r, "done")
             /\ UNCHANGED <<ticket, pending, together>>
    /\ UNCHANGED <<now, operator, cacheVars, copy, shown, changes, accepted, sessions, strikes,
                   crossed, fresh>>

\* Mutant: the lockout is asked for at the password only.
ReadAgainUnlocked(r) ==
    /\ at[r] = "verify"
    /\ operator.active
    /\ Read(r)
    /\ Goes(r, "factor")
    /\ UNCHANGED <<now, operator, cacheVars, ticket, pending, shown, changes, accepted, sessions,
                   strikes, together, fresh>>

ReadAgain(r) ==
    /\ at[r] = "verify"
    /\ \/ /\ operator.active /\ ~IsLocked(operator)
          /\ Read(r)
          /\ Goes(r, "factor")
       \/ /\ ~operator.active \/ IsLocked(operator)
          /\ Goes(r, "refuse")
          /\ UNCHANGED <<copy, crossed>>
    /\ UNCHANGED <<now, operator, cacheVars, ticket, pending, shown, changes, accepted, sessions,
                   strikes, together, fresh>>

Drop(t) == tickets' = [tickets EXCEPT ![t] = Gone]

Refuse(r) ==
    /\ at[r] = "refuse"
    /\ Drop(ticket[r])
    /\ Ends(r)
    /\ UNCHANGED <<now, operator, used, ticket, changes, history>>

\* The secret a code has to come from: verify's first argument.
SecretFor(r) == IF pending[r] = NoSecret THEN copy[r].secret ELSE pending[r]

\* The codes whose digits are right: of the secret, and of this step or a neighbour.
InTime(r) == [secret : {SecretFor(r)} \cap Secrets,
              step : Presented \cap ((now - Window)..(now + Window))]

\* Which factor it is, the operator's row decides, not the ticket.  Of totp.verify
\* this is the look at the clock.
CheckFactor(r) ==
    /\ at[r] = "factor"
    /\ \/ /\ copy[r].code
          /\ Goes(r, "revoke")
          /\ UNCHANGED shown
       \/ /\ ~copy[r].code
          /\ \E code \in InTime(r) : shown' = [shown EXCEPT ![r] = code]
          /\ Goes(r, "mark")
       \/ Goes(r, "count") /\ UNCHANGED shown
    /\ UNCHANGED <<now, operator, cacheVars, ticket, pending, copy, changes, history>>

\* A mark lasts ReplayTTL from when it was set, not from when the code was checked.
Marked(code) == \E mark \in used : mark.code = code /\ mark.until > now

\* The other half of totp.verify: cache.add sets the mark or finds it set.
MarkCode(r) ==
    /\ at[r] = "mark"
    /\ \/ /\ Marked(shown[r])
          /\ Goes(r, "count")
          /\ UNCHANGED <<used, accepted>>
       \/ /\ ~Marked(shown[r])
          /\ used' = used \cup {[code |-> shown[r], until |-> now + ReplayTTL]}
          /\ accepted' = accepted \cup {[by |-> r, code |-> shown[r], at |-> now]}
          /\ Goes(r, IF pending[r] = NoSecret THEN "revoke" ELSE "enrol")
    /\ shown' = [shown EXCEPT ![r] = NoCode]
    /\ UNCHANGED <<now, operator, tickets, ticket, pending, copy, changes, sessions, strikes, crossed,
                   together, fresh>>

Enrol(r) ==
    /\ at[r] = "enrol"
    /\ operator' = [operator EXCEPT !.secret = pending[r]]
    /\ Goes(r, "revoke")
    /\ UNCHANGED <<now, cacheVars, requestVars, changes, history>>

\* Mutant: the ticket is left to expire.
RevokeNothing(r) ==
    /\ at[r] = "revoke"
    /\ Goes(r, "succeed")
    /\ UNCHANGED <<now, operator, cacheVars, requestVars, changes, history>>

Revoke(r) ==
    /\ at[r] = "revoke"
    /\ Drop(ticket[r])
    /\ Goes(r, "succeed")
    /\ UNCHANGED <<now, operator, used, requestVars, changes, history>>

\* start_session changes the request's session, note_success the row.
Succeed(r) ==
    /\ at[r] = "succeed"
    /\ operator' = [operator EXCEPT !.failed = 0, !.locked = 0]
    /\ strikes' = 0
    /\ Goes(r, "save")
    /\ UNCHANGED <<now, cacheVars, requestVars, changes, accepted, sessions, crossed, together, fresh>>

\* The session is written with the response.
SaveSession(r) ==
    /\ at[r] = "save"
    /\ sessions' = sessions \cup {r}
    /\ Ends(r)
    /\ UNCHANGED <<now, operator, cacheVars, ticket, changes, accepted, strikes, crossed, together, fresh>>

-----------------------------------------------------------------------------
\* setplatformadmincode, with and without --clear, and whoever deactivates an
\* operator, for which the repository has no code.
ChangeOperator ==
    /\ changes < MaxChanges /\ now + changes < MaxTime
    /\ changes' = changes + 1
    /\ \/ operator' = [operator EXCEPT !.code = ~@]
       \/ operator' = [operator EXCEPT !.active = ~@]
    /\ UNCHANGED <<now, cacheVars, at, requestVars, history>>

Tick ==
    /\ now + changes < MaxTime
    /\ now' = now + 1
    /\ UNCHANGED <<operator, cacheVars, at, requestVars, changes, history>>

PasswordStep(r) == ReadOperator(r) \/ CheckPassword(r) \/ IssueTicket(r)
FactorStep(r) ==
    LoadTicket(r) \/ ReadAgain(r) \/ Refuse(r) \/ CheckFactor(r) \/ MarkCode(r) \/ Enrol(r)
        \/ Revoke(r) \/ Succeed(r) \/ SaveSession(r)

Next ==
    \/ \E r \in Requests : PasswordStep(r) \/ FactorStep(r) \/ CountFailure(r) \/ Die(r)
    \/ ChangeOperator
    \/ Tick

Spec == Init /\ [][Next]_vars

-----------------------------------------------------------------------------
(* Properties. *)

\* A code's mark outlives its window when check and mark fall into one tick, and then
\* the code is good for one request, however many present it.  A second one takes a
\* request held between the two until the window had closed: the mark's life equals the
\* window's, so a mark set as early as possible is gone by then.
Overdue(a) == a.at > a.code.step + Window
SingleUse ==
    \A a, b \in accepted : a # b /\ a.code = b.code => Overdue(a) \/ Overdue(b)

\* A lockout ends when its time is over.  Before that, only a request that had
\* read the row earlier can undo it: by succeeding, or by counting a failure,
\* which writes back the lock it read.
LockStands ==
    [][IsLocked(operator) /\ operator'.locked # operator.locked =>
          \E r \in Requests : /\ at[r] \in {"count", "succeed"} /\ at'[r] # at[r]
                              /\ copy[r].locked # operator.locked]_vars

\* As long as requests do not overlap, each wrong answer counts, at either step,
\* and nothing but a success or a lockout starts the count afresh.
WrongAnswersCount ==
    ~crossed => operator.failed = strikes

\* Who has enrolled keeps his secret, except that a ticket issued before he had
\* can still enrol another.
ConfirmedStays ==
    [][operator.secret # NoSecret /\ operator'.secret # operator.secret =>
          operator'.secret \in fresh]_vars

\* A ticket makes one session; a second one only for a request that had loaded
\* the ticket before the first was done with it.
TicketOnce ==
    \A q, r \in sessions : q # r /\ ticket[q] = ticket[r] => {q, r} \in together

\* Codes and tickets are used once, but for a code whose mark came after its window.
UsedOnce == SignInTypeOK /\ SingleUse /\ TicketOnce

\* A lock stands until its time is over, and a secret for good.
LockAndSecretStand == LockStands /\ ConfirmedStays
=============================================================================
