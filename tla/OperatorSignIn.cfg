CONSTANTS
    q1 = q1
    q2 = q2
    q3 = q3
    t1 = t1
    t2 = t2
    nosecret = nosecret
    noticket = noticket
    nocopy = nocopy
    nocode = nocode
    oldsecret = oldsecret
    Requests = {q1, q2, q3}
    Tickets = {t1, t2}
    Issued0 = {t1}
    NoSecret = nosecret
    NoTicket = noticket
    NoCopy = nocopy
    NoCode = nocode
    OldSecret = oldsecret
    MaxFailures = 2
    Lockout = 2
    TicketTTL = 2
    Presented = {0, 1, 2}
    MaxChanges = 1
    MaxTime = 3
SPECIFICATION Spec
CHECK_DEADLOCK FALSE
INVARIANTS UsedOnce WrongAnswersCount
PROPERTIES LockAndSecretStand
SYMMETRY Alike
