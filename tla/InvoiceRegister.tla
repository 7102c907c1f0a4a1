--------------------------- MODULE InvoiceRegister ---------------------------
(***************************************************************************)
(* What issuing promises, without how: a register to which finished        *)
(* documents are only ever added, one at a time, numbered 1, 2, 3, ...     *)
(* within their year, with one document per account name and month         *)
(* (apps.billing.models.Invoice, apps.billing.invoices.issue).             *)
(***************************************************************************)
EXTENDS Integers

VARIABLE register

InYear(y) == {d \in register : d.year = y}

\* The number that follows every number of its year, with none left out.
FollowsOn(doc) ==
    /\ \A d \in InYear(doc.year) : d.seq < doc.seq
    /\ \A k \in 1 .. doc.seq - 1 : \E d \in InYear(doc.year) : d.seq = k

FirstOfItsMonth(doc) ==
    \A d \in register : ~ (d.account = doc.account /\ d.period = doc.period)

Enter(doc) ==
    /\ FollowsOn(doc)
    /\ FirstOfItsMonth(doc)
    /\ register' = register \cup {doc}

Init == register = {}

Next == \E doc \in register' : Enter(doc)

Spec == Init /\ [][Next]_register
=============================================================================
