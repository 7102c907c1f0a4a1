----------------------------- MODULE MCUserAdmin -----------------------------
(* Instances of UserAdmin for TLC: an account with an administrator, a user  *)
(* who has signed in before and one to be created, and another account.      *)
EXTENDS UserAdmin, TLC

CONSTANTS first, second, third, acme, other, ann, bob, cyd, nothing, never

Homes == ann :> acme @@ bob :> acme @@ cyd :> acme
CloudAtFirst == ann :> "on" @@ bob :> "on" @@ cyd :> "never"
RowsAtFirst == ann :> "active" @@ bob :> "active" @@ cyd :> "none"

Body(kind, user) ==
    [kind |-> kind, account |-> acme, user |-> user, enabled |-> nothing, status |-> nothing,
     flag |-> TRUE]
Pages == {Body("list", nothing)}
SignIns == {Body("signIn", u) : u \in {bob, cyd}}
Switches ==
    {[Body("switch", bob) EXCEPT !.enabled = e, !.status = s] :
        e \in {"off", nothing}, s \in {"blocked", "other"}}
    \cup {[Body("switch", bob) EXCEPT !.account = other, !.enabled = "off", !.status = "blocked"],
          [Body("switch", cyd) EXCEPT !.status = "blocked"]}
Settings == {[Body("settings", nothing) EXCEPT !.flag = f] : f \in BOOLEAN}
Office ==
    {[Body("change", u) EXCEPT !.enabled = e] : u \in {ann, bob}, e \in {"off", nothing}}
    \cup {Body("delete", u) : u \in {ann, bob}}
    \cup {[Body("create", cyd) EXCEPT !.flag = f] : f \in BOOLEAN}

BodiesOf ==
    first :> Pages \cup SignIns \cup Settings
    @@ second :> Switches \cup Settings
    @@ third :> Pages \cup Office \cup {[Body("switch", bob) EXCEPT !.enabled = "on", !.status = "active"]}
=============================================================================
