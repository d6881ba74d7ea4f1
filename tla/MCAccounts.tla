----------------------------- MODULE MCAccounts -----------------------------
(* Accounts on a small instance.                                           *)
EXTENDS Accounts, TLC

CONSTANTS u1, e1, e2, e3, eA, n1, n2, nA, p1, p2

(* The administrator and one account; the other ids are free.              *)
TwoAccounts ==
    [u \in Users |->
        CASE u = Admin -> [email |-> eA, nickname |-> nA, password |-> p1,
                           blocked |-> FALSE]
          [] u = u1 -> [email |-> e1, nickname |-> n1, password |-> p1,
                        blocked |-> FALSE]
          [] OTHER -> Unborn]

Blank(kind) ==
    [kind |-> kind, user |-> Nobody, email |-> Nobody, nickname |-> Nobody,
     password |-> Nobody]

About(kind, user) == [Blank(kind) EXCEPT !.user = user]

Registrations ==
    {[Blank("register") EXCEPT !.email = e, !.password = p1] : e \in {e2, e3}}

Resets == {[About("reset", u1) EXCEPT !.email = e1, !.password = p2]}

Changes ==
    {[About("change", u) EXCEPT !.password = p2] : u \in {u1, Admin}}

EmailChanges == {[About("email", u1) EXCEPT !.email = e2]}

Profiles == {[About("profile", u1) EXCEPT !.nickname = n2]}

(* With the right password and a wrong one.                                *)
Proven(kind) ==
    {[About(kind, u1) EXCEPT !.password = p] : p \in {p1, p2}}

(* An administrator who would leave, too.                                  *)
Resignations == {[About("deleteOwn", Admin) EXCEPT !.password = p1]}

SignIns ==
    {[Blank("signIn") EXCEPT !.email = e, !.password = p] :
        e \in {e1, e2}, p \in {p1, p2}}

AnyOperation ==
    [r \in Requests |->
        UNION {Registrations, Resets, Changes, EmailChanges, Profiles, SignIns, Resignations,
               Proven("deleteOwn"), Proven("block"), Proven("deleteUser"),
               Proven("unblock")}]

(* Requests differ in what they ask only, and each may ask the same.       *)
AnyOrder == Permutations(Requests)
=============================================================================
