----------------------------- MODULE MCAccounts -----------------------------
(***************************************************************************)
(* Four requests: the first makes an account, or is a cash login; the second *)
(* competes for the name, makes another account, or adds a method by the     *)
(* session of the first; the others add methods, reset the password, or log  *)
(* in, each in every way there is.                                           *)
(***************************************************************************)
EXTENDS Accounts

CONSTANTS r1, r2, r3, r4, alice, bob, s1, s2

MCRequests == {r1, r2, r3, r4}
MCNames == {alice, bob, CashName, AdminName}
MCSecrets == {s1, s2}

Any == [kind |-> "cash", name |-> alice, secret |-> s1, method |-> "nfc",
        token |-> r1]

Register(n, s) == [Any EXCEPT !.kind = "register", !.name = n, !.secret = s]
Add(t, m, s) == [Any EXCEPT !.kind = "add", !.token = t, !.method = m, !.secret = s]
Reset(n) == [Any EXCEPT !.kind = "reset", !.name = n, !.secret = s2]
Password(n, s) == [Any EXCEPT !.kind = "password", !.name = n, !.secret = s]
None(n) == [Any EXCEPT !.kind = "none", !.name = n]
Nfc(s) == [Any EXCEPT !.kind = "nfc", !.secret = s]

(* Two registrations of one name, and a third user of it.                    *)
Competition ==
    {<<Register(alice, s1), Register(alice, s2), x, y>> :
        x \in {Register(alice, s1), Reset(alice), Password(alice, s1)},
        y \in {Password(alice, s2), Add(r2, "none", s1)}}

(* Methods of one account.                                                   *)
Enrolment ==
    {<<Register(alice, s1), Add(r1, m, s1), x, y>> :
        m \in {"password", "none", "nfc"},
        x \in {Add(r1, "nfc", s2), Reset(alice)},
        y \in {Password(alice, s1), None(alice), Nfc(s1)}}

(* Two accounts with one tag; the cash account; the administrator.           *)
Others ==
    {<<Register(alice, s1), Register(bob, s2), Add(r1, "nfc", s1), Add(r2, "nfc", s1)>>,
     <<Any, Add(r1, "nfc", s1), Nfc(s1), None(CashName)>>,
     <<Any, Add(r1, "none", s1), Reset(CashName), None(CashName)>>,
     <<Password(AdminName, 1), Add(r1, "none", s1), Password(AdminName, 2),
       Reset(AdminName)>>,
     <<Password(AdminName, 2), Add(r1, "nfc", s1), Nfc(s1), Register(AdminName, s1)>>}

MCWorkload ==
    {[r \in MCRequests |-> CASE r = r1 -> w[1] [] r = r2 -> w[2]
                             [] r = r3 -> w[3] [] r = r4 -> w[4]] :
        w \in Competition \cup Enrolment \cup Others}
=============================================================================
