------------------------------ MODULE MCSessions ------------------------------
(***************************************************************************)
(* Small instances of Sessions for TLC: one administrator with two ways to  *)
(* log in, the cash account, three requests.                                *)
(***************************************************************************)
EXTENDS Sessions, TLC

CONSTANTS alice, cash, r1, r2, r3

MCRole == alice :> "admin"
MCMethods == alice :> {"password", "none"}

LoginAs(u, b, t) == [kind |-> "login", user |-> u, backend |-> b, token |-> t]
With(kind, t) == [kind |-> kind, token |-> t]

(* A first login; then a second one or the use of the first; then whatever   *)
(* can be done with the first session.                                       *)
LoginWorkload ==
    (r1 :> {LoginAs(alice, "password", NoToken), LoginAs(alice, "none", NoToken)})
    @@ (r2 :> {LoginAs(cash, "cash", r1), With("logout", r1), With("credit", r1)})
    @@ (r3 :> {With("logout", r1), With("buy", r1), With("admin", r1)})

(* Two cash buyers log in.                                                   *)
TwoLoginsWorkload ==
    (r1 :> {LoginAs(cash, "cash", NoToken)}) @@ (r2 :> {LoginAs(cash, "cash", NoToken)})
=============================================================================
