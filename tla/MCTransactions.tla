--------------------------- MODULE MCTransactions ---------------------------
(***************************************************************************)
(* Small instances of Transactions for TLC: three requests, two users and   *)
(* the cash buyer, one or two items of the opening catalogue, one id        *)
(* that addItem draws and one that nobody has.                              *)
(***************************************************************************)
EXTENDS Transactions, TLC

CONSTANTS
    alice, bob, cash,               \* accounts
    mate, cola, fresh, unknown,     \* item ids
    Mate, Cola, Beer,               \* item names
    r1, r2, r3                      \* requests

MCUsers == {alice, bob}
MCItems == {mate, cola, fresh, unknown}
MCNames == {Mate, Cola, Beer}

Row(name, price, amount) == [name |-> name, price |-> price, amount |-> amount]

MCOpeningCredit == (alice :> 4) @@ (bob :> 1) @@ (cash :> 5)
MCOpeningItems ==
    (mate :> Row(Mate, 1, 2)) @@ (cola :> Row(Cola, 2, 1))
        @@ (fresh :> NoItem) @@ (unknown :> NoItem)

Buy(u, i, n) == [kind |-> "buy", user |-> u, item |-> i, amount |-> n]
Credit(u, d) == [kind |-> "credit", user |-> u, diff |-> d]
Update(i, row) == [kind |-> "update", item |-> i, row |-> row]
Add(i, row) == [kind |-> "add", item |-> i, row |-> row]

-----------------------------------------------------------------------------
(* Buyers of the same and of different items and accounts, a user who pays   *)
(* in or draws out, an administrator who renames, reprices, restocks, adds.  *)
(* The item of price -6 pays out more than an account near MaxColumn holds.  *)

ShopWorkload ==
    (r1 :> {Buy(alice, mate, 1), Buy(cash, mate, 1), Buy(alice, unknown, 1)})
    @@ (r2 :> {Buy(alice, mate, 2), Buy(bob, cola, 1), Buy(bob, mate, 1),
               Credit(alice, -2), Credit(alice, 6)})
    @@ (r3 :> {Buy(alice, cola, 1), Credit(alice, 1),
               Update(mate, Row(Beer, 2, 2)), Update(mate, Row(Cola, 1, 7)),
               Update(mate, Row(Beer, -6, 2)),
               Update(cola, Row(Mate, 1, 1)), Update(unknown, Row(Beer, 1, 1)),
               Add(fresh, Row(Mate, 1, 1)), Add(fresh, Row(Beer, 1, 1))})

(* Two requests of one user, one of them a purchase.                         *)
LostUpdateWorkload ==
    (r1 :> {Buy(alice, mate, 1)}) @@ (r2 :> {Credit(alice, 1), Buy(alice, cola, 1)})

(* A purchase and nothing else.                                              *)
SaleWorkload == r1 :> {Buy(alice, mate, 1)}

(* What updateItem and addItem accept although Validate() would not.         *)
UnvalidatedWorkload ==
    (r1 :> {Add(fresh, Row(Beer, 1, -1))}) @@ (r2 :> {Buy(alice, fresh, 1)})
=============================================================================
