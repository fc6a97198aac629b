------------------------------- MODULE Ledger -------------------------------
(***************************************************************************)
(* The books of the drinks fridge as its users understand them: the credit *)
(* of every account, the catalogue of items and the list of sales.  A       *)
(* request either takes effect at one instant, on the books as they are at  *)
(* that instant, or has no effect at all.                                   *)
(*                                                                          *)
(* Transactions.tla is what the handlers really do, in several database     *)
(* statements each; it says under which condition they implement this.      *)
(***************************************************************************)
EXTENDS Integers

CONSTANTS
    Users,          \* the registered accounts
    Cash,           \* the account cash purchases are booked on
    Items,          \* item ids (uuids)
    NoItem,         \* "there is no row with this id"
    OpeningCredit,  \* credit of every account before the first request
    OpeningItems    \* the catalogue before the first request

VARIABLES
    credit,         \* column credit of table users, by account
    items,          \* table items, by id: [name, price, amount] or NoItem
    transactions,   \* table transactions
    applied,        \* the requests that have taken effect
    req             \* what every request asks for

vars == <<credit, items, transactions, applied, req>>

-----------------------------------------------------------------------------

(* A sale takes place only if the buyer can pay and the fridge can deliver.  *)
(* Cash buyers pay into a box: their account is never charged.               *)
Sell(r) ==
    LET u == req[r].user
        i == req[r].item
        n == req[r].amount
    IN  /\ req[r].kind = "buy"
        /\ items[i] # NoItem
        /\ items[i].price * n <= credit[u]
        /\ n <= items[i].amount
        /\ credit' = IF u = Cash THEN credit
                     ELSE [credit EXCEPT ![u] = @ - items[i].price * n]
        /\ items' = [items EXCEPT ![i].amount = @ - n]
        /\ transactions' = transactions \cup
             {[id |-> r, item |-> i, user |-> u, amount |-> n]}

(* A user adds money to the account, or takes some out again, never below 0. *)
ChangeCredit(r) ==
    LET u == req[r].user
    IN  /\ req[r].kind = "credit"
        /\ 0 <= credit[u] + req[r].diff
        /\ credit' = [credit EXCEPT ![u] = @ + req[r].diff]
        /\ UNCHANGED <<items, transactions>>

(* An administrator replaces an existing row ("update") or adds one ("add"). *)
(* No other item has the name.                                               *)
EditCatalogue(r) ==
    LET i == req[r].item
    IN  /\ req[r].kind \in {"update", "add"}
        /\ (req[r].kind = "update") <=> (items[i] # NoItem)
        /\ \A j \in Items \ {i} :
              items[j] # NoItem => items[j].name # req[r].row.name
        /\ items' = [items EXCEPT ![i] = req[r].row]
        /\ UNCHANGED <<credit, transactions>>

Perform(r) ==
    /\ r \notin applied
    /\ applied' = applied \cup {r}
    /\ UNCHANGED req
    /\ Sell(r) \/ ChangeCredit(r) \/ EditCatalogue(r)

-----------------------------------------------------------------------------

Init ==
    /\ credit = OpeningCredit
    /\ items = OpeningItems
    /\ transactions = {}
    /\ applied = {}

Next == \E r \in DOMAIN req : Perform(r)

Spec == Init /\ [][Next]_vars
=============================================================================
