---------------------------- MODULE Transactions ----------------------------
(***************************************************************************)
(* The handlers that move money and goods: buyItem (with MakeTransaction),  *)
(* changeCredit, updateItem and addItem.  Every request is served by a      *)
(* goroutine of its own.  A handler reads rows of the database into local   *)
(* variables, decides on these copies, and then writes whole rows back; no  *)
(* lock spans the reads and the writes, and no statement is conditional on  *)
(* what was read.  Only the writes of a sale share a database transaction.  *)
(*                                                                          *)
(* The database (PostgreSQL at its default level, READ COMMITTED) is        *)
(* modelled by what its clients observe: a statement sees committed rows    *)
(* only, a written row stays locked until the writing transaction ends,     *)
(* items.name is UNIQUE, INTEGER columns have a range, any statement may    *)
(* fail.  With SQLite, the other driver, a statement that meets a locked    *)
(* row fails where PostgreSQL waits: StatementFails and QueryFails.         *)
(***************************************************************************)
EXTENDS Integers, FiniteSetsExt

CONSTANTS
    Users,          \* accounts of registered users
    Cash,           \* users.CashUserId
    Items,          \* item ids
    NoItem,         \* no row with this id
    Names,          \* item names
    Requests,       \* the requests the server gets, one goroutine each
    Workload,       \* for each request, the payloads it may carry
    OpeningCredit,  \* table users before the first request
    OpeningItems,   \* table items before the first request
    MaxColumn       \* largest value of an INTEGER column

Accounts == Users \cup {Cash}

(* The range of an INTEGER column.                                           *)
Column == (-MaxColumn - 1) .. MaxColumn

(* The columns of an item row that matter here; image and barcode travel     *)
(* with them.                                                                *)
ItemRow == [name : Names, price : Column, amount : Column]

(* The fields of the request bodies, with the user of the session.  Nothing  *)
(* bounds the numbers: ReadValidBody never calls Validate.  (An amount that   *)
(* no column holds is left out: the sale fails, at the INSERT at the latest.)*)
BuyItemRequest ==
    [kind : {"buy"}, user : Accounts, item : Items, amount : Column]
ChangeCreditRequest == [kind : {"credit"}, user : Users, diff : Int]
UpdateItemRequest ==
    [kind : {"update", "add"}, item : Items,
     row : [name : Names, price : Int, amount : Int]]

Payload == BuyItemRequest \cup ChangeCreditRequest \cup UpdateItemRequest

ASSUME CashAssumption == Cash \notin Users
ASSUME NoItemAssumption == NoItem \notin ItemRow
ASSUME ColumnAssumption == MaxColumn \in Nat
ASSUME WorkloadAssumption == Workload \in [Requests -> SUBSET Payload]
ASSUME OpeningCreditAssumption == OpeningCredit \in [Accounts -> 0 .. MaxColumn]
ASSUME OpeningItemsAssumption == OpeningItems \in [Items -> ItemRow \cup {NoItem}]

VARIABLES
    credit,         \* committed: column credit of table users, by account
    items,          \* committed: table items, by id
    transactions,   \* committed: table transactions
    applied,        \* history: the requests whose writes were committed
    req,            \* the payload of every request
    pc,             \* where the handler of a request stands
    user,           \* the credit in the handler's copy of the user row
    item,           \* the handler's copy of the item row
    tx,             \* the rows written by the handler's open transaction
    reply           \* the answer the client got

books == <<credit, items, transactions, applied>>
vars == <<credit, items, transactions, applied, req, pc, user, item, tx, reply>>

Labels == {"new", "getUser", "sale", "user", "item", "insert", "check",
           "write", "done"}

(* Mutant: the upper end of a column is not checked.                         *)
FitsMutant(n) == n >= -MaxColumn - 1

(* The values the database accepts for an INTEGER column.                    *)
Fits(n) == n \in Column

(* "ok" is a 2xx status, "refused" a check that turned the request down,     *)
(* "failed" an error of the database, "lost" a connection that broke.        *)
Replies == {"none", "ok", "refused", "failed", "lost"}

(* Every value is one its column can hold: what the handlers compute is       *)
(* written only where it fits.                                               *)
TypeOK ==
    /\ credit \in [Accounts -> Column]
    /\ items \in [Items -> ItemRow \cup {NoItem}]
    /\ transactions \subseteq
         [id : Requests, item : Items, user : Accounts, amount : Int]
    /\ applied \subseteq Requests
    /\ req \in [Requests -> Payload]
    /\ pc \in [Requests -> Labels]
    /\ user \in [Requests -> Column]
    /\ item \in [Requests -> ItemRow \cup {NoItem}]
    /\ tx \in [Requests -> SUBSET {"user", "item"}]
    /\ reply \in [Requests -> Replies]

Init ==
    /\ credit = OpeningCredit
    /\ items = OpeningItems
    /\ transactions = {}
    /\ applied = {}
    /\ req \in [Requests -> UNION {Workload[r] : r \in Requests}]
    /\ \A r \in Requests : req[r] \in Workload[r]
    /\ pc = [r \in Requests |-> "new"]
    /\ user = [r \in Requests |-> 0]
    /\ item = [r \in Requests |-> NoItem]
    /\ tx = [r \in Requests |-> {}]
    /\ reply = [r \in Requests |-> "none"]

-----------------------------------------------------------------------------
(* What the handlers compute from their copies.                              *)

Active(r) == pc[r] \notin {"new", "done"}

(* Mutant: the cash account is charged like any other.                       *)
IsCashUserMutant(u) == FALSE

IsCashUser(u) == u = Cash

FinalPrice(r) == item[r].price * req[r].amount

(* Mutant: the credit is checked for one item only.                          *)
EnoughCreditMutant(r) == item[r].price <= user[r]

EnoughCredit(r) == FinalPrice(r) <= user[r]

(* Mutant: any stock is enough.                                              *)
EnoughItemsMutant(r) == 0 < item[r].amount

EnoughItems(r) == req[r].amount <= item[r].amount

(* Mutant: the buyer pays for one item only.                                 *)
UserAfterSaleMutant(r) == user[r] - item[r].price

UserAfterSale(r) == user[r] - FinalPrice(r)

(* Mutant: one item leaves the stock, whatever was bought.                   *)
ItemAfterSaleMutant(r) == [item[r] EXCEPT !.amount = @ - 1]

(* Mutant: the total is written to the price of the item.                    *)
ItemPriceMutant(r) ==
    [item[r] EXCEPT !.amount = @ - req[r].amount, !.price = FinalPrice(r)]

ItemAfterSale(r) == [item[r] EXCEPT !.amount = @ - req[r].amount]

Record(r) ==
    [id |-> r, item |-> req[r].item, user |-> req[r].user,
     amount |-> req[r].amount]

(* The whole row an UPDATE or INSERT of table items writes for request r.    *)
NewRow(r) == IF req[r].kind = "buy" THEN ItemAfterSale(r) ELSE req[r].row

RowFits(row) == Fits(row.price) /\ Fits(row.amount)

-----------------------------------------------------------------------------
(* What the database does about rows that several transactions want.         *)

(* The UPDATE of a user row waits for a transaction that has written it.     *)
UserLocked(r) ==
    \E q \in Requests \ {r} : "user" \in tx[q] /\ req[q].user = req[r].user

(* A write to table items waits for a transaction that has written the row,  *)
(* or that gives up or takes the name the new row has.                       *)
ItemLocked(r) ==
    \E q \in Requests \ {r} :
        /\ "item" \in tx[q]
        /\ \/ req[q].item = req[r].item
           \/ NewRow(q).name = NewRow(r).name
           \/ items[req[q].item].name = NewRow(r).name

(* Another row has the name of the new row.                                  *)
NameTaken(r) ==
    \E i \in Items \ {req[r].item} :
        items[i] # NoItem /\ items[i].name = NewRow(r).name

-----------------------------------------------------------------------------
(* Control flow of one handler.                                              *)

Goto(r, label) ==
    /\ pc' = [pc EXCEPT ![r] = label]
    /\ UNCHANGED reply

Answer(r, a) ==
    /\ pc' = [pc EXCEPT ![r] = "done"]
    /\ reply' = [reply EXCEPT ![r] = a]

(* Turned away before the handler reads a row: verifyRole, a session that is *)
(* gone or expired, the wrong authentication backend, an unreadable body.    *)
Reject(r) ==
    /\ pc[r] = "new"
    /\ Answer(r, "refused")
    /\ UNCHANGED <<books, req, user, item, tx>>

-----------------------------------------------------------------------------
(* buyItem and MakeTransaction.                                              *)

GetItemById(r) ==
    /\ req[r].kind = "buy"
    /\ pc[r] = "new"
    /\ item' = [item EXCEPT ![r] = items[req[r].item]]
    /\ IF items[req[r].item] = NoItem THEN Answer(r, "refused")
                                      ELSE Goto(r, "getUser")
    /\ UNCHANGED <<books, req, user, tx>>

(* Also the first step of changeCredit.                                      *)
GetUserForId(r) ==
    /\ \/ req[r].kind = "buy" /\ pc[r] = "getUser" /\ Goto(r, "sale")
       \/ req[r].kind = "credit" /\ pc[r] = "new" /\ Goto(r, "check")
    /\ user' = [user EXCEPT ![r] = credit[req[r].user]]
    /\ UNCHANGED <<books, req, item, tx>>

(* Mutant: MakeTransaction does not look at the stock.                       *)
CheckSaleMutant(r) ==
    /\ pc[r] = "sale"
    /\ IF EnoughCredit(r)
       THEN Goto(r, IF IsCashUser(req[r].user) THEN "item" ELSE "user")
       ELSE Answer(r, "refused")
    /\ UNCHANGED <<books, req, user, item, tx>>

(* MakeTransaction up to db.Begin().                                         *)
CheckSale(r) ==
    /\ pc[r] = "sale"
    /\ IF EnoughCredit(r) /\ EnoughItems(r)
       THEN Goto(r, IF IsCashUser(req[r].user) THEN "item" ELSE "user")
       ELSE Answer(r, "refused")
    /\ UNCHANGED <<books, req, user, item, tx>>

(* Mutant: the handler returns without tx.Rollback().                        *)
RollbackMutant(r) ==
    /\ UNCHANGED tx
    /\ Answer(r, "failed")

(* tx.Rollback() after a failed statement.  Its result shadows the error of  *)
(* the statement, so a rollback that works makes the handler answer 200.     *)
Rollback(r) ==
    /\ tx' = [tx EXCEPT ![r] = {}]
    /\ \E a \in {"ok", "failed"} : Answer(r, a)

(* A statement of the sale, executed with a row of table t.                  *)
Execute(r, t, label) ==
    /\ tx' = [tx EXCEPT ![r] = @ \cup {t}]
    /\ Goto(r, label)

(* Mutant: UpdateUser in the place of UpdateUserWithTransaction.             *)
UpdateUserInSaleMutant(r) ==
    /\ pc[r] = "user"
    /\ ~UserLocked(r)
    /\ Fits(UserAfterSale(r))
    /\ credit' = [credit EXCEPT ![req[r].user] = UserAfterSale(r)]
    /\ Goto(r, "item")
    /\ UNCHANGED <<items, transactions, applied, req, user, item, tx>>

UpdateUserInSale(r) ==
    /\ pc[r] = "user"
    /\ ~UserLocked(r)
    /\ IF Fits(UserAfterSale(r)) THEN Execute(r, "user", "item")
                                 ELSE Rollback(r)
    /\ UNCHANGED <<books, req, user, item>>

UpdateItemInSale(r) ==
    /\ pc[r] = "item"
    /\ ~ItemLocked(r)
    /\ IF NameTaken(r) \/ ~RowFits(NewRow(r)) THEN Rollback(r)
                                              ELSE Execute(r, "item", "insert")
    /\ UNCHANGED <<books, req, user, item>>

(* What a committed sale makes visible, all at once.                         *)
Publish(r) ==
    /\ credit' = IF "user" \in tx[r]
                 THEN [credit EXCEPT ![req[r].user] = UserAfterSale(r)]
                 ELSE credit
    /\ items' = [items EXCEPT ![req[r].item] = ItemAfterSale(r)]
    /\ transactions' = transactions \cup {Record(r)}
    /\ applied' = applied \cup {r}
    /\ tx' = [tx EXCEPT ![r] = {}]

(* The INSERT into transactions and the COMMIT.                              *)
InsertAndCommit(r) ==
    /\ pc[r] = "insert"
    /\ Publish(r)
    /\ Answer(r, "ok")
    /\ UNCHANGED <<req, user, item>>

(* The connection breaks during COMMIT: the database has committed, or it    *)
(* has not; tx.Commit() returns an error, and the client is told "failed".   *)
CommitFails(r) ==
    /\ pc[r] = "insert"
    /\ \/ Publish(r)
       \/ tx' = [tx EXCEPT ![r] = {}] /\ UNCHANGED books
    /\ Answer(r, "failed")
    /\ UNCHANGED <<req, user, item>>

(* A statement of the sale fails: the client hangs up (which cancels the     *)
(* request's context), a lock times out, the database aborts a deadlock.     *)
StatementFails(r) ==
    /\ pc[r] \in {"user", "item", "insert"}
    /\ Rollback(r)
    /\ UNCHANGED <<books, req, user, item>>

-----------------------------------------------------------------------------
(* changeCredit.                                                             *)

CheckDiff(r) ==
    /\ pc[r] = "check"
    /\ IF user[r] + req[r].diff < 0 THEN Answer(r, "refused")
                                    ELSE Goto(r, "write")
    /\ UNCHANGED <<books, req, user, item, tx>>

(* UpdateUser: a statement of its own, committed as it returns.              *)
UpdateUser(r, a) ==
    /\ req[r].kind = "credit"
    /\ pc[r] = "write"
    /\ ~UserLocked(r)
    /\ Fits(user[r] + req[r].diff)
    /\ credit' = [credit EXCEPT ![req[r].user] = user[r] + req[r].diff]
    /\ applied' = applied \cup {r}
    /\ Answer(r, a)
    /\ UNCHANGED <<items, transactions, req, user, item, tx>>

(* Mutant: the error of UpdateUser is not looked at.                         *)
UpdateUserOverflowsMutant(r) ==
    /\ req[r].kind = "credit"
    /\ pc[r] = "write"
    /\ ~Fits(user[r] + req[r].diff)
    /\ Answer(r, "ok")
    /\ UNCHANGED <<books, req, user, item, tx>>

UpdateUserOverflows(r) ==
    /\ req[r].kind = "credit"
    /\ pc[r] = "write"
    /\ ~Fits(user[r] + req[r].diff)
    /\ Answer(r, "failed")
    /\ UNCHANGED <<books, req, user, item, tx>>

-----------------------------------------------------------------------------
(* updateItem and addItem.                                                   *)

(* A lookup that fails counts as "no such item".                             *)
GetItemByName(r) ==
    /\ req[r].kind \in {"update", "add"}
    /\ pc[r] = "new"
    /\ IF NameTaken(r) THEN Answer(r, "refused") ELSE Goto(r, "write")
    /\ UNCHANGED <<books, req, user, item, tx>>

GetItemByNameFails(r) ==
    /\ req[r].kind \in {"update", "add"}
    /\ pc[r] = "new"
    /\ Goto(r, "write")
    /\ UNCHANGED <<books, req, user, item, tx>>

(* UpdateItem finds its row, InsertNewItem comes with a fresh id.            *)
WriteItem(r, a) ==
    /\ req[r].kind \in {"update", "add"}
    /\ pc[r] = "write"
    /\ (req[r].kind = "update") <=> (items[req[r].item] # NoItem)
    /\ ~ItemLocked(r)
    /\ ~NameTaken(r)
    /\ RowFits(NewRow(r))
    /\ items' = [items EXCEPT ![req[r].item] = NewRow(r)]
    /\ applied' = applied \cup {r}
    /\ Answer(r, a)
    /\ UNCHANGED <<credit, transactions, req, user, item, tx>>

(* The UPDATE of an id without a row changes nothing, and is no error.       *)
UpdateNoItem(r) ==
    /\ req[r].kind = "update"
    /\ pc[r] = "write"
    /\ items[req[r].item] = NoItem
    /\ RowFits(NewRow(r))
    /\ Answer(r, "ok")
    /\ UNCHANGED <<books, req, user, item, tx>>

(* The UNIQUE index on items.name, or the range of a column, says no.        *)
WriteItemConflicts(r) ==
    /\ req[r].kind \in {"update", "add"}
    /\ pc[r] = "write"
    /\ \/ ~RowFits(NewRow(r))
       \/ /\ (req[r].kind = "update") <=> (items[req[r].item] # NoItem)
          /\ ~ItemLocked(r)
          /\ NameTaken(r)
    /\ Answer(r, "failed")
    /\ UNCHANGED <<books, req, user, item, tx>>

-----------------------------------------------------------------------------
(* What may go wrong in any handler.                                         *)

(* A query, db.Begin() or a single UPDATE or INSERT reports an error and has *)
(* changed nothing.                                                          *)
QueryFails(r) ==
    /\ \/ pc[r] \in {"getUser", "sale", "write"}
       \/ pc[r] = "new" /\ req[r].kind = "credit"
    /\ Answer(r, "failed")
    /\ UNCHANGED <<books, req, user, item, tx>>

(* The server dies and is started again.  Open transactions roll back, the   *)
(* requests it was serving get no answer.                                    *)
Crash ==
    /\ \E r \in Requests : Active(r)
    /\ pc' = [r \in Requests |-> IF Active(r) THEN "done" ELSE pc[r]]
    /\ reply' = [r \in Requests |-> IF Active(r) THEN "lost" ELSE reply[r]]
    /\ tx' = [r \in Requests |-> {}]
    /\ UNCHANGED <<books, req, user, item>>

(* Every request has been answered, no other comes.                          *)
Terminating ==
    /\ \A r \in Requests : pc[r] = "done"
    /\ UNCHANGED vars

-----------------------------------------------------------------------------

(* The steps a handler takes while database and connections work.            *)
Advance(r) ==
    \/ GetItemById(r) \/ GetUserForId(r) \/ CheckSale(r)
    \/ UpdateUserInSale(r) \/ UpdateItemInSale(r) \/ InsertAndCommit(r)
    \/ CheckDiff(r) \/ UpdateUser(r, "ok") \/ UpdateUserOverflows(r)
    \/ GetItemByName(r) \/ WriteItem(r, "ok")
    \/ UpdateNoItem(r) \/ WriteItemConflicts(r)

(* The write of changeCredit, updateItem or addItem is committed, but the    *)
(* connection to the database breaks before the handler learns it.           *)
WriteReportedFailed(r) == UpdateUser(r, "failed") \/ WriteItem(r, "failed")

Fail(r) ==
    \/ Reject(r) \/ StatementFails(r) \/ CommitFails(r) \/ QueryFails(r)
    \/ GetItemByNameFails(r) \/ WriteReportedFailed(r)

Next ==
    \/ \E r \in Requests : Advance(r) \/ Fail(r)
    \/ Crash
    \/ Terminating

(* Go runs every handler that is not waiting: a request that has arrived     *)
(* goes on.  Nothing promises that a request arrives, or that something      *)
(* fails.                                                                    *)
Fairness == \A r \in Requests : WF_vars(Active(r) /\ Advance(r))

Spec == Init /\ [][Next]_vars /\ Fairness

-----------------------------------------------------------------------------
(* Requests that do not overlap.  Nothing in the code keeps conflicting      *)
(* requests apart; this says what an operator would have to see to.          *)

SameAccount(q, r) ==
    /\ req[q].kind \in {"buy", "credit"}
    /\ req[r].kind \in {"buy", "credit"}
    /\ req[q].user = req[r].user
    /\ ~IsCashUser(req[q].user)

SameItem(q, r) ==
    /\ req[q].kind # "credit"
    /\ req[r].kind # "credit"
    /\ req[q].item = req[r].item

NoOverlap ==
    \A q, r \in Requests :
        Active(q) /\ Active(r) /\ q # r => ~SameAccount(q, r) /\ ~SameItem(q, r)

IsolatedSpec == Init /\ [][Next /\ NoOverlap']_vars /\ Fairness

-----------------------------------------------------------------------------
(* Properties.                                                               *)

(* No account is ever in debt: MakeTransaction and changeCredit check their  *)
(* copy of the account, and the value they write is computed from that copy. *)
CreditNeverNegative == \A u \in Accounts : credit[u] >= 0

(* The fridge never holds fewer than no items.  Sales guarantee it by the    *)
(* check in MakeTransaction; updateItem and addItem only if their requests   *)
(* were validated.                                                           *)
StockNeverNegative ==
    \A i \in Items : items[i] # NoItem => items[i].amount >= 0

(* The account of the cash buyers, set up with 65535 cents to pass the check *)
(* of MakeTransaction, is never charged, so cash sales never run out of it.  *)
CashCreditFixed == credit[Cash] = OpeningCredit[Cash]

(* Money, goods and the list of sales move together: in a step that changes  *)
(* an account or an item, the request behind it takes effect, and a sale     *)
(* takes its goods, charges its buyer and is recorded in that same step.     *)
NothingMovesAlone == [][
    /\ \A u \in Accounts : credit'[u] # credit[u] =>
          \E r \in applied' \ applied :
              /\ req[r].kind \in {"buy", "credit"} /\ req[r].user = u
              /\ req[r].kind = "buy" => Record(r) \in transactions'
    /\ \A i \in Items : items'[i] # items[i] =>
          \E r \in applied' \ applied :
              /\ req[r].kind # "credit" /\ req[r].item = i
              /\ req[r].kind = "buy" => Record(r) \in transactions'
    /\ \A r \in Requests :
          req[r].kind = "buy" /\ Record(r) \in transactions' \ transactions =>
              /\ items'[req[r].item] = ItemAfterSale(r)
              /\ credit'[req[r].user] = IF IsCashUser(req[r].user)
                                        THEN credit[req[r].user]
                                        ELSE UserAfterSale(r)
    ]_vars

(* A request that a check turned down has changed nothing, and one that set  *)
(* credit or added an item and was answered "ok" has done so.                *)
AnswersMatchBooks == \A r \in Requests :
    /\ reply[r] = "refused" => r \notin applied
    /\ reply[r] = "ok" /\ req[r].kind \in {"credit", "add"} => r \in applied

(* A handler that has begun ends: every transaction releases the rows it has *)
(* written, and no two handlers wait for each other.                         *)
EveryRequestAnswered == \A r \in Requests : Active(r) ~> pc[r] = "done"

(* The copies of request r still agree with the database.                    *)
Fresh(r) ==
    /\ req[r].kind \in {"buy", "credit"} => user[r] = credit[req[r].user]
    /\ req[r].kind = "buy" => item[r] = items[req[r].item]

Books == INSTANCE Ledger

(* A request that takes effect while its copies are fresh does to the books  *)
(* exactly what the Ledger says, whatever else is going on.                  *)
FreshWritesKeepTheBooks ==
    [][\A r \in applied' \ applied : Fresh(r) => Books!Perform(r)]_vars

(* With requests that do not overlap, the handlers implement the Ledger.     *)
KeepsTheBooks == Books!Spec

CreditMoved(r) ==
    IF req[r].kind = "credit" THEN req[r].diff ELSE -FinalPrice(r)

(* The credit of a user is what the user paid in, minus what was bought, at  *)
(* the price the buyer was charged.                                          *)
CreditAddsUp == \A u \in Users :
    credit[u] = OpeningCredit[u]
        + MapThenSumSet(CreditMoved, {r \in applied :
             req[r].kind \in {"buy", "credit"} /\ req[r].user = u})

(* While nobody edits an item, its stock is what it was minus what was sold. *)
StockAddsUp == \A i \in Items :
    (\A r \in Requests : req[r].kind \in {"update", "add"} => req[r].item # i)
    /\ OpeningItems[i] # NoItem
    => OpeningItems[i].amount = items[i].amount
         + MapThenSumSet(LAMBDA t : t.amount,
                         {t \in transactions : t.item = i})

(* The only edit of an item, once it has been made, stays: sales do not      *)
(* touch name and price.                                                     *)
EditsStick == \A r \in applied :
    /\ req[r].kind = "update"
    /\ \A q \in Requests \ {r} :
          req[q].kind = "update" => req[q].item # req[r].item
    => /\ items[req[r].item].name = req[r].row.name
       /\ items[req[r].item].price = req[r].row.price

(* What a client that is told "ok" believes: the sale or the edit took place.*)
OkMeansDone == \A r \in Requests : reply[r] = "ok" => r \in applied

=============================================================================
