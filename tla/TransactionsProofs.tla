------------------------- MODULE TransactionsProofs -------------------------
(***************************************************************************)
(* What holds of the sale, credit and catalogue handlers for every number   *)
(* of requests, users and items and every workload.  The runs of            *)
(* MCTransactions check the same properties on small instances.             *)
(***************************************************************************)
EXTENDS Transactions, TLAPS

-----------------------------------------------------------------------------
(* The inductive invariant: what the handler of one request may rely on, at  *)
(* each point of its code, about its own copies and its own transaction.  It *)
(* says nothing about the database, which others change at any time.         *)

SaleLabels == {"getUser", "sale", "user", "item", "insert"}

(* A handler at these labels serves this kind of request, and has a row.     *)
LabelOK(r) ==
    /\ pc[r] \in SaleLabels => req[r].kind = "buy" /\ item[r] \in ItemRow
    /\ pc[r] = "check" => req[r].kind = "credit"
    /\ pc[r] = "user" => ~IsCashUser(req[r].user)

(* The checks have been passed, on copies that have not changed since.       *)
CheckedOK(r) ==
    /\ pc[r] \in {"user", "item", "insert"} => EnoughCredit(r) /\ EnoughItems(r)
    /\ pc[r] = "write" /\ req[r].kind = "credit" => user[r] + req[r].diff >= 0

(* What the open transaction of a sale has written so far.                   *)
TransactionOK(r) ==
    /\ "user" \in tx[r] =>
         /\ pc[r] \in {"item", "insert"}
         /\ ~IsCashUser(req[r].user)
         /\ Fits(UserAfterSale(r))
    /\ pc[r] \in {"item", "insert"} /\ ~IsCashUser(req[r].user) => "user" \in tx[r]
    /\ pc[r] = "insert" => RowFits(ItemAfterSale(r))
    /\ "item" \in tx[r] => pc[r] = "insert"

(* Only a handler that has ended has taken effect.                           *)
EffectOK(r) == r \in applied => pc[r] = "done"

HandlerOK(r) == LabelOK(r) /\ CheckedOK(r) /\ TransactionOK(r) /\ EffectOK(r)

IInv == TypeOK /\ \A r \in Requests : HandlerOK(r)

-----------------------------------------------------------------------------

(* The fields a payload has, by kind.                                        *)
LEMMA PayloadFields ==
  ASSUME NEW p \in Payload
  PROVE  /\ p.kind \in {"buy", "credit", "update", "add"}
         /\ p.kind = "buy" => /\ p.user \in Accounts
                              /\ p.item \in Items
                              /\ p.amount \in Int
         /\ p.kind = "credit" => p.user \in Users /\ p.diff \in Int
         /\ p.kind \in {"update", "add"} =>
              /\ p.item \in Items
              /\ p.row \in [name : Names, price : Int, amount : Int]
  BY ColumnAssumption
  DEF Payload, BuyItemRequest, ChangeCreditRequest, UpdateItemRequest, Column

(* What a handler computes for a sale are integers.                          *)
LEMMA SaleValues ==
  ASSUME TypeOK, NEW r \in Requests,
         req[r].kind = "buy", item[r] \in ItemRow
  PROVE  /\ FinalPrice(r) \in Int
         /\ UserAfterSale(r) \in Int
         /\ ItemAfterSale(r) \in [name : Names, price : Column, amount : Int]
  <1>1. req[r].amount \in Int /\ req[r] \in Payload
    BY PayloadFields DEF TypeOK
  <1>2. item[r].price \in Int /\ item[r].amount \in Int /\ user[r] \in Int
    BY ColumnAssumption DEF TypeOK, ItemRow, Column
  <1>3. FinalPrice(r) \in Int
    BY <1>1, <1>2 DEF FinalPrice
  <1>4. ItemAfterSale(r) \in [name : Names, price : Column, amount : Int]
    BY <1>1, <1>2 DEF ItemAfterSale, ItemRow
  <1>. QED  BY <1>2, <1>3, <1>4 DEF UserAfterSale

(* The opening state: no handler has begun.                                  *)
LEMMA InitIInv == Init => IInv
  <1>. SUFFICES ASSUME Init PROVE IInv
    OBVIOUS
  <1>1. req \in [Requests -> Payload]
    BY WorkloadAssumption DEF Init
  <1>2. TypeOK
    <2>1. credit \in [Accounts -> Column]
      BY OpeningCreditAssumption, ColumnAssumption DEF Init, Column
    <2>2. items \in [Items -> ItemRow \cup {NoItem}]
      BY OpeningItemsAssumption DEF Init
    <2>3. user \in [Requests -> Column]
      BY ColumnAssumption DEF Init, Column
    <2>. QED  BY <1>1, <2>1, <2>2, <2>3 DEF Init, TypeOK, Labels, Replies
  <1>3. ASSUME NEW r \in Requests PROVE HandlerOK(r)
    BY DEF Init, HandlerOK, LabelOK, CheckedOK, TransactionOK, EffectOK, SaleLabels
  <1>. QED  BY <1>2, <1>3 DEF IInv

-----------------------------------------------------------------------------
(* A step of one handler leaves the variables of the others alone.           *)

Untouched(q) ==
    /\ pc'[q] = pc[q] /\ user'[q] = user[q] /\ item'[q] = item[q]
    /\ tx'[q] = tx[q] /\ req'[q] = req[q] /\ reply'[q] = reply[q]
    /\ (q \in applied') <=> (q \in applied)

LEMMA UntouchedKeepsHandlerOK ==
  ASSUME NEW q \in Requests, HandlerOK(q), Untouched(q)
  PROVE  HandlerOK(q)'
  BY DEF HandlerOK, LabelOK, CheckedOK, TransactionOK, EffectOK, Untouched,
         IsCashUser, EnoughCredit, EnoughItems, FinalPrice, UserAfterSale,
         ItemAfterSale, Fits, RowFits

(* The variables of requests other than r are touched by no step of r.       *)
LEMMA StepsAreLocal ==
  ASSUME TypeOK, NEW r \in Requests, Advance(r) \/ Fail(r),
         NEW q \in Requests \ {r}
  PROVE  Untouched(q)
  <1>. USE DEF TypeOK, Untouched, Answer, Goto, books
  <1>1. CASE GetItemById(r)
    BY <1>1 DEF GetItemById
  <1>2. CASE GetUserForId(r)
    BY <1>2 DEF GetUserForId
  <1>3. CASE CheckSale(r)
    BY <1>3 DEF CheckSale
  <1>4. CASE UpdateUserInSale(r)
    BY <1>4 DEF UpdateUserInSale, Execute, Rollback
  <1>5. CASE UpdateItemInSale(r)
    BY <1>5 DEF UpdateItemInSale, Execute, Rollback
  <1>6. CASE InsertAndCommit(r)
    BY <1>6 DEF InsertAndCommit, Publish
  <1>7. CASE CheckDiff(r)
    BY <1>7 DEF CheckDiff
  <1>8. CASE \E a \in {"ok", "failed"} : UpdateUser(r, a)
    BY <1>8 DEF UpdateUser
  <1>9. CASE UpdateUserOverflows(r)
    BY <1>9 DEF UpdateUserOverflows
  <1>10. CASE GetItemByName(r)
    BY <1>10 DEF GetItemByName
  <1>11. CASE \E a \in {"ok", "failed"} : WriteItem(r, a)
    BY <1>11 DEF WriteItem
  <1>12. CASE UpdateNoItem(r)
    BY <1>12 DEF UpdateNoItem
  <1>13. CASE WriteItemConflicts(r)
    BY <1>13 DEF WriteItemConflicts
  <1>14. CASE Reject(r)
    BY <1>14 DEF Reject
  <1>15. CASE StatementFails(r)
    BY <1>15 DEF StatementFails, Rollback
  <1>16. CASE CommitFails(r)
    BY <1>16 DEF CommitFails, Publish
  <1>17. CASE QueryFails(r)
    BY <1>17 DEF QueryFails
  <1>18. CASE GetItemByNameFails(r)
    BY <1>18 DEF GetItemByNameFails
  <1>. QED
    BY <1>1, <1>2, <1>3, <1>4, <1>5, <1>6, <1>7, <1>8, <1>9, <1>10, <1>11,
       <1>12, <1>13, <1>14, <1>15, <1>16, <1>17, <1>18
    DEF Advance, Fail, WriteReportedFailed

-----------------------------------------------------------------------------
(* Every step of a handler keeps the types and its own part of the           *)
(* invariant: one step of the proof for each action.                         *)
LEMMA StepKeepsIInv ==
  ASSUME IInv, NEW r \in Requests, Advance(r) \/ Fail(r)
  PROVE  TypeOK' /\ HandlerOK(r)'
  <1>. USE DEF Answer, Goto, books
  <1>0. TypeOK /\ HandlerOK(r) /\ req[r] \in Payload
    BY DEF IInv, TypeOK
  <1>f. /\ req[r].kind \in {"buy", "credit", "update", "add"}
        /\ req[r].kind \in {"buy", "credit"} => req[r].user \in Accounts
        /\ req[r].kind # "credit" => req[r].item \in Items
        /\ req[r].kind = "buy" => req[r].amount \in Int
        /\ req[r].kind = "credit" => req[r].diff \in Int
        /\ req[r].kind \in {"update", "add"} =>
              req[r].row \in [name : Names, price : Int, amount : Int]
    BY <1>0, PayloadFields DEF Accounts
  <1>1. CASE GetItemById(r)
    BY <1>0, <1>1, <1>f DEF GetItemById, TypeOK, Labels, Replies, HandlerOK, LabelOK,
       CheckedOK, TransactionOK, EffectOK, SaleLabels
  <1>2. CASE GetUserForId(r)
    BY <1>0, <1>2, <1>f DEF GetUserForId, TypeOK, Labels, Replies, HandlerOK, LabelOK,
       CheckedOK, TransactionOK, EffectOK, SaleLabels
  <1>3. CASE CheckSale(r)
    BY <1>0, <1>3, <1>f DEF CheckSale, TypeOK, Labels, Replies, HandlerOK, LabelOK,
       CheckedOK, TransactionOK, EffectOK, SaleLabels, EnoughCredit, EnoughItems,
       FinalPrice, IsCashUser
  <1>4. CASE UpdateUserInSale(r)
    BY <1>0, <1>4, <1>f DEF UpdateUserInSale, Execute, Rollback, TypeOK, Labels, Replies,
       HandlerOK, LabelOK, CheckedOK, TransactionOK, EffectOK, SaleLabels,
       EnoughCredit, EnoughItems, FinalPrice, IsCashUser, UserAfterSale, Fits
  <1>5. CASE UpdateItemInSale(r)
    BY <1>0, <1>5, <1>f DEF UpdateItemInSale, Execute, Rollback, TypeOK, Labels, Replies,
       HandlerOK, LabelOK, CheckedOK, TransactionOK, EffectOK, SaleLabels,
       EnoughCredit, EnoughItems, FinalPrice, IsCashUser, UserAfterSale, Fits,
       NewRow, RowFits, ItemAfterSale
  <1>p. ASSUME pc[r] = "insert", Publish(r)
        PROVE  /\ credit' \in [Accounts -> Column]
               /\ items' \in [Items -> ItemRow \cup {NoItem}]
               /\ transactions' \subseteq
                    [id : Requests, item : Items, user : Accounts, amount : Int]
               /\ applied' = applied \cup {r}
               /\ tx' = [tx EXCEPT ![r] = {}]
    <2>1. req[r].kind = "buy" /\ item[r] \in ItemRow
      BY <1>0, <1>p DEF HandlerOK, LabelOK, SaleLabels
    <2>2. ItemAfterSale(r) \in ItemRow
      BY <1>0, <1>p, <2>1, SaleValues DEF HandlerOK, TransactionOK, RowFits, Fits, ItemRow
    <2>3. "user" \in tx[r] => UserAfterSale(r) \in Column
      BY <1>0 DEF HandlerOK, TransactionOK, Fits
    <2>4. Record(r) \in [id : Requests, item : Items, user : Accounts, amount : Int]
      BY <1>f, <2>1 DEF Record
    <2>. QED  BY <1>0, <1>f, <1>p, <2>1, <2>2, <2>3, <2>4 DEF Publish, TypeOK
  <1>6. CASE InsertAndCommit(r)
    BY <1>0, <1>6, <1>f, <1>p DEF InsertAndCommit, TypeOK, Labels, Replies,
       HandlerOK, LabelOK, CheckedOK, TransactionOK, EffectOK, SaleLabels
  <1>7. CASE CheckDiff(r)
    BY <1>0, <1>7, <1>f, ColumnAssumption DEF CheckDiff, TypeOK, Labels, Replies,
       HandlerOK, LabelOK, CheckedOK, TransactionOK, EffectOK, SaleLabels, Column
  <1>8. CASE \E a \in {"ok", "failed"} : UpdateUser(r, a)
    BY <1>0, <1>8, <1>f DEF UpdateUser, TypeOK, Labels, Replies, Fits,
       HandlerOK, LabelOK, CheckedOK, TransactionOK, EffectOK, SaleLabels
  <1>9. CASE UpdateUserOverflows(r)
    BY <1>0, <1>9, <1>f DEF UpdateUserOverflows, TypeOK, Labels, Replies,
       HandlerOK, LabelOK, CheckedOK, TransactionOK, EffectOK, SaleLabels
  <1>10. CASE GetItemByName(r)
    BY <1>0, <1>10, <1>f DEF GetItemByName, TypeOK, Labels, Replies,
       HandlerOK, LabelOK, CheckedOK, TransactionOK, EffectOK, SaleLabels
  <1>11. CASE \E a \in {"ok", "failed"} : WriteItem(r, a)
    BY <1>0, <1>11, <1>f DEF WriteItem, TypeOK, Labels, Replies, NewRow, RowFits,
       Fits, ItemRow,
       HandlerOK, LabelOK, CheckedOK, TransactionOK, EffectOK, SaleLabels
  <1>12. CASE UpdateNoItem(r)
    BY <1>0, <1>12, <1>f DEF UpdateNoItem, TypeOK, Labels, Replies,
       HandlerOK, LabelOK, CheckedOK, TransactionOK, EffectOK, SaleLabels
  <1>13. CASE WriteItemConflicts(r)
    BY <1>0, <1>13, <1>f DEF WriteItemConflicts, TypeOK, Labels, Replies,
       HandlerOK, LabelOK, CheckedOK, TransactionOK, EffectOK, SaleLabels
  <1>14. CASE Reject(r)
    BY <1>0, <1>14, <1>f DEF Reject, TypeOK, Labels, Replies,
       HandlerOK, LabelOK, CheckedOK, TransactionOK, EffectOK, SaleLabels
  <1>15. CASE StatementFails(r)
    BY <1>0, <1>15, <1>f DEF StatementFails, Rollback, TypeOK, Labels, Replies,
       HandlerOK, LabelOK, CheckedOK, TransactionOK, EffectOK, SaleLabels
  <1>16. CASE CommitFails(r)
    BY <1>0, <1>16, <1>f, <1>p DEF CommitFails, TypeOK, Labels, Replies,
       HandlerOK, LabelOK, CheckedOK, TransactionOK, EffectOK, SaleLabels
  <1>17. CASE QueryFails(r)
    BY <1>0, <1>17, <1>f DEF QueryFails, TypeOK, Labels, Replies,
       HandlerOK, LabelOK, CheckedOK, TransactionOK, EffectOK, SaleLabels
  <1>18. CASE GetItemByNameFails(r)
    BY <1>0, <1>18, <1>f DEF GetItemByNameFails, TypeOK, Labels, Replies,
       HandlerOK, LabelOK, CheckedOK, TransactionOK, EffectOK, SaleLabels
  <1>. QED
    BY <1>1, <1>2, <1>3, <1>4, <1>5, <1>6, <1>7, <1>8, <1>9, <1>10, <1>11,
       <1>12, <1>13, <1>14, <1>15, <1>16, <1>17, <1>18
    DEF Advance, Fail, WriteReportedFailed

(* A crash ends the handlers that are running and touches nothing else.      *)
LEMMA CrashKeepsIInv == IInv /\ Crash => IInv'
  <1>. SUFFICES ASSUME IInv, Crash PROVE IInv'
    OBVIOUS
  <1>1. TypeOK'
    BY DEF IInv, TypeOK, Crash, books, Labels, Replies, Active
  <1>2. ASSUME NEW r \in Requests PROVE HandlerOK(r)'
    <2>1. HandlerOK(r) /\ TypeOK
      BY DEF IInv
    <2>2. CASE Active(r)
      BY <2>1, <2>2 DEF TypeOK, Crash, books, Active, HandlerOK, LabelOK,
         CheckedOK, TransactionOK, EffectOK, SaleLabels
    <2>3. CASE ~Active(r)
      BY <2>1, <2>3 DEF TypeOK, Crash, books, Active, HandlerOK, LabelOK,
         CheckedOK, TransactionOK, EffectOK, SaleLabels
    <2>. QED  BY <2>2, <2>3
  <1>. QED  BY <1>1, <1>2 DEF IInv

LEMMA NextKeepsIInv == IInv /\ [Next]_vars => IInv'
  <1>. SUFFICES ASSUME IInv, [Next]_vars PROVE IInv'
    OBVIOUS
  <1>1. ASSUME NEW r \in Requests, Advance(r) \/ Fail(r) PROVE IInv'
    <2>1. TypeOK' /\ HandlerOK(r)'
      BY <1>1, StepKeepsIInv
    <2>2. ASSUME NEW q \in Requests \ {r} PROVE HandlerOK(q)'
      <3>1. Untouched(q)
        BY <1>1, StepsAreLocal DEF IInv
      <3>. QED  BY <3>1, UntouchedKeepsHandlerOK DEF IInv
    <2>. QED  BY <2>1, <2>2 DEF IInv
  <1>2. CASE Crash
    BY <1>2, CrashKeepsIInv
  <1>3. CASE UNCHANGED vars
    <2>1. TypeOK'
      BY <1>3 DEF IInv, TypeOK, vars
    <2>2. ASSUME NEW q \in Requests PROVE HandlerOK(q)'
      BY <1>3, UntouchedKeepsHandlerOK DEF IInv, Untouched, vars
    <2>. QED  BY <2>1, <2>2 DEF IInv
  <1>. QED  BY <1>1, <1>2, <1>3 DEF Next, Terminating

THEOREM IInvHolds == Spec => []IInv
  <1>. QED  BY InitIInv, NextKeepsIInv, PTL DEF Spec

(* Every value in the books and in the handlers' copies is one its column    *)
(* can hold.                                                                 *)
THEOREM TypeCorrect == Spec => []TypeOK
  <1>1. IInv => TypeOK
    BY DEF IInv
  <1>. QED  BY <1>1, IInvHolds, PTL

-----------------------------------------------------------------------------
(* The three ways in which the books change.                                 *)

SellsNow(r) == pc[r] = "insert" /\ Publish(r) /\ UNCHANGED <<req, user, item>>

CreditsNow(r) == \E a \in {"ok", "failed"} : UpdateUser(r, a)

EditsNow(r) == \E a \in {"ok", "failed"} : WriteItem(r, a)

LEMMA HowStepsChangeBooks ==
  ASSUME NEW r \in Requests, Advance(r) \/ Fail(r)
  PROVE  UNCHANGED books \/ SellsNow(r) \/ CreditsNow(r) \/ EditsNow(r)
  <1>. USE DEF books, SellsNow, CreditsNow, EditsNow
  <1>1. CASE Advance(r)
    BY <1>1 DEF Advance, GetItemById, GetUserForId, CheckSale, UpdateUserInSale,
       UpdateItemInSale, InsertAndCommit, CheckDiff, UpdateUserOverflows,
       GetItemByName, UpdateNoItem, WriteItemConflicts
  <1>2. CASE Fail(r)
    BY <1>2 DEF Fail, Reject, StatementFails, CommitFails, QueryFails,
       GetItemByNameFails, WriteReportedFailed
  <1>. QED  BY <1>1, <1>2

LEMMA HowBooksChange ==
  ASSUME [Next]_vars
  PROVE  \/ UNCHANGED books
         \/ \E r \in Requests : SellsNow(r) \/ CreditsNow(r) \/ EditsNow(r)
  <1>1. Crash \/ UNCHANGED vars => UNCHANGED books
    BY DEF Crash, vars, books
  <1>. QED  BY <1>1, HowStepsChangeBooks DEF Next, Terminating

(* What a sale that is being committed relies on.                            *)
LEMMA SaleFacts ==
  ASSUME IInv, NEW r \in Requests, SellsNow(r)
  PROVE  /\ req[r].kind = "buy" /\ item[r] \in ItemRow
         /\ req[r].user \in Accounts /\ req[r].item \in Items
         /\ req[r].amount \in Int /\ FinalPrice(r) \in Int
         /\ r \notin applied
         /\ FinalPrice(r) <= user[r] /\ req[r].amount <= item[r].amount
         /\ ("user" \in tx[r]) <=> ~IsCashUser(req[r].user)
         /\ ItemAfterSale(r) \in ItemRow
  <1>1. req[r] \in Payload /\ TypeOK /\ HandlerOK(r) /\ pc[r] = "insert"
    BY DEF IInv, TypeOK, SellsNow
  <1>2. req[r].kind = "buy" /\ item[r] \in ItemRow
    BY <1>1 DEF HandlerOK, LabelOK, SaleLabels
  <1>3. req[r].user \in Accounts /\ req[r].item \in Items /\ req[r].amount \in Int
    BY <1>1, <1>2, PayloadFields
  <1>4. FinalPrice(r) <= user[r] /\ req[r].amount <= item[r].amount
    BY <1>1 DEF HandlerOK, CheckedOK, EnoughCredit, EnoughItems
  <1>5. ItemAfterSale(r) \in ItemRow
    BY <1>1, <1>2, SaleValues DEF HandlerOK, TransactionOK, RowFits, Fits, ItemRow
  <1>6. ("user" \in tx[r]) <=> ~IsCashUser(req[r].user)
    BY <1>1 DEF HandlerOK, TransactionOK
  <1>7. r \notin applied
    BY <1>1 DEF HandlerOK, EffectOK
  <1>. QED  BY <1>1, <1>2, <1>3, <1>4, <1>5, <1>6, <1>7, SaleValues

(* The stock a sale leaves is not negative, whatever the stock is by now.    *)
LEMMA SaleLeavesStock ==
  ASSUME IInv, NEW r \in Requests, SellsNow(r)
  PROVE  ItemAfterSale(r).amount >= 0
  <1>1. /\ item[r] \in ItemRow /\ req[r].amount \in Int
        /\ req[r].amount <= item[r].amount
    BY SaleFacts
  <1>2. ItemAfterSale(r).amount = item[r].amount - req[r].amount
    BY <1>1 DEF ItemAfterSale, ItemRow
  <1>3. item[r].amount \in Int
    BY <1>1, ColumnAssumption DEF ItemRow, Column
  <1>. QED  BY <1>1, <1>2, <1>3

-----------------------------------------------------------------------------
(* Whatever requests overlap, crash or fail, no account is ever in debt:     *)
(* each write of a credit is computed from the copy that was checked.        *)
THEOREM NoAccountInDebt == Spec => []CreditNeverNegative
  <1>1. Init => CreditNeverNegative
    BY OpeningCreditAssumption DEF Init, CreditNeverNegative
  <1>2. IInv /\ CreditNeverNegative /\ [Next]_vars => CreditNeverNegative'
    <2>. SUFFICES ASSUME IInv, CreditNeverNegative, [Next]_vars,
                         NEW u \in Accounts
                  PROVE  credit'[u] >= 0
      BY DEF CreditNeverNegative
    <2>0. credit \in [Accounts -> Column] /\ credit[u] >= 0
      BY DEF IInv, TypeOK, CreditNeverNegative
    <2>1. CASE UNCHANGED books
      BY <2>0, <2>1 DEF books
    <2>2. ASSUME NEW r \in Requests, SellsNow(r) PROVE credit'[u] >= 0
      <3>1. user[r] \in Int
        BY ColumnAssumption DEF IInv, TypeOK, Column
      <3>2. UserAfterSale(r) >= 0
        BY <2>2, <3>1, SaleFacts DEF UserAfterSale
      <3>. QED  BY <2>0, <2>2, <3>2 DEF SellsNow, Publish
    <2>3. ASSUME NEW r \in Requests, CreditsNow(r) PROVE credit'[u] >= 0
      <3>1. user[r] + req[r].diff >= 0
        BY <2>3 DEF CreditsNow, UpdateUser, IInv, HandlerOK, CheckedOK
      <3>. QED  BY <2>0, <2>3, <3>1 DEF CreditsNow, UpdateUser
    <2>4. ASSUME NEW r \in Requests, EditsNow(r) PROVE credit'[u] >= 0
      BY <2>0, <2>4 DEF EditsNow, WriteItem
    <2>. QED  BY <2>1, <2>2, <2>3, <2>4, HowBooksChange
  <1>. QED  BY <1>1, <1>2, IInvHolds, PTL DEF Spec

(* A sale charges no cash buyer, a credit request is nobody's but a user's.  *)
LEMMA CashCreditKept ==
  ASSUME IInv, [Next]_vars
  PROVE  credit'[Cash] = credit[Cash]
  <1>0. credit \in [Accounts -> Column]
    BY DEF IInv, TypeOK
  <1>1. CASE UNCHANGED books
    BY <1>1 DEF books
  <1>2. ASSUME NEW r \in Requests, SellsNow(r) PROVE credit'[Cash] = credit[Cash]
    <2>1. "user" \in tx[r] => req[r].user # Cash
      BY <1>2, SaleFacts DEF IsCashUser
    <2>. QED  BY <1>0, <1>2, <2>1 DEF SellsNow, Publish, Accounts
  <1>3. ASSUME NEW r \in Requests, CreditsNow(r) PROVE credit'[Cash] = credit[Cash]
    <2>1. req[r].kind = "credit" /\ req[r] \in Payload
      BY <1>3 DEF CreditsNow, UpdateUser, IInv, TypeOK
    <2>2. req[r].user # Cash
      BY <2>1, PayloadFields, CashAssumption
    <2>. QED  BY <1>0, <1>3, <2>2 DEF CreditsNow, UpdateUser, Accounts
  <1>4. ASSUME NEW r \in Requests, EditsNow(r) PROVE credit'[Cash] = credit[Cash]
    BY <1>4 DEF EditsNow, WriteItem
  <1>. QED  BY <1>1, <1>2, <1>3, <1>4, HowBooksChange

(* The account of the cash buyers keeps its opening credit: no sale charges  *)
(* it, and no session lets anybody change it.                                *)
THEOREM CashIsNeverCharged == Spec => []CashCreditFixed
  <1>1. Init => CashCreditFixed
    BY DEF Init, CashCreditFixed
  <1>2. IInv /\ CashCreditFixed /\ [Next]_vars => CashCreditFixed'
    BY CashCreditKept DEF CashCreditFixed
  <1>. QED  BY <1>1, <1>2, IInvHolds, PTL DEF Spec

(* What Validate() of updateItemRequest and addItemRequest would have        *)
(* guaranteed, had it been called.                                           *)
AmountsValidated ==
    /\ \A r \in Requests : \A p \in Workload[r] :
          p.kind \in {"update", "add"} => p.row.amount >= 0
    /\ \A i \in Items :
          OpeningItems[i] # NoItem => OpeningItems[i].amount >= 0

(* A request carries the same payload throughout.                            *)
LEMMA RequestsKept == [Next]_vars => UNCHANGED req
  BY DEF Next, vars, books, Crash, Terminating, Advance, Fail, WriteReportedFailed,
     GetItemById, GetUserForId, CheckSale, UpdateUserInSale, UpdateItemInSale,
     InsertAndCommit, CheckDiff, UpdateUser, UpdateUserOverflows, GetItemByName,
     WriteItem, UpdateNoItem, WriteItemConflicts, Reject, StatementFails,
     CommitFails, QueryFails, GetItemByNameFails

(* The requests carry what the workload lets them carry.                     *)
LEMMA RequestsFromWorkload == Spec => [](\A r \in Requests : req[r] \in Workload[r])
  <1>. DEFINE FromWorkload == \A r \in Requests : req[r] \in Workload[r]
  <1>1. Init => FromWorkload
    BY DEF Init
  <1>3. FromWorkload /\ [Next]_vars => FromWorkload'
    BY RequestsKept
  <1>. QED  BY <1>1, <1>3, PTL DEF Spec

(* With validated amounts the stock is never negative, however sales and     *)
(* edits overlap.                                                            *)
THEOREM FridgeNeverOwes ==
  ASSUME AmountsValidated
  PROVE  Spec => []StockNeverNegative
  <1>. DEFINE FromWorkload == \A r \in Requests : req[r] \in Workload[r]
  <1>1. Init => StockNeverNegative
    BY AmountsValidated DEF Init, StockNeverNegative, AmountsValidated
  <1>2. IInv /\ FromWorkload /\ StockNeverNegative /\ [Next]_vars
          => StockNeverNegative'
    <2>. SUFFICES ASSUME IInv, FromWorkload, StockNeverNegative, [Next]_vars,
                         NEW i \in Items, items'[i] # NoItem
                  PROVE  items'[i].amount >= 0
      BY DEF StockNeverNegative
    <2>0. items \in [Items -> ItemRow \cup {NoItem}]
      BY DEF IInv, TypeOK
    <2>0a. items[i] # NoItem => items[i].amount >= 0
      BY DEF StockNeverNegative
    <2>1. CASE UNCHANGED books
      BY <2>0a, <2>1 DEF books
    <2>2. ASSUME NEW r \in Requests, SellsNow(r) PROVE items'[i].amount >= 0
      <3>1. items' = [items EXCEPT ![req[r].item] = ItemAfterSale(r)]
        BY <2>2 DEF SellsNow, Publish
      <3>2. ItemAfterSale(r).amount >= 0
        BY <2>2, SaleLeavesStock
      <3>. QED  BY <2>0, <2>0a, <3>1, <3>2
    <2>3. ASSUME NEW r \in Requests, CreditsNow(r) PROVE items'[i].amount >= 0
      BY <2>0a, <2>3 DEF CreditsNow, UpdateUser
    <2>4. ASSUME NEW r \in Requests, EditsNow(r) PROVE items'[i].amount >= 0
      <3>1. req[r].row.amount >= 0
        BY <2>4, AmountsValidated DEF EditsNow, WriteItem, AmountsValidated
      <3>. QED  BY <2>0, <2>0a, <2>4, <3>1 DEF EditsNow, WriteItem, NewRow
    <2>. QED  BY <2>1, <2>2, <2>3, <2>4, HowBooksChange
  <1>. QED  BY <1>1, <1>2, IInvHolds, RequestsFromWorkload, PTL DEF Spec

-----------------------------------------------------------------------------
(* The requests that take effect in one step are at most one.                *)
LEMMA OneAtATime ==
  ASSUME IInv, [Next]_vars, NEW r \in applied' \ applied
  PROVE  r \in Requests /\ (SellsNow(r) \/ CreditsNow(r) \/ EditsNow(r))
  BY HowBooksChange DEF books, SellsNow, Publish, CreditsNow, UpdateUser,
     EditsNow, WriteItem

(* A request whose copies are fresh does what the Ledger says.               *)
LEMMA FreshIsLedgerStep ==
  ASSUME IInv, NEW r \in Requests, Fresh(r),
         SellsNow(r) \/ CreditsNow(r) \/ EditsNow(r)
  PROVE  Books!Perform(r)
  <1>0. TypeOK /\ HandlerOK(r) /\ req[r] \in Payload
    BY DEF IInv, TypeOK
  <1>1. CASE SellsNow(r)
    <2>1. /\ req[r].kind = "buy" /\ r \notin applied
          /\ user[r] = credit[req[r].user] /\ item[r] = items[req[r].item]
          /\ item[r] \in ItemRow
          /\ ("user" \in tx[r]) <=> (req[r].user # Cash)
          /\ FinalPrice(r) <= user[r] /\ req[r].amount <= item[r].amount
      BY <1>1, SaleFacts DEF Fresh, IsCashUser
    <2>2. items[req[r].item] # NoItem
      BY <2>1, NoItemAssumption
    <2>3. /\ credit' = IF req[r].user = Cash THEN credit
                       ELSE [credit EXCEPT ![req[r].user] = user[r] - FinalPrice(r)]
          /\ items' = [items EXCEPT ![req[r].item] =
                                    [item[r] EXCEPT !.amount = @ - req[r].amount]]
          /\ transactions' = transactions \cup {Record(r)}
          /\ applied' = applied \cup {r}
          /\ UNCHANGED req
      BY <1>1, <2>1 DEF SellsNow, Publish, UserAfterSale, ItemAfterSale
    <2>4. credit' = IF req[r].user = Cash THEN credit
                    ELSE [credit EXCEPT ![req[r].user] =
                            @ - items[req[r].item].price * req[r].amount]
      BY <1>0, <2>1, <2>3 DEF FinalPrice, TypeOK
    <2>5. items' = [items EXCEPT ![req[r].item].amount = @ - req[r].amount]
      BY <1>0, <2>1, <2>3 DEF TypeOK
    <2>6. Books!Sell(r)
      BY <2>1, <2>2, <2>3, <2>4, <2>5 DEF Books!Sell, FinalPrice, Record
    <2>. QED  BY <2>1, <2>3, <2>6 DEF Books!Perform
  <1>2. CASE CreditsNow(r)
    <2>1. /\ req[r].kind = "credit" /\ pc[r] = "write" /\ UNCHANGED req
          /\ credit' = [credit EXCEPT ![req[r].user] = user[r] + req[r].diff]
          /\ applied' = applied \cup {r}
          /\ UNCHANGED <<items, transactions>>
      BY <1>2 DEF CreditsNow, UpdateUser
    <2>2. user[r] = credit[req[r].user] /\ r \notin applied /\ user[r] + req[r].diff >= 0
      BY <1>0, <2>1 DEF Fresh, HandlerOK, CheckedOK, EffectOK
    <2>3. user[r] \in Int /\ req[r].diff \in Int
      BY <1>0, <2>1, PayloadFields, ColumnAssumption DEF TypeOK, Column
    <2>4. Books!ChangeCredit(r)
      BY <1>0, <2>1, <2>2, <2>3 DEF Books!ChangeCredit, TypeOK
    <2>. QED  BY <2>1, <2>2, <2>4 DEF Books!Perform
  <1>3. CASE EditsNow(r)
    <2>1. /\ req[r].kind \in {"update", "add"} /\ pc[r] = "write" /\ UNCHANGED req
          /\ (req[r].kind = "update") <=> (items[req[r].item] # NoItem)
          /\ ~NameTaken(r)
          /\ items' = [items EXCEPT ![req[r].item] = req[r].row]
          /\ NewRow(r) = req[r].row
          /\ applied' = applied \cup {r}
          /\ UNCHANGED <<credit, transactions>>
      BY <1>3 DEF EditsNow, WriteItem, NewRow
    <2>2. r \notin applied
      BY <1>0, <2>1 DEF HandlerOK, EffectOK
    <2>3. Books!EditCatalogue(r)
      BY <2>1 DEF Books!EditCatalogue, NameTaken
    <2>. QED  BY <2>1, <2>2, <2>3 DEF Books!Perform
  <1>. QED  BY <1>1, <1>2, <1>3

(* Under any overlap of requests, a request that takes effect while its      *)
(* copies are fresh changes the books as the Ledger does.                    *)
THEOREM FreshWritesAreLedgerSteps == Spec => FreshWritesKeepTheBooks
  <1>1. IInv /\ [Next]_vars =>
          [\A r \in applied' \ applied : Fresh(r) => Books!Perform(r)]_vars
    BY OneAtATime, FreshIsLedgerStep
  <1>. QED  BY <1>1, IInvHolds, PTL DEF Spec, FreshWritesKeepTheBooks

-----------------------------------------------------------------------------
(* Requests that do not overlap: their copies stay fresh until they write.   *)

HasUser(r) ==
    \/ pc[r] \in {"sale", "user", "item", "insert", "check"}
    \/ pc[r] = "write" /\ req[r].kind = "credit"

CopiesFresh(r) ==
    /\ HasUser(r) => user[r] = credit[req[r].user]
    /\ pc[r] \in SaleLabels => item[r] = items[req[r].item]

FreshInv == NoOverlap /\ CashCreditFixed /\ \A r \in Requests : CopiesFresh(r)

(* A request takes effect while Active; it changes its own account or item.  *)
LEMMA EffectsAreOwn ==
  ASSUME IInv, NEW r \in Requests, SellsNow(r) \/ CreditsNow(r) \/ EditsNow(r)
  PROVE  /\ Active(r)
         /\ \A u \in Accounts : credit'[u] # credit[u] =>
               /\ req[r].kind \in {"buy", "credit"} /\ req[r].user = u /\ u # Cash
         /\ \A i \in Items : items'[i] # items[i] =>
               req[r].kind # "credit" /\ req[r].item = i
  <1>0. TypeOK /\ HandlerOK(r) /\ req[r] \in Payload
    BY DEF IInv, TypeOK
  <1>1. CASE SellsNow(r)
    <2>1. req[r].kind = "buy" /\ ("user" \in tx[r] => req[r].user # Cash)
      BY <1>1, SaleFacts DEF IsCashUser
    <2>. QED  BY <1>0, <1>1, <2>1 DEF SellsNow, Publish, Active, TypeOK
  <1>2. CASE CreditsNow(r)
    <2>1. req[r].kind = "credit" /\ req[r].user # Cash
      BY <1>0, <1>2, PayloadFields, CashAssumption DEF CreditsNow, UpdateUser
    <2>. QED  BY <1>0, <1>2, <2>1 DEF CreditsNow, UpdateUser, Active, TypeOK
  <1>3. CASE EditsNow(r)
    BY <1>0, <1>3 DEF EditsNow, WriteItem, Active, TypeOK
  <1>. QED  BY <1>1, <1>2, <1>3

(* A handler's own step: it reads what is in the database, or keeps what it  *)
(* has read.                                                                 *)
LEMMA OwnStepKeepsCopies ==
  ASSUME IInv, NEW r \in Requests, CopiesFresh(r), Advance(r) \/ Fail(r)
  PROVE  CopiesFresh(r)'
  <1>0. /\ pc \in [Requests -> Labels] /\ user \in [Requests -> Column]
        /\ item \in [Requests -> ItemRow \cup {NoItem}] /\ LabelOK(r)
    BY DEF IInv, TypeOK, HandlerOK
  <1>. USE DEF Answer, Goto, books, CopiesFresh, HasUser, SaleLabels
  <1>1. CASE GetItemById(r)
    BY <1>0, <1>1 DEF GetItemById
  <1>2. CASE GetUserForId(r)
    BY <1>0, <1>2 DEF GetUserForId
  <1>3. CASE CheckSale(r)
    BY <1>0, <1>3 DEF CheckSale
  <1>4. CASE UpdateUserInSale(r)
    BY <1>0, <1>4 DEF UpdateUserInSale, Execute, Rollback
  <1>5. CASE UpdateItemInSale(r)
    BY <1>0, <1>5 DEF UpdateItemInSale, Execute, Rollback
  <1>6. CASE InsertAndCommit(r) \/ CommitFails(r)
    BY <1>0, <1>6 DEF InsertAndCommit, CommitFails
  <1>7. CASE CheckDiff(r)
    BY <1>0, <1>7 DEF CheckDiff
  <1>8. CASE \E a \in {"ok", "failed"} : UpdateUser(r, a)
    BY <1>0, <1>8 DEF UpdateUser
  <1>9. CASE UpdateUserOverflows(r) \/ UpdateNoItem(r) \/ WriteItemConflicts(r)
    BY <1>0, <1>9 DEF UpdateUserOverflows, UpdateNoItem, WriteItemConflicts
  <1>10. CASE GetItemByName(r) \/ GetItemByNameFails(r)
    BY <1>0, <1>10 DEF GetItemByName, GetItemByNameFails
  <1>11. CASE \E a \in {"ok", "failed"} : WriteItem(r, a)
    BY <1>0, <1>11 DEF WriteItem
  <1>12. CASE Reject(r) \/ StatementFails(r) \/ QueryFails(r)
    BY <1>0, <1>12 DEF Reject, StatementFails, QueryFails, Rollback
  <1>. QED
    BY <1>1, <1>2, <1>3, <1>4, <1>5, <1>6, <1>7, <1>8, <1>9, <1>10, <1>11, <1>12
    DEF Advance, Fail, WriteReportedFailed

(* Another handler's step: it changes neither the copies of r nor, since the *)
(* two requests do not overlap, the rows they were taken from.               *)
LEMMA OtherStepKeepsCopies ==
  ASSUME IInv, NoOverlap, CashCreditFixed, CashCreditFixed',
         NEW r \in Requests, CopiesFresh(r),
         NEW q \in Requests \ {r}, Advance(q) \/ Fail(q)
  PROVE  CopiesFresh(r)'
  <1>0. /\ Untouched(r) /\ TypeOK /\ LabelOK(r) /\ req[r] \in Payload
        /\ UNCHANGED books \/ SellsNow(q) \/ CreditsNow(q) \/ EditsNow(q)
    BY StepsAreLocal, HowStepsChangeBooks DEF IInv, HandlerOK, TypeOK
  <1>1. HasUser(r) => credit'[req[r].user] = credit[req[r].user]
    <2>. SUFFICES ASSUME HasUser(r), credit'[req[r].user] # credit[req[r].user]
                  PROVE  FALSE
      OBVIOUS
    <2>1. req[r].kind \in {"buy", "credit"} /\ Active(r)
      BY <1>0 DEF HasUser, LabelOK, SaleLabels, Active
    <2>2. req[r].user \in Accounts
      BY <1>0, <2>1, PayloadFields DEF Accounts
    <2>3. SellsNow(q) \/ CreditsNow(q) \/ EditsNow(q)
      BY <1>0 DEF books
    <2>4. /\ Active(q) /\ req[q].kind \in {"buy", "credit"}
          /\ req[q].user = req[r].user /\ req[q].user # Cash
      BY <2>2, <2>3, EffectsAreOwn
    <2>5. SameAccount(q, r)
      BY <2>1, <2>4 DEF SameAccount, IsCashUser
    <2>. QED  BY <2>1, <2>4, <2>5 DEF NoOverlap
  <1>2. pc[r] \in SaleLabels => items'[req[r].item] = items[req[r].item]
    <2>. SUFFICES ASSUME pc[r] \in SaleLabels,
                         items'[req[r].item] # items[req[r].item]
                  PROVE  FALSE
      OBVIOUS
    <2>1. req[r].kind = "buy" /\ Active(r) /\ req[r].item \in Items
      BY <1>0, PayloadFields DEF LabelOK, SaleLabels, Active
    <2>2. SellsNow(q) \/ CreditsNow(q) \/ EditsNow(q)
      BY <1>0 DEF books
    <2>3. Active(q) /\ req[q].kind # "credit" /\ req[q].item = req[r].item
      BY <2>1, <2>2, EffectsAreOwn
    <2>4. SameItem(q, r)
      BY <2>1, <2>3 DEF SameItem
    <2>. QED  BY <2>1, <2>3, <2>4 DEF NoOverlap
  <1>. QED  BY <1>0, <1>1, <1>2 DEF CopiesFresh, HasUser, Untouched

LEMMA FreshInvKept ==
  ASSUME IInv, IInv', FreshInv, CashCreditFixed', [Next /\ NoOverlap']_vars
  PROVE  FreshInv'
  <1>. USE DEF FreshInv
  <1>1. ASSUME NEW q \in Requests, Advance(q) \/ Fail(q), NEW r \in Requests
        PROVE  CopiesFresh(r)'
    BY <1>1, OwnStepKeepsCopies, OtherStepKeepsCopies
  <1>2. ASSUME Crash, NEW r \in Requests PROVE CopiesFresh(r)'
    BY <1>2 DEF Crash, books, CopiesFresh, HasUser, SaleLabels, Active, IInv, TypeOK
  <1>3. ASSUME UNCHANGED vars, NEW r \in Requests PROVE CopiesFresh(r)'
    BY <1>3 DEF vars, CopiesFresh, HasUser
  <1>4. \A r \in Requests : CopiesFresh(r)'
    BY <1>1, <1>2, <1>3 DEF Next, Terminating
  <1>5. NoOverlap'
    BY DEF vars, NoOverlap, Active, SameAccount, SameItem
  <1>. QED  BY <1>4, <1>5

(* A request that takes effect has fresh copies.                             *)
LEMMA EffectsAreFresh ==
  ASSUME IInv, FreshInv, NEW r \in Requests,
         SellsNow(r) \/ CreditsNow(r) \/ EditsNow(r)
  PROVE  Fresh(r)
  <1>1. CopiesFresh(r)
    BY DEF FreshInv
  <1>2. CASE SellsNow(r)
    BY <1>1, <1>2 DEF SellsNow, CopiesFresh, HasUser, SaleLabels, Fresh, IInv,
       HandlerOK, LabelOK
  <1>3. CASE CreditsNow(r)
    BY <1>1, <1>3 DEF CreditsNow, UpdateUser, CopiesFresh, HasUser, Fresh
  <1>4. CASE EditsNow(r)
    BY <1>4 DEF EditsNow, WriteItem, Fresh
  <1>. QED  BY <1>2, <1>3, <1>4

(* What requests that do not overlap rely on.                                *)
IsolatedInv == IInv /\ FreshInv

LEMMA IsolatedInvHolds == IsolatedSpec => []IsolatedInv
  <1>. USE DEF IsolatedInv
  <1>1. Init => IsolatedInv
    <2>1. Init => FreshInv
      BY DEF Init, FreshInv, NoOverlap, Active, CashCreditFixed, CopiesFresh,
         HasUser, SaleLabels
    <2>. QED  BY <2>1, InitIInv
  <1>2. IsolatedInv /\ [Next /\ NoOverlap']_vars => IsolatedInv'
    <2>. SUFFICES ASSUME IsolatedInv, [Next /\ NoOverlap']_vars PROVE IsolatedInv'
      OBVIOUS
    <2>1. [Next]_vars
      OBVIOUS
    <2>2. IInv'
      BY <2>1, NextKeepsIInv
    <2>3. CashCreditFixed'
      BY <2>1, CashCreditKept DEF FreshInv, CashCreditFixed
    <2>. QED  BY <2>2, <2>3, FreshInvKept
  <1>. QED  BY <1>1, <1>2, PTL DEF IsolatedSpec

(* While conflicting requests do not overlap, buyItem, changeCredit,         *)
(* updateItem and addItem implement the Ledger: each request takes effect at *)
(* one instant or not at all, through any crash and any failing statement.   *)
THEOREM IsolatedRequestsKeepTheBooks == IsolatedSpec => KeepsTheBooks
  <1>1. Init => Books!Init
    BY DEF Init, Books!Init
  <1>2. IsolatedInv /\ [Next /\ NoOverlap']_vars => [Books!Next]_Books!vars
    <2>. SUFFICES ASSUME IInv, FreshInv, [Next /\ NoOverlap']_vars
                  PROVE  [Books!Next]_Books!vars
      BY DEF IsolatedInv
    <2>1. [Next]_vars /\ UNCHANGED req
      BY RequestsKept
    <2>2. CASE UNCHANGED books
      BY <2>1, <2>2 DEF books, Books!vars
    <2>3. ASSUME NEW r \in Requests, SellsNow(r) \/ CreditsNow(r) \/ EditsNow(r)
          PROVE  Books!Next
      <3>1. Books!Perform(r)
        BY <2>3, EffectsAreFresh, FreshIsLedgerStep
      <3>2. r \in DOMAIN req
        BY DEF IInv, TypeOK
      <3>. QED  BY <3>1, <3>2 DEF Books!Next
    <2>. QED  BY <2>1, <2>2, <2>3, HowBooksChange
  <1>. QED
    BY <1>1, <1>2, IsolatedInvHolds, PTL DEF IsolatedSpec, KeepsTheBooks, Books!Spec

-----------------------------------------------------------------------------
(* What moves in the books, and what the clients are told of it.             *)

(* Money, goods and the list of sales move together, in every step.          *)
THEOREM SalesAreAtomic == Spec => NothingMovesAlone
  <1>. DEFINE Alone ==
         /\ \A u \in Accounts : credit'[u] # credit[u] =>
               \E r \in applied' \ applied :
                   /\ req[r].kind \in {"buy", "credit"} /\ req[r].user = u
                   /\ req[r].kind = "buy" => Record(r) \in transactions'
         /\ \A i \in Items : items'[i] # items[i] =>
               \E r \in applied' \ applied :
                   /\ req[r].kind # "credit" /\ req[r].item = i
                   /\ req[r].kind = "buy" => Record(r) \in transactions'
         /\ \A r \in Requests :
               req[r].kind = "buy" /\ Record(r) \in transactions' \ transactions =>
                   /\ items'[req[r].item] = ItemAfterSale(r)
                   /\ credit'[req[r].user] = IF IsCashUser(req[r].user)
                                             THEN credit[req[r].user]
                                             ELSE UserAfterSale(r)
  <1>1. ASSUME IInv, [Next]_vars PROVE Alone
    <2>1. CASE UNCHANGED books
      BY <2>1 DEF books
    <2>2. ASSUME NEW r \in Requests, SellsNow(r) \/ CreditsNow(r) \/ EditsNow(r)
          PROVE  Alone
      <3>1. r \in applied' \ applied
        BY <1>1, <2>2 DEF SellsNow, Publish, CreditsNow, UpdateUser, EditsNow, WriteItem,
           IInv, HandlerOK, EffectOK
      <3>2. req[r].kind = "buy" => Record(r) \in transactions'
        BY <2>2 DEF SellsNow, Publish, CreditsNow, UpdateUser, EditsNow, WriteItem
      <3>3. ASSUME NEW q \in Requests, req[q].kind = "buy",
                   Record(q) \in transactions' \ transactions
            PROVE  /\ items'[req[q].item] = ItemAfterSale(q)
                   /\ credit'[req[q].user] = IF IsCashUser(req[q].user)
                                             THEN credit[req[q].user]
                                             ELSE UserAfterSale(q)
        <4>1. SellsNow(r) /\ Record(q) = Record(r)
          BY <2>2, <3>3 DEF SellsNow, Publish, CreditsNow, UpdateUser, EditsNow, WriteItem
        <4>2. q = r
          BY <4>1 DEF Record
        <4>3. TypeOK
          BY <1>1 DEF IInv
        <4>4. /\ req[r].user \in Accounts /\ req[r].item \in Items
              /\ ("user" \in tx[r]) <=> ~IsCashUser(req[r].user)
          BY <1>1, <4>1, SaleFacts
        <4>. QED  BY <4>1, <4>2, <4>3, <4>4 DEF SellsNow, Publish, TypeOK
      <3>. QED  BY <1>1, <2>2, <3>1, <3>2, <3>3, EffectsAreOwn
    <2>. QED  BY <1>1, <2>1, <2>2, HowBooksChange
  <1>2. IInv /\ [Next]_vars => [Alone]_vars
    BY <1>1
  <1>. QED  BY <1>2, IInvHolds, PTL DEF Spec, NothingMovesAlone

(* A refusal means that nothing has changed; "ok" to a credit request or to  *)
(* addItem means that it is done.                                            *)
THEOREM AnswersAreHonest == Spec => []AnswersMatchBooks
  <1>. DEFINE Honest(r) ==
         /\ reply[r] = "refused" => r \notin applied
         /\ reply[r] = "ok" /\ req[r].kind \in {"credit", "add"} => r \in applied
  <1>1. Init => AnswersMatchBooks
    BY DEF Init, AnswersMatchBooks
  <1>2. ASSUME IInv, NEW r \in Requests, Advance(r) \/ Fail(r), Honest(r)
        PROVE  Honest(r)'
    <2>0. /\ pc \in [Requests -> Labels] /\ reply \in [Requests -> Replies]
          /\ LabelOK(r) /\ EffectOK(r)
      BY <1>2 DEF IInv, TypeOK, HandlerOK
    <2>. USE DEF Answer, Goto, books, SaleLabels, LabelOK, EffectOK
    <2>1. CASE GetItemById(r) \/ GetUserForId(r) \/ CheckSale(r) \/ CheckDiff(r)
      BY <1>2, <2>0, <2>1 DEF GetItemById, GetUserForId, CheckSale, CheckDiff
    <2>2. CASE UpdateUserInSale(r) \/ UpdateItemInSale(r) \/ StatementFails(r)
      BY <1>2, <2>0, <2>2 DEF UpdateUserInSale, UpdateItemInSale, StatementFails,
         Execute, Rollback
    <2>3. CASE InsertAndCommit(r) \/ CommitFails(r)
      BY <1>2, <2>0, <2>3 DEF InsertAndCommit, CommitFails, Publish
    <2>4. CASE \E a \in {"ok", "failed"} : UpdateUser(r, a) \/ WriteItem(r, a)
      BY <1>2, <2>0, <2>4 DEF UpdateUser, WriteItem
    <2>5. CASE UpdateUserOverflows(r) \/ UpdateNoItem(r) \/ WriteItemConflicts(r)
      BY <1>2, <2>0, <2>5 DEF UpdateUserOverflows, UpdateNoItem, WriteItemConflicts
    <2>6. CASE GetItemByName(r) \/ GetItemByNameFails(r) \/ Reject(r) \/ QueryFails(r)
      BY <1>2, <2>0, <2>6 DEF GetItemByName, GetItemByNameFails, Reject, QueryFails
    <2>. QED
      BY <1>2, <2>1, <2>2, <2>3, <2>4, <2>5, <2>6 DEF Advance, Fail, WriteReportedFailed
  <1>3. IInv /\ AnswersMatchBooks /\ [Next]_vars => AnswersMatchBooks'
    <2>. SUFFICES ASSUME IInv, \A r \in Requests : Honest(r), [Next]_vars,
                         NEW q \in Requests
                  PROVE  Honest(q)'
      BY DEF AnswersMatchBooks
    <2>1. ASSUME NEW r \in Requests, Advance(r) \/ Fail(r) PROVE Honest(q)'
      <3>1. CASE q = r
        BY <1>2, <2>1, <3>1
      <3>2. CASE q # r
        BY <2>1, <3>2, StepsAreLocal DEF IInv, Untouched
      <3>. QED  BY <3>1, <3>2
    <2>2. CASE Crash
      BY <2>2 DEF Crash, books
    <2>3. CASE UNCHANGED vars
      BY <2>3 DEF vars
    <2>. QED  BY <2>1, <2>2, <2>3 DEF Next, Terminating
  <1>. QED  BY <1>1, <1>3, IInvHolds, PTL DEF Spec
-----------------------------------------------------------------------------
(* Who waits for whom.                                                       *)

(* The next statement of r writes a row of users, or of items.               *)
NeedsUserRow(r) == pc[r] = "user" \/ (pc[r] = "write" /\ req[r].kind = "credit")

NeedsItemRow(r) == pc[r] = "item" \/ (pc[r] = "write" /\ req[r].kind # "credit")

HeldUp(r) == \/ NeedsUserRow(r) /\ UserLocked(r)
             \/ NeedsItemRow(r) /\ ItemLocked(r)

(* The transaction of q may hold a row that r needs.                         *)
WaitsFor(r, q) ==
    /\ q # r
    /\ \/ NeedsUserRow(r) /\ "user" \in tx[q] /\ req[q].user = req[r].user
       \/ NeedsItemRow(r) /\ "item" \in tx[q]

NoCircles ==
    /\ \A r \in Requests : HeldUp(r) => \E q \in Requests : WaitsFor(r, q)
    /\ \A r, q, s, p \in Requests :
          WaitsFor(r, q) /\ WaitsFor(q, s) => ~WaitsFor(s, p)

(* The handlers never wait for each other's rows in a circle, however many   *)
(* there are: a sale writes the row of its user before that of its item, so  *)
(* who waits for an item waits for a handler that waits for nobody.          *)
THEOREM NobodyWaitsInACircle == Spec => []NoCircles
  <1>1. IInv => NoCircles
    <2>1. SUFFICES ASSUME IInv PROVE NoCircles
      OBVIOUS
    <2>2. ASSUME NEW r \in Requests, HeldUp(r)
          PROVE  \E q \in Requests : WaitsFor(r, q)
      BY <2>2 DEF HeldUp, WaitsFor, UserLocked, ItemLocked
    <2>3. ASSUME NEW r \in Requests, NEW q \in Requests, WaitsFor(r, q),
                 NEW s \in Requests, WaitsFor(q, s), NEW p \in Requests
          PROVE  ~WaitsFor(s, p)
      <3>1. HandlerOK(q) /\ HandlerOK(s)
        BY <2>1 DEF IInv
      <3>2. pc[q] \in {"item", "insert"}
        BY <2>3, <3>1 DEF WaitsFor, HandlerOK, TransactionOK
      <3>3. "item" \in tx[s]
        BY <2>3, <3>2 DEF WaitsFor, NeedsUserRow
      <3>4. pc[s] = "insert"
        BY <3>1, <3>3 DEF HandlerOK, TransactionOK
      <3>. QED  BY <3>4 DEF WaitsFor, NeedsUserRow, NeedsItemRow
    <2>. QED  BY <2>2, <2>3 DEF NoCircles
  <1>. QED  BY <1>1, IInvHolds, PTL
=============================================================================
