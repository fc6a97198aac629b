------------------------- MODULE PasswordResetProofs -------------------------
(***************************************************************************)
(* What PasswordReset guarantees for any number of users, mails and resets. *)
(*                                                                          *)
(* The argument: a token belongs to one account from the moment it is drawn *)
(* (mailFor never changes afterwards), it enters the table once, before it   *)
(* is mailed, and a handler only gets past the lookup with a mailed token.   *)
(* So once the row of a mailed token is gone it stays gone, and a reset that *)
(* commits can only set the password of the account its token was mailed    *)
(* for.                                                                     *)
(***************************************************************************)
EXTENDS PasswordReset, TLAPS

(* A mail under way, or delivered, is for a user; one not begun, for nobody. *)
MailOK(m) ==
    /\ mailPc[m] = "new" => mailFor[m] = NoUser
    /\ mailPc[m] \in {"store", "send"} => mailFor[m] \in Users
    /\ m \in mailed => mailPc[m] = "done" /\ mailFor[m] \in Users

(* A row holds a token drawn for its user, with the expiry it was drawn with.*)
TokenOK(u) == resetTokens[u] # NoRow =>
    /\ u \in Users
    /\ mailPc[resetTokens[u].token] \in {"send", "done"}
    /\ mailFor[resetTokens[u].token] = u
    /\ resetTokens[u].validUntil = expiry[resetTokens[u].token]

(* The row that reset r was given has left the table.                        *)
TokenGone(r) == \A u \in Accounts : ~HasToken(u, presented[r])

(* A handler past the lookup holds a copy of the row of a mailed token.      *)
ResetOK(r) ==
    /\ Active(r) \/ r \in applied =>
         /\ tokenData[r] # NoRow
         /\ presented[r] \in mailed
         /\ mailFor[presented[r]] = tokenData[r].user
         /\ tokenData[r].validUntil = expiry[presented[r]]
    /\ pc[r] = "expired" => Expired(r)
    /\ pc[r] \in {"auth", "commit"} /\ "token" \notin open[r] => TokenGone(r)
    /\ r \in applied => pc[r] = "done" /\ TokenGone(r)
    /\ reply[r] = "ok" => r \in applied

(* Once a reset for an account is committed, its password is that of a reset.*)
PasswordOK ==
    /\ password[Cash] = NoPassword
    /\ \A r \in applied : \E q \in applied :
          /\ tokenData[q].user = tokenData[r].user
          /\ password[tokenData[r].user] = q

IInv ==
    /\ TypeOK
    /\ \A m \in Mails : MailOK(m)
    /\ \A u \in Accounts : TokenOK(u)
    /\ \A r \in Resets : ResetOK(r)
    /\ PasswordOK

-----------------------------------------------------------------------------

LEMMA InitIInv == Init => IInv
  <1>. SUFFICES ASSUME Init PROVE IInv
    OBVIOUS
  <1>1. TypeOK
    BY DEF Init, TypeOK
  <1>2. ASSUME NEW m \in Mails PROVE MailOK(m)
    BY DEF Init, MailOK
  <1>3. ASSUME NEW u \in Accounts PROVE TokenOK(u)
    BY DEF Init, TokenOK
  <1>4. ASSUME NEW r \in Resets PROVE ResetOK(r)
    BY DEF Init, ResetOK, Active
  <1>5. PasswordOK
    BY DEF Init, PasswordOK, Accounts
  <1>. QED  BY <1>1, <1>2, <1>3, <1>4, <1>5 DEF IInv

LEMMA TypeKept == TypeOK /\ [Next]_vars => TypeOK'
  <1>. SUFFICES ASSUME TypeOK, [Next]_vars PROVE TypeOK'
    OBVIOUS
  <1>. USE DEF TypeOK, mailVars, resetVars, Goto, Answer
  <1>1. ASSUME NEW m \in Mails, MailStep(m) \/ MailFails(m) PROVE TypeOK'
    <2>1. CASE LookUpUser(m)
      <3>1. now + Lifetime \in Nat
        BY TimeAssumption
      <3>. QED  BY <2>1, <3>1 DEF LookUpUser
    <2>2. CASE AddPasswordResetToken(m)
      <3>1. [token |-> m, validUntil |-> expiry[m]] \in TokenRow
        BY DEF TokenRow
      <3>. QED  BY <2>2, <3>1 DEF AddPasswordResetToken
    <2>3. CASE SendMail(m)
      BY <2>3 DEF SendMail
    <2>4. CASE MailFails(m)
      BY <2>4 DEF MailFails
    <2>. QED  BY <1>1, <2>1, <2>2, <2>3, <2>4 DEF MailStep
  <1>2. ASSUME NEW r \in Resets, ResetStep(r) \/ ResetFault(r) PROVE TypeOK'
    <2>d. ASSUME NEW t, DeleteToken(t)
          PROVE  resetTokens' \in [Accounts -> TokenRow \cup {NoRow}]
      BY <2>d DEF DeleteToken
    <2>1. CASE ReadToken(r)
      <3>1. PICK t \in mailed \cup {NoToken} :
              /\ presented' = [presented EXCEPT ![r] = t]
              /\ \/ Answer(r, "failed") /\ UNCHANGED tokenData
                 \/ \E u \in Accounts :
                      /\ HasToken(u, t)
                      /\ tokenData' = [tokenData EXCEPT ![r] =
                           [user |-> u, validUntil |-> resetTokens[u].validUntil]]
                      /\ Goto(r, "check")
        BY <2>1 DEF ReadToken
      <3>2. ASSUME NEW u \in Accounts, HasToken(u, t)
            PROVE  [user |-> u, validUntil |-> resetTokens[u].validUntil]
                     \in [user : Accounts, validUntil : Nat]
        BY <3>2 DEF HasToken, TokenRow
      <3>. QED  BY <2>1, <3>1, <3>2 DEF ReadToken
    <2>2. CASE CheckExpiry(r)
      BY <2>2 DEF CheckExpiry
    <2>3. CASE DeleteExpiredToken(r)
      BY <2>3, <2>d DEF DeleteExpiredToken
    <2>4. CASE DeleteTokenInTransaction(r)
      BY <2>4 DEF DeleteTokenInTransaction
    <2>5. CASE SetPasswordInTransaction(r)
      BY <2>5 DEF SetPasswordInTransaction
    <2>6. CASE Commit(r)
      BY <2>6, <2>d DEF Commit, Publish
    <2>7. CASE ReadTokenPanics(r)
      BY <2>7 DEF ReadTokenPanics
    <2>8. CASE CommitFails(r)
      BY <2>8, <2>d DEF CommitFails, Publish
    <2>9. CASE ResetFails(r)
      BY <2>9 DEF ResetFails
    <2>. QED  BY <1>2, <2>1, <2>2, <2>3, <2>4, <2>5, <2>6, <2>7, <2>8, <2>9
              DEF ResetStep, ResetFault
  <1>3. CASE CleanExpiredResetTokens
    BY <1>3 DEF CleanExpiredResetTokens
  <1>4. CASE Tick
    BY <1>4 DEF Tick
  <1>5. CASE Crash
    BY <1>5 DEF Crash
  <1>6. CASE UNCHANGED vars
    BY <1>6 DEF vars
  <1>. QED  BY <1>1, <1>2, <1>3, <1>4, <1>5, <1>6 DEF Next, Terminating

-----------------------------------------------------------------------------
(* What a step may do to the mails, and to the rows of the tokens.           *)

(* A mail gets its user and its expiry before it is stored, and is stored    *)
(* before it is sent; a mail ready to be sent arrives or is lost.             *)
MailsMove ==
    /\ mailed \subseteq mailed' /\ lost \subseteq lost'
    /\ \A m \in Mails :
          /\ mailPc[m] # "new" => mailFor'[m] = mailFor[m] /\ expiry'[m] = expiry[m]
          /\ mailPc[m] \in {"send", "done"} => mailPc'[m] \in {"send", "done"}
          /\ mailPc[m] = "send" => mailPc'[m] = "send" \/ m \in mailed' \cup lost'

Stored(m, u) ==
    /\ mailPc[m] = "store" /\ mailFor[m] = u
    /\ mailPc'[m] = "send" /\ mailFor'[m] = u /\ expiry'[m] = expiry[m]
    /\ resetTokens'[u] = [token |-> m, validUntil |-> expiry[m]]

(* Why a row may leave: it has come to the end of its life, or a reset that   *)
(* is committed in this step has used it.                                     *)
Used(u) ==
    \E r \in applied' \ applied : HasToken(u, presented[r]) /\ password'[u] = r

RowMoves(u) ==
    \/ resetTokens'[u] = resetTokens[u]
    \/ resetTokens'[u] = NoRow /\ (Sweepable(u) \/ Used(u))
    \/ \E m \in Mails : Stored(m, u)

(* A handler holds the only row with its token: that of its user.            *)
LEMMA TokenOfOneUser ==
  ASSUME IInv, NEW r \in Resets, Active(r), NEW u \in Accounts,
         HasToken(u, presented[r])
  PROVE  /\ u = tokenData[r].user
         /\ u \in Users
         /\ resetTokens[u].validUntil = tokenData[r].validUntil
  <1>1. ResetOK(r) /\ TokenOK(u)
    BY DEF IInv
  <1>. QED  BY <1>1 DEF ResetOK, TokenOK, HasToken

LEMMA MailStepMoves ==
  ASSUME IInv, NEW m \in Mails, MailStep(m) \/ MailFails(m)
  PROVE  /\ MailsMove
         /\ \A n \in Mails : MailOK(n)'
         /\ \A u \in Accounts : RowMoves(u)
  <1>. USE DEF mailVars, resetVars, MailsMove, MailOK, RowMoves
  <1>0. TypeOK /\ \A n \in Mails : MailOK(n)
    BY DEF IInv
  <1>1. CASE LookUpUser(m)
    BY <1>0, <1>1 DEF LookUpUser, TypeOK, Accounts
  <1>2. CASE AddPasswordResetToken(m)
    <2>1. Stored(m, mailFor[m])
      BY <1>0, <1>2, AccountsAssumption DEF AddPasswordResetToken, TypeOK, Stored, Accounts
    <2>. QED  BY <1>0, <1>2, <2>1 DEF AddPasswordResetToken, TypeOK
  <1>3. CASE SendMail(m)
    BY <1>0, <1>3 DEF SendMail, TypeOK
  <1>4. CASE MailFails(m)
    BY <1>0, <1>4 DEF MailFails, TypeOK
  <1>. QED  BY <1>1, <1>2, <1>3, <1>4 DEF MailStep

(* The row of an expired token, and of a token used by a commit.             *)
LEMMA ResetStepMoves ==
  ASSUME IInv, NEW r \in Resets, ResetStep(r) \/ ResetFault(r)
  PROVE  /\ UNCHANGED mailVars
         /\ \A u \in Accounts : RowMoves(u)
  <1>. USE DEF RowMoves
  <1>0. TypeOK /\ ResetOK(r)
    BY DEF IInv
  <1>1. CASE DeleteExpiredToken(r)
    <2>1. Active(r) /\ Expired(r)
      BY <1>0, <1>1 DEF DeleteExpiredToken, Active, ResetOK
    <2>2. ASSUME NEW u \in Accounts, HasToken(u, presented[r]) PROVE Sweepable(u)
      <3>1. resetTokens[u].validUntil < now
        BY <2>1, <2>2, TokenOfOneUser DEF Expired
      <3>2. resetTokens[u].validUntil \in Nat /\ now \in Nat
        BY <1>0, <2>2 DEF TypeOK, TokenRow, HasToken
      <3>. QED  BY <2>2, <3>1, <3>2 DEF Sweepable, HasToken
    <2>. QED  BY <1>1, <2>2 DEF DeleteExpiredToken, DeleteToken
  <1>2. ASSUME pc[r] = "commit", Publish(r)
        PROVE  \A u \in Accounts : RowMoves(u)
    <2>1. Active(r) /\ r \notin applied
      BY <1>0, <1>2 DEF Active, ResetOK
    <2>2. ASSUME NEW u \in Accounts, HasToken(u, presented[r]) PROVE Used(u)
      <3>1. u = tokenData[r].user
        BY <2>1, <2>2, TokenOfOneUser
      <3>2. password'[u] = r
        BY <1>0, <1>2, <3>1 DEF Publish, TypeOK
      <3>. QED  BY <1>2, <2>1, <2>2, <3>2 DEF Used, Publish
    <2>. QED  BY <1>2, <2>2 DEF Publish, DeleteToken
  <1>3. UNCHANGED mailVars
    BY DEF ResetStep, ResetFault, ReadToken, CheckExpiry, DeleteExpiredToken,
       DeleteTokenInTransaction, SetPasswordInTransaction, Commit,
       ReadTokenPanics, CommitFails, ResetFails
  <1>4. \/ DeleteExpiredToken(r)
        \/ pc[r] = "commit" /\ Publish(r)
        \/ UNCHANGED resetTokens
    BY DEF ResetStep, ResetFault, ReadToken, CheckExpiry,
       DeleteTokenInTransaction, SetPasswordInTransaction, Commit,
       ReadTokenPanics, CommitFails, ResetFails
  <1>. QED  BY <1>1, <1>2, <1>3, <1>4

LEMMA NextMoves ==
  ASSUME IInv, [Next]_vars
  PROVE  /\ MailsMove
         /\ \A m \in Mails : MailOK(m)'
         /\ \A u \in Accounts : RowMoves(u)
  <1>0. TypeOK /\ \A m \in Mails : MailOK(m)
    BY DEF IInv
  <1>s. UNCHANGED mailVars => MailsMove /\ \A m \in Mails : MailOK(m)'
    BY <1>0 DEF mailVars, MailsMove, MailOK
  <1>1. CASE \E m \in Mails : MailStep(m) \/ MailFails(m)
    BY <1>1, MailStepMoves
  <1>2. CASE \E r \in Resets : ResetStep(r) \/ ResetFault(r)
    BY <1>2, <1>s, ResetStepMoves
  <1>3. CASE CleanExpiredResetTokens
    BY <1>3, <1>s DEF CleanExpiredResetTokens, RowMoves
  <1>4. CASE Tick \/ UNCHANGED vars
    BY <1>4, <1>s DEF Tick, vars, RowMoves
  <1>5. CASE Crash
    BY <1>0, <1>5 DEF Crash, TypeOK, MailsMove, MailOK, RowMoves
  <1>. QED  BY <1>1, <1>2, <1>3, <1>4, <1>5 DEF Next, Terminating

LEMMA TokensKept ==
  ASSUME IInv, [Next]_vars, NEW u \in Accounts
  PROVE  TokenOK(u)'
  <1>1. RowMoves(u) /\ MailsMove /\ TokenOK(u) /\ TypeOK
    BY NextMoves DEF IInv
  <1>2. CASE resetTokens'[u] = resetTokens[u]
    <2>1. resetTokens[u] # NoRow => resetTokens[u].token \in Mails
      BY <1>1 DEF TypeOK, TokenRow
    <2>. QED  BY <1>1, <1>2, <2>1 DEF MailsMove, TokenOK
  <1>3. CASE \E m \in Mails : Stored(m, u)
    BY <1>1, <1>3 DEF Stored, TokenOK, IInv, MailOK
  <1>. QED  BY <1>1, <1>2, <1>3 DEF RowMoves, TokenOK

(* No step brings back the row of a token that has been mailed.              *)
LEMMA GoneTokensStayGone ==
  ASSUME IInv, [Next]_vars, NEW t \in mailed,
         \A u \in Accounts : ~HasToken(u, t)
  PROVE  \A u \in Accounts : ~HasToken(u, t)'
  <1>1. SUFFICES ASSUME NEW u \in Accounts PROVE ~HasToken(u, t)'
    OBVIOUS
  <1>2. RowMoves(u) /\ ~HasToken(u, t) /\ mailPc[t] = "done"
    BY NextMoves DEF IInv, TypeOK, MailOK
  <1>3. ASSUME NEW m \in Mails, Stored(m, u) PROVE ~HasToken(u, t)'
    BY <1>2, <1>3 DEF Stored, HasToken
  <1>. QED  BY <1>2, <1>3 DEF RowMoves, HasToken

(* A handler that does not move in a step keeps its part of the invariant.   *)
Untouched(r) ==
    /\ pc'[r] = pc[r] /\ presented'[r] = presented[r]
    /\ tokenData'[r] = tokenData[r] /\ open'[r] = open[r]
    /\ reply'[r] = reply[r]
    /\ (r \in applied') <=> (r \in applied)

LEMMA UntouchedKeepsResetOK ==
  ASSUME IInv, [Next]_vars, NEW r \in Resets, Untouched(r), now <= now', now' \in Nat
  PROVE  ResetOK(r)'
  <1>1. ResetOK(r) /\ TypeOK /\ MailsMove
    BY NextMoves DEF IInv
  <1>2. ASSUME presented[r] \in mailed
        PROVE  /\ mailFor'[presented[r]] = mailFor[presented[r]]
               /\ expiry'[presented[r]] = expiry[presented[r]]
    BY <1>1, <1>2 DEF IInv, TypeOK, MailOK, MailsMove
  <1>3. ASSUME presented[r] \in mailed, TokenGone(r) PROVE TokenGone(r)'
    BY <1>3, GoneTokensStayGone DEF TokenGone, Untouched, HasToken
  <1>4. ASSUME tokenData[r] # NoRow, Expired(r) PROVE Expired(r)'
    BY <1>1, <1>4 DEF Expired, TypeOK, Untouched
  <1>. QED  BY <1>1, <1>2, <1>3, <1>4 DEF ResetOK, Untouched, Active, MailsMove

(* The handler that takes a step.                                            *)
LEMMA ResetStepKeepsResetOK ==
  ASSUME IInv, NEW r \in Resets, ResetStep(r) \/ ResetFault(r)
  PROVE  /\ ResetOK(r)'
         /\ \A q \in Resets \ {r} : Untouched(q)
         /\ now' = now
  <1>. USE DEF mailVars, Goto, Answer, Untouched
  <1>0. TypeOK /\ ResetOK(r) /\ \A u \in Accounts : TokenOK(u)
    BY DEF IInv
  <1>g. ASSUME DeleteToken(presented[r]), presented'[r] = presented[r] PROVE TokenGone(r)'
    BY <1>g DEF DeleteToken, TokenGone, HasToken
  <1>1. CASE ReadToken(r)
    <2>1. CASE Answer(r, "failed") /\ UNCHANGED tokenData
      BY <1>0, <1>1, <2>1 DEF ReadToken, TypeOK, ResetOK, Active, TokenGone, HasToken
    <2>2. ASSUME NEW t \in mailed \cup {NoToken}, NEW u \in Accounts, HasToken(u, t),
                 presented' = [presented EXCEPT ![r] = t], Goto(r, "check"),
                 tokenData' = [tokenData EXCEPT ![r] =
                    [user |-> u, validUntil |-> resetTokens[u].validUntil]]
          PROVE  ResetOK(r)'
      <3>1. t \in mailed /\ mailFor[t] = u /\ resetTokens[u].validUntil = expiry[t]
        BY <1>0, <2>2, TokensAssumption DEF HasToken, TokenOK, TypeOK, TokenRow
      <3>2. tokenData'[r] = [user |-> u, validUntil |-> resetTokens[u].validUntil]
        BY <1>0, <2>2 DEF TypeOK
      <3>3. tokenData'[r] # NoRow
        <4>1. resetTokens[u].validUntil \in Nat
          BY <1>0, <2>2 DEF HasToken, TypeOK, TokenRow
        <4>. QED  BY <3>2, <4>1, NoRowAssumption
      <3>. QED
        BY <1>0, <1>1, <2>2, <3>1, <3>2, <3>3 DEF ReadToken, TypeOK, ResetOK, Active
    <2>. QED  BY <1>0, <1>1, <2>1, <2>2 DEF ReadToken, TypeOK
  <1>2. CASE CheckExpiry(r)
    BY <1>0, <1>2 DEF CheckExpiry, TypeOK, ResetOK, Active, Expired, TokenGone, HasToken
  <1>3. CASE DeleteExpiredToken(r)
    BY <1>0, <1>3 DEF DeleteExpiredToken, TypeOK, ResetOK, Active
  <1>4. CASE DeleteTokenInTransaction(r)
    <2>1. Active(r)
      BY <1>4 DEF DeleteTokenInTransaction, Active
    <2>2. "token" \notin open'[r] => TokenGone(r)
      BY <1>0, <1>4, <2>1, TokenOfOneUser
      DEF DeleteTokenInTransaction, TypeOK, TokenGone
    <2>. QED
      BY <1>0, <1>4, <2>2
      DEF DeleteTokenInTransaction, TypeOK, ResetOK, Active, TokenGone, HasToken
  <1>5. CASE SetPasswordInTransaction(r)
    BY <1>0, <1>5 DEF SetPasswordInTransaction, TypeOK, ResetOK, Active, TokenGone, HasToken
  <1>p. ASSUME pc[r] = "commit", Publish(r), presented' = presented PROVE TokenGone(r)'
    BY <1>0, <1>g, <1>p DEF Publish, ResetOK, TokenGone, HasToken
  <1>6. CASE Commit(r)
    BY <1>0, <1>6, <1>p DEF Commit, Publish, TypeOK, ResetOK, Active
  <1>7. CASE ReadTokenPanics(r)
    BY <1>0, <1>7 DEF ReadTokenPanics, TypeOK, ResetOK, Active
  <1>8. CASE CommitFails(r)
    <2>1. CASE Publish(r)
      BY <1>0, <1>8, <1>p, <2>1 DEF CommitFails, Publish, TypeOK, ResetOK, Active
    <2>2. CASE UNCHANGED <<resetTokens, password, applied>>
      BY <1>0, <1>8, <2>2 DEF CommitFails, TypeOK, ResetOK, Active
    <2>. QED  BY <1>8, <2>1, <2>2 DEF CommitFails
  <1>9. CASE ResetFails(r)
    BY <1>0, <1>9 DEF ResetFails, TypeOK, ResetOK, Active
  <1>. QED  BY <1>1, <1>2, <1>3, <1>4, <1>5, <1>6, <1>7, <1>8, <1>9
            DEF ResetStep, ResetFault

(* What a step may do to the passwords.                                      *)
PasswordsMove ==
    \/ UNCHANGED <<password, applied>>
    \/ \E r \in Resets :
          /\ pc[r] = "commit"
          /\ applied' = applied \cup {r}
          /\ password' = [password EXCEPT ![tokenData[r].user] = r]
          /\ UNCHANGED tokenData

LEMMA NextMovesPasswords == [Next]_vars => PasswordsMove
  <1>. USE DEF PasswordsMove, mailVars, resetVars
  <1>1. ASSUME NEW m \in Mails, MailStep(m) \/ MailFails(m) PROVE PasswordsMove
    BY <1>1 DEF MailStep, LookUpUser, AddPasswordResetToken, SendMail, MailFails
  <1>2. ASSUME NEW r \in Resets, ResetStep(r) \/ ResetFault(r) PROVE PasswordsMove
    BY <1>2 DEF ResetStep, ResetFault, ReadToken, CheckExpiry, DeleteExpiredToken,
       DeleteTokenInTransaction, SetPasswordInTransaction, Commit,
       ReadTokenPanics, CommitFails, ResetFails, Publish
  <1>3. CleanExpiredResetTokens \/ Tick \/ Crash \/ UNCHANGED vars => PasswordsMove
    BY DEF CleanExpiredResetTokens, Tick, Crash, vars
  <1>. QED  BY <1>1, <1>2, <1>3 DEF Next, Terminating

(* The copies of the resets that are committed do not change any more.       *)
LEMMA AppliedCopiesStay ==
  ASSUME IInv, [Next]_vars, NEW r \in applied
  PROVE  tokenData'[r] = tokenData[r]
  <1>1. TypeOK /\ r \in Resets /\ pc[r] = "done"
    BY DEF IInv, TypeOK, ResetOK
  <1>2. ASSUME NEW q \in Resets, ResetStep(q) \/ ResetFault(q)
        PROVE  tokenData'[r] = tokenData[r]
    <2>1. CASE q = r
      BY <1>1, <1>2, <2>1 DEF ResetStep, ResetFault, ReadToken, CheckExpiry,
         DeleteExpiredToken, DeleteTokenInTransaction, SetPasswordInTransaction,
         Commit, ReadTokenPanics, CommitFails, ResetFails
    <2>2. CASE q # r
      BY <1>1, <1>2, <2>2, ResetStepKeepsResetOK DEF Untouched
    <2>. QED  BY <2>1, <2>2
  <1>3. ASSUME NEW m \in Mails, MailStep(m) \/ MailFails(m)
        PROVE  tokenData'[r] = tokenData[r]
    BY <1>3 DEF MailStep, LookUpUser, AddPasswordResetToken, SendMail, MailFails,
       resetVars
  <1>. QED
    BY <1>2, <1>3 DEF Next, CleanExpiredResetTokens, Tick, Crash, Terminating,
       vars, resetVars

LEMMA PasswordsKept == IInv /\ [Next]_vars => PasswordOK'
  <1>. SUFFICES ASSUME IInv, [Next]_vars PROVE PasswordOK'
    OBVIOUS
  <1>1. TypeOK /\ PasswordOK /\ PasswordsMove
    BY NextMovesPasswords DEF IInv
  <1>2. CASE UNCHANGED <<password, applied>>
    BY <1>1, <1>2, AppliedCopiesStay DEF PasswordOK
  <1>3. ASSUME NEW r \in Resets, pc[r] = "commit", applied' = applied \cup {r},
               password' = [password EXCEPT ![tokenData[r].user] = r],
               UNCHANGED tokenData
        PROVE  PasswordOK'
    <2>1. tokenData[r].user \in Users
      BY <1>1, <1>3 DEF IInv, ResetOK, Active, MailOK, TypeOK
    <2>2. password'[Cash] = NoPassword
      BY <1>1, <1>3, <2>1, AccountsAssumption DEF PasswordOK, TypeOK, Accounts
    <2>3. ASSUME NEW q \in applied'
          PROVE  \E p \in applied' : /\ tokenData'[p].user = tokenData'[q].user
                                     /\ password'[tokenData'[q].user] = p
      <3>1. CASE tokenData[q].user = tokenData[r].user
        BY <1>1, <1>3, <2>1, <3>1 DEF TypeOK, Accounts
      <3>2. CASE tokenData[q].user # tokenData[r].user
        BY <1>1, <1>3, <2>3, <3>2 DEF PasswordOK, TypeOK
      <3>. QED  BY <3>1, <3>2
    <2>. QED  BY <2>2, <2>3 DEF PasswordOK
  <1>. QED  BY <1>1, <1>2, <1>3 DEF PasswordsMove

LEMMA ResetsKept ==
  ASSUME IInv, [Next]_vars, NEW r \in Resets
  PROVE  ResetOK(r)'
  <1>0. TypeOK /\ TypeOK' /\ ResetOK(r)
    BY TypeKept DEF IInv
  <1>1. CASE \E m \in Mails : MailStep(m) \/ MailFails(m)
    <2>1. Untouched(r) /\ now' = now
      BY <1>1 DEF MailStep, LookUpUser, AddPasswordResetToken, SendMail, MailFails,
         resetVars, Untouched
    <2>. QED  BY <1>0, <2>1, UntouchedKeepsResetOK DEF TypeOK
  <1>2. CASE \E q \in Resets : ResetStep(q) \/ ResetFault(q)
    <2>1. ResetOK(r)' \/ (Untouched(r) /\ now' = now)
      BY <1>2, ResetStepKeepsResetOK
    <2>. QED  BY <1>0, <2>1, UntouchedKeepsResetOK DEF TypeOK
  <1>3. CASE CleanExpiredResetTokens \/ Tick \/ UNCHANGED vars
    <2>1. Untouched(r) /\ now <= now'
      BY <1>0, <1>3 DEF CleanExpiredResetTokens, Tick, vars, resetVars, Untouched, TypeOK
    <2>. QED  BY <1>0, <2>1, UntouchedKeepsResetOK DEF TypeOK
  <1>4. CASE Crash
    <2>1. CASE Active(r)
      BY <1>0, <1>4, <2>1 DEF Crash, TypeOK, ResetOK, Active
    <2>2. CASE ~Active(r)
      BY <1>0, <1>4, <2>2 DEF Crash, TypeOK, ResetOK, Active, TokenGone, HasToken
    <2>. QED  BY <2>1, <2>2
  <1>. QED  BY <1>1, <1>2, <1>3, <1>4 DEF Next, Terminating

THEOREM IInvHolds == Spec => []IInv
  <1>1. IInv /\ [Next]_vars => IInv'
    BY TypeKept, NextMoves, TokensKept, ResetsKept, PasswordsKept DEF IInv
  <1>. QED  BY <1>1, InitIInv, PTL DEF Spec

-----------------------------------------------------------------------------
(* The theorems.                                                             *)

(* The clock, the tables and the handlers' copies hold what they should.     *)
THEOREM TypeCorrect == Spec => []TypeOK
  <1>1. IInv => TypeOK
    BY DEF IInv
  <1>. QED  BY <1>1, IInvHolds, PTL

(* Whatever is asked for, and however mails, resets, sweeps and crashes      *)
(* interleave, the cash account gets no token and no password.               *)
THEOREM CashIsNeverReset == Spec => []CashHasNoPassword
  <1>1. IInv => CashHasNoPassword
    BY AccountsAssumption
    DEF IInv, CashHasNoPassword, TokenOK, PasswordOK, Accounts
  <1>. QED  BY <1>1, IInvHolds, PTL

(* A token that has set a password never is in the table again.              *)
THEOREM TokensWorkOnce == Spec => []UsedTokensAreGone
  <1>1. IInv => UsedTokensAreGone
    BY DEF IInv, TypeOK, UsedTokensAreGone, ResetOK, TokenGone
  <1>. QED  BY <1>1, IInvHolds, PTL

(* A reset that is answered "ok" has set the password, for as long as no     *)
(* other reset for the account is committed.                                 *)
THEOREM ResetsAreHonest == Spec => []OkMeansReset
  <1>1. IInv => OkMeansReset
    BY DEF IInv, OkMeansReset, ResetOK, PasswordOK
  <1>. QED  BY <1>1, IInvHolds, PTL

(* No password changes without a token mailed for its account.               *)
THEOREM PasswordsAreGuarded == Spec => PasswordsNeedMailedTokens
  <1>1. ASSUME IInv, [Next]_vars, NEW u \in Accounts, password'[u] # password[u]
        PROVE  \E r \in applied' \ applied :
                  presented[r] \in mailed /\ mailFor[presented[r]] = u
    <2>1. PICK r \in Resets :
            /\ pc[r] = "commit"
            /\ applied' = applied \cup {r}
            /\ password' = [password EXCEPT ![tokenData[r].user] = r]
      BY <1>1, NextMovesPasswords DEF PasswordsMove
    <2>2. ResetOK(r) /\ TypeOK
      BY <1>1 DEF IInv
    <2>3. tokenData[r].user = u
      BY <1>1, <2>1, <2>2 DEF TypeOK
    <2>. QED  BY <2>1, <2>2, <2>3 DEF ResetOK, Active
  <1>2. IInv /\ [Next]_vars =>
          [\A u \in Accounts : password'[u] # password[u] =>
              \E r \in applied' \ applied :
                  presented[r] \in mailed /\ mailFor[presented[r]] = u]_vars
    BY <1>1
  <1>. QED  BY <1>2, IInvHolds, PTL DEF Spec, PasswordsNeedMailedTokens

(* A row leaves the table only with the password set, at the end of its      *)
(* life, or for a newer token.                                               *)
THEOREM TokensAreNotLost == Spec => TokensLeaveForAReason
  <1>1. ASSUME IInv, [Next]_vars, NEW u \in Accounts,
               resetTokens[u] # NoRow, resetTokens'[u] # resetTokens[u]
        PROVE  \/ resetTokens'[u] # NoRow
               \/ Sweepable(u)
               \/ \E r \in applied' \ applied :
                     presented[r] = resetTokens[u].token /\ password'[u] = r
    <2>1. RowMoves(u)
      BY <1>1, NextMoves
    <2>2. ASSUME NEW m \in Mails, Stored(m, u) PROVE resetTokens'[u] # NoRow
      BY <1>1, <2>2, NoRowAssumption DEF Stored, IInv, TypeOK, TokenRow
    <2>. QED  BY <1>1, <2>1, <2>2 DEF RowMoves, Used, HasToken
  <1>2. IInv /\ [Next]_vars =>
          [\A u \in Accounts :
             resetTokens[u] # NoRow /\ resetTokens'[u] # resetTokens[u] =>
               \/ resetTokens'[u] # NoRow
               \/ Sweepable(u)
               \/ \E r \in applied' \ applied :
                     presented[r] = resetTokens[u].token /\ password'[u] = r]_vars
    BY <1>1
  <1>. QED  BY <1>2, IInvHolds, PTL DEF Spec, TokensLeaveForAReason

-----------------------------------------------------------------------------
(* Where the token stored last for an account is: it serves from the INSERT  *)
(* on, before the mail is sent, whatever takes the row away leaves a reason  *)
(* behind, and its mail is delivered unless it is lost.                      *)

LatestOK(u) ==
    IF latest[u] = NoToken
    THEN \A m \in Mails : mailFor[m] = u => ~(mailPc[m] = "send" \/ m \in mailed)
    ELSE /\ mailFor[latest[u]] = u
         /\ Serves(latest[u])
         /\ latest[u] \in mailed \cup lost \/ mailPc[latest[u]] = "send"

(* The tokens presented by the resets that are, or get, committed do not     *)
(* change any more.                                                          *)
LEMMA AppliedTokensStay ==
  ASSUME IInv, [Next]_vars, NEW r \in applied'
  PROVE  presented'[r] = presented[r]
  <1>. USE DEF mailVars, resetVars, Goto, Answer
  <1>1. TypeOK /\ TypeOK' /\ r \in Resets /\ (r \in applied => pc[r] = "done")
    BY TypeKept DEF IInv, TypeOK, ResetOK
  <1>2. ASSUME NEW q \in Resets, ResetStep(q) \/ ResetFault(q)
        PROVE  presented'[r] = presented[r]
    <2>1. CASE ReadToken(q)
      BY <1>1, <2>1 DEF ReadToken, TypeOK
    <2>. QED
      BY <1>2, <2>1 DEF ResetStep, ResetFault, CheckExpiry, DeleteExpiredToken,
         DeleteTokenInTransaction, SetPasswordInTransaction, Commit,
         ReadTokenPanics, CommitFails, ResetFails
  <1>3. ASSUME NEW m \in Mails, MailStep(m) \/ MailFails(m)
        PROVE  presented'[r] = presented[r]
    BY <1>3 DEF MailStep, LookUpUser, AddPasswordResetToken, SendMail, MailFails
  <1>. QED
    BY <1>2, <1>3 DEF Next, CleanExpiredResetTokens, Tick, Crash, Terminating, vars

(* A mail is sent, or ready to be sent, from the INSERT of its token on.     *)
LEMMA NewlyStored ==
  ASSUME IInv, [Next]_vars, NEW m \in Mails,
         ~(mailPc[m] = "send" \/ m \in mailed),
         (mailPc[m] = "send" \/ m \in mailed)'
  PROVE  mailPc[m] = "store" /\ AddPasswordResetToken(m)
  <1>. USE DEF mailVars, resetVars
  <1>1. TypeOK
    BY DEF IInv
  <1>2. PICK n \in Mails : MailStep(n) \/ MailFails(n)
    BY <1>1 DEF Next, ResetStep, ResetFault, ReadToken, CheckExpiry,
       DeleteExpiredToken, DeleteTokenInTransaction, SetPasswordInTransaction,
       Commit, ReadTokenPanics, CommitFails, ResetFails,
       CleanExpiredResetTokens, Tick, Crash, Terminating, vars, TypeOK
  <1>. QED
    BY <1>1, <1>2 DEF MailStep, LookUpUser, AddPasswordResetToken, SendMail,
       MailFails, TypeOK

(* A token goes on to serve until another one is stored for its account.     *)
LEMMA ServesOn ==
  ASSUME IInv, [Next]_vars, NEW u \in Accounts, NEW n \in Mails,
         mailFor[n] = u, Serves(n),
         \A m \in Mails : ~Stored(m, u)
  PROVE  mailFor'[n] = u /\ Serves(n)'
  <1>1. /\ TypeOK /\ TypeOK' /\ MailsMove /\ RowMoves(u) /\ MailOK(n) /\ TokenOK(u)
        /\ u # NoUser
    BY NextMoves, TypeKept, AccountsAssumption DEF IInv, Accounts
  <1>2. mailFor'[n] = u /\ expiry'[n] = expiry[n]
    BY <1>1 DEF MailOK, MailsMove
  <1>3. now <= now' /\ applied \subseteq applied'
    <2>1. applied \subseteq applied'
      BY NextMovesPasswords DEF PasswordsMove
    <2>2. now' = now \/ now' = now + 1
      BY DEF Next, MailStep, LookUpUser, AddPasswordResetToken, SendMail, MailFails,
         ResetStep, ResetFault, ReadToken, CheckExpiry, DeleteExpiredToken,
         DeleteTokenInTransaction, SetPasswordInTransaction, Commit,
         ReadTokenPanics, CommitFails, ResetFails, CleanExpiredResetTokens,
         Tick, Crash, Terminating, vars
    <2>. QED  BY <1>1, <2>1, <2>2 DEF TypeOK
  <1>4. CASE \E r \in applied : presented[r] = n
    <2>1. PICK r \in applied : presented[r] = n
      BY <1>4
    <2>2. presented'[r] = presented[r]
      BY <1>3, AppliedTokensStay
    <2>. QED  BY <1>2, <1>3, <2>1, <2>2 DEF Serves
  <1>5. CASE expiry[n] <= now
    BY <1>1, <1>2, <1>3, <1>5 DEF Serves, TypeOK
  <1>6. CASE HasToken(u, n)
    <2>1. CASE resetTokens'[u] = resetTokens[u]
      BY <1>2, <1>6, <2>1 DEF Serves, HasToken
    <2>2. CASE Sweepable(u)
      <3>1. expiry[n] <= now
        BY <1>1, <1>6, <2>2 DEF Sweepable, HasToken, TokenOK
      <3>. QED  BY <1>5, <3>1
    <2>3. CASE Used(u)
      <3>1. PICK r \in applied' \ applied : HasToken(u, presented[r])
        BY <2>3 DEF Used
      <3>2. presented[r] = n /\ presented'[r] = presented[r]
        BY <1>6, <3>1, AppliedTokensStay DEF HasToken
      <3>. QED  BY <1>2, <3>1, <3>2 DEF Serves
    <2>. QED  BY <1>1, <2>1, <2>2, <2>3 DEF RowMoves
  <1>. QED  BY <1>4, <1>5, <1>6 DEF Serves

(* The INSERT of a token makes it the one stored last, and it serves.        *)
LEMMA StoredIsLatest ==
  ASSUME IInv, NEW m \in Mails, AddPasswordResetToken(m)
  PROVE  /\ mailFor[m] \in Accounts
         /\ \A u \in Accounts : latest'[u] = IF u = mailFor[m] THEN m ELSE latest[u]
         /\ \A u \in Accounts : mailFor[m] = u => LatestOK(u)'
  <1>1. TypeOK /\ MailOK(m)
    BY DEF IInv
  <1>2. mailFor[m] \in Accounts /\ mailFor' = mailFor
    BY <1>1 DEF AddPasswordResetToken, MailOK, Accounts
  <1>3. \A u \in Accounts : latest'[u] = IF u = mailFor[m] THEN m ELSE latest[u]
    BY <1>1, <1>2 DEF AddPasswordResetToken, TypeOK
  <1>4. mailPc'[m] = "send"
    BY <1>1 DEF AddPasswordResetToken, TypeOK
  <1>5. Serves(m)'
    <2>1. resetTokens'[mailFor[m]] = [token |-> m, validUntil |-> expiry[m]]
      BY <1>1, <1>2 DEF AddPasswordResetToken, TypeOK
    <2>2. [token |-> m, validUntil |-> expiry[m]] # NoRow
      BY <1>1, NoRowAssumption DEF TypeOK, TokenRow
    <2>. QED  BY <1>2, <2>1, <2>2 DEF Serves, HasToken
  <1>. QED  BY <1>2, <1>3, <1>4, <1>5, TokensAssumption DEF LatestOK

LEMMA NothingElseStores ==
  ASSUME [Next]_vars, \A m \in Mails : ~AddPasswordResetToken(m)
  PROVE  latest' = latest
  <1>. USE DEF mailVars, resetVars
  <1>1. ASSUME NEW m \in Mails, MailStep(m) \/ MailFails(m) PROVE latest' = latest
    BY <1>1 DEF MailStep, LookUpUser, SendMail, MailFails
  <1>. QED
    BY <1>1 DEF Next, ResetStep, ResetFault, ReadToken, CheckExpiry,
       DeleteExpiredToken, DeleteTokenInTransaction, SetPasswordInTransaction,
       Commit, ReadTokenPanics, CommitFails, ResetFails,
       CleanExpiredResetTokens, Tick, Crash, Terminating, vars

LEMMA LatestKept ==
  ASSUME IInv, [Next]_vars, NEW u \in Accounts, LatestOK(u)
  PROVE  LatestOK(u)'
  <1>1. /\ TypeOK /\ TypeOK' /\ MailsMove
        /\ \A m \in Mails : MailOK(m) /\ MailOK(m)'
    BY NextMoves, TypeKept DEF IInv
  <1>2. ASSUME NEW m \in Mails, AddPasswordResetToken(m), mailFor[m] = u
        PROVE  LatestOK(u)'
    BY <1>2, StoredIsLatest
  <1>3. ASSUME \A m \in Mails : AddPasswordResetToken(m) => mailFor[m] # u
        PROVE  LatestOK(u)'
    <2>1. latest'[u] = latest[u]
      BY <1>3, StoredIsLatest, NothingElseStores
    <2>2. ASSUME NEW m \in Mails, ~(mailPc[m] = "send" \/ m \in mailed),
                 (mailPc[m] = "send" \/ m \in mailed)'
          PROVE  mailFor[m] # u /\ mailFor'[m] = mailFor[m]
      BY <1>1, <1>3, <2>2, NewlyStored DEF MailsMove
    <2>3. CASE latest[u] = NoToken
      <3>1. ASSUME NEW m \in Mails, mailFor'[m] = u,
                   (mailPc[m] = "send" \/ m \in mailed)'
            PROVE  FALSE
        <4>1. mailPc[m] = "send" \/ m \in mailed
          BY <2>2, <3>1
        <4>2. mailFor[m] = u
          BY <1>1, <3>1, <4>1 DEF MailsMove, MailOK
        <4>. QED  BY <2>3, <4>1, <4>2 DEF LatestOK
      <3>. QED  BY <2>1, <2>3, <3>1 DEF LatestOK
    <2>4. CASE latest[u] # NoToken
      <3>1. latest[u] \in Mails
        BY <1>1, <2>4 DEF TypeOK
      <3>2. ASSUME NEW m \in Mails PROVE ~Stored(m, u)
        BY <1>1, <2>2 DEF Stored, MailOK
      <3>3. mailFor'[latest[u]] = u /\ Serves(latest[u])'
        <4>1. \A n \in Mails : mailFor[n] = u /\ Serves(n)
                                   => mailFor'[n] = u /\ Serves(n)'
          BY <3>2, ServesOn
        <4>. QED  BY <2>1, <2>4, <3>1, <4>1 DEF LatestOK, Serves, HasToken
      <3>. QED  BY <1>1, <2>1, <2>4, <3>1, <3>3 DEF LatestOK, MailsMove
    <2>. QED  BY <2>3, <2>4
  <1>. QED  BY <1>2, <1>3

(* A user who was mailed a token holds the one stored last, which is in the  *)
(* table unless it was used or expired; or that one is on its way, or its    *)
(* mail was lost.                                                            *)
THEOREM MailsAreHonest == Spec => []MailedTokensWork
  <1>. DEFINE LatestInv == \A u \in Accounts : LatestOK(u)
  <1>1. Init => LatestInv
    BY DEF Init, LatestOK
  <1>2. IInv /\ LatestInv /\ [Next]_vars => LatestInv'
    BY LatestKept
  <1>3. LatestInv /\ IInv => MailedTokensWork
    <2>. SUFFICES ASSUME LatestInv, IInv, NEW m \in mailed
                  PROVE  \E n \in Mails :
                            /\ latest[mailFor[m]] = n
                            /\ mailFor[n] = mailFor[m]
                            /\ Serves(n)
                            /\ n \in mailed \/ mailPc[n] = "send" \/ n \in lost
      BY DEF MailedTokensWork
    <2>1. m \in Mails /\ mailFor[m] \in Accounts /\ LatestOK(mailFor[m])
      BY DEF IInv, TypeOK, MailOK, Accounts
    <2>2. latest[mailFor[m]] \in Mails
      BY <2>1 DEF LatestOK, IInv, TypeOK
    <2>. QED  BY <2>1, <2>2, TokensAssumption DEF LatestOK
  <1>. QED  BY <1>1, <1>2, <1>3, IInvHolds, PTL DEF Spec
=============================================================================
