---------------------------- MODULE PasswordReset ----------------------------
(***************************************************************************)
(* Resetting a forgotten password.  requestPasswordReset answers at once    *)
(* and leaves the work to a goroutine, which stores a fresh token for the   *)
(* user (replacing an older one) and mails it.  resetPassword takes a token *)
(* and a new password: it reads the row of the token, and, in a database    *)
(* transaction that begins only afterwards, deletes the row and writes the  *)
(* password.  A ticker sweeps expired tokens; the server may crash.         *)
(*                                                                          *)
(* Tables: password_reset, one row per user (user_id is UNIQUE), and the    *)
(* rows of table auth of type "password".  A token is named by the mail     *)
(* that carries it, a password by the reset that chose it.                  *)
(***************************************************************************)
EXTENDS Integers

CONSTANTS
    Users,      \* registered users
    Cash,       \* users.CashUserId
    NoUser,     \* a name nobody has registered
    Mails,      \* requests for a reset; also the tokens (uuids) they draw
    NoToken,    \* a token that was never issued
    Resets,     \* requests that present a token and a new password
    NoRow,      \* there is no row
    OldPassword, NoPassword,
    Lifetime,   \* of a token: 24 hours
    MaxTime     \* bound of the clock, for TLC

Accounts == Users \cup {Cash}

ASSUME AccountsAssumption ==
    /\ Cash \notin Users
    /\ NoUser \notin Accounts
ASSUME TokensAssumption == NoToken \notin Mails
ASSUME TimeAssumption == Lifetime \in Nat /\ MaxTime \in Nat

TokenRow == [token : Mails, validUntil : Nat]

ASSUME NoRowAssumption ==
    /\ NoRow \notin TokenRow
    /\ NoRow \notin [user : Accounts, validUntil : Nat]

VARIABLES
    now,            \* time.Now().Unix()
    resetTokens,    \* committed: table password_reset, by user_id
    password,       \* committed: the password rows of table auth, by user_id
    mailPc,         \* where the goroutine behind a mail stands
    mailFor,        \* the account a mail is for
    expiry,         \* the goroutine's token.ValidUntil
    mailed,         \* the mails that have been delivered
    latest,         \* history: the token stored last for an account
    lost,           \* history: the mails that were lost with their token stored
    pc,             \* where the handler of a reset stands
    presented,      \* the token it was given
    tokenData,      \* its copy of the row of the token
    open,           \* the rows written by its open transaction
    applied,        \* history: the resets that have been committed
    reply           \* the answer the client got

mailVars == <<mailPc, mailFor, expiry, mailed, latest, lost>>
resetVars == <<pc, presented, tokenData, open, applied, reply>>
vars == <<now, resetTokens, password, mailVars, resetVars>>

TypeOK ==
    /\ now \in Nat
    /\ resetTokens \in [Accounts -> TokenRow \cup {NoRow}]
    /\ password \in [Accounts -> {OldPassword, NoPassword} \cup Resets]
    /\ mailPc \in [Mails -> {"new", "store", "send", "done"}]
    /\ mailFor \in [Mails -> Accounts \cup {NoUser}]
    /\ expiry \in [Mails -> Nat]
    /\ mailed \subseteq Mails
    /\ latest \in [Accounts -> Mails \cup {NoToken}]
    /\ lost \subseteq Mails
    /\ pc \in [Resets -> {"new", "check", "expired", "delete", "auth",
                          "commit", "done"}]
    /\ presented \in [Resets -> Mails \cup {NoToken}]
    /\ tokenData \in [Resets -> [user : Accounts, validUntil : Nat] \cup {NoRow}]
    /\ open \in [Resets -> SUBSET {"token", "password"}]
    /\ applied \subseteq Resets
    /\ reply \in [Resets -> {"none", "ok", "failed", "lost"}]

Init ==
    /\ now = 0
    /\ resetTokens = [u \in Accounts |-> NoRow]
    /\ password = [u \in Accounts |-> IF u = Cash THEN NoPassword ELSE OldPassword]
    /\ mailPc = [m \in Mails |-> "new"]
    /\ mailFor = [m \in Mails |-> NoUser]
    /\ expiry = [m \in Mails |-> 0]
    /\ mailed = {}
    /\ latest = [u \in Accounts |-> NoToken]
    /\ lost = {}
    /\ pc = [r \in Resets |-> "new"]
    /\ presented = [r \in Resets |-> NoToken]
    /\ tokenData = [r \in Resets |-> NoRow]
    /\ open = [r \in Resets |-> {}]
    /\ applied = {}
    /\ reply = [r \in Resets |-> "none"]

-----------------------------------------------------------------------------
(* Table password_reset: reading it, and waiting for a transaction that has  *)
(* written a row of it.                                                      *)

HasToken(u, t) == resetTokens[u] # NoRow /\ resetTokens[u].token = t

TokenLocked(u) ==
    \E r \in Resets : "token" \in open[r] /\ tokenData[r].user = u

PasswordLocked(u) ==
    \E r \in Resets : "password" \in open[r] /\ tokenData[r].user = u

DeleteToken(t) ==
    resetTokens' = [u \in Accounts |-> IF HasToken(u, t) THEN NoRow
                                                         ELSE resetTokens[u]]

-----------------------------------------------------------------------------
(* The goroutine of requestPasswordReset: SendPasswordResetMail.             *)

(* Mutant: the cash account is not recognised.                               *)
LookUpUserMutant(m) ==
    /\ mailPc[m] = "new"
    /\ \E u \in Accounts \cup {NoUser} :
          /\ mailFor' = [mailFor EXCEPT ![m] = u]
          /\ mailPc' = [mailPc EXCEPT ![m] = IF u = NoUser THEN "done" ELSE "store"]
    /\ expiry' = [expiry EXCEPT ![m] = now + Lifetime]
    /\ UNCHANGED <<now, resetTokens, password, mailed, latest, lost, resetVars>>

(* Mutant: the lifetime is taken off the clock, not added to it.             *)
LookUpUserPastMutant(m) ==
    /\ mailPc[m] = "new"
    /\ \E u \in Accounts \cup {NoUser} :
          /\ mailFor' = [mailFor EXCEPT ![m] = u]
          /\ mailPc' = [mailPc EXCEPT ![m] = IF u \in {Cash, NoUser} THEN "done"
                                                                     ELSE "store"]
    /\ expiry' = [expiry EXCEPT ![m] = now - Lifetime]
    /\ UNCHANGED <<now, resetTokens, password, mailed, latest, lost, resetVars>>

(* GetUserForUsername, and the time stamp of a new token.  Unknown users and *)
(* the cash account end here, without a trace.                               *)
LookUpUser(m) ==
    /\ mailPc[m] = "new"
    /\ \E u \in Accounts \cup {NoUser} :
          /\ mailFor' = [mailFor EXCEPT ![m] = u]
          /\ mailPc' = [mailPc EXCEPT ![m] = IF u \in {Cash, NoUser} THEN "done"
                                                                     ELSE "store"]
    /\ expiry' = [expiry EXCEPT ![m] = now + Lifetime]
    /\ UNCHANGED <<now, resetTokens, password, mailed, latest, lost, resetVars>>

(* INSERT ... ON CONFLICT (user_id) DO UPDATE.                               *)
AddPasswordResetToken(m) ==
    /\ mailPc[m] = "store"
    /\ ~TokenLocked(mailFor[m])
    /\ resetTokens' = [resetTokens EXCEPT ![mailFor[m]] =
                         [token |-> m, validUntil |-> expiry[m]]]
    /\ latest' = [latest EXCEPT ![mailFor[m]] = m]
    /\ mailPc' = [mailPc EXCEPT ![m] = "send"]
    /\ UNCHANGED <<now, password, mailFor, expiry, mailed, lost, resetVars>>

SendMail(m) ==
    /\ mailPc[m] = "send"
    /\ mailed' = mailed \cup {m}
    /\ mailPc' = [mailPc EXCEPT ![m] = "done"]
    /\ UNCHANGED <<now, resetTokens, password, mailFor, expiry, latest, lost,
                   resetVars>>

(* Mutant: the mail is sent although the token could not be stored.          *)
MailFailsMutant(m) ==
    /\ mailPc[m] \in {"new", "store", "send"}
    /\ mailPc' = [mailPc EXCEPT ![m] = IF @ = "store" THEN "send" ELSE "done"]
    /\ lost' = IF mailPc[m] = "send" THEN lost \cup {m} ELSE lost
    /\ UNCHANGED <<now, resetTokens, password, mailFor, expiry, mailed, latest,
                   resetVars>>

(* The lookup, the INSERT or the mail server fails: the error is logged, and *)
(* a token that has been stored stays, though nobody receives it.            *)
MailFails(m) ==
    /\ mailPc[m] \in {"new", "store", "send"}
    /\ mailPc' = [mailPc EXCEPT ![m] = "done"]
    /\ lost' = IF mailPc[m] = "send" THEN lost \cup {m} ELSE lost
    /\ UNCHANGED <<now, resetTokens, password, mailFor, expiry, mailed, latest,
                   resetVars>>

-----------------------------------------------------------------------------
(* The handler resetPassword: users.ResetPassword.                           *)

Goto(r, label) ==
    /\ pc' = [pc EXCEPT ![r] = label]
    /\ UNCHANGED reply

Answer(r, a) ==
    /\ pc' = [pc EXCEPT ![r] = "done"]
    /\ reply' = [reply EXCEPT ![r] = a]

(* Mutant: the query has lost its condition on the token.                    *)
ReadTokenMutant(r) ==
    /\ pc[r] = "new"
    /\ \E t \in mailed \cup {NoToken}, u \in Accounts :
          /\ resetTokens[u] # NoRow
          /\ presented' = [presented EXCEPT ![r] = t]
          /\ tokenData' = [tokenData EXCEPT ![r] =
                [user |-> u, validUntil |-> resetTokens[u].validUntil]]
          /\ Goto(r, "check")
    /\ UNCHANGED <<now, resetTokens, password, mailVars, open, applied>>

(* getPasswordResetDataByToken, outside the transaction.  The client has the *)
(* token from a mail, or made it up.                                         *)
ReadToken(r) ==
    /\ pc[r] = "new"
    /\ \E t \in mailed \cup {NoToken} :
          /\ presented' = [presented EXCEPT ![r] = t]
          /\ \/ /\ \A u \in Accounts : ~HasToken(u, t)
                /\ Answer(r, "failed")
                /\ UNCHANGED tokenData
             \/ \E u \in Accounts :
                /\ HasToken(u, t)
                /\ tokenData' = [tokenData EXCEPT ![r] =
                     [user |-> u, validUntil |-> resetTokens[u].validUntil]]
                /\ Goto(r, "check")
    /\ UNCHANGED <<now, resetTokens, password, mailVars, open, applied>>

(* The query fails.  The deferred result.Close() meets a nil result, the     *)
(* handler panics, and net/http closes the connection without an answer.     *)
ReadTokenPanics(r) ==
    /\ pc[r] = "new"
    /\ Answer(r, "lost")
    /\ UNCHANGED <<now, resetTokens, password, mailVars, presented, tokenData,
                   open, applied>>

Expired(r) == tokenData[r].validUntil < now

(* A token may be used up to and including its last second.  The user is     *)
(* looked up, the password hashed and a transaction begun right after.       *)
CheckExpiry(r) ==
    /\ pc[r] = "check"
    /\ Goto(r, IF Expired(r) THEN "expired" ELSE "delete")
    /\ UNCHANGED <<now, resetTokens, password, mailVars, presented, tokenData,
                   open, applied>>

DeleteExpiredToken(r) ==
    /\ pc[r] = "expired"
    /\ ~TokenLocked(tokenData[r].user)
    /\ DeleteToken(presented[r])
    /\ Answer(r, "failed")
    /\ UNCHANGED <<now, password, mailVars, presented, tokenData, open, applied>>

(* Mutant: the token is left in the table.                                   *)
KeepTokenMutant(r) ==
    /\ pc[r] = "delete"
    /\ Goto(r, "auth")
    /\ UNCHANGED <<now, resetTokens, password, mailVars, presented, tokenData,
                   open, applied>>

(* Mutant: DeleteResetToken in the place of DeleteResetTokenWithTransaction. *)
DeleteAtOnceMutant(r) ==
    /\ pc[r] = "delete"
    /\ ~TokenLocked(tokenData[r].user)
    /\ DeleteToken(presented[r])
    /\ Goto(r, "auth")
    /\ UNCHANGED <<now, password, mailVars, presented, tokenData, open, applied>>

(* DeleteResetTokenWithTransaction.  Nobody looks at the number of rows it   *)
(* deletes: the token may be gone or replaced by now.                        *)
DeleteTokenInTransaction(r) ==
    /\ pc[r] = "delete"
    /\ \/ /\ HasToken(tokenData[r].user, presented[r])
          /\ ~TokenLocked(tokenData[r].user)
          /\ open' = [open EXCEPT ![r] = @ \cup {"token"}]
       \/ /\ ~HasToken(tokenData[r].user, presented[r])
          /\ UNCHANGED open
    /\ Goto(r, "auth")
    /\ UNCHANGED <<now, resetTokens, password, mailVars, presented, tokenData,
                   applied>>

(* AddAuthenticationWithTransaction: an upsert.                              *)
SetPasswordInTransaction(r) ==
    /\ pc[r] = "auth"
    /\ ~PasswordLocked(tokenData[r].user)
    /\ open' = [open EXCEPT ![r] = @ \cup {"password"}]
    /\ Goto(r, "commit")
    /\ UNCHANGED <<now, resetTokens, password, mailVars, presented, tokenData,
                   applied>>

(* What a commit makes visible, all at once.                                 *)
Publish(r) ==
    /\ IF "token" \in open[r] THEN DeleteToken(presented[r])
                              ELSE UNCHANGED resetTokens
    /\ password' = [password EXCEPT ![tokenData[r].user] = r]
    /\ applied' = applied \cup {r}

Commit(r) ==
    /\ pc[r] = "commit"
    /\ Publish(r)
    /\ open' = [open EXCEPT ![r] = {}]
    /\ Answer(r, "ok")
    /\ UNCHANGED <<now, mailVars, presented, tokenData>>

(* Mutant: the error of Commit is not looked at.                             *)
CommitFailsMutant(r) ==
    /\ pc[r] = "commit"
    /\ UNCHANGED <<resetTokens, password, applied>>
    /\ open' = [open EXCEPT ![r] = {}]
    /\ Answer(r, "ok")
    /\ UNCHANGED <<now, mailVars, presented, tokenData>>

(* The connection breaks during COMMIT: it has happened, or it has not.      *)
CommitFails(r) ==
    /\ pc[r] = "commit"
    /\ \/ Publish(r)
       \/ UNCHANGED <<resetTokens, password, applied>>
    /\ open' = [open EXCEPT ![r] = {}]
    /\ Answer(r, "failed")
    /\ UNCHANGED <<now, mailVars, presented, tokenData>>

(* Mutant: the handler returns without Rollback.                             *)
ResetFailsMutant(r) ==
    /\ pc[r] \in {"check", "expired", "delete", "auth", "commit"}
    /\ Answer(r, "failed")
    /\ UNCHANGED <<now, resetTokens, password, mailVars, presented, tokenData,
                   open, applied>>

(* A later query or a statement fails; an open transaction is rolled back.   *)
ResetFails(r) ==
    /\ pc[r] \in {"check", "expired", "delete", "auth", "commit"}
    /\ open' = [open EXCEPT ![r] = {}]
    /\ Answer(r, "failed")
    /\ UNCHANGED <<now, resetTokens, password, mailVars, presented, tokenData,
                   applied>>

-----------------------------------------------------------------------------
(* The ticker, the clock, a crash.                                           *)

Sweepable(u) == resetTokens[u] # NoRow /\ resetTokens[u].validUntil <= now

(* Mutant: the comparison with valid_until is the wrong way round.           *)
CleanExpiredMutant ==
    /\ \E u \in Accounts : resetTokens[u] # NoRow /\ ~Sweepable(u)
    /\ \A u \in Accounts : ~TokenLocked(u)
    /\ resetTokens' = [u \in Accounts |-> IF Sweepable(u) THEN resetTokens[u]
                                                          ELSE NoRow]
    /\ UNCHANGED <<now, password, mailVars, resetVars>>

(* CleanExpiredResetTokens, every four hours.  The statement waits for rows  *)
(* that a transaction has locked.                                            *)
CleanExpiredResetTokens ==
    /\ \E u \in Accounts : Sweepable(u)
    /\ \A u \in Accounts : Sweepable(u) => ~TokenLocked(u)
    /\ resetTokens' = [u \in Accounts |-> IF Sweepable(u) THEN NoRow
                                                          ELSE resetTokens[u]]
    /\ UNCHANGED <<now, password, mailVars, resetVars>>

Tick ==
    /\ now < MaxTime
    /\ now' = now + 1
    /\ UNCHANGED <<resetTokens, password, mailVars, resetVars>>

Active(r) == pc[r] \notin {"new", "done"}

(* Mails and resets under way are lost, open transactions roll back.         *)
Crash ==
    /\ \/ \E m \in Mails : mailPc[m] \in {"store", "send"}
       \/ \E r \in Resets : Active(r)
    /\ mailPc' = [m \in Mails |-> IF mailPc[m] = "new" THEN "new" ELSE "done"]
    /\ lost' = lost \cup {m \in Mails : mailPc[m] = "send"}
    /\ pc' = [r \in Resets |-> IF Active(r) THEN "done" ELSE pc[r]]
    /\ reply' = [r \in Resets |-> IF Active(r) THEN "lost" ELSE reply[r]]
    /\ open' = [r \in Resets |-> {}]
    /\ UNCHANGED <<now, resetTokens, password, mailFor, expiry, mailed, latest,
                   presented, tokenData, applied>>

(* Nothing is under way and the clock of the model has stopped.              *)
Terminating ==
    /\ now = MaxTime
    /\ \A m \in Mails : mailPc[m] = "done"
    /\ \A r \in Resets : pc[r] = "done"
    /\ UNCHANGED vars

-----------------------------------------------------------------------------

MailStep(m) == LookUpUser(m) \/ AddPasswordResetToken(m) \/ SendMail(m)

ResetStep(r) ==
    \/ ReadToken(r) \/ CheckExpiry(r) \/ DeleteExpiredToken(r)
    \/ DeleteTokenInTransaction(r) \/ SetPasswordInTransaction(r) \/ Commit(r)

ResetFault(r) == ReadTokenPanics(r) \/ CommitFails(r) \/ ResetFails(r)

Next ==
    \/ \E m \in Mails : MailStep(m) \/ MailFails(m)
    \/ \E r \in Resets : ResetStep(r) \/ ResetFault(r)
    \/ CleanExpiredResetTokens
    \/ Tick
    \/ Crash
    \/ Terminating

(* Go runs every goroutine that is not waiting, time passes, and the ticker  *)
(* fires again and again.  Nothing promises that a request arrives.          *)
Fairness ==
    /\ \A m \in Mails : WF_vars(mailPc[m] # "new" /\ MailStep(m))
    /\ \A r \in Resets : WF_vars(Active(r) /\ ResetStep(r))
    /\ WF_vars(Tick)
    /\ WF_vars(CleanExpiredResetTokens)

Spec == Init /\ [][Next]_vars /\ Fairness

-----------------------------------------------------------------------------
(* Properties.                                                               *)

(* Nobody ever sets a password for the cash account: SendPasswordResetMail   *)
(* issues no token for it.  (With a password one could log in to the account *)
(* and add other ways to log in.)                                            *)
CashHasNoPassword == resetTokens[Cash] = NoRow /\ password[Cash] = NoPassword

(* A token that has set a password is gone from the table, for good: whoever *)
(* presents it from now on is turned away.                                   *)
UsedTokensAreGone ==
    \A r \in applied : \A u \in Accounts : ~HasToken(u, presented[r])

(* A token is not lost without effect: in the step in which a row disappears *)
(* the password it stands for is set, or it has reached the end of its life, *)
(* or the user has a newer one.                                              *)
TokensLeaveForAReason == [][
    \A u \in Accounts :
        resetTokens[u] # NoRow /\ resetTokens'[u] # resetTokens[u] =>
            \/ resetTokens'[u] # NoRow
            \/ Sweepable(u)
            \/ \E r \in applied' \ applied :
                  presented[r] = resetTokens[u].token /\ password'[u] = r
    ]_vars

(* A password changes only by a reset that presents a token mailed for that  *)
(* account.                                                                  *)
PasswordsNeedMailedTokens == [][
    \A u \in Accounts : password'[u] # password[u] =>
        \E r \in applied' \ applied :
            presented[r] \in mailed /\ mailFor[presented[r]] = u
    ]_vars

(* Token n still does what it was drawn for, or has done it, or is too old.  *)
Serves(n) ==
    \/ HasToken(mailFor[n], n)
    \/ expiry[n] <= now
    \/ \E r \in applied : presented[r] = n

(* What mails are worth: a user who has got one holds the token that was     *)
(* stored last for him, which is in the table unless it has been used or has *)
(* expired; or the one stored last is on its way to him, by another mail.    *)
(* Only a mail lost after its token was stored (the mail server failed, or   *)
(* the server died: SendPasswordResetMail does not take the token back) may  *)
(* leave a user with mails none of which works before he asks for another.   *)
MailedTokensWork ==
    \A m \in mailed : \E n \in Mails :
        /\ latest[mailFor[m]] = n
        /\ mailFor[n] = mailFor[m]
        /\ Serves(n)
        /\ n \in mailed \/ mailPc[n] = "send" \/ n \in lost

(* A client that is told "ok" has set the password, and it stays in force    *)
(* until another reset for the account is committed.                         *)
OkMeansReset ==
    \A r \in Resets : reply[r] = "ok" =>
        /\ r \in applied
        /\ \E q \in applied : /\ tokenData[q].user = tokenData[r].user
                              /\ password[tokenData[r].user] = q

(* A token that has expired does not stay in the table.                      *)
ExpiredTokensAreSwept ==
    \A u \in Users : \A m \in Mails :
        (HasToken(u, m) /\ Sweepable(u)) ~> ~HasToken(u, m)

(* A handler that has begun ends.                                            *)
EveryResetAnswered == \A r \in Resets : Active(r) ~> pc[r] = "done"

(* A password is set by the token the user has at that moment: a token that  *)
(* has been replaced, or has been used already, sets no password.            *)
OnlyTheCurrentToken == [][
    \A r \in applied' \ applied : HasToken(tokenData[r].user, presented[r])
    ]_vars
=============================================================================
