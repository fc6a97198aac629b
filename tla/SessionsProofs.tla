--------------------------- MODULE SessionsProofs ---------------------------
(***************************************************************************)
(* What Sessions guarantees for any number of users, requests and overlaps. *)
(*                                                                          *)
(* The argument: a client only ever learns the token of a session that is   *)
(* finished, and from then on neither the session nor the login it stands    *)
(* for changes (IssuedStay).  So every entry of the store, and every copy a  *)
(* handler works on, is what the login made of it, and what a handler        *)
(* decides on it is right for good, however old the copy is.                 *)
(***************************************************************************)
EXTENDS Sessions, TLAPS

(* The session that t was given is the one its login is entitled to.         *)
Genuine(t) ==
    /\ req[t].kind = "login"
    /\ copy[t] \in Session
    /\ copy[t].backend = req[t].backend
    /\ copy[t].role = "admin" => /\ req[t].backend = "password"
                                 /\ Role[req[t].user] = "admin"

(* Where a handler stands tells what it has got.                             *)
LabelOK(r) ==
    /\ pc[r] = "new" => copy[r] = NoSession
    /\ pc[r] # "done" => reply[r] = "none"
    /\ pc[r] = "enrich" => req[r].token # NoToken
    /\ pc[r] = "store" => Genuine(r)
    /\ pc[r] = "delete" => req[r].kind = "logout" /\ copy[r] # NoSession
    /\ pc[r] = "recheck" => req[r].kind \in {"buy", "credit"} /\ copy[r] # NoSession

(* Clients use tokens they were told of, handlers copies of their sessions.  *)
TokenOK(r) ==
    /\ req[r].token \in Issued \cup {NoToken}
    /\ (pc[r] \in {"handler", "delete", "recheck"} /\ copy[r] # NoSession) =>
          req[r].token # NoToken /\ copy[r] = copy[req[r].token]

RequestOK(r) ==
    /\ LabelOK(r)
    /\ TokenOK(r)
    /\ r \in Issued => Genuine(r)

EntryOK(t) == sessions[t] # NoSession => t \in Issued /\ sessions[t] = copy[t]

GrantOK(r) ==
    /\ req[r].token \in Issued
    /\ req[r].kind \in {"credit", "admin"} => req[req[r].token].backend = "password"
    /\ req[r].kind = "admin" => Role[req[req[r].token].user] = "admin"
    /\ pc[r] = "done"

PurgerOK ==
    purger = "delete" => expired \in Issued /\ ~IsValid(copy[expired])

IInv ==
    /\ TypeOK
    /\ \A r \in Requests : RequestOK(r)
    /\ \A t \in Requests : EntryOK(t)
    /\ \A r \in granted : GrantOK(r)
    /\ loggedOut \subseteq Issued
    /\ PurgerOK

-----------------------------------------------------------------------------

LEMMA InitIInv == Init => IInv
  <1>. SUFFICES ASSUME Init PROVE IInv
    OBVIOUS
  <1>1. TypeOK
    <2>1. [kind |-> "logout", token |-> NoToken] \in Payload
      BY DEF Payload
    <2>. QED  BY <2>1 DEF Init, TypeOK
  <1>2. ASSUME NEW r \in Requests PROVE RequestOK(r) /\ EntryOK(r)
    BY DEF Init, RequestOK, LabelOK, TokenOK, EntryOK, Issued, Genuine
  <1>3. granted = {} /\ loggedOut = {} /\ PurgerOK
    BY DEF Init, PurgerOK
  <1>. QED  BY <1>1, <1>2, <1>3 DEF IInv

-----------------------------------------------------------------------------
(* Types.                                                                    *)

Step(r) == Arrive(r) \/ HandlerStep(r)

(* The new session of a login.                                               *)
LEMMA NewSession ==
  ASSUME TypeOK, NEW r \in Requests, Login(r)
  PROVE  /\ req[r] \in [kind : {"login"}, user : Accounts, backend : Backends,
                        token : Requests \cup {NoToken}]
         /\ copy'[r] \in Session
         /\ Genuine(r)'
  <1>1. req[r] \in [kind : {"login"}, user : Accounts, backend : Backends,
                    token : Requests \cup {NoToken}]
    BY DEF TypeOK, Payload, Login
  <1>2. req'[r] = req[r] /\ copy' = [copy EXCEPT ![r] = copy'[r]]
    BY DEF Login, TypeOK
  <1>3. copy'[r] = [user |-> req[r].user,
                    role |-> SessionRole(req[r].user, req[r].backend),
                    backend |-> req[r].backend, notValidAfter |-> NotValidAfter]
    BY DEF Login, TypeOK
  <1>4. SessionRole(req[r].user, req[r].backend) \in {"user", "admin"}
    BY <1>1, RoleAssumption DEF Login, CanLogin, SessionRole
  <1>5. NotValidAfter \in Nat
    BY TimeAssumption DEF NotValidAfter, TypeOK
  <1>6. copy'[r] \in Session
    BY <1>1, <1>3, <1>4, <1>5 DEF Session
  <1>. QED  BY <1>1, <1>2, <1>3, <1>6 DEF Genuine, SessionRole, Login

LEMMA HandlerTypes ==
  ASSUME TypeOK, NEW r \in Requests, Step(r), LabelOK(r), TokenOK(r)
  PROVE  TypeOK'
  <1>. USE DEF TypeOK, requestVars, purgeVars, Goto, Answer, NoteRace, Racing
  <1>1. CASE Arrive(r)
    <2>1. PICK p \in Payload :
            /\ req' = [req EXCEPT ![r] = p]
            /\ Goto(r, IF p.token = NoToken THEN "handler" ELSE "enrich")
      BY <1>1, WorkloadAssumption DEF Arrive
    <2>. QED  BY <1>1, <2>1 DEF Arrive
  <1>2. CASE Enrich(r)
    <2>1. req[r].token \in Requests
      BY <1>2 DEF Enrich, LabelOK, TokenOK, Issued
    <2>2. \A s \in Found(r, req[r].token) : s \in Session \cup {NoSession}
      BY <2>1 DEF Found
    <2>. QED  BY <1>2, <2>2 DEF Enrich
  <1>3. CASE Login(r)
    BY <1>3, NewSession DEF Login
  <1>4. CASE LoginRefused(r)
    BY <1>4 DEF LoginRefused
  <1>5. CASE Store(r)
    BY <1>5 DEF Store, Write
  <1>6. CASE Logout(r)
    BY <1>6 DEF Logout
  <1>7. CASE Delete(r)
    <2>1. req[r].token \in Requests
      BY <1>7 DEF Delete, LabelOK, TokenOK, Issued
    <2>. QED  BY <1>7, <2>1 DEF Delete, Write
  <1>8. CASE VerifyRole(r)
    BY <1>8 DEF VerifyRole, Grant
  <1>9. CASE Recheck(r)
    BY <1>9 DEF Recheck, Grant
  <1>. QED  BY <1>1, <1>2, <1>3, <1>4, <1>5, <1>6, <1>7, <1>8, <1>9
            DEF Step, HandlerStep

LEMMA OtherTypes ==
  ASSUME TypeOK, PurgeStep \/ Tick \/ Crash \/ RuntimeAborts \/ UNCHANGED vars
  PROVE  TypeOK'
  <1>. USE DEF TypeOK, requestVars, purgeVars, NoteRace, Racing
  <1>1. CASE PurgeStart
    BY <1>1 DEF PurgeStart, Stored
  <1>2. CASE PurgeVisit
    BY <1>2 DEF PurgeVisit
  <1>3. CASE PurgeDelete
    BY <1>3 DEF PurgeDelete, Write
  <1>4. CASE PurgeEnd
    BY <1>4 DEF PurgeEnd
  <1>5. CASE Tick
    BY <1>5 DEF Tick
  <1>6. CASE Crash
    BY <1>6 DEF Crash, Restart
  <1>7. CASE RuntimeAborts
    BY <1>7 DEF RuntimeAborts, Restart
  <1>8. CASE UNCHANGED vars
    BY <1>8 DEF vars
  <1>. QED  BY <1>1, <1>2, <1>3, <1>4, <1>5, <1>6, <1>7, <1>8 DEF PurgeStep

-----------------------------------------------------------------------------
(* Locality: a step of one request leaves the others alone.                  *)

Same(u) ==
    /\ req'[u] = req[u]
    /\ pc'[u] = pc[u]
    /\ copy'[u] = copy[u]
    /\ reply'[u] = reply[u]

(* What clients have been told stays so.                                     *)
IssuedStay ==
    \A t \in Issued : /\ t \in Issued'
                      /\ req'[t] = req[t]
                      /\ copy'[t] = copy[t]
                      /\ pc'[t] = pc[t]

LEMMA StepsAreLocal ==
  ASSUME TypeOK, NEW r \in Requests, Step(r), NEW u \in Requests \ {r}
  PROVE  Same(u)
  BY DEF TypeOK, Step, HandlerStep, Arrive, Enrich, Login, LoginRefused, Store,
         Logout, Delete, VerifyRole, Recheck, Grant, Goto, Answer, Same

(* A step of r itself, as long as its answer is still to come.               *)
LEMMA StepsOfOne ==
  ASSUME TypeOK, NEW r \in Requests, Step(r), LabelOK(r)
  PROVE  r \notin Issued /\ pc[r] # "done"
  BY DEF TypeOK, Step, HandlerStep, Arrive, Enrich, Login, LoginRefused, Store,
         Logout, Delete, VerifyRole, Recheck, LabelOK, Issued

LEMMA IssuedStayInSteps ==
  ASSUME TypeOK, NEW r \in Requests, Step(r), LabelOK(r)
  PROVE  IssuedStay
  <1>. SUFFICES ASSUME NEW t \in Issued
                PROVE  /\ t \in Issued'
                       /\ Same(t)
    BY DEF IssuedStay, Same
  <1>1. t \in Requests \ {r}
    BY StepsOfOne DEF Issued
  <1>2. Same(t)
    BY <1>1, StepsAreLocal
  <1>. QED  BY <1>2 DEF Same, Issued

(* Neither the purge, nor the clock, nor a crash changes what a request is.  *)
Quiet(u) ==
    /\ req'[u] = req[u]
    /\ copy'[u] = copy[u]
    /\ \/ pc'[u] = pc[u] /\ reply'[u] = reply[u]
       \/ Active(u) /\ pc'[u] = "done" /\ reply'[u] = "lost"

LEMMA OthersAreQuiet ==
  ASSUME TypeOK, PurgeStep \/ Tick \/ Crash \/ RuntimeAborts \/ UNCHANGED vars,
         NEW u \in Requests
  PROVE  Quiet(u)
  BY DEF TypeOK, PurgeStep, PurgeStart, PurgeVisit, PurgeDelete, PurgeEnd, Tick,
         Crash, RuntimeAborts, Restart, vars, requestVars, Quiet

LEMMA IssuedStayInOthers ==
  ASSUME TypeOK, PurgeStep \/ Tick \/ Crash \/ RuntimeAborts \/ UNCHANGED vars,
         \A r \in Requests : LabelOK(r)
  PROVE  IssuedStay
  <1>. SUFFICES ASSUME NEW t \in Issued
                PROVE  /\ t \in Issued'
                       /\ Same(t)
    BY DEF IssuedStay, Same
  <1>1. t \in Requests /\ Quiet(t) /\ ~Active(t)
    BY OthersAreQuiet DEF Issued, LabelOK, Active
  <1>. QED  BY <1>1 DEF Quiet, Same, Issued

-----------------------------------------------------------------------------
(* What is kept about a request.                                             *)

(* By a request that does nothing, or is cut off.                            *)
LEMMA QuietRequestKept ==
  ASSUME NEW u \in Requests, RequestOK(u), IssuedStay, Quiet(u)
  PROVE  RequestOK(u)'
  <1>1. LabelOK(u)'
    BY DEF RequestOK, LabelOK, Quiet, Active, Genuine
  <1>2. TokenOK(u)'
    BY DEF RequestOK, TokenOK, Quiet, IssuedStay
  <1>3. u \in Issued' => Genuine(u)'
    BY DEF RequestOK, Quiet, Issued, Genuine
  <1>. QED  BY <1>1, <1>2, <1>3 DEF RequestOK

(* By the request that takes the step.                                       *)
LEMMA OwnRequestKept ==
  ASSUME TypeOK, NEW r \in Requests, Step(r), RequestOK(r), IssuedStay,
         \A t \in Requests : EntryOK(t)
  PROVE  RequestOK(r)'
  <1>. USE DEF TypeOK, RequestOK, LabelOK, Goto, Answer
  <1>i. Issued \subseteq Issued'
    BY DEF IssuedStay
  <1>1. CASE Arrive(r)
    <2>1. PICK p \in Workload[r] :
            /\ p.token \in Issued \cup {NoToken}
            /\ req' = [req EXCEPT ![r] = p]
            /\ Goto(r, IF p.token = NoToken THEN "handler" ELSE "enrich")
      BY <1>1 DEF Arrive
    <2>2. TokenOK(r)' /\ LabelOK(r)'
      BY <1>1, <1>i, <2>1 DEF Arrive, TokenOK
    <2>. QED  BY <1>1, <2>2 DEF Arrive, Issued
  <1>2. CASE Enrich(r)
    <2>1. req[r].token \in Issued /\ req[r].token # r
      BY <1>2, StepsOfOne DEF Enrich, TokenOK, Issued
    <2>2. copy'[r] \in {NoSession, copy[req[r].token]}
      <3>1. req[r].token \in Requests /\ EntryOK(req[r].token)
        BY <2>1 DEF Issued
      <3>2. \A s \in Found(r, req[r].token) : s \in {NoSession, copy[req[r].token]}
        BY <3>1 DEF Found, EntryOK
      <3>. QED  BY <1>2, <3>2 DEF Enrich
    <2>3. copy'[req[r].token] = copy[req[r].token]
      BY <2>1 DEF IssuedStay
    <2>. QED  BY <1>2, <1>i, <2>1, <2>2, <2>3 DEF Enrich, TokenOK, Issued
  <1>3. CASE Login(r)
    <2>1. Genuine(r)'
      BY <1>3, NewSession
    <2>. QED  BY <1>3, <1>i, <2>1 DEF Login, TokenOK
  <1>4. CASE LoginRefused(r)
    BY <1>4, <1>i DEF LoginRefused, TokenOK, Issued
  <1>5. CASE Store(r)
    BY <1>5, <1>i DEF Store, TokenOK, Genuine
  <1>6. CASE Logout(r)
    BY <1>6, <1>i DEF Logout, TokenOK, Issued, IssuedStay
  <1>7. CASE Delete(r)
    BY <1>7, <1>i DEF Delete, TokenOK, Issued
  <1>8. CASE VerifyRole(r)
    BY <1>8, <1>i DEF VerifyRole, Grant, TokenOK, Issued, IssuedStay
  <1>9. CASE Recheck(r)
    BY <1>9, <1>i DEF Recheck, Grant, TokenOK, Issued
  <1>. QED  BY <1>1, <1>2, <1>3, <1>4, <1>5, <1>6, <1>7, <1>8, <1>9
            DEF Step, HandlerStep

-----------------------------------------------------------------------------
(* The store, the purge, and what was granted and logged out.                *)

LEMMA EntriesKept ==
  ASSUME IInv, [Next]_vars, IssuedStay, NEW t \in Requests
  PROVE  EntryOK(t)'
  <1>1. CASE sessions'[t] \in {sessions[t], NoSession}
    BY <1>1 DEF IInv, EntryOK, IssuedStay
  <1>2. CASE ~(sessions'[t] \in {sessions[t], NoSession})
    <2>1. Store(t) /\ sessions'[t] = copy[t]
      BY <1>2 DEF IInv, TypeOK, Next, HandlerStep, Arrive, Enrich, Login,
         LoginRefused, Store, Logout, Delete, VerifyRole, Recheck, Write,
         PurgeStep, PurgeStart, PurgeVisit, PurgeDelete, PurgeEnd, Tick, Crash,
         RuntimeAborts, Restart, Terminating, vars
    <2>. QED  BY <2>1 DEF Store, Answer, EntryOK, Issued, IInv, TypeOK,
                          RequestOK, LabelOK, Genuine
  <1>. QED  BY <1>1, <1>2

LEMMA PurgerKept ==
  ASSUME IInv, [Next]_vars, IssuedStay
  PROVE  PurgerOK'
  <1>. SUFFICES ASSUME purger' = "delete"
                PROVE  expired' \in Issued' /\ ~IsValid(copy[expired])'
    BY DEF PurgerOK
  <1>1. now' >= now /\ \A s \in Session : ~IsValid(s) => ~IsValid(s)'
    BY DEF IInv, TypeOK, Next, HandlerStep, Arrive, Enrich, Login,
       LoginRefused, Store, Logout, Delete, VerifyRole, Recheck,
       PurgeStep, PurgeStart, PurgeVisit, PurgeDelete, PurgeEnd, Tick, Crash,
       RuntimeAborts, Restart, Terminating, vars, IsValid, Session
  <1>2. expired' \in Issued /\ ~IsValid(copy[expired'])
    <2>1. CASE PurgeVisit /\ purger' # purger
      BY <2>1 DEF PurgeVisit, IInv, EntryOK, TypeOK
    <2>2. CASE ~(PurgeVisit /\ purger' # purger)
      <3>1. purger = "delete" /\ expired' = expired
        BY <2>2 DEF IInv, TypeOK, Next, HandlerStep, Arrive, Enrich, Login,
           LoginRefused, Store, Logout, Delete, VerifyRole, Recheck,
           PurgeStep, PurgeStart, PurgeVisit, PurgeDelete, PurgeEnd, Tick, Crash,
           RuntimeAborts, Restart, Terminating, vars, purgeVars
      <3>. QED  BY <3>1 DEF IInv, PurgerOK
    <2>. QED  BY <2>1, <2>2
  <1>3. copy[expired'] \in Session
    BY <1>2 DEF IInv, RequestOK, Genuine, Issued
  <1>. QED  BY <1>1, <1>2, <1>3 DEF IssuedStay, IsValid

LEMMA LoggedOutKept ==
  ASSUME IInv, [Next]_vars, IssuedStay
  PROVE  loggedOut' \subseteq Issued'
  <1>1. CASE \E r \in Requests : Delete(r)
    <2>1. PICK r \in Requests : Delete(r)
      BY <1>1
    <2>2. req[r].token \in Issued
      BY <2>1 DEF IInv, RequestOK, LabelOK, TokenOK, Delete
    <2>. QED  BY <2>1, <2>2 DEF Delete, IInv, IssuedStay
  <1>2. CASE ~ \E r \in Requests : Delete(r)
    <2>1. loggedOut' = loggedOut
      BY <1>2 DEF Next, HandlerStep, Arrive, Enrich, Login, LoginRefused, Store,
         Logout, VerifyRole, Recheck, PurgeStep, PurgeStart, PurgeVisit,
         PurgeDelete, PurgeEnd, Tick, Crash, RuntimeAborts, Restart, Terminating,
         vars, requestVars
    <2>. QED  BY <2>1 DEF IInv, IssuedStay
  <1>. QED  BY <1>1, <1>2

(* A request is granted on a session that is what its login made of it.      *)
LEMMA GrantsAreRight ==
  ASSUME IInv, NEW r \in Requests, Step(r), granted' # granted
  PROVE  GrantOK(r)' /\ granted' = granted \cup {r}
  <1>. USE DEF IInv, TypeOK, RequestOK, LabelOK
  <1>1. VerifyRole(r) \/ Recheck(r)
    BY DEF Step, HandlerStep, Arrive, Enrich, Login, LoginRefused, Store, Logout,
           Delete
  <1>t. /\ req[r].token \in Issued
        /\ Genuine(req[r].token)
        /\ req' = req
        /\ EntryOK(req[r].token)
    BY <1>1 DEF VerifyRole, Recheck, TokenOK, Issued
  <1>2. CASE VerifyRole(r)
    <2>1. /\ req[r].kind = "admin"
          /\ copy[r].role = "admin"
          /\ copy[r] = copy[req[r].token]
          /\ Grant(r)
      BY <1>2 DEF VerifyRole, CheckRole, RoleFor, TokenOK
    <2>2. req[r].token \in Issued'
      BY <1>t, <2>1 DEF Grant, Answer, Issued
    <2>. QED  BY <1>t, <2>1, <2>2 DEF Grant, Answer, GrantOK, Genuine
  <1>3. CASE Recheck(r)
    <2>1. /\ req[r].kind \in {"buy", "credit"}
          /\ \E s \in Found(r, req[r].token) : Admits(r, s)
          /\ Grant(r)
      BY <1>3 DEF Recheck
    <2>2. req[r].kind = "credit" => copy[req[r].token].backend = "password"
      BY <1>t, <2>1 DEF Found, Admits, EntryOK
    <2>3. req[r].token \in Issued'
      BY <1>t, <2>1 DEF Grant, Answer, Issued
    <2>. QED  BY <1>t, <2>1, <2>2, <2>3 DEF Grant, Answer, GrantOK, Genuine
  <1>. QED  BY <1>1, <1>2, <1>3

LEMMA GrantsKept ==
  ASSUME IInv, [Next]_vars, IssuedStay, NEW r \in granted'
  PROVE  GrantOK(r)'
  <1>1. CASE r \in granted
    <2>1. GrantOK(r) /\ r \in Requests
      BY <1>1 DEF IInv, TypeOK
    <2>2. req'[r] = req[r] /\ pc'[r] = "done"
      <3>1. CASE \E q \in Requests : Step(q)
        <4>1. PICK q \in Requests : Step(q)
          BY <3>1
        <4>2. q # r
          BY <2>1, <4>1, StepsOfOne DEF IInv, RequestOK, GrantOK
        <4>. QED  BY <2>1, <4>1, <4>2, StepsAreLocal DEF IInv, GrantOK, Same
      <3>2. CASE ~ \E q \in Requests : Step(q)
        <4>1. Quiet(r)
          BY <2>1, <3>2, OthersAreQuiet DEF IInv, Next, Step, Terminating
        <4>. QED  BY <2>1, <4>1 DEF Quiet, Active, GrantOK
      <3>. QED  BY <3>1, <3>2
    <2>. QED  BY <2>1, <2>2 DEF GrantOK, IssuedStay
  <1>2. CASE r \notin granted
    <2>1. PICK q \in Requests : Step(q)
      BY <1>2 DEF Next, Step, PurgeStep, PurgeStart, PurgeVisit, PurgeDelete,
         PurgeEnd, Tick, Crash, RuntimeAborts, Restart, Terminating, vars,
         requestVars
    <2>. QED  BY <1>2, <2>1, GrantsAreRight
  <1>. QED  BY <1>1, <1>2

-----------------------------------------------------------------------------

LEMMA IssuedStays == IInv /\ [Next]_vars => IssuedStay
  <1>. SUFFICES ASSUME IInv, [Next]_vars PROVE IssuedStay
    OBVIOUS
  <1>1. CASE \E r \in Requests : Step(r)
    BY <1>1, IssuedStayInSteps DEF IInv, RequestOK
  <1>2. CASE ~ \E r \in Requests : Step(r)
    <2>1. PurgeStep \/ Tick \/ Crash \/ RuntimeAborts \/ UNCHANGED vars
      BY <1>2 DEF Next, Step, Terminating
    <2>. QED  BY <2>1, IssuedStayInOthers DEF IInv, RequestOK
  <1>. QED  BY <1>1, <1>2

LEMMA IInvKept == IInv /\ [Next]_vars => IInv'
  <1>. SUFFICES ASSUME IInv, [Next]_vars PROVE IInv'
    OBVIOUS
  <1>1. CASE \E r \in Requests : Step(r)
    <2>1. PICK r \in Requests : Step(r)
      BY <1>1
    <2>2. TypeOK' /\ IssuedStay
      BY <2>1, HandlerTypes, IssuedStays DEF IInv, RequestOK
    <2>3. ASSUME NEW u \in Requests PROVE RequestOK(u)'
      <3>1. CASE u = r
        BY <2>1, <2>2, <3>1, OwnRequestKept DEF IInv
      <3>2. CASE u # r
        <4>1. Quiet(u)
          BY <2>1, <3>2, StepsAreLocal DEF IInv, Same, Quiet
        <4>. QED  BY <2>2, <4>1, QuietRequestKept DEF IInv
      <3>. QED  BY <3>1, <3>2
    <2>. QED  BY <2>2, <2>3, EntriesKept, PurgerKept, LoggedOutKept, GrantsKept
              DEF IInv
  <1>2. CASE ~ \E r \in Requests : Step(r)
    <2>1. PurgeStep \/ Tick \/ Crash \/ RuntimeAborts \/ UNCHANGED vars
      BY <1>2 DEF Next, Step, Terminating
    <2>2. TypeOK' /\ IssuedStay
      BY <2>1, OtherTypes, IssuedStays DEF IInv
    <2>3. ASSUME NEW u \in Requests PROVE RequestOK(u)'
      BY <2>1, <2>2, OthersAreQuiet, QuietRequestKept DEF IInv
    <2>. QED  BY <2>2, <2>3, EntriesKept, PurgerKept, LoggedOutKept, GrantsKept
              DEF IInv
  <1>. QED  BY <1>1, <1>2

LEMMA IInvHolds == Spec => []IInv
  BY InitIInv, IInvKept, PTL DEF Spec

(* The clock, the store and the handlers' copies keep their types.           *)
THEOREM TypeCorrect == Spec => []TypeOK
  <1>1. IInv => TypeOK
    BY DEF IInv
  <1>. QED  BY <1>1, IInvHolds, PTL

(* However handlers, purges and races interleave, what needs a password, or  *)
(* an administrator, is only done for those who logged in as such.           *)
THEOREM PrivilegesAreGuarded == Spec => []PrivilegesNeedPassword
  <1>1. IInv => PrivilegesNeedPassword
    BY DEF IInv, GrantOK, PrivilegesNeedPassword
  <1>. QED  BY <1>1, IInvHolds, PTL

-----------------------------------------------------------------------------
(* How entries come and go.                                                  *)

(* What a step does to the entry of t.                                       *)
EntryMoves(t) ==
    \/ sessions'[t] = sessions[t]
    \/ Store(t)
    \/ sessions'[t] = NoSession /\ t \in loggedOut'
    \/ sessions'[t] = NoSession /\ purger = "delete" /\ expired = t
    \/ restarted' # "no" /\ \A u \in Requests : sessions'[u] = NoSession

LEMMA NextMovesEntries ==
  ASSUME IInv, [Next]_vars, NEW t \in Requests
  PROVE  EntryMoves(t)
  <1>. USE DEF IInv, TypeOK, EntryMoves
  <1>1. ASSUME NEW r \in Requests, Store(r) PROVE EntryMoves(t)
    BY <1>1 DEF Store, Write
  <1>2. ASSUME NEW r \in Requests, Delete(r) PROVE EntryMoves(t)
    BY <1>2 DEF Delete, Write
  <1>3. CASE PurgeDelete
    BY <1>3 DEF PurgeDelete, Write
  <1>4. CASE Crash \/ RuntimeAborts
    BY <1>4 DEF Crash, RuntimeAborts, Restart
  <1>5. CASE sessions' = sessions
    BY <1>5
  <1>. QED
    BY <1>1, <1>2, <1>3, <1>4, <1>5
    DEF Next, HandlerStep, Arrive, Enrich, Login, LoginRefused, Logout,
        VerifyRole, Recheck, PurgeStep, PurgeStart, PurgeVisit, PurgeEnd, Tick,
        Terminating, vars

(* A session disappears only when it has expired, by a logout, or with the   *)
(* process.                                                                  *)
THEOREM SessionsAreNotLost == Spec => SessionsLeaveForAReason
  <1>1. IInv /\ [Next]_vars =>
          \A t \in Stored : sessions'[t] = NoSession =>
            \/ ~IsValid(sessions[t])
            \/ t \in loggedOut'
            \/ restarted' # "no" /\ \A u \in Requests : sessions'[u] = NoSession
    <2>. SUFFICES ASSUME IInv, [Next]_vars, NEW t \in Stored,
                         sessions'[t] = NoSession, t \notin loggedOut',
                         ~(restarted' # "no" /\
                             \A u \in Requests : sessions'[u] = NoSession)
                  PROVE  ~IsValid(sessions[t])
      OBVIOUS
    <2>1. t \in Requests /\ sessions[t] # NoSession /\ sessions[t] = copy[t]
      BY DEF Stored, IInv, EntryOK
    <2>2. ~Store(t)
      BY <2>1, StepsOfOne DEF IInv, RequestOK, EntryOK, Step, HandlerStep
    <2>3. purger = "delete" /\ expired = t
      BY <2>1, <2>2, NextMovesEntries DEF EntryMoves
    <2>. QED  BY <2>1, <2>3 DEF IInv, PurgerOK
  <1>. QED  BY <1>1, IInvHolds, PTL DEF Spec, SessionsLeaveForAReason

(* A write that overlaps no other access is what it says.                    *)
LEMMA RacesAreNoted ==
  ASSUME IInv, [Next]_vars, ~raced'
  PROVE  /\ ~raced
         /\ \A r \in Requests : Store(r) => sessions'[r] = copy[r]
         /\ \A r \in Requests : Delete(r) => sessions'[req[r].token] = NoSession
         /\ loggedOut' = loggedOut \/ \E r \in Requests : Delete(r)
  <1>1. ~raced
    BY DEF Next, HandlerStep, Arrive, Enrich, Login, LoginRefused, Store, Logout,
       Delete, VerifyRole, Recheck, NoteRace, PurgeStep, PurgeStart, PurgeVisit,
       PurgeDelete, PurgeEnd, Tick, Crash, RuntimeAborts, Restart, Terminating,
       vars
  <1>2. ASSUME NEW r \in Requests, Store(r) PROVE sessions'[r] = copy[r]
    BY <1>2 DEF Store, Write, NoteRace, IInv, TypeOK
  <1>3. ASSUME NEW r \in Requests, Delete(r)
        PROVE  sessions'[req[r].token] = NoSession
    <2>1. req[r].token \in Requests
      BY <1>3 DEF Delete, IInv, RequestOK, LabelOK, TokenOK, Issued
    <2>. QED  BY <1>3, <2>1 DEF Delete, Write, NoteRace, IInv, TypeOK
  <1>4. loggedOut' = loggedOut \/ \E r \in Requests : Delete(r)
    BY DEF Next, HandlerStep, Arrive, Enrich, Login, LoginRefused, Store, Logout,
       VerifyRole, Recheck, PurgeStep, PurgeStart, PurgeVisit,
       PurgeDelete, PurgeEnd, Tick, Crash, RuntimeAborts, Restart, Terminating,
       vars, requestVars
  <1>. QED  BY <1>1, <1>2, <1>3, <1>4

(* Once logged out, a session does not come back, unless accesses overlap.   *)
THEOREM LogoutsAreFinal == Spec => []LogoutIsFinal
  <1>1. Init => LogoutIsFinal
    BY DEF Init, LogoutIsFinal
  <1>2. IInv /\ LogoutIsFinal /\ [Next]_vars => LogoutIsFinal'
    <2>. SUFFICES ASSUME IInv, LogoutIsFinal, [Next]_vars, ~raced',
                         NEW t \in loggedOut'
                  PROVE  sessions'[t] = NoSession
      BY DEF LogoutIsFinal
    <2>1. CASE t \in loggedOut
      <3>1. t \in Issued /\ sessions[t] = NoSession
        BY <2>1, RacesAreNoted DEF IInv, LogoutIsFinal
      <3>2. t \in Requests /\ ~Store(t)
        BY <3>1, StepsOfOne DEF IInv, RequestOK, Issued, Step, HandlerStep
      <3>. QED  BY <3>1, <3>2, NextMovesEntries DEF EntryMoves
    <2>2. CASE t \notin loggedOut
      <3>1. PICK r \in Requests : Delete(r)
        BY <2>2, RacesAreNoted
      <3>2. t = req[r].token
        BY <2>2, <3>1 DEF Delete
      <3>. QED  BY <3>1, <3>2, RacesAreNoted
    <2>. QED  BY <2>1, <2>2
  <1>. QED  BY <1>1, <1>2, IInvHolds, PTL DEF Spec

(* The clock, the logouts and the restarts do not go back.                   *)
LEMMA HistoryGrows ==
  ASSUME IInv, [Next]_vars
  PROVE  /\ now \in Nat /\ now' \in Nat /\ now <= now'
         /\ loggedOut \subseteq loggedOut'
         /\ restarted' = "no" => restarted = "no"
  BY DEF IInv, TypeOK, Next, HandlerStep, Arrive, Enrich, Login, LoginRefused,
     Store, Logout, Delete, VerifyRole, Recheck, PurgeStep, PurgeStart, PurgeVisit,
     PurgeDelete, PurgeEnd, Tick, Crash, RuntimeAborts, Restart, Terminating,
     vars, requestVars

(* The client is told of a token by the step that stores its session.        *)
LEMMA NewlyIssued ==
  ASSUME IInv, [Next]_vars, NEW t \in Issued', t \notin Issued
  PROVE  t \in Requests /\ Store(t)
  <1>1. t \in Requests /\ reply'[t] = "ok" /\ req'[t].kind = "login"
    BY DEF Issued
  <1>2. ~Quiet(t)
    BY <1>1 DEF Quiet, Issued
  <1>3. PICK r \in Requests : Step(r)
    BY <1>1, <1>2, OthersAreQuiet DEF IInv, Next, Step, Terminating
  <1>4. r = t
    BY <1>1, <1>2, <1>3, StepsAreLocal DEF IInv, Same, Quiet
  <1>. QED
    BY <1>1, <1>3, <1>4
    DEF IInv, TypeOK, RequestOK, LabelOK, Step, HandlerStep, Arrive, Enrich, Login,
        LoginRefused, Logout, Delete, VerifyRole, Recheck, Grant, Goto, Answer

(* A client that has a token can use it until it has expired or the client   *)
(* has logged out, unless the server restarts or accesses overlap.           *)
THEOREM TokensAreUsable == Spec => []LoginsAreUsable
  <1>1. Init => LoginsAreUsable
    BY DEF Init, LoginsAreUsable, Issued
  <1>2. IInv /\ IInv' /\ LoginsAreUsable /\ [Next]_vars => LoginsAreUsable'
    <2>. SUFFICES ASSUME IInv, IInv', LoginsAreUsable, [Next]_vars,
                         ~raced', restarted' = "no", NEW t \in Issued',
                         t \notin loggedOut', IsValid(copy[t])'
                  PROVE  sessions'[t] = copy'[t]
      BY DEF LoginsAreUsable
    <2>1. CASE t \in Issued
      <3>1. t \in Requests /\ copy[t] \in Session /\ copy'[t] = copy[t]
        <4>1. IssuedStay
          BY IssuedStays
        <4>. QED  BY <2>1, <4>1 DEF IssuedStay, IInv, RequestOK, Genuine, Issued
      <3>2. sessions[t] = copy[t]
        <4>1. ~raced /\ restarted = "no" /\ t \notin loggedOut /\ IsValid(copy[t])
          BY <3>1, RacesAreNoted, HistoryGrows DEF IsValid, Session, IInv, TypeOK
        <4>. QED  BY <2>1, <4>1 DEF LoginsAreUsable
      <3>3. ~Store(t)
        BY <2>1, <3>1, StepsOfOne DEF IInv, RequestOK, Step, HandlerStep
      <3>4. ~(purger = "delete" /\ expired = t)
        BY <3>1, HistoryGrows DEF IInv, PurgerOK, IsValid, Session, TypeOK
      <3>. QED  BY <3>1, <3>2, <3>3, <3>4, NextMovesEntries DEF EntryMoves
    <2>2. CASE t \notin Issued
      <3>1. t \in Requests /\ Store(t)
        BY <2>2, NewlyIssued
      <3>. QED  BY <3>1, RacesAreNoted DEF Store
    <2>. QED  BY <2>1, <2>2
  <1>. QED  BY <1>1, <1>2, IInvHolds, PTL DEF Spec
=============================================================================
