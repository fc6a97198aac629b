--------------------------- MODULE AccountsProofs ---------------------------
(***************************************************************************)
(* What Accounts guarantees for any number of requests, names and faults.    *)
(*                                                                           *)
(* The argument: a name, once given, a method, once added, and a session,    *)
(* once made, stay (Grows).  So what a handler has learnt from one query is  *)
(* still true when it comes to the next, whatever others have written in     *)
(* between, and what entitles it needs no transaction around its statements. *)
(***************************************************************************)
EXTENDS Accounts, TLAPS

(* The rows a handler has found say that u is whom the request names.        *)
Named(r, u) == name[u] = req[r].name

(* What the request shows is, or has been, a credential of u.                *)
Entitled(r, u) ==
    \/ req[r].kind = "cash" /\ u = Cash
    \/ req[r].kind = "register" /\ u = r
    \/ req[r].kind = "nfc" /\ <<u, "nfc", req[r].secret>> \in held
    \/ /\ req[r].kind = "none" /\ Named(r, u)
       /\ \E h \in held : h[1] = u /\ h[2] = "none"
    \/ /\ req[r].kind = "password" /\ Named(r, u)
       /\ <<u, "password", req[r].secret>> \in held

(* The account found by r is one whose credentials r may store.              *)
MayStore(r, u) ==
    \/ req[r].kind = "register" /\ u = r
    \/ /\ req[r].kind = "add"
       /\ session[req[r].token] = [user |-> u, backend |-> "password"]
    \/ req[r].kind = "reset" /\ u # Cash /\ Named(r, u)

(* Where a handler stands tells what it has found.                           *)
LabelOK(r) ==
    /\ pc[r] # "done" => reply[r] = "none" /\ session[r] = NoSession
    /\ pc[r] = "new" => found[r] = r
    /\ pc[r] \in {"new", "addUser"} => name[r] = NoName
    /\ pc[r] = "addUser" => req[r].kind = "register" /\ found[r] = r
    /\ pc[r] = "addAuth" => MayStore(r, found[r])
    /\ pc[r] = "user" => /\ req[r].kind = "nfc"
                         /\ <<found[r], "nfc", req[r].secret>> \in held
    /\ pc[r] = "auth" =>
          \/ req[r].kind \in {"password", "none"} /\ Named(r, found[r])
          \/ req[r].kind = "nfc" /\ <<found[r], "nfc", req[r].secret>> \in held
    /\ pc[r] = "session" => /\ Entitled(r, found[r])
                            /\ req[r].kind = "register" => auth[r]["password"] # NoData
    /\ pc[r] \in {"addAuth", "auth", "session"} => name[found[r]] # NoName

SessionOK(r) ==
    /\ session[r] # NoSession => /\ session[r].backend = Backend(r)
                                 /\ Entitled(r, session[r].user)
                                 /\ name[session[r].user] # NoName
    /\ r \in live => session[r] # NoSession

ReplyOK(r) ==
    req[r].kind = "register" =>
        /\ reply[r] = "ok" => name[r] = req[r].name /\ auth[r]["password"] # NoData
        /\ pc[r] \in {"addAuth", "session"} => name[r] = req[r].name
        /\ reply[r] = "refused" => /\ name[r] = NoName
                                   /\ \E i \in Ids \ {r} : name[i] = req[r].name

RequestOK(r) == LabelOK(r) /\ SessionOK(r) /\ ReplyOK(r)

(* How far initialize has come.                                              *)
WithoutCash == {"down", "items", "users", "cash user"}
WithoutAdmin == WithoutCash \cup {"auth", "admin user"}
WithPassword == {"password_reset", "transactions", "up"}

ServerOK ==
    /\ name[Cash] \in {NoName, CashName}
    /\ name[Admin] \in {NoName, AdminName}
    /\ server \notin WithoutCash => name[Cash] = CashName
    /\ server \notin WithoutAdmin => name[Admin] = AdminName
    /\ server \in {"log", "admin password"} => \A m \in Methods : auth[Admin][m] = NoData
    /\ server \in WithPassword => auth[Admin]["password"] # NoData

(* Requests are only served when both accounts are there.                    *)
ReservedOK ==
    \A r \in Requests : name[r] # NoName => name[Cash] = CashName /\ name[Admin] = AdminName

AdminOK ==
    /\ \A m \in Methods : auth[Admin][m] # NoData => auth[Admin]["password"] # NoData
    /\ (auth[Admin]["password"] # NoData /\ auth[Admin]["password"].by = Admin) =>
          auth[Admin]["password"].secret = logged

HeldOK ==
    /\ \A i \in Ids : \A m \in Methods :
          auth[i][m] # NoData => <<i, m, auth[i][m].secret>> \in held
    /\ \A h \in held : auth[h[1]][h[2]] # NoData
    /\ \A m \in Methods : auth[Cash][m] = NoData

IInv ==
    /\ TypeOK
    /\ \A r \in Requests : RequestOK(r)
    /\ ServerOK
    /\ ReservedOK
    /\ AdminOK
    /\ HeldOK
    /\ OnlyOwnCredentials

-----------------------------------------------------------------------------

LEMMA InitIInv == Init => IInv
  <1>. SUFFICES ASSUME Init PROVE IInv
    OBVIOUS
  <1>1. TypeOK
    BY WorkloadAssumption, FaultsAssumption DEF Init, TypeOK, Ids, Starting
  <1>2. ASSUME NEW r \in Requests PROVE RequestOK(r)
    BY DEF Init, RequestOK, LabelOK, SessionOK, ReplyOK, Ids
  <1>3. ServerOK /\ ReservedOK /\ AdminOK /\ HeldOK /\ OnlyOwnCredentials
    BY DEF Init, ServerOK, ReservedOK, AdminOK, HeldOK, OnlyOwnCredentials, Ids,
           WithoutCash, WithoutAdmin, WithPassword, Methods
  <1>. QED  BY <1>1, <1>2, <1>3 DEF IInv

-----------------------------------------------------------------------------
(* What a step does to the database.                                         *)

(* A row for i, with a name nobody has.                                      *)
NewName(i, n) ==
    /\ name[i] = NoName /\ ~Taken(n)
    /\ name' = [name EXCEPT ![i] = n]
    /\ UNCHANGED <<auth, held>>

NewCredential(i, m, d) ==
    /\ auth' = [auth EXCEPT ![i][m] = d]
    /\ held' = held \cup {<<i, m, d.secret>>}
    /\ UNCHANGED name

NoWrite == UNCHANGED <<name, auth, held>>

(* By initialize.                                                            *)
StartupWrite ==
    \/ NoWrite /\ ~(server' = "password_reset" /\ server = "admin password")
    \/ NewName(Cash, CashName) /\ server = "cash user" /\ server' = "auth"
    \/ NewName(Admin, AdminName) /\ server = "admin user" /\ server' = "admin auth"
    \/ /\ server = "admin password" /\ server' = "password_reset"
       /\ IF auth[Admin]["password"] = NoData
          THEN NewCredential(Admin, "password", [secret |-> logged, by |-> Admin])
          ELSE NoWrite

(* By the handler of r.                                                      *)
HandlerWrite(r) ==
    \/ NoWrite
    \/ NewName(r, req[r].name) /\ pc[r] = "addUser"
    \/ /\ NewCredential(found[r], AuthType(r), [secret |-> req[r].secret, by |-> r])
       /\ pc[r] = "addAuth"

LEMMA StartupWrites ==
  ASSUME Startup
  PROVE  /\ StartupWrite
         /\ UNCHANGED <<live, session, pc, found, reply, req, faults>>
         /\ ~LogAdminPassword => UNCHANGED logged
  BY DEF Startup, Start, VerifyTablesExist, VerifyTableExists, Initialize,
         VerifyCashUserExists, InsertAdmin, InsertUserIfNew, InsertUser,
         QueryAdminAuth, LogAdminPassword, InsertAdminAuth, InsertAuth,
         StartupWrite, NewName, NewCredential, NoWrite, database, store, handlers

(* What is r's own, seen by the others.                                      *)
Same(q) ==
    /\ pc'[q] = pc[q]
    /\ found'[q] = found[q]
    /\ reply'[q] = reply[q]
    /\ session'[q] = session[q]
    /\ q \in live' => q \in live

LEMMA HandlerWrites ==
  ASSUME TypeOK, NEW r \in Requests, Handle(r), LabelOK(r)
  PROVE  /\ HandlerWrite(r)
         /\ server = "up" /\ UNCHANGED <<server, logged, req>>
         /\ pc[r] # "done" /\ pc'[r] # pc[r]
         /\ \A q \in Requests \ {r} : Same(q)
  <1>. USE DEF TypeOK, At, Goto, Answer, database, process, store, Same, NoWrite,
             HandlerWrite
  <1>1. CASE CheckName(r) \/ AddAuthMethod(r)
    BY <1>1 DEF CheckName, AddAuthMethod
  <1>2. CASE AddUser(r)
    BY <1>2 DEF AddUser, InsertUser, NewName, LabelOK
  <1>3. CASE FindUserToReset(r) \/ GetUserForUsername(r) \/ GetUserForNFCToken(r)
    BY <1>3 DEF FindUserToReset, GetUserForUsername, GetUserForNFCToken
  <1>4. CASE AddAuthentication(r)
    BY <1>4 DEF AddAuthentication, Upsert, InsertAuth, NewCredential
  <1>5. CASE GetTaggedUser(r) \/ GetAuthForUser(r) \/ GetCashUser(r)
    BY <1>5 DEF GetTaggedUser, GetAuthForUser, GetCashUser
  <1>6. CASE CreateSession(r)
    BY <1>6 DEF CreateSession
  <1>. QED  BY <1>1, <1>2, <1>3, <1>4, <1>5, <1>6 DEF Handle

-----------------------------------------------------------------------------
(* Types.                                                                    *)

LEMMA RequestFields ==
  ASSUME TypeOK, NEW r \in Requests
  PROVE  /\ req[r].kind \in Logins \cup {"register", "add", "reset"}
         /\ req[r].name \in Names
         /\ req[r].secret \in Secrets \cup Nat
         /\ req[r].method \in Methods
         /\ req[r].token \in Requests
         /\ AuthType(r) \in Methods
         /\ [secret |-> req[r].secret, by |-> r] \in Data
         /\ r \in Ids /\ found[r] \in Ids
  BY DEF TypeOK, Payload, AuthType, Data, Methods, Ids

LEMMA NewNameTypes ==
  ASSUME TypeOK, NEW i \in Ids, NEW n \in Names, NewName(i, n)
  PROVE  /\ name' \in [Ids -> Names \cup {NoName}]
         /\ auth' \in [Ids -> [Methods -> Data \cup {NoData}]]
         /\ held' \subseteq Ids \X Methods \X (Secrets \cup Nat)
  BY DEF TypeOK, NewName

LEMMA NewCredentialTypes ==
  ASSUME TypeOK, NEW i \in Ids, NEW m \in Methods, NEW d \in Data,
         NewCredential(i, m, d)
  PROVE  /\ name' \in [Ids -> Names \cup {NoName}]
         /\ auth' \in [Ids -> [Methods -> Data \cup {NoData}]]
         /\ held' \subseteq Ids \X Methods \X (Secrets \cup Nat)
         /\ auth'[i][m] = d
         /\ \A j \in Ids : \A l \in Methods :
               (j # i \/ l # m) => auth'[j][l] = auth[j][l]
  <1>1. d.secret \in Secrets \cup Nat
    BY DEF Data
  <1>2. held' \subseteq Ids \X Methods \X (Secrets \cup Nat)
    BY <1>1 DEF TypeOK, NewCredential
  <1>. QED  BY <1>2 DEF TypeOK, NewCredential

LEMMA AdminPassword ==
  ASSUME TypeOK
  PROVE  /\ [secret |-> logged, by |-> Admin] \in Data
         /\ Admin \in Ids /\ Cash \in Ids /\ "password" \in Methods
  BY DEF TypeOK, Data, Ids, Methods

LEMMA DatabaseTypes ==
  ASSUME TypeOK,
         StartupWrite \/ NoWrite \/ \E r \in Requests : HandlerWrite(r)
  PROVE  /\ name' \in [Ids -> Names \cup {NoName}]
         /\ auth' \in [Ids -> [Methods -> Data \cup {NoData}]]
         /\ held' \subseteq Ids \X Methods \X (Secrets \cup Nat)
  <1>1. CASE NoWrite
    BY <1>1 DEF NoWrite, TypeOK
  <1>2. CASE StartupWrite
    BY <1>1, <1>2, AdminPassword, NewNameTypes, NewCredentialTypes, NamesAssumption
       DEF StartupWrite
  <1>3. ASSUME NEW r \in Requests, HandlerWrite(r)
        PROVE  /\ name' \in [Ids -> Names \cup {NoName}]
               /\ auth' \in [Ids -> [Methods -> Data \cup {NoData}]]
               /\ held' \subseteq Ids \X Methods \X (Secrets \cup Nat)
    BY <1>1, <1>3, RequestFields, NewNameTypes, NewCredentialTypes DEF HandlerWrite
  <1>. QED  BY <1>1, <1>2, <1>3

(* The types of all that is not in the database.                             *)
MemoryOK ==
    /\ tables \subseteq {"items", "users", "auth", "password_reset", "transactions"}
    /\ server \in Starting \cup {"up", "down"}
    /\ logged \in Nat
    /\ live \subseteq Requests
    /\ session \in [Requests -> Session \cup {NoSession}]
    /\ req \in [Requests -> Payload]
    /\ pc \in [Requests -> {"new", "addUser", "addAuth", "user", "auth",
                            "session", "done"}]
    /\ found \in [Requests -> Ids]
    /\ reply \in [Requests -> {"none", "ok", "refused", "error", "lost"}]
    /\ faults \in 0 .. MaxFaults

LEMMA CountTypes ==
  ASSUME TypeOK, Works \/ Fault
  PROVE  faults' \in 0 .. MaxFaults
  BY FaultsAssumption DEF TypeOK, Works, Fault

LEMMA StartupMemory ==
  ASSUME TypeOK, Startup
  PROVE  MemoryOK'
  <1>. USE FaultsAssumption DEF TypeOK, MemoryOK, Initialize, database, store, handlers
  <1>1. CASE Start
    BY <1>1 DEF Start, Starting
  <1>2. CASE VerifyTablesExist
    BY <1>2 DEF VerifyTablesExist, VerifyTableExists, Starting
  <1>3. CASE VerifyCashUserExists \/ InsertAdmin
    BY <1>3 DEF VerifyCashUserExists, InsertAdmin, InsertUserIfNew, InsertUser, Starting
  <1>4. CASE QueryAdminAuth
    BY <1>4 DEF QueryAdminAuth, Starting
  <1>4a. CASE LogAdminPassword
    <2>1. faults + 1 \in Nat
      OBVIOUS
    <2>. QED  BY <1>4a, <2>1 DEF LogAdminPassword, Starting
  <1>5. CASE InsertAdminAuth
    BY <1>5 DEF InsertAdminAuth, InsertAuth, Starting
  <1>. QED  BY <1>1, <1>2, <1>3, <1>4, <1>4a, <1>5 DEF Startup

LEMMA HandlerMemory ==
  ASSUME TypeOK, NEW r \in Requests, Handle(r), LabelOK(r),
         \A q \in Requests : SessionOK(q)
  PROVE  MemoryOK'
  <1>0. Works \/ Fault
    BY DEF Handle, CheckName, AddUser, AddAuthMethod, FindUserToReset,
           AddAuthentication, GetUserForUsername, GetUserForNFCToken,
           GetTaggedUser, GetAuthForUser, GetCashUser, CreateSession, Works
  <1>a. faults' \in 0 .. MaxFaults
    BY <1>0, CountTypes
  <1>. USE <1>a DEF TypeOK, MemoryOK, database, process, store, At, Goto, Answer
  <1>1. CASE CheckName(r)
    BY <1>1 DEF CheckName
  <1>2. CASE AddUser(r)
    BY <1>2 DEF AddUser, InsertUser
  <1>3. CASE AddAuthMethod(r)
    <2>1. req[r].token \in live => session[req[r].token].user \in Ids
      BY <1>3, RequestFields DEF AddAuthMethod, SessionOK, Session
    <2>. QED  BY <1>3, <2>1 DEF AddAuthMethod
  <1>4. CASE FindUserToReset(r)
    <2>1. found' \in [Requests -> Ids]
      BY <1>4 DEF FindUserToReset
    <2>2. \/ Goto(r, "addAuth") \/ Answer(r, "refused")
      BY <1>4 DEF FindUserToReset
    <2>. QED  BY <1>4, <2>1, <2>2 DEF FindUserToReset
  <1>5. CASE AddAuthentication(r)
    <2>1. tables' = tables
      BY <1>5 DEF AddAuthentication, Upsert, InsertAuth
    <2>2. \/ Goto(r, "session") \/ Answer(r, "ok") \/ Answer(r, "refused")
          \/ Answer(r, "error")
      BY <1>5 DEF AddAuthentication
    <2>3. UNCHANGED <<process, store, found, req>>
      BY <1>5 DEF AddAuthentication
    <2>. QED  BY <2>1, <2>2, <2>3
  <1>6. CASE GetUserForUsername(r) \/ GetUserForNFCToken(r)
    <2>1. found' \in [Requests -> Ids]
      BY <1>6 DEF GetUserForUsername, GetUserForNFCToken
    <2>2. \/ Goto(r, "auth") \/ Goto(r, "user") \/ Answer(r, "refused")
      BY <1>6 DEF GetUserForUsername, GetUserForNFCToken
    <2>3. UNCHANGED <<database, process, store, req>>
      BY <1>6 DEF GetUserForUsername, GetUserForNFCToken
    <2>. QED  BY <2>1, <2>2, <2>3
  <1>7. CASE GetTaggedUser(r)
    BY <1>7 DEF GetTaggedUser
  <1>8. CASE GetAuthForUser(r)
    BY <1>8 DEF GetAuthForUser
  <1>9. CASE GetCashUser(r)
    BY <1>9 DEF GetCashUser, Ids
  <1>10. CASE CreateSession(r)
    <2>1. [user |-> found[r], backend |-> Backend(r)] \in Session
      BY <1>10, RequestFields DEF CreateSession, LabelOK, Entitled, Backend, Session,
         Logins, Methods
    <2>. QED  BY <1>10, <2>1 DEF CreateSession
  <1>. QED  BY <1>1, <1>2, <1>3, <1>4, <1>5, <1>6, <1>7, <1>8, <1>9, <1>10 DEF Handle

LEMMA TypeStep ==
  ASSUME IInv, [Next]_vars
  PROVE  TypeOK'
  <1>. USE DEF IInv
  <1>1. CASE Startup
    BY <1>1, StartupWrites, StartupMemory, DatabaseTypes DEF TypeOK, MemoryOK
  <1>2. ASSUME NEW r \in Requests, Handle(r)
        PROVE  TypeOK'
    BY <1>2, HandlerWrites, HandlerMemory, DatabaseTypes DEF RequestOK, TypeOK, MemoryOK
  <1>3. ASSUME NEW r \in Requests, EndSession(r)
        PROVE  TypeOK'
    BY <1>3 DEF EndSession, TypeOK, database, process, handlers
  <1>4. CASE Crash
    BY <1>4, FaultsAssumption DEF Crash, Fault, TypeOK, database
  <1>5. CASE UNCHANGED vars
    BY <1>5 DEF vars, TypeOK, database, process, store, handlers
  <1>. QED  BY <1>1, <1>2, <1>3, <1>4, <1>5 DEF Next, Terminating

-----------------------------------------------------------------------------
(* What is there stays there.                                                *)

Grows ==
    /\ \A i \in Ids : name[i] # NoName => name'[i] = name[i]
    /\ \A i \in Ids : \A m \in Methods : auth[i][m] # NoData => auth'[i][m] # NoData
    /\ held \subseteq held'
    /\ \A t \in Requests : session[t] # NoSession => session'[t] = session[t]
    /\ req' = req

LEMMA DatabaseGrows ==
  ASSUME TypeOK,
         StartupWrite \/ NoWrite \/ \E r \in Requests : HandlerWrite(r)
  PROVE  /\ \A i \in Ids : name[i] # NoName => name'[i] = name[i]
         /\ \A i \in Ids : \A m \in Methods :
               auth[i][m] # NoData => auth'[i][m] # NoData
         /\ held \subseteq held'
  <1>1. ASSUME NEW i \in Ids, NEW n \in Names, NewName(i, n)
        PROVE  /\ \A j \in Ids : name[j] # NoName => name'[j] = name[j]
               /\ auth' = auth /\ held' = held
    BY <1>1 DEF NewName, TypeOK
  <1>2. ASSUME NEW i \in Ids, NEW m \in Methods, NEW d \in Data, NewCredential(i, m, d)
        PROVE  /\ \A j \in Ids : \A l \in Methods :
                     auth[j][l] # NoData => auth'[j][l] # NoData
               /\ name' = name /\ held \subseteq held'
    <2>1. d # NoData
      BY NoDataAssumption
    <2>2. /\ auth'[i][m] = d
          /\ \A j \in Ids : \A l \in Methods :
                (j # i \/ l # m) => auth'[j][l] = auth[j][l]
      BY <1>2, NewCredentialTypes
    <2>. QED  BY <1>2, <2>1, <2>2 DEF NewCredential
  <1>3. CASE NoWrite
    BY <1>3 DEF NoWrite
  <1>4. CASE StartupWrite
    BY <1>1, <1>2, <1>3, <1>4, AdminPassword, NamesAssumption DEF StartupWrite
  <1>5. ASSUME NEW r \in Requests, HandlerWrite(r)
        PROVE  /\ \A i \in Ids : name[i] # NoName => name'[i] = name[i]
               /\ \A i \in Ids : \A m \in Methods :
                     auth[i][m] # NoData => auth'[i][m] # NoData
               /\ held \subseteq held'
    BY <1>1, <1>2, <1>3, <1>5, RequestFields DEF HandlerWrite
  <1>. QED  BY <1>3, <1>4, <1>5

LEMMA StepGrows ==
  ASSUME IInv, [Next]_vars
  PROVE  Grows
  <1>. USE DEF IInv, Grows
  <1>1. CASE Startup
    BY <1>1, StartupWrites, DatabaseGrows
  <1>2. ASSUME NEW r \in Requests, Handle(r)
        PROVE  Grows
    <2>1. HandlerWrite(r) /\ pc[r] # "done" /\ req' = req /\ \A q \in Requests \ {r} : Same(q)
      BY <1>2, HandlerWrites DEF RequestOK
    <2>2. session[r] = NoSession
      BY <2>1 DEF RequestOK, LabelOK
    <2>. QED  BY <2>1, <2>2, DatabaseGrows DEF Same
  <1>3. ASSUME NEW r \in Requests, EndSession(r)
        PROVE  Grows
    BY <1>3 DEF EndSession, database
  <1>4. CASE Crash
    BY <1>4 DEF Crash, database
  <1>5. CASE UNCHANGED vars
    BY <1>5 DEF vars, database, store
  <1>. QED  BY <1>1, <1>2, <1>3, <1>4, <1>5 DEF Next, Terminating

LEMMA EntitledStays ==
  ASSUME TypeOK, Grows, NEW r \in Requests, NEW u \in Ids, Entitled(r, u)
  PROVE  Entitled(r, u)'
  <1>1. Named(r, u) => Named(r, u)'
    BY RequestFields, NamesAssumption DEF Named, Grows
  <1>. QED  BY <1>1 DEF Entitled, Grows

LEMMA MayStoreStays ==
  ASSUME TypeOK, Grows, NEW r \in Requests, NEW u \in Ids, MayStore(r, u)
  PROVE  MayStore(r, u)'
  <1>1. Named(r, u) => Named(r, u)'
    BY RequestFields, NamesAssumption DEF Named, Grows
  <1>2. req[r].kind = "add" =>
           session[req[r].token] # NoSession /\ req[r].token \in Requests
    <2>1. [user |-> u, backend |-> "password"] \in Session
      BY DEF Session, Logins, Methods
    <2>. QED  BY <2>1, RequestFields, NoDataAssumption DEF MayStore
  <1>. QED  BY <1>1, <1>2 DEF MayStore, Grows

-----------------------------------------------------------------------------
(* What is kept about a request.                                             *)

(* By a request that does nothing.                                           *)
LEMMA OtherRequestKept ==
  ASSUME TypeOK, Grows, NEW q \in Requests, RequestOK(q), Same(q), name'[q] = name[q]
  PROVE  RequestOK(q)'
  <1>. USE DEF RequestOK, Same
  <1>f. /\ found[q] \in Ids /\ q \in Ids /\ req[q].name \in Names /\ req' = req
        /\ "password" \in Methods /\ "nfc" \in Methods
    BY RequestFields DEF Grows, Methods
  <1>1. Named(q, found[q]) => Named(q, found[q])'
    BY <1>f, NamesAssumption DEF Named, Grows
  <1>2. LabelOK(q)'
    BY <1>f, <1>1, EntitledStays, MayStoreStays DEF LabelOK, Grows, Entitled, MayStore
  <1>3. SessionOK(q)'
    <2>1. session[q] # NoSession => session[q].user \in Ids
      BY DEF TypeOK, Session
    <2>. QED  BY <2>1, EntitledStays DEF SessionOK, Grows, Entitled, Backend
  <1>4. ReplyOK(q)'
    BY <1>f, NamesAssumption DEF ReplyOK, Grows
  <1>. QED  BY <1>2, <1>3, <1>4

(* By a request that is cut off.                                             *)
LEMMA CrashedRequestKept ==
  ASSUME TypeOK, Crash, NEW q \in Requests, RequestOK(q)
  PROVE  RequestOK(q)'
  <1>. USE DEF RequestOK, Crash, database, TypeOK
  <1>1. LabelOK(q)'
    BY DEF LabelOK
  <1>2. SessionOK(q)'
    BY DEF SessionOK, Entitled, Backend, Named
  <1>3. ReplyOK(q)'
    BY DEF ReplyOK
  <1>. QED  BY <1>1, <1>2, <1>3

(* By the request that takes the step.                                       *)
LEMMA OwnRequestKept ==
  ASSUME IInv, Grows, NEW r \in Requests, Handle(r)
  PROVE  RequestOK(r)'
  <1>. USE DEF IInv, TypeOK, At, Goto, Answer, database, process, store
  <1>f. /\ found[r] \in Ids /\ r \in Ids /\ req[r].name \in Names /\ req' = req
        /\ "password" \in Methods /\ "nfc" \in Methods
    BY RequestFields DEF Grows, Methods
  <1>k. RequestOK(r) /\ pc[r] # "done" /\ session[r] = NoSession /\ r \notin live
    BY HandlerWrites DEF RequestOK, LabelOK, SessionOK
  <1>n. ASSUME NEW u \in Ids, Named(r, u) PROVE name[u] # NoName
    BY <1>n, <1>f, NamesAssumption DEF Named
  <1>1. CASE CheckName(r)
    <2>1. LabelOK(r)' /\ SessionOK(r)'
      BY <1>1, <1>k DEF CheckName, RequestOK, LabelOK, SessionOK
    <2>2. ReplyOK(r)'
      BY <1>1, <1>f, <1>k, NamesAssumption
         DEF CheckName, RequestOK, LabelOK, ReplyOK, Taken
    <2>. QED  BY <2>1, <2>2 DEF RequestOK
  <1>2. CASE AddUser(r)
    <2>1. LabelOK(r)' /\ SessionOK(r)'
      BY <1>2, <1>f, <1>k, NamesAssumption
         DEF AddUser, InsertUser, RequestOK, LabelOK, SessionOK, MayStore
    <2>2. ReplyOK(r)'
      BY <1>2, <1>f, <1>k DEF AddUser, InsertUser, RequestOK, LabelOK, ReplyOK
    <2>. QED  BY <2>1, <2>2 DEF RequestOK
  <1>3. CASE AddAuthMethod(r)
    <2>1. CASE req[r].token \in live /\ session[req[r].token].backend = "password"
      <3>1. req[r].token \in Requests /\ SessionOK(req[r].token)
            /\ session[req[r].token] # NoSession
        BY <2>1, RequestFields DEF RequestOK, SessionOK
      <3>2. PICK u \in Ids : session[req[r].token] = [user |-> u, backend |-> "password"]
        BY <2>1, <3>1 DEF Session
      <3>3. found'[r] = u /\ pc'[r] = "addAuth" /\ reply' = reply
        BY <1>3, <2>1, <3>2 DEF AddAuthMethod
      <3>4. name[u] # NoName
        BY <3>1, <3>2 DEF SessionOK
      <3>5. MayStore(r, found[r])'
        BY <1>3, <3>2, <3>3 DEF AddAuthMethod, MayStore
      <3>. QED  BY <1>3, <1>k, <3>3, <3>4, <3>5
                DEF AddAuthMethod, RequestOK, LabelOK, SessionOK, ReplyOK
    <2>2. CASE ~(req[r].token \in live /\ session[req[r].token].backend = "password")
      BY <1>3, <1>k, <2>2 DEF AddAuthMethod, RequestOK, LabelOK, SessionOK, ReplyOK
    <2>. QED  BY <2>1, <2>2
  <1>4. CASE FindUserToReset(r)
    <2>1. CASE pc'[r] = "addAuth"
      <3>1. found'[r] \in Ids \ {Cash} /\ Named(r, found'[r]) /\ reply' = reply
        BY <1>4, <2>1 DEF FindUserToReset, Named
      <3>2. MayStore(r, found[r])'
        BY <1>4, <3>1 DEF FindUserToReset, MayStore, Named
      <3>. QED  BY <1>4, <1>k, <1>n, <2>1, <3>1, <3>2
                DEF FindUserToReset, RequestOK, LabelOK, SessionOK, ReplyOK
    <2>2. CASE pc'[r] # "addAuth"
      <3>1. Answer(r, "refused")
        BY <1>4, <2>2 DEF FindUserToReset
      <3>. QED  BY <1>4, <1>k, <3>1
                DEF FindUserToReset, RequestOK, LabelOK, SessionOK, ReplyOK
    <2>. QED  BY <2>1, <2>2
  <1>5. CASE AddAuthentication(r)
    <2>1. CASE Goto(r, "session")
      <3>1. Upsert(r) /\ req[r].kind = "register"
        BY <1>5, <1>k, <2>1 DEF AddAuthentication
      <3>2. MayStore(r, found[r]) /\ found[r] = r
        BY <1>5, <1>k, <3>1 DEF AddAuthentication, RequestOK, LabelOK, MayStore
      <3>3. [secret |-> req[r].secret, by |-> r] \in Data
        BY RequestFields
      <3>4. auth'[r]["password"] # NoData /\ name' = name
        BY <1>f, <3>1, <3>2, <3>3, NoDataAssumption DEF Upsert, InsertAuth, AuthType
      <3>. QED  BY <1>5, <1>f, <1>k, <2>1, <3>1, <3>2, <3>4
                DEF AddAuthentication, RequestOK, LabelOK, SessionOK, ReplyOK, Entitled
    <2>2. CASE ~Goto(r, "session")
      <3>1. pc'[r] = "done" /\ (req[r].kind = "register" => reply'[r] = "error")
        BY <1>5, <2>2 DEF AddAuthentication
      <3>. QED  BY <1>5, <1>f, <1>k, <3>1
                DEF AddAuthentication, RequestOK, LabelOK, SessionOK, ReplyOK
    <2>. QED  BY <2>1, <2>2
  <1>6. CASE GetUserForUsername(r)
    <2>1. CASE pc'[r] = "auth"
      <3>1. found'[r] \in Ids /\ Named(r, found'[r]) /\ reply' = reply
        BY <1>6, <2>1 DEF GetUserForUsername, Named
      <3>. QED  BY <1>6, <1>k, <1>n, <2>1, <3>1
                DEF GetUserForUsername, RequestOK, LabelOK, SessionOK, ReplyOK, Named
    <2>2. CASE pc'[r] # "auth"
      <3>1. Answer(r, "refused")
        BY <1>6, <2>2 DEF GetUserForUsername
      <3>. QED  BY <1>6, <1>k, <3>1
                DEF GetUserForUsername, RequestOK, LabelOK, SessionOK, ReplyOK
    <2>. QED  BY <2>1, <2>2
  <1>7. CASE GetUserForNFCToken(r)
    <2>1. CASE pc'[r] = "user"
      <3>1. found'[r] \in Ids /\ Tagged(found'[r], req[r].secret) /\ reply' = reply
        BY <1>7, <2>1 DEF GetUserForNFCToken, Tagged
      <3>2. <<found'[r], "nfc", req[r].secret>> \in held
        BY <1>f, <3>1 DEF Tagged, HeldOK
      <3>. QED  BY <1>7, <1>k, <2>1, <3>1, <3>2
                DEF GetUserForNFCToken, RequestOK, LabelOK, SessionOK, ReplyOK
    <2>2. CASE pc'[r] # "user"
      <3>1. Answer(r, "refused")
        BY <1>7, <2>2 DEF GetUserForNFCToken
      <3>. QED  BY <1>7, <1>k, <3>1
                DEF GetUserForNFCToken, RequestOK, LabelOK, SessionOK, ReplyOK
    <2>. QED  BY <2>1, <2>2
  <1>8. CASE GetTaggedUser(r)
    BY <1>8, <1>f, <1>k DEF GetTaggedUser, RequestOK, LabelOK, SessionOK, ReplyOK
  <1>9. CASE GetAuthForUser(r)
    <2>1. CASE pc'[r] = "session"
      <3>1. /\ auth[found[r]][req[r].kind] # NoData /\ reply' = reply
            /\ req[r].kind = "password" =>
                  auth[found[r]]["password"].secret = req[r].secret
        BY <1>9, <2>1 DEF GetAuthForUser
      <3>2. Entitled(r, found[r])
        <4>1. \/ req[r].kind \in {"password", "none"} /\ Named(r, found[r])
              \/ req[r].kind = "nfc" /\ <<found[r], "nfc", req[r].secret>> \in held
          BY <1>9, <1>k DEF GetAuthForUser, RequestOK, LabelOK
        <4>2. <<found[r], req[r].kind, auth[found[r]][req[r].kind].secret>> \in held
          BY <1>f, <3>1, <4>1 DEF HeldOK, Methods
        <4>3. CASE req[r].kind = "none"
          BY <4>1, <4>2, <4>3 DEF Entitled
        <4>4. CASE req[r].kind # "none"
          BY <3>1, <4>1, <4>2, <4>4 DEF Entitled
        <4>. QED  BY <4>3, <4>4
      <3>3. req[r].kind # "register"
        BY <1>9, <1>k DEF GetAuthForUser, RequestOK, LabelOK
      <3>. QED  BY <1>9, <1>k, <2>1, <3>1, <3>2, <3>3
                DEF GetAuthForUser, RequestOK, LabelOK, SessionOK, ReplyOK, Entitled, Named
    <2>2. CASE pc'[r] # "session"
      <3>1. pc'[r] = "done" /\ req[r].kind # "register"
        BY <1>9, <1>k, <2>2 DEF GetAuthForUser, RequestOK, LabelOK
      <3>. QED  BY <1>9, <1>k, <3>1
                DEF GetAuthForUser, RequestOK, LabelOK, SessionOK, ReplyOK
    <2>. QED  BY <2>1, <2>2
  <1>10. CASE GetCashUser(r)
    BY <1>10, <1>k DEF GetCashUser, RequestOK, LabelOK, SessionOK, ReplyOK, Entitled
  <1>11. CASE CreateSession(r)
    <2>1. session'[r] = [user |-> found[r], backend |-> Backend(r)]
      BY <1>11 DEF CreateSession
    <2>2. Entitled(r, found[r])' /\ Backend(r)' = Backend(r)
      BY <1>11, <1>f, <1>k, EntitledStays
         DEF CreateSession, RequestOK, LabelOK, Backend
    <2>3. session'[r] # NoSession
      <3>1. [user |-> found[r], backend |-> Backend(r)] \in Session
        BY <1>11, <1>k, RequestFields
           DEF CreateSession, RequestOK, LabelOK, Entitled, Backend, Session, Logins,
               Methods
      <3>. QED  BY <2>1, <3>1, NoDataAssumption
    <2>4. SessionOK(r)'
      BY <1>11, <1>k, <2>1, <2>2, <2>3
         DEF CreateSession, RequestOK, LabelOK, SessionOK, Entitled, Named
    <2>5. LabelOK(r)' /\ ReplyOK(r)'
      BY <1>11, <1>k, <2>3 DEF CreateSession, RequestOK, LabelOK, ReplyOK
    <2>. QED  BY <2>4, <2>5 DEF RequestOK
  <1>. QED  BY <1>1, <1>2, <1>3, <1>4, <1>5, <1>6, <1>7, <1>8, <1>9, <1>10, <1>11
            DEF Handle

LEMMA RequestsKept ==
  ASSUME IInv, [Next]_vars, NEW q \in Requests
  PROVE  RequestOK(q)'
  <1>. USE DEF IInv
  <1>g. Grows
    BY StepGrows
  <1>1. CASE Startup
    <2>1. Same(q) /\ name'[q] = name[q]
      BY <1>1, StartupWrites, AdminPassword, RequestFields, IdsAssumption
         DEF StartupWrite, NewName, NewCredential, NoWrite, Same, TypeOK
    <2>. QED  BY <1>g, <2>1, OtherRequestKept
  <1>2. ASSUME NEW r \in Requests, Handle(r)
        PROVE  RequestOK(q)'
    <2>1. CASE q = r
      BY <1>2, <1>g, <2>1, OwnRequestKept
    <2>2. CASE q # r
      <3>1. Same(q) /\ HandlerWrite(r)
        BY <1>2, <2>2, HandlerWrites DEF RequestOK
      <3>2. name'[q] = name[q]
        BY <2>2, <3>1, RequestFields
           DEF HandlerWrite, NewName, NewCredential, NoWrite, TypeOK
      <3>. QED  BY <1>g, <3>1, <3>2, OtherRequestKept
    <2>. QED  BY <2>1, <2>2
  <1>3. ASSUME NEW r \in Requests, EndSession(r)
        PROVE  RequestOK(q)'
    <2>1. Same(q) /\ name'[q] = name[q]
      BY <1>3 DEF EndSession, Same, database, handlers
    <2>. QED  BY <1>g, <2>1, OtherRequestKept
  <1>4. CASE Crash
    BY <1>4, CrashedRequestKept
  <1>5. CASE UNCHANGED vars
    <2>1. Same(q) /\ name'[q] = name[q]
      BY <1>5 DEF vars, Same, database, store, handlers
    <2>. QED  BY <1>g, <2>1, OtherRequestKept
  <1>. QED  BY <1>1, <1>2, <1>3, <1>4, <1>5 DEF Next, Terminating

-----------------------------------------------------------------------------
(* What is kept about the server and the tables.                             *)

(* A name initialize needs is free until initialize has taken it.            *)
LEMMA ReservedNamesAreFree ==
  ASSUME TypeOK, ServerOK, ReservedOK
  PROVE  /\ name[Cash] = NoName => ~Taken(CashName)
         /\ name[Admin] = NoName => ~Taken(AdminName)
  BY NamesAssumption DEF ServerOK, ReservedOK, Taken, Ids

LEMMA AdminPasswordIsThere ==
  ASSUME TypeOK, InsertAdminAuth
  PROVE  auth'[Admin]["password"] # NoData
  <1>1. CASE auth[Admin]["password"] # NoData
    BY <1>1 DEF InsertAdminAuth, database
  <1>2. CASE auth[Admin]["password"] = NoData
    <2>1. NewCredential(Admin, "password", [secret |-> logged, by |-> Admin])
      BY <1>2 DEF InsertAdminAuth, InsertAuth, NewCredential
    <2>2. auth'[Admin]["password"] = [secret |-> logged, by |-> Admin]
      BY <2>1, AdminPassword, NewCredentialTypes
    <2>. QED  BY <2>2, AdminPassword, NoDataAssumption
  <1>. QED  BY <1>1, <1>2

LEMMA ServerKeptAtStart ==
  ASSUME IInv, Grows, Startup
  PROVE  ServerOK'
  <1>. USE AdminPassword, NamesAssumption, IdsAssumption
       DEF IInv, TypeOK, ServerOK, Grows, Initialize, WithoutCash, WithoutAdmin,
           WithPassword, database
  <1>1. CASE Start
    BY <1>1 DEF Start
  <1>2. CASE VerifyTablesExist
    BY <1>2 DEF VerifyTablesExist, VerifyTableExists
  <1>3. CASE VerifyCashUserExists
    BY <1>3, ReservedNamesAreFree DEF VerifyCashUserExists, InsertUserIfNew, InsertUser
  <1>4. CASE InsertAdmin
    BY <1>4, ReservedNamesAreFree DEF InsertAdmin, InsertUserIfNew, InsertUser
  <1>5. CASE QueryAdminAuth
    BY <1>5 DEF QueryAdminAuth, AdminOK
  <1>6. CASE LogAdminPassword
    BY <1>6 DEF LogAdminPassword
  <1>7. CASE InsertAdminAuth
    <2>1. name' = name /\ server = "admin password" /\ server' = "password_reset"
      BY <1>7 DEF InsertAdminAuth, InsertAuth
    <2>2. auth'[Admin]["password"] # NoData
      BY <1>7, AdminPasswordIsThere
    <2>. QED  BY <2>1, <2>2
  <1>. QED  BY <1>1, <1>2, <1>3, <1>4, <1>5, <1>6, <1>7 DEF Startup

LEMMA ServerKept ==
  ASSUME IInv, [Next]_vars, Grows
  PROVE  ServerOK'
  <1>. USE DEF IInv
  <1>1. CASE Startup
    BY <1>1, ServerKeptAtStart
  <1>2. ASSUME NEW r \in Requests, Handle(r)
        PROVE  ServerOK'
    <2>1. server = "up" /\ server' = server
      BY <1>2, HandlerWrites DEF RequestOK
    <2>. QED  BY <2>1, AdminPassword, NamesAssumption
              DEF ServerOK, Grows, WithoutCash, WithoutAdmin, WithPassword
  <1>3. ASSUME NEW r \in Requests, EndSession(r)
        PROVE  ServerOK'
    BY <1>3 DEF EndSession, database, process, ServerOK
  <1>4. CASE Crash
    BY <1>4 DEF Crash, database, ServerOK, WithoutCash, WithoutAdmin, WithPassword
  <1>5. CASE UNCHANGED vars
    BY <1>5 DEF vars, database, process, ServerOK
  <1>. QED  BY <1>1, <1>2, <1>3, <1>4, <1>5 DEF Next, Terminating

LEMMA ReservedKept ==
  ASSUME IInv, [Next]_vars, Grows
  PROVE  ReservedOK'
  <1>. USE DEF IInv
  <1>. SUFFICES ASSUME NEW q \in Requests, name'[q] # NoName
                PROVE  name'[Cash] = CashName /\ name'[Admin] = AdminName
    BY DEF ReservedOK
  <1>1. CASE name[q] # NoName
    BY <1>1, AdminPassword, NamesAssumption DEF ReservedOK, Grows
  <1>2. CASE name[q] = NoName
    <2>1. CASE Startup
      BY <1>2, <2>1, StartupWrites, AdminPassword, RequestFields, IdsAssumption
         DEF StartupWrite, NewName, NewCredential, NoWrite, TypeOK
    <2>2. ASSUME NEW r \in Requests, Handle(r)
          PROVE  name'[Cash] = CashName /\ name'[Admin] = AdminName
      <3>1. server = "up"
        BY <2>2, HandlerWrites DEF RequestOK
      <3>. QED  BY <3>1, AdminPassword, NamesAssumption
                DEF ServerOK, WithoutCash, WithoutAdmin, Grows
    <2>3. CASE (\E r \in Requests : EndSession(r)) \/ Crash \/ UNCHANGED vars
      BY <1>2, <2>3 DEF EndSession, Crash, vars, database
    <2>. QED  BY <2>1, <2>2, <2>3 DEF Next, Terminating
  <1>. QED  BY <1>1, <1>2

(* A handler that stores a credential has an account to store it for.        *)
LEMMA StoringIsAllowed ==
  ASSUME IInv, NEW r \in Requests, pc[r] = "addAuth"
  PROVE  /\ found[r] # Cash
         /\ name[found[r]] # NoName
         /\ found[r] = Admin => AuthType(r) = "password" \/ auth[Admin]["password"] # NoData
  <1>. USE DEF IInv
  <1>1. MayStore(r, found[r]) /\ name[found[r]] # NoName
    BY DEF RequestOK, LabelOK
  <1>2. CASE req[r].kind = "add"
    <2>1. req[r].token \in Requests /\ found[r] \in Ids
      BY RequestFields
    <2>2. session[req[r].token] = [user |-> found[r], backend |-> "password"]
      BY <1>1, <1>2 DEF MayStore
    <2>3. session[req[r].token] # NoSession
      <3>1. [user |-> found[r], backend |-> "password"] \in Session
        BY <2>1 DEF Session, Logins, Methods
      <3>. QED  BY <2>2, <3>1, NoDataAssumption
    <2>4. /\ Entitled(req[r].token, found[r])
          /\ Backend(req[r].token) = "password"
      BY <2>1, <2>2, <2>3 DEF RequestOK, SessionOK
    <2>5. \/ found[r] = req[r].token
          \/ <<found[r], "password", req[req[r].token].secret>> \in held
      BY <2>4 DEF Entitled, Backend
    <2>6. found[r] \in Requests \/ auth[found[r]]["password"] # NoData
      BY <2>1, <2>5 DEF HeldOK
    <2>. QED  BY <1>1, <2>6, AdminPassword, IdsAssumption DEF HeldOK
  <1>3. CASE req[r].kind # "add"
    BY <1>1, <1>3, IdsAssumption DEF MayStore, AuthType
  <1>. QED  BY <1>2, <1>3

(* The credentials a step may add.                                           *)
MayAdd(i, m, d) ==
    \/ /\ i = Admin /\ m = "password" /\ d = [secret |-> logged, by |-> Admin]
       /\ server = "admin password"
    \/ \E r \in Requests : /\ pc[r] = "addAuth" /\ i = found[r] /\ m = AuthType(r)
                           /\ d = [secret |-> req[r].secret, by |-> r]

LEMMA WhatIsAdded ==
  ASSUME IInv, [Next]_vars
  PROVE  \/ UNCHANGED <<auth, held>>
         \/ /\ logged' = logged
            /\ \E i \in Ids \ {Cash} : \E m \in Methods : \E d \in Data :
                  NewCredential(i, m, d) /\ MayAdd(i, m, d)
  <1>. USE DEF IInv
  <1>1. CASE Startup
    BY <1>1, StartupWrites, AdminPassword, IdsAssumption
       DEF StartupWrite, NewName, NoWrite, MayAdd, LogAdminPassword, Initialize
  <1>2. ASSUME NEW r \in Requests, Handle(r)
        PROVE  \/ UNCHANGED <<auth, held>>
               \/ /\ logged' = logged
                  /\ \E i \in Ids \ {Cash} : \E m \in Methods : \E d \in Data :
                        NewCredential(i, m, d) /\ MayAdd(i, m, d)
    <2>1. HandlerWrite(r) /\ logged' = logged
      BY <1>2, HandlerWrites DEF RequestOK
    <2>2. CASE NoWrite \/ NewName(r, req[r].name)
      BY <2>2 DEF NoWrite, NewName
    <2>3. CASE /\ pc[r] = "addAuth"
               /\ NewCredential(found[r], AuthType(r), [secret |-> req[r].secret, by |-> r])
      <3>1. MayAdd(found[r], AuthType(r), [secret |-> req[r].secret, by |-> r])
        BY <2>3 DEF MayAdd
      <3>. QED  BY <2>1, <2>3, <3>1, StoringIsAllowed, RequestFields
    <2>. QED  BY <2>1, <2>2, <2>3 DEF HandlerWrite
  <1>3. ASSUME NEW r \in Requests, EndSession(r)
        PROVE  UNCHANGED <<auth, held>>
    BY <1>3 DEF EndSession, database
  <1>4. CASE Crash
    BY <1>4 DEF Crash, database
  <1>5. CASE UNCHANGED vars
    BY <1>5 DEF vars, database
  <1>. QED  BY <1>1, <1>2, <1>3, <1>4, <1>5 DEF Next, Terminating

LEMMA HeldKept ==
  ASSUME IInv, [Next]_vars
  PROVE  HeldOK'
  <1>. USE DEF IInv
  <1>1. CASE UNCHANGED <<auth, held>>
    BY <1>1 DEF HeldOK
  <1>2. ASSUME NEW i \in Ids \ {Cash}, NEW m \in Methods, NEW d \in Data,
               NewCredential(i, m, d)
        PROVE  HeldOK'
    <2>a. i \in Ids /\ i # Cash /\ d # NoData
      BY NoDataAssumption
    <2>b. held' = held \cup {<<i, m, d.secret>>}
      BY <1>2 DEF NewCredential
    <2>c. /\ auth'[i][m] = d
          /\ \A j \in Ids : \A l \in Methods :
                (j # i \/ l # m) => auth'[j][l] = auth[j][l]
      BY <1>2, <2>a, NewCredentialTypes
    <2>1. /\ auth'[i][m] = d /\ d # NoData
          /\ \A j \in Ids : \A l \in Methods :
                (j # i \/ l # m) => auth'[j][l] = auth[j][l]
          /\ held' = held \cup {<<i, m, d.secret>>}
      BY <2>a, <2>b, <2>c
    <2>2. \A h \in held : h[1] \in Ids /\ h[2] \in Methods
      BY DEF TypeOK
    <2>3. \A h \in held' : auth'[h[1]][h[2]] # NoData
      BY <2>1, <2>2 DEF HeldOK
    <2>4. \A j \in Ids : \A l \in Methods :
             auth'[j][l] # NoData => <<j, l, auth'[j][l].secret>> \in held'
      BY <2>1 DEF HeldOK
    <2>5. \A l \in Methods : auth'[Cash][l] = NoData
      BY <2>1, AdminPassword DEF HeldOK
    <2>. QED  BY <2>3, <2>4, <2>5 DEF HeldOK
  <1>. QED  BY <1>1, <1>2, WhatIsAdded

LEMMA AdminKept ==
  ASSUME IInv, [Next]_vars
  PROVE  AdminOK'
  <1>. USE DEF IInv
  <1>1. CASE UNCHANGED <<auth, held>>
    <2>1. logged' = logged \/ server = "log"
      BY StartupWrites, HandlerWrites
         DEF Next, RequestOK, EndSession, process, Crash, Terminating, vars,
             LogAdminPassword, Initialize
    <2>. QED  BY <1>1, <2>1, AdminPassword DEF AdminOK, ServerOK
  <1>2. ASSUME logged' = logged,
               NEW i \in Ids \ {Cash}, NEW m \in Methods, NEW d \in Data,
               NewCredential(i, m, d), MayAdd(i, m, d)
        PROVE  AdminOK'
    <2>1. /\ auth'[i][m] = d /\ d # NoData
          /\ \A j \in Ids : \A l \in Methods :
                (j # i \/ l # m) => auth'[j][l] = auth[j][l]
      BY <1>2, NewCredentialTypes, NoDataAssumption
    <2>2. i = Admin => m = "password" \/ auth[Admin]["password"] # NoData
      BY <1>2, StoringIsAllowed DEF MayAdd
    <2>3. i = Admin /\ m = "password" /\ d.by = Admin => d.secret = logged
      <3>1. \A r \in Requests : r # Admin
        BY IdsAssumption
      <3>2. CASE d = [secret |-> logged, by |-> Admin]
        BY <3>2
      <3>3. CASE \E r \in Requests : d = [secret |-> req[r].secret, by |-> r]
        BY <3>1, <3>3
      <3>. QED  BY <1>2, <3>2, <3>3 DEF MayAdd
    <2>4. \A l \in Methods : auth'[Admin][l] # NoData => auth'[Admin]["password"] # NoData
      BY <2>1, <2>2, AdminPassword DEF AdminOK
    <2>5. (auth'[Admin]["password"] # NoData /\ auth'[Admin]["password"].by = Admin) =>
              auth'[Admin]["password"].secret = logged'
      BY <1>2, <2>1, <2>3, AdminPassword DEF AdminOK
    <2>. QED  BY <2>4, <2>5 DEF AdminOK
  <1>. QED  BY <1>1, <1>2, WhatIsAdded

LEMMA OwnStays ==
  ASSUME TypeOK, Grows, NEW i \in Ids, NEW m, NEW d, Own(i, m, d)
  PROVE  Own(i, m, d)'
  <1>1. CASE i = Admin /\ d.by = Admin /\ m = "password"
    BY <1>1 DEF Own
  <1>2. CASE d.by \in Requests
    <2>1. /\ req[d.by].token \in Requests
          /\ req[d.by].name \in Names
      BY <1>2, RequestFields
    <2>2. [user |-> i, backend |-> "password"] # NoSession
      <3>1. [user |-> i, backend |-> "password"] \in Session
        BY DEF Session, Logins, Methods
      <3>. QED  BY <3>1, NoDataAssumption
    <2>. QED  BY <1>2, <2>1, <2>2, NamesAssumption DEF Own, Grows
  <1>. QED  BY <1>1, <1>2 DEF Own

LEMMA CredentialsKept ==
  ASSUME IInv, [Next]_vars, Grows
  PROVE  OnlyOwnCredentials'
  <1>. USE DEF IInv
  <1>. SUFFICES ASSUME NEW i \in Ids, NEW m \in Methods,
                       NEW d \in Data, auth'[i][m] = d
                PROVE  Own(i, m, d)'
    <2>1. ASSUME NEW i \in Ids, NEW m \in Methods, auth'[i][m] # NoData
          PROVE  Own(i, m, auth[i][m])'
      <3>1. auth'[i][m] \in Data
        BY <2>1, TypeStep DEF TypeOK
      <3>2. PICK d \in Data : auth'[i][m] = d
        BY <3>1
      <3>3. Own(i, m, d)'
        BY <3>2
      <3>. QED  BY <3>2, <3>3 DEF Own
    <2>. QED  BY <2>1 DEF OnlyOwnCredentials
  <1>1. CASE auth[i][m] = d
    <2>1. Own(i, m, d)
      BY <1>1, NoDataAssumption DEF OnlyOwnCredentials, Own
    <2>. QED  BY <2>1, OwnStays
  <1>2. CASE auth[i][m] # d
    <2>1. MayAdd(i, m, d)
      <3>1. PICK j \in Ids \ {Cash}, l \in Methods, e \in Data :
                NewCredential(j, l, e) /\ MayAdd(j, l, e)
        BY <1>2, WhatIsAdded
      <3>2. /\ auth'[j][l] = e
            /\ (i # j \/ m # l) => auth'[i][m] = auth[i][m]
        BY <3>1, NewCredentialTypes
      <3>. QED  BY <1>2, <3>1, <3>2
    <2>2. CASE d = [secret |-> logged, by |-> Admin] /\ i = Admin /\ m = "password"
      BY <2>2 DEF Own
    <2>3. ASSUME NEW r \in Requests, pc[r] = "addAuth", i = found[r], m = AuthType(r),
                 d = [secret |-> req[r].secret, by |-> r]
          PROVE  Own(i, m, d)'
      <3>1. MayStore(r, i)
        BY <2>3 DEF RequestOK, LabelOK
      <3>2. Own(i, m, d)
        BY <2>3, <3>1 DEF Own, MayStore, AuthType, Named
      <3>. QED  BY <3>2, OwnStays
    <2>. QED  BY <2>1, <2>2, <2>3 DEF MayAdd
  <1>. QED  BY <1>1, <1>2

-----------------------------------------------------------------------------
(* The theorems.                                                             *)

LEMMA StepIInv == IInv /\ [Next]_vars => IInv'
  <1>. SUFFICES ASSUME IInv, [Next]_vars PROVE IInv'
    OBVIOUS
  <1>1. Grows
    BY StepGrows
  <1>. QED  BY <1>1, TypeStep, RequestsKept, ServerKept, ReservedKept, AdminKept,
               HeldKept, CredentialsKept DEF IInv

(* What keeps accounts, handlers and initialize apart is inductive: no       *)
(* statement, fault or crash breaks it.                                      *)
THEOREM Invariance == Spec => []IInv
  <1>. QED  BY InitIInv, StepIInv, PTL DEF Spec

(* Whatever fails and crashes, every variable has a value of its type: no    *)
(* handler works on an account that cannot exist.                            *)
THEOREM TypeCorrect == Spec => []TypeOK
  <1>1. IInv => TypeOK
    BY DEF IInv
  <1>. QED  BY <1>1, Invariance, PTL

(* AddAuthentication is only ever reached with an account whose credentials  *)
(* the request may change, although three routes lead to it.                 *)
THEOREM CredentialsAreOwn == Spec => []OnlyOwnCredentials
  <1>1. IInv => OnlyOwnCredentials
    BY DEF IInv
  <1>. QED  BY <1>1, Invariance, PTL

(* The queries of a login, one after the other, entitle whoever passes them. *)
THEOREM LoginsAreEntitled == Spec => []LoginsWereEntitled
  <1>1. IInv => LoginsWereEntitled
    BY DEF IInv, LoginsWereEntitled, RequestOK, SessionOK, Entitled, Named
  <1>. QED  BY <1>1, Invariance, PTL

(* A registration in two statements without a transaction still answers      *)
(* truthfully.                                                               *)
THEOREM RegistrationsAreHonest == Spec => []AnswersMatchAccounts
  <1>1. IInv => AnswersMatchAccounts
    BY DEF IInv, AnswersMatchAccounts, RequestOK, ReplyOK
  <1>. QED  BY <1>1, Invariance, PTL

(* However often initialize was interrupted, a server that is up has an      *)
(* administrator with the password from its log, or a later one.             *)
THEOREM TheAdministratorHasAPassword == Spec => []AdminCanLogIn
  <1>1. IInv => AdminCanLogIn
    BY DEF IInv, AdminCanLogIn, ServerOK, AdminOK, WithoutAdmin, WithoutCash,
           WithPassword
  <1>. QED  BY <1>1, Invariance, PTL

-----------------------------------------------------------------------------
(* The Registry.                                                             *)

LEMMA MethodsUnchanged ==
  ASSUME auth' = auth
  PROVE  MethodsOf' = MethodsOf
  BY DEF MethodsOf

LEMMA MethodsGrow ==
  ASSUME TypeOK, NEW i \in Ids, NEW m \in Methods, NEW d \in Data,
         NewCredential(i, m, d)
  PROVE  MethodsOf' = [MethodsOf EXCEPT ![i] = @ \cup {m}]
  <1>1. /\ auth'[i][m] # NoData
        /\ \A j \in Ids : \A l \in Methods :
              (j # i \/ l # m) => auth'[j][l] = auth[j][l]
    BY NewCredentialTypes, NoDataAssumption
  <1>2. {l \in Methods : auth'[i][l] # NoData} = {l \in Methods : auth[i][l] # NoData} \cup {m}
    BY <1>1
  <1>3. \A j \in Ids \ {i} : {l \in Methods : auth'[j][l] # NoData}
                           = {l \in Methods : auth[j][l] # NoData}
    BY <1>1
  <1>. QED  BY <1>2, <1>3 DEF MethodsOf

LEMMA OnlineUnchanged ==
  ASSUME live' = live, session' = session
  PROVE  Online' = Online
  BY DEF Online

LEMMA WelcomedUnchanged ==
  ASSUME req' = req,
         \A r \in Requests : req[r].kind = "register" =>
             ((reply'[r] = "ok") <=> (reply[r] = "ok"))
  PROVE  Welcomed' = Welcomed
  BY DEF Welcomed

(* A step that neither opens nor ends a session, nor confirms a registration.*)
LEMMA WritesMap ==
  ASSUME IInv, Online' = Online, Welcomed' = Welcomed,
         StartupWrite \/ \E r \in Requests : HandlerWrite(r)
  PROVE  [R!Next]_(R!vars)
  <1>. USE DEF IInv
  <1>1. ASSUME NEW i \in Ids, NEW n \in Names, NewName(i, n)
        PROVE  R!Next
    <2>1. MethodsOf' = MethodsOf
      BY <1>1, MethodsUnchanged DEF NewName
    <2>2. R!Claim(i, n)
      BY <1>1, <2>1 DEF NewName, Taken, R!Claim
    <2>. QED  BY <2>2 DEF R!Next
  <1>2. ASSUME NEW i \in Ids, NEW m \in Methods, NEW d \in Data, NewCredential(i, m, d),
               name[i] # NoName, i # Cash
        PROVE  R!Next
    <2>1. MethodsOf' = [MethodsOf EXCEPT ![i] = @ \cup {m}]
      BY <1>2, MethodsGrow
    <2>2. R!Enrol(i, m)
      BY <1>2, <2>1 DEF NewCredential, R!Enrol
    <2>. QED  BY <2>2 DEF R!Next
  <1>3. CASE NoWrite
    BY <1>3, MethodsUnchanged DEF NoWrite, R!vars
  <1>4. CASE StartupWrite
    <2>1. server = "admin password" => name[Admin] # NoName
      BY NamesAssumption DEF ServerOK, WithoutAdmin, WithoutCash
    <2>. QED  BY <1>1, <1>2, <1>3, <1>4, <2>1, AdminPassword, IdsAssumption,
                 NamesAssumption DEF StartupWrite
  <1>5. ASSUME NEW r \in Requests, HandlerWrite(r)
        PROVE  [R!Next]_(R!vars)
    <2>1. pc[r] = "addAuth" => name[found[r]] # NoName /\ found[r] # Cash
      BY StoringIsAllowed
    <2>. QED  BY <1>1, <1>2, <1>3, <1>5, <2>1, RequestFields DEF HandlerWrite
  <1>. QED  BY <1>4, <1>5

(* A handler's last step, which lets somebody in.                            *)
LEMMA SessionsMap ==
  ASSUME IInv, NEW r \in Requests, CreateSession(r)
  PROVE  R!Next
  <1>. USE DEF IInv, At, Answer, database, process, store
  <1>. DEFINE u == found[r]
  <1>1. /\ RequestOK(r) /\ u \in Ids /\ pc[r] = "session"
        /\ Entitled(r, u) /\ name[u] # NoName
        /\ req[r].kind = "register" => auth[r]["password"] # NoData
        /\ r \notin live
    BY RequestFields DEF CreateSession, RequestOK, LabelOK, SessionOK
  <1>2. /\ Online' = Online \cup {[user |-> u, backend |-> Backend(r)]}
        /\ name' = name /\ MethodsOf' = MethodsOf
    <2>1. /\ live' = live \cup {r}
          /\ session'[r] = [user |-> u, backend |-> Backend(r)]
          /\ \A t \in live : session'[t] = session[t]
          /\ auth' = auth /\ name' = name
      BY <1>1 DEF CreateSession, TypeOK
    <2>. QED  BY <2>1, MethodsUnchanged DEF Online
  <1>3. /\ Backend(r) \in Methods \cup {"cash"}
        /\ \/ Backend(r) \in MethodsOf[u]
           \/ u = Cash
    BY <1>1 DEF Entitled, Backend, Methods, MethodsOf, HeldOK
  <1>4. R!LogIn(u, Backend(r))
    BY <1>1, <1>2, <1>3 DEF R!LogIn
  <1>5. CASE req[r].kind = "register"
    <2>1. Welcomed' = Welcomed \cup {r} /\ u = r /\ Backend(r) = "password"
      BY <1>1, <1>5 DEF CreateSession, Welcomed, TypeOK, Entitled, Backend
    <2>2. R!Welcome(u)
      BY <1>4, <2>1 DEF R!Welcome
    <2>. QED  BY <1>1, <2>2 DEF R!Next
  <1>6. CASE req[r].kind # "register"
    <2>1. Welcomed' = Welcomed
      BY <1>6 DEF CreateSession, Welcomed, TypeOK
    <2>. QED  BY <1>1, <1>3, <1>4, <2>1 DEF R!Next
  <1>. QED  BY <1>5, <1>6

LEMMA StepMaps ==
  ASSUME IInv, [Next]_vars
  PROVE  [R!Next]_(R!vars)
  <1>. USE DEF IInv
  <1>1. CASE Startup
    <2>1. Online' = Online /\ Welcomed' = Welcomed /\ StartupWrite
      BY <1>1, StartupWrites, OnlineUnchanged, WelcomedUnchanged
    <2>. QED  BY <2>1, WritesMap
  <1>2. ASSUME NEW r \in Requests, Handle(r)
        PROVE  [R!Next]_(R!vars)
    <2>1. CASE CreateSession(r)
      BY <2>1, SessionsMap
    <2>2. CASE ~CreateSession(r)
      <3>1. UNCHANGED <<live, session>>
        BY <1>2, <2>2 DEF Handle, CheckName, AddUser, AddAuthMethod, FindUserToReset,
           AddAuthentication, GetUserForUsername, GetUserForNFCToken, GetTaggedUser,
           GetAuthForUser, GetCashUser, store
      <3>2. HandlerWrite(r) /\ req' = req /\ \A q \in Requests \ {r} : Same(q)
        BY <1>2, HandlerWrites DEF RequestOK
      <3>3. reply[r] = "none"
        BY <1>2, HandlerWrites DEF RequestOK, LabelOK
      <3>4. req[r].kind = "register" => reply'[r] # "ok"
        <4>1. LabelOK(r)
          BY DEF RequestOK
        <4>. QED  BY <1>2, <2>2, <3>3, <4>1
             DEF Handle, CheckName, AddUser, AddAuthMethod, FindUserToReset,
             AddAuthentication, GetUserForUsername, GetUserForNFCToken, GetTaggedUser,
             GetAuthForUser, GetCashUser, Goto, Answer, TypeOK, At, LabelOK
      <3>5. Welcomed' = Welcomed
        BY <3>2, <3>3, <3>4, WelcomedUnchanged DEF Same
      <3>. QED  BY <3>1, <3>2, <3>5, OnlineUnchanged, WritesMap
    <2>. QED  BY <2>1, <2>2
  <1>3. ASSUME NEW r \in Requests, EndSession(r)
        PROVE  R!Next
    <2>1. /\ live' \subseteq live /\ session' = session
          /\ name' = name /\ auth' = auth /\ req' = req /\ reply' = reply
      BY <1>3 DEF EndSession, database, handlers
    <2>2. Online' = Online \ (Online \ Online')
      BY <2>1 DEF Online
    <2>3. Welcomed' = Welcomed /\ MethodsOf' = MethodsOf
      BY <2>1, WelcomedUnchanged, MethodsUnchanged
    <2>4. R!Leave
      BY <2>1, <2>2, <2>3 DEF R!Leave
    <2>. QED  BY <2>4 DEF R!Next
  <1>4. CASE Crash
    <2>1. /\ live' = {}
          /\ name' = name /\ auth' = auth /\ req' = req
      BY <1>4 DEF Crash, database
    <2>2. Online' = Online \ Online
      BY <2>1 DEF Online
    <2>3. \A r \in Requests : (reply'[r] = "ok") <=> (reply[r] = "ok")
      BY <1>4 DEF Crash, RequestOK, LabelOK, TypeOK
    <2>4. Welcomed' = Welcomed /\ MethodsOf' = MethodsOf
      BY <2>1, <2>3, WelcomedUnchanged, MethodsUnchanged
    <2>5. R!Leave
      BY <2>1, <2>2, <2>4 DEF R!Leave
    <2>. QED  BY <2>5 DEF R!Next
  <1>5. CASE UNCHANGED vars
    <2>1. Online' = Online /\ Welcomed' = Welcomed /\ MethodsOf' = MethodsOf /\ name' = name
      BY <1>5, OnlineUnchanged, WelcomedUnchanged, MethodsUnchanged
         DEF vars, database, store, handlers
    <2>. QED  BY <2>1 DEF R!vars
  <1>. QED  BY <1>1, <1>2, <1>3, <1>4, <1>5 DEF Next, Terminating

LEMMA InitMaps == Init => R!Init
  BY DEF Init, R!Init, MethodsOf, Welcomed, Online

(* The handlers and initialize implement the Registry: a name is nobody      *)
(* else's, methods are only added, to accounts that are not the cash users', *)
(* and no interleaving or fault lets anybody in by a method the account lacks.*)
THEOREM AccountsImplementRegistry == Spec => KeepsTheRegistry
  <1>1. IInv /\ [Next]_vars => [R!Next]_(R!vars)
    BY StepMaps
  <1>. QED  BY <1>1, InitMaps, Invariance, PTL DEF Spec, KeepsTheRegistry, R!Spec
=============================================================================
