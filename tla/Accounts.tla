------------------------------ MODULE Accounts ------------------------------
(***************************************************************************)
(* Accounts and the ways to log in to them: tables users and auth.  A        *)
(* registration writes one row of each, in two statements; nothing in the    *)
(* database ties the second to the first.  Logging in reads first one table, *)
(* then the other.  initialize makes the tables and the two accounts that    *)
(* are always there, one statement after the other, at every start.          *)
(*                                                                           *)
(* A statement is a step.  Any of them may fail; it may also take effect and *)
(* the handler be told that it has failed (the connection broke, the client  *)
(* went away).  The server may crash at any time; it is started again, and   *)
(* what was in memory is gone.                                               *)
(*                                                                           *)
(* The id of an account is named by the request that registers it, and so is *)
(* the id of a session by the request that logs in.  Expiry and the races of *)
(* the session store are in Sessions.tla, the tokens of a password reset in  *)
(* PasswordReset.tla.                                                        *)
(***************************************************************************)
EXTENDS Integers

CONSTANTS
    Requests,   \* the requests the server gets
    Workload,   \* what they may be
    Names,      \* usernames
    Secrets,    \* passwords and NFC uids
    Cash,       \* users.CashUserId
    Admin,      \* users.AdminUserId
    CashName,   \* "CASH PAYMENTS"
    AdminName,  \* "admin"
    NoName,     \* table users has no such row
    NoData,     \* table auth has no such row
    NoSession,  \* the request was given no session
    MaxFaults   \* bound of crashes and failing statements, for TLC

Ids == Requests \cup {Cash, Admin}
Methods == {"password", "none", "nfc"}
Logins == Methods \cup {"cash"}

(* "add" is addAuthMethod; "reset" is a password reset from its beginning to *)
(* its end.  The passwords of the administrator are numbers.                 *)
Payload ==
    [kind : Logins \cup {"register", "add", "reset"}, name : Names,
     secret : Secrets \cup Nat, method : Methods, token : Requests]

(* A row of auth: the secret (hashed, if it is a password), and by which     *)
(* request; by Admin if it was initialize.                                   *)
Data == [secret : Secrets \cup Nat, by : Requests \cup {Admin}]

Session == [user : Ids, backend : Logins]

ASSUME IdsAssumption == Cash # Admin /\ {Cash, Admin} \cap Requests = {}
ASSUME NamesAssumption ==
    CashName # AdminName /\ {CashName, AdminName} \subseteq Names /\ NoName \notin Names
ASSUME NoDataAssumption == NoData \notin Data /\ NoSession \notin Session
ASSUME WorkloadAssumption == Workload \subseteq [Requests -> Payload]
ASSUME FaultsAssumption == MaxFaults \in Nat

VARIABLES
    tables,     \* the tables that have been created
    name,       \* column username of table users, by id
    auth,       \* table auth, by user_id and type
    server,     \* the statement of initialize that is next, "up" or "down"
    logged,     \* the administrator's password in the log; 0, if there is none
    live,       \* the sessions in the store
    session,    \* the session every request was given
    req,        \* the payload of every request
    pc,         \* where its handler stands
    found,      \* the user the handler has found, or is about to store
    reply,      \* the answer the client got
    held,       \* history: every secret an account has ever had
    faults      \* how many faults there have been

database == <<tables, name, auth, held>>
process == <<server, logged>>
store == <<live, session>>
handlers == <<pc, found, reply>>
vars == <<database, process, store, handlers, req, faults>>

Starting == {"items", "users", "cash user", "auth", "admin user", "admin auth",
             "log", "admin password", "password_reset", "transactions"}

TypeOK ==
    /\ tables \subseteq {"items", "users", "auth", "password_reset", "transactions"}
    /\ name \in [Ids -> Names \cup {NoName}]
    /\ auth \in [Ids -> [Methods -> Data \cup {NoData}]]
    /\ server \in Starting \cup {"up", "down"}
    /\ logged \in Nat
    /\ live \subseteq Requests
    /\ session \in [Requests -> Session \cup {NoSession}]
    /\ req \in [Requests -> Payload]
    /\ pc \in [Requests -> {"new", "addUser", "addAuth", "user", "auth",
                            "session", "done"}]
    /\ found \in [Requests -> Ids]
    /\ reply \in [Requests -> {"none", "ok", "refused", "error", "lost"}]
    /\ held \subseteq Ids \X Methods \X (Secrets \cup Nat)
    /\ faults \in 0 .. MaxFaults

Init ==
    /\ tables = {}
    /\ name = [i \in Ids |-> NoName]
    /\ auth = [i \in Ids |-> [m \in Methods |-> NoData]]
    /\ server = "down"
    /\ logged = 0
    /\ live = {}
    /\ session = [r \in Requests |-> NoSession]
    /\ req \in Workload
    /\ pc = [r \in Requests |-> "new"]
    /\ found = [r \in Requests |-> r]
    /\ reply = [r \in Requests |-> "none"]
    /\ held = {}
    /\ faults = 0

-----------------------------------------------------------------------------
(* Statements.                                                               *)

Fault ==
    /\ faults < MaxFaults
    /\ faults' = faults + 1

Works == UNCHANGED faults

Taken(n) == \E i \in Ids : name[i] = n

(* INSERT INTO users; the id is the primary key, and the name is UNIQUE.     *)
InsertUser(i, n) ==
    /\ name' = [name EXCEPT ![i] = n]
    /\ UNCHANGED <<tables, auth, held>>

(* INSERT INTO auth.                                                         *)
InsertAuth(i, m, d) ==
    /\ auth' = [auth EXCEPT ![i][m] = d]
    /\ held' = held \cup {<<i, m, d.secret>>}
    /\ UNCHANGED <<tables, name>>

-----------------------------------------------------------------------------
(* initialize.  An error, or a panic, ends the process: this is Crash.       *)

Start ==
    /\ server = "down"
    /\ server' = "items"
    /\ UNCHANGED <<database, logged, store, handlers, req, faults>>

Initialize(step, next) ==
    /\ server = step
    /\ server' = next
    /\ UNCHANGED <<store, handlers, req, faults>>

(* CREATE TABLE IF NOT EXISTS                                                *)
VerifyTableExists(table, next) ==
    /\ Initialize(table, next)
    /\ tables' = tables \cup {table}
    /\ UNCHANGED <<name, auth, held, logged>>

VerifyTablesExist ==
    \/ VerifyTableExists("items", "users")
    \/ VerifyTableExists("users", "cash user")
    \/ VerifyTableExists("auth", "admin user")
    \/ VerifyTableExists("password_reset", "transactions")
    \/ VerifyTableExists("transactions", "up")

(* INSERT INTO users ... ON CONFLICT DO NOTHING                              *)
InsertUserIfNew(i, n) ==
    /\ "users" \in tables
    /\ IF name[i] = NoName /\ ~Taken(n) THEN InsertUser(i, n)
       ELSE UNCHANGED database

(* Mutant: without ON CONFLICT DO NOTHING, so that a second start fails.     *)
VerifyCashUserExistsMutant ==
    /\ Initialize("cash user", IF name[Cash] = NoName THEN "auth" ELSE "down")
    /\ InsertUserIfNew(Cash, CashName)
    /\ UNCHANGED logged

VerifyCashUserExists ==
    /\ Initialize("cash user", "auth")
    /\ InsertUserIfNew(Cash, CashName)
    /\ UNCHANGED logged

(* VerifyAdminUserExists, in four statements.  Its transaction holds none of *)
(* them: they are executed with db.                                          *)
InsertAdmin ==
    /\ Initialize("admin user", "admin auth")
    /\ InsertUserIfNew(Admin, AdminName)
    /\ UNCHANGED logged

(* Mutant: a password that is there already is not noticed.                  *)
QueryAdminAuthMutant ==
    /\ "auth" \in tables
    /\ Initialize("admin auth", "log")
    /\ UNCHANGED <<database, logged>>

QueryAdminAuth ==
    /\ "auth" \in tables
    /\ Initialize("admin auth", IF \E m \in Methods : auth[Admin][m] # NoData
                                THEN "password_reset" ELSE "log")
    /\ UNCHANGED <<database, logged>>

(* Between two starts there is a fault: their number tells the passwords     *)
(* apart.                                                                    *)
LogAdminPassword ==
    /\ Initialize("log", "admin password")
    /\ logged' = faults + 1
    /\ UNCHANGED database

(* ON CONFLICT DO NOTHING                                                    *)
InsertAdminAuth ==
    /\ Initialize("admin password", "password_reset")
    /\ IF auth[Admin]["password"] = NoData
       THEN InsertAuth(Admin, "password", [secret |-> logged, by |-> Admin])
       ELSE UNCHANGED database
    /\ UNCHANGED logged

Startup ==
    \/ Start \/ VerifyTablesExist \/ VerifyCashUserExists \/ InsertAdmin
    \/ QueryAdminAuth \/ LogAdminPassword \/ InsertAdminAuth

-----------------------------------------------------------------------------
(* Control flow of one handler.                                              *)

At(r, label) ==
    /\ server = "up"
    /\ pc[r] = label

Goto(r, label) ==
    /\ pc' = [pc EXCEPT ![r] = label]
    /\ UNCHANGED reply

Answer(r, a) ==
    /\ pc' = [pc EXCEPT ![r] = "done"]
    /\ reply' = [reply EXCEPT ![r] = a]

-----------------------------------------------------------------------------
(* registerWithPassword                                                      *)

(* Whatever goes wrong with the query, the name counts as free.              *)
CheckName(r) ==
    /\ At(r, "new")
    /\ req[r].kind = "register"
    /\ \/ Works /\ Taken(req[r].name) /\ Answer(r, "refused")
       \/ Works /\ ~Taken(req[r].name) /\ Goto(r, "addUser")
       \/ Fault /\ Goto(r, "addUser")
    /\ UNCHANGED <<database, process, store, found, req>>

(* Mutant: the column username is not UNIQUE.                                *)
AddUserMutant(r) ==
    /\ At(r, "addUser")
    /\ \/ Works /\ InsertUser(r, req[r].name) /\ Goto(r, "addAuth")
       \/ Fault /\ Answer(r, "error") /\ UNCHANGED database
    /\ UNCHANGED <<process, store, found, req>>

AddUser(r) ==
    /\ At(r, "addUser")
    /\ IF Taken(req[r].name) THEN Works /\ Answer(r, "error") /\ UNCHANGED database
       ELSE \/ Works /\ InsertUser(r, req[r].name) /\ Goto(r, "addAuth")
            \/ Fault /\ InsertUser(r, req[r].name) /\ Answer(r, "error")
            \/ Fault /\ Answer(r, "error") /\ UNCHANGED database
    /\ UNCHANGED <<process, store, found, req>>

-----------------------------------------------------------------------------
(* addAuthMethod                                                             *)

(* Mutant: any session will do.                                              *)
AddAuthMethodMutant(r) ==
    /\ At(r, "new")
    /\ req[r].kind = "add"
    /\ IF req[r].token \in live
       THEN /\ found' = [found EXCEPT ![r] = session[req[r].token].user]
            /\ Goto(r, "addAuth")
       ELSE Answer(r, "refused") /\ UNCHANGED found
    /\ UNCHANGED <<database, process, store, req, faults>>

AddAuthMethod(r) ==
    /\ At(r, "new")
    /\ req[r].kind = "add"
    /\ IF req[r].token \in live /\ session[req[r].token].backend = "password"
       THEN /\ found' = [found EXCEPT ![r] = session[req[r].token].user]
            /\ Goto(r, "addAuth")
       ELSE Answer(r, "refused") /\ UNCHANGED found
    /\ UNCHANGED <<database, process, store, req, faults>>

-----------------------------------------------------------------------------
(* SendPasswordResetMail finds the user, ResetPassword stores the password.  *)

FindUserToReset(r) ==
    /\ At(r, "new")
    /\ req[r].kind = "reset"
    /\ \/ \E i \in Ids \ {Cash} : /\ name[i] = req[r].name
                                  /\ found' = [found EXCEPT ![r] = i]
                                  /\ Works /\ Goto(r, "addAuth")
       \/ /\ name[Cash] = req[r].name \/ ~Taken(req[r].name)
          /\ Works /\ Answer(r, "refused") /\ UNCHANGED found
       \/ Fault /\ Answer(r, "refused") /\ UNCHANGED found
    /\ UNCHANGED <<database, process, store, req>>

-----------------------------------------------------------------------------
(* INSERT INTO auth ... ON CONFLICT(user_id, type) DO UPDATE, for the three. *)

AuthType(r) == IF req[r].kind = "add" THEN req[r].method ELSE "password"

Upsert(r) ==
    InsertAuth(found[r], AuthType(r), [secret |-> req[r].secret, by |-> r])

(* Mutant: a registration does not look at the error.                        *)
AddAuthenticationMutant(r) ==
    /\ At(r, "addAuth")
    /\ \/ Works /\ Upsert(r)
       \/ Fault /\ UNCHANGED database
    /\ IF req[r].kind = "register" THEN Goto(r, "session") ELSE Answer(r, "ok")
    /\ UNCHANGED <<process, store, found, req>>

AddAuthentication(r) ==
    /\ At(r, "addAuth")
    /\ \/ /\ Works /\ Upsert(r)
          /\ IF req[r].kind = "register" THEN Goto(r, "session") ELSE Answer(r, "ok")
       \/ /\ Fault
          /\ Upsert(r) \/ UNCHANGED database
          /\ Answer(r, IF req[r].kind = "reset" THEN "refused" ELSE "error")
    /\ UNCHANGED <<process, store, found, req>>

-----------------------------------------------------------------------------
(* loginWithPassword, loginNone, loginNFC, loginCash                         *)

GetUserForUsername(r) ==
    /\ At(r, "new")
    /\ req[r].kind \in {"password", "none"}
    /\ \/ \E i \in Ids : /\ name[i] = req[r].name
                         /\ found' = [found EXCEPT ![r] = i]
                         /\ Works /\ Goto(r, "auth")
       \/ /\ Works /\ ~Taken(req[r].name)
          /\ Answer(r, "refused") /\ UNCHANGED found
       \/ Fault /\ Answer(r, "refused") /\ UNCHANGED found
    /\ UNCHANGED <<database, process, store, req>>

(* The uid of a tag: a row with this secret, one of them if there are many.  *)
Tagged(i, uid) == auth[i]["nfc"] # NoData /\ auth[i]["nfc"].secret = uid

GetUserForNFCToken(r) ==
    /\ At(r, "new")
    /\ req[r].kind = "nfc"
    /\ \/ \E i \in Ids : /\ Tagged(i, req[r].secret)
                         /\ found' = [found EXCEPT ![r] = i]
                         /\ Works /\ Goto(r, "user")
       \/ /\ Works /\ \A i \in Ids : ~Tagged(i, req[r].secret)
          /\ Answer(r, "refused") /\ UNCHANGED found
       \/ Fault /\ Answer(r, "refused") /\ UNCHANGED found
    /\ UNCHANGED <<database, process, store, req>>

GetTaggedUser(r) ==
    /\ At(r, "user")
    /\ \/ /\ Works
          /\ IF name[found[r]] # NoName THEN Goto(r, "auth") ELSE Answer(r, "refused")
       \/ Fault /\ Answer(r, "refused")
    /\ UNCHANGED <<database, process, store, found, req>>

(* VerifyPasswordHash panics on a password that addAuthMethod has stored: it *)
(* is no hash, and too short to hold a salt.  net/http gives no answer then. *)
Readable(d) == d.by = Admin \/ req[d.by].kind # "add"

(* Mutant: the password is not verified.                                     *)
GetAuthForUserMutant(r) ==
    /\ At(r, "auth")
    /\ LET d == auth[found[r]][req[r].kind] IN
       \/ Fault /\ Answer(r, "error")
       \/ Works /\ IF d = NoData THEN Answer(r, "error") ELSE Goto(r, "session")
    /\ UNCHANGED <<database, process, store, found, req>>

GetAuthForUser(r) ==
    /\ At(r, "auth")
    /\ LET d == auth[found[r]][req[r].kind] IN
       \/ Fault /\ Answer(r, "error")
       \/ Works /\ d = NoData /\ Answer(r, "error")
       \/ Works /\ d # NoData /\ req[r].kind # "password" /\ Goto(r, "session")
       \/ /\ Works /\ d # NoData /\ req[r].kind = "password"
          /\ IF ~Readable(d) THEN Answer(r, "lost")
             ELSE IF d.secret = req[r].secret THEN Goto(r, "session")
             ELSE Answer(r, "refused")
    /\ UNCHANGED <<database, process, store, found, req>>

GetCashUser(r) ==
    /\ At(r, "new")
    /\ req[r].kind = "cash"
    /\ \/ /\ Works /\ name[Cash] # NoName
          /\ found' = [found EXCEPT ![r] = Cash] /\ Goto(r, "session")
       \/ Fault /\ Answer(r, "error") /\ UNCHANGED found
    /\ UNCHANGED <<database, process, store, req>>

(* Mutant: the backend of a session is the name of the route.                *)
BackendMutant(r) == req[r].kind

Backend(r) == IF req[r].kind = "register" THEN "password" ELSE req[r].kind

CreateSession(r) ==
    /\ At(r, "session")
    /\ session' = [session EXCEPT ![r] = [user |-> found[r], backend |-> Backend(r)]]
    /\ live' = live \cup {r}
    /\ Answer(r, "ok")
    /\ UNCHANGED <<database, process, found, req, faults>>

Handle(r) ==
    \/ CheckName(r) \/ AddUser(r) \/ AddAuthMethod(r) \/ FindUserToReset(r)
    \/ AddAuthentication(r) \/ GetUserForUsername(r) \/ GetUserForNFCToken(r)
    \/ GetTaggedUser(r) \/ GetAuthForUser(r) \/ GetCashUser(r) \/ CreateSession(r)

-----------------------------------------------------------------------------

(* A logout, or a purge after the session has expired.                       *)
EndSession(t) ==
    /\ server = "up"
    /\ t \in live
    /\ live' = live \ {t}
    /\ UNCHANGED <<database, process, session, handlers, req, faults>>

Crash ==
    /\ Fault
    /\ server # "down"
    /\ server' = "down"
    /\ live' = {}
    /\ pc' = [r \in Requests |-> IF pc[r] = "new" THEN "new" ELSE "done"]
    /\ reply' = [r \in Requests |-> IF pc[r] \in {"new", "done"} THEN reply[r]
                                    ELSE "lost"]
    /\ UNCHANGED <<database, logged, session, found, req>>

Terminating ==
    /\ server = "up"
    /\ \A r \in Requests : pc[r] = "done"
    /\ UNCHANGED vars

Next ==
    \/ Startup
    \/ \E r \in Requests : Handle(r) \/ EndSession(r)
    \/ Crash
    \/ Terminating

(* docker-compose.yaml has the server started again, and nothing interferes  *)
(* with the goroutine of initialize.                                         *)
Spec == Init /\ [][Next]_vars /\ WF_vars(Startup)

-----------------------------------------------------------------------------
(* Properties.                                                               *)

(* A credential is stored for an account by its own registration, by someone *)
(* who was logged in to it with its password, by a reset of the account with *)
(* this name, or by initialize; and it is the one that was sent.             *)
Own(i, m, d) ==
    \/ i = Admin /\ d.by = Admin /\ m = "password"
    \/ /\ d.by \in Requests
       /\ d.secret = req[d.by].secret
       /\ \/ req[d.by].kind = "register" /\ d.by = i /\ m = "password"
          \/ /\ req[d.by].kind = "add" /\ req[d.by].method = m
             /\ session[req[d.by].token] = [user |-> i, backend |-> "password"]
          \/ /\ req[d.by].kind = "reset" /\ m = "password"
             /\ name[i] = req[d.by].name

OnlyOwnCredentials ==
    \A i \in Ids : \A m \in Methods :
        auth[i][m] # NoData => Own(i, m, auth[i][m])

(* Whoever has a session has shown what the account has, or has had: its     *)
(* queries see the tables one after the other, while others write to them.   *)
LoginsWereEntitled ==
    \A r \in Requests :
        LET u == session[r].user IN
        session[r] # NoSession =>
            \/ req[r].kind = "cash" /\ u = Cash
            \/ req[r].kind = "register" /\ u = r
            \/ /\ req[r].kind = "nfc" /\ <<u, "nfc", req[r].secret>> \in held
            \/ /\ req[r].kind = "none" /\ name[u] = req[r].name
               /\ \E h \in held : h[1] = u /\ h[2] = "none"
            \/ /\ req[r].kind = "password" /\ name[u] = req[r].name
               /\ <<u, "password", req[r].secret>> \in held

(* Whatever fails and whatever crashes, the answer to a registration is      *)
(* true: a confirmed one has both of its rows, one that was turned down has  *)
(* neither and the name belongs to another account.                          *)
AnswersMatchAccounts ==
    \A r \in Requests : req[r].kind = "register" =>
        /\ reply[r] = "ok" => /\ name[r] = req[r].name
                              /\ auth[r]["password"] # NoData
        /\ reply[r] = "refused" => /\ name[r] = NoName
                                   /\ \E i \in Ids \ {r} : name[i] = req[r].name

(* While the server is up the administrator's first password is the one that *)
(* stands last in the log, however often the start was interrupted.          *)
AdminCanLogIn ==
    server = "up" =>
        /\ name[Admin] = AdminName
        /\ auth[Admin]["password"] # NoData
        /\ auth[Admin]["password"].by = Admin => auth[Admin]["password"].secret = logged

(* The accounts behave as Registry.tla says.                                 *)
MethodsOf == [i \in Ids |-> {m \in Methods : auth[i][m] # NoData}]
Welcomed == {r \in Requests : req[r].kind = "register" /\ reply[r] = "ok"}
Online == {session[r] : r \in live}

R == INSTANCE Registry WITH
        methods <- MethodsOf, welcomed <- Welcomed, online <- Online
KeepsTheRegistry == R!Spec

(* A server that went down comes up again: initialize copes with whatever    *)
(* an earlier start has left behind.                                         *)
ComesUpAgain == server = "down" ~> server = "up"
=============================================================================
