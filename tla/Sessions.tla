------------------------------- MODULE Sessions -------------------------------
(***************************************************************************)
(* Who is logged in.  The session store is a Go map without a lock, used by *)
(* every handler in a goroutine of its own and by the goroutine that purges *)
(* expired sessions.  A request gets its session from the store on arrival  *)
(* (enrichRequestContext); routes with a role check the copy (verifyRole);   *)
(* buyItem, changeCredit and addAuthMethod then get it once more.            *)
(*                                                                          *)
(* An access to the map takes time: it begins with one step and ends with   *)
(* the next.  Of two accesses that overlap, one of them a write, the Go     *)
(* runtime notices some, and kills the process; of the others, a write may  *)
(* be lost and a read may miss its entry.                                   *)
(*                                                                          *)
(* A session id is named by the login that draws it.                        *)
(***************************************************************************)
EXTENDS Integers

CONSTANTS
    Users,      \* registered users
    Cash,       \* users.CashUserId
    Role,       \* column role of table users
    Methods,    \* the types of table auth, by user
    Requests,   \* the requests the server gets; also the ids of sessions
    Workload,   \* for each request, what it may be
    NoToken,    \* a request without a token
    NoSession,  \* the store has no such session
    Lifetime,   \* config.SessionLifetime
    MaxTime     \* bound of the clock, for TLC

Accounts == Users \cup {Cash}
Backends == {"password", "none", "nfc", "cash"}

(* Logins need no token; "buy" stands for buyItem, "credit" for changeCredit *)
(* and addAuthMethod, "admin" for the routes of administrators.              *)
Payload ==
    [kind : {"login"}, user : Accounts, backend : Backends,
     token : Requests \cup {NoToken}]
      \cup [kind : {"logout", "buy", "credit", "admin"},
            token : Requests \cup {NoToken}]

Session == [user : Accounts, role : {"user", "admin"}, backend : Backends,
            notValidAfter : Nat]

ASSUME CashAssumption == Cash \notin Users
ASSUME RoleAssumption == Role \in [Users -> {"user", "admin"}]
ASSUME MethodsAssumption == Methods \in [Users -> SUBSET (Backends \ {"cash"})]
ASSUME WorkloadAssumption == Workload \in [Requests -> SUBSET Payload]
ASSUME TokenAssumption == NoToken \notin Requests
ASSUME SessionAssumption == NoSession \notin Session
ASSUME TimeAssumption == Lifetime \in Nat /\ MaxTime \in Nat

VARIABLES
    now,        \* time.Now().Unix()
    sessions,   \* MemoryStore.sessions, by id
    req,        \* the payload of every request
    pc,         \* where the handler of a request stands
    copy,       \* the session in the handler's context, or about to be stored
    reply,      \* the answer the client got
    purger,     \* where MemoryStore.Purge stands
    purging,    \* the sessions its loop has still to visit
    expired,    \* the session it deletes
    granted,    \* history: the requests let through to what they ask for
    loggedOut,  \* history: the sessions that logouts have deleted
    raced,      \* history: two accesses have overlapped
    restarted   \* history: why the server was last started again

requestVars == <<req, pc, copy, reply, granted, loggedOut>>
purgeVars == <<purger, purging, expired>>
vars == <<now, sessions, requestVars, purgeVars, raced, restarted>>

TypeOK ==
    /\ now \in Nat
    /\ sessions \in [Requests -> Session \cup {NoSession}]
    /\ req \in [Requests -> Payload]
    /\ pc \in [Requests -> {"new", "enrich", "handler", "store", "delete",
                            "recheck", "done"}]
    /\ copy \in [Requests -> Session \cup {NoSession}]
    /\ reply \in [Requests -> {"none", "ok", "refused", "lost"}]
    /\ purger \in {"idle", "scan", "delete"}
    /\ purging \subseteq Requests
    /\ expired \in Requests \cup {NoToken}
    /\ granted \subseteq Requests
    /\ loggedOut \subseteq Requests
    /\ raced \in BOOLEAN
    /\ restarted \in {"no", "crash", "race"}

Init ==
    /\ now = 0
    /\ sessions = [t \in Requests |-> NoSession]
    /\ req = [r \in Requests |-> [kind |-> "logout", token |-> NoToken]]
    /\ pc = [r \in Requests |-> "new"]
    /\ copy = [r \in Requests |-> NoSession]
    /\ reply = [r \in Requests |-> "none"]
    /\ purger = "idle"
    /\ purging = {}
    /\ expired = NoToken
    /\ granted = {}
    /\ loggedOut = {}
    /\ raced = FALSE
    /\ restarted = "no"

-----------------------------------------------------------------------------
(* Overlapping accesses to the map.                                          *)

Readers ==
    {r \in Requests : pc[r] \in {"enrich", "recheck"}}
      \cup (IF purger = "scan" THEN {"purger"} ELSE {})

Writers ==
    {r \in Requests : pc[r] \in {"store", "delete"}}
      \cup (IF purger = "delete" THEN {"purger"} ELSE {})

(* The access of a overlaps with another one, and they are not both reads.   *)
Racing(a) ==
    \/ a \in Readers /\ Writers # {}
    \/ a \in Writers /\ (Readers \cup Writers) \ {a} # {}

NoteRace(a) == raced' = (raced \/ Racing(a))

(* What a Get of session t by request r may return.                          *)
Found(r, t) == {sessions[t]} \cup (IF Racing(r) THEN {NoSession} ELSE {})

(* An assignment to the map, or a delete, by a.                              *)
Write(a, t, s) ==
    \/ sessions' = [sessions EXCEPT ![t] = s]
    \/ Racing(a) /\ UNCHANGED sessions

IsValid(s) == now < s.notValidAfter

-----------------------------------------------------------------------------
(* Control flow of one handler.                                              *)

Active(r) == pc[r] \notin {"new", "done"}

Goto(r, label) ==
    /\ pc' = [pc EXCEPT ![r] = label]
    /\ UNCHANGED reply

Answer(r, a) ==
    /\ pc' = [pc EXCEPT ![r] = "done"]
    /\ reply' = [reply EXCEPT ![r] = a]

(* Let the request through to what it asks for.                              *)
Grant(r) ==
    /\ granted' = granted \cup {r}
    /\ Answer(r, "ok")

(* The sessions some client has been told of.                                *)
Issued == {t \in Requests : req[t].kind = "login" /\ reply[t] = "ok"}

(* A request arrives, with or without a token, in the cookie or the header.  *)
Arrive(r) ==
    /\ pc[r] = "new"
    /\ \E p \in Workload[r] :
          /\ p.token \in Issued \cup {NoToken}
          /\ req' = [req EXCEPT ![r] = p]
          /\ Goto(r, IF p.token = NoToken THEN "handler" ELSE "enrich")
    /\ UNCHANGED <<now, sessions, copy, granted, loggedOut, purgeVars, raced,
                   restarted>>

(* enrichRequestContext: a session that is gone or expired is as good as none*)
Enrich(r) ==
    /\ pc[r] = "enrich"
    /\ \E s \in Found(r, req[r].token) :
          copy' = [copy EXCEPT ![r] =
                     IF s = NoSession THEN s
                     ELSE IF IsValid(s) THEN s ELSE NoSession]
    /\ Goto(r, "handler")
    /\ NoteRace(r)
    /\ UNCHANGED <<now, sessions, req, granted, loggedOut, purgeVars, restarted>>

-----------------------------------------------------------------------------
(* Logging in and out.                                                       *)

(* Mutant: every session gets the role of the user.                          *)
SessionRoleMutant(u, b) == IF u = Cash THEN "user" ELSE Role[u]

(* Only a password makes an administrator.                                   *)
SessionRole(u, b) == IF b = "password" THEN Role[u] ELSE "user"

(* Mutant: the lifetime is taken off the clock.                              *)
NotValidAfterMutant == now - Lifetime

NotValidAfter == now + Lifetime

CanLogin(u, b) == IF b = "cash" THEN u = Cash
                  ELSE u \in Users /\ b \in Methods[u]

(* loginWithPassword, loginCash, loginNone, loginNFC up to the store.        *)
Login(r) ==
    /\ req[r].kind = "login"
    /\ pc[r] = "handler"
    /\ CanLogin(req[r].user, req[r].backend)
    /\ copy' = [copy EXCEPT ![r] =
                 [user |-> req[r].user,
                  role |-> SessionRole(req[r].user, req[r].backend),
                  backend |-> req[r].backend,
                  notValidAfter |-> NotValidAfter]]
    /\ Goto(r, "store")
    /\ UNCHANGED <<now, sessions, req, granted, loggedOut, purgeVars, raced,
                   restarted>>

(* The wrong secret, an unknown user, no such authentication, or a query     *)
(* that failed.                                                              *)
LoginRefused(r) ==
    /\ req[r].kind = "login"
    /\ pc[r] = "handler"
    /\ Answer(r, "refused")
    /\ UNCHANGED <<now, sessions, req, copy, granted, loggedOut, purgeVars,
                   raced, restarted>>

(* Mutant: the client has the token before the session is stored.            *)
AnswerBeforeStoreMutant(r) ==
    /\ pc[r] = "store"
    /\ Answer(r, "ok")
    /\ UNCHANGED <<now, sessions, req, copy, granted, loggedOut, purgeVars,
                   raced, restarted>>

(* sessionStore.Store, and the answer with the token.  A purge that is       *)
(* iterating may or may not come across the new entry.                       *)
Store(r) ==
    /\ pc[r] = "store"
    /\ Write(r, r, copy[r])
    /\ purging' \in IF purger = "idle" THEN {purging}
                    ELSE {purging, purging \cup {r}}
    /\ Answer(r, "ok")
    /\ NoteRace(r)
    /\ UNCHANGED <<now, req, copy, granted, loggedOut, purger, expired, restarted>>

Logout(r) ==
    /\ req[r].kind = "logout"
    /\ pc[r] = "handler"
    /\ IF copy[r] = NoSession THEN Answer(r, "ok") ELSE Goto(r, "delete")
    /\ UNCHANGED <<now, sessions, req, copy, granted, loggedOut, purgeVars,
                   raced, restarted>>

(* Mutant: the cookie is cleared, the session is kept.                       *)
DeleteMutant(r) ==
    /\ pc[r] = "delete"
    /\ loggedOut' = loggedOut \cup {req[r].token}
    /\ Answer(r, "ok")
    /\ NoteRace(r)
    /\ UNCHANGED <<now, sessions, req, copy, granted, purgeVars, restarted>>

(* sessionStore.Delete, and the answer.                                      *)
Delete(r) ==
    /\ pc[r] = "delete"
    /\ Write(r, req[r].token, NoSession)
    /\ loggedOut' = loggedOut \cup {req[r].token}
    /\ Answer(r, "ok")
    /\ NoteRace(r)
    /\ UNCHANGED <<now, req, copy, granted, purgeVars, restarted>>

-----------------------------------------------------------------------------
(* Routes for users and for administrators.                                  *)

CheckRole(actual, target) == actual = "admin" \/ actual = target

RoleFor(kind) == IF kind = "admin" THEN "admin" ELSE "user"

VerifyRole(r) ==
    /\ req[r].kind \in {"buy", "credit", "admin"}
    /\ pc[r] = "handler"
    /\ \/ /\ copy[r] = NoSession
          /\ Answer(r, "refused") /\ UNCHANGED granted
       \/ /\ copy[r] # NoSession
          /\ ~CheckRole(copy[r].role, RoleFor(req[r].kind))
          /\ Answer(r, "refused") /\ UNCHANGED granted
       \/ /\ copy[r] # NoSession
          /\ CheckRole(copy[r].role, RoleFor(req[r].kind))
          /\ IF req[r].kind = "admin" THEN Grant(r)
             ELSE Goto(r, "recheck") /\ UNCHANGED granted
    /\ UNCHANGED <<now, sessions, req, copy, loggedOut, purgeVars, raced, restarted>>

(* buyItem wants a session that is still valid; changeCredit and             *)
(* addAuthMethod want one that was opened with a password.                   *)
Admits(r, s) ==
    /\ s # NoSession
    /\ req[r].kind = "buy" => IsValid(s)
    /\ req[r].kind = "credit" => s.backend = "password"

Recheck(r) ==
    /\ pc[r] = "recheck"
    /\ \E s \in Found(r, req[r].token) :
          \/ Admits(r, s) /\ Grant(r)
          \/ ~Admits(r, s) /\ Answer(r, "refused") /\ UNCHANGED granted
    /\ NoteRace(r)
    /\ UNCHANGED <<now, sessions, req, copy, loggedOut, purgeVars, restarted>>

-----------------------------------------------------------------------------
(* MemoryStore.Purge, once in every Lifetime.                                *)

Stored == {t \in Requests : sessions[t] # NoSession}

PurgeStart ==
    /\ purger = "idle"
    /\ Stored # {}
    /\ purger' = "scan"
    /\ purging' = Stored
    /\ UNCHANGED <<now, sessions, requestVars, expired, raced, restarted>>

(* Mutant: the loop deletes whatever it comes to.                            *)
PurgeVisitMutant ==
    /\ purger = "scan"
    /\ \E t \in purging :
          /\ purging' = purging \ {t}
          /\ IF sessions[t] # NoSession
             THEN purger' = "delete" /\ expired' = t
             ELSE UNCHANGED <<purger, expired>>
    /\ NoteRace("purger")
    /\ UNCHANGED <<now, sessions, requestVars, restarted>>

(* The range loop comes to an entry; one that is gone by now it skips.       *)
PurgeVisit ==
    /\ purger = "scan"
    /\ \E t \in purging :
          /\ purging' = purging \ {t}
          /\ IF sessions[t] # NoSession /\ ~IsValid(sessions[t])
             THEN purger' = "delete" /\ expired' = t
             ELSE UNCHANGED <<purger, expired>>
    /\ NoteRace("purger")
    /\ UNCHANGED <<now, sessions, requestVars, restarted>>

(* Mutant: the loop forgets to delete.                                       *)
PurgeDeleteMutant ==
    /\ purger = "delete"
    /\ purger' = "scan"
    /\ NoteRace("purger")
    /\ UNCHANGED <<now, sessions, requestVars, purging, expired, restarted>>

PurgeDelete ==
    /\ purger = "delete"
    /\ Write("purger", expired, NoSession)
    /\ purger' = "scan"
    /\ NoteRace("purger")
    /\ UNCHANGED <<now, requestVars, purging, expired, restarted>>

PurgeEnd ==
    /\ purger = "scan"
    /\ purging = {}
    /\ purger' = "idle"
    /\ expired' = NoToken
    /\ UNCHANGED <<now, sessions, requestVars, purging, raced, restarted>>

-----------------------------------------------------------------------------
(* The clock, crashes.                                                       *)

Tick ==
    /\ now < MaxTime
    /\ now' = now + 1
    /\ UNCHANGED <<sessions, requestVars, purgeVars, raced, restarted>>

(* The server is started again, with an empty store.                         *)
Restart(why) ==
    /\ sessions' = [t \in Requests |-> NoSession]
    /\ pc' = [r \in Requests |-> IF Active(r) THEN "done" ELSE pc[r]]
    /\ reply' = [r \in Requests |-> IF Active(r) THEN "lost" ELSE reply[r]]
    /\ purger' = "idle"
    /\ purging' = {}
    /\ expired' = NoToken
    /\ restarted' = why
    /\ UNCHANGED <<now, req, copy, granted, loggedOut, raced>>

Crash ==
    /\ Stored # {} \/ \E r \in Requests : Active(r)
    /\ Restart("crash")

(* fatal error: concurrent map writes (or read and write, or iteration and   *)
(* write): the runtime ends the process, and nothing can recover from it.    *)
RuntimeAborts ==
    /\ \E a \in Readers \cup Writers : Racing(a)
    /\ Restart("race")

(* No other request comes, the clock of the model has stopped.               *)
Terminating ==
    /\ now = MaxTime
    /\ \A r \in Requests : ~Active(r)
    /\ Stored = {}
    /\ UNCHANGED vars

-----------------------------------------------------------------------------

HandlerStep(r) ==
    \/ Enrich(r) \/ Login(r) \/ LoginRefused(r) \/ Store(r) \/ Logout(r)
    \/ Delete(r) \/ VerifyRole(r) \/ Recheck(r)

PurgeStep == PurgeStart \/ PurgeVisit \/ PurgeDelete \/ PurgeEnd

Next ==
    \/ \E r \in Requests : Arrive(r) \/ HandlerStep(r)
    \/ PurgeStep
    \/ Tick
    \/ Crash
    \/ RuntimeAborts
    \/ Terminating

(* Go runs every goroutine, time passes, and the ticker starts one purge     *)
(* after the other.  Nothing promises that a request arrives.                *)
Fairness ==
    /\ \A r \in Requests : WF_vars(HandlerStep(r))
    /\ WF_vars(PurgeStep)
    /\ WF_vars(Tick)

Spec == Init /\ [][Next]_vars /\ Fairness

-----------------------------------------------------------------------------
(* Properties.                                                               *)

(* What needs a password is done for nobody who has not logged in with one,  *)
(* what needs an administrator for nobody but an administrator: whatever the *)
(* store, the copies and the races do, a session carries what its login was. *)
PrivilegesNeedPassword ==
    \A r \in granted :
        /\ req[r].token \in Issued
        /\ req[r].kind \in {"credit", "admin"} =>
              req[req[r].token].backend = "password"
        /\ req[r].kind = "admin" => Role[req[req[r].token].user] = "admin"

(* A session that was logged out is gone, so every later request is refused: *)
(* as long as no two accesses to the map have overlapped.                    *)
LogoutIsFinal == ~raced => \A t \in loggedOut : sessions[t] = NoSession

(* A client that has been given a token can use it, until it logs out, the   *)
(* session expires or the server is started again, and unless accesses to    *)
(* the map overlap: the session is stored before the client is answered.     *)
LoginsAreUsable ==
    ~raced /\ restarted = "no" =>
        \A t \in Issued :
            \/ sessions[t] = copy[t]
            \/ t \in loggedOut
            \/ ~IsValid(copy[t])

(* A session disappears only when it has expired, when a logout deletes it,  *)
(* or with the process.                                                      *)
SessionsLeaveForAReason == [][
    \A t \in Stored : sessions'[t] = NoSession =>
        \/ ~IsValid(sessions[t])
        \/ t \in loggedOut'
        \/ restarted' # "no" /\ \A u \in Requests : sessions'[u] = NoSession
    ]_vars

(* The store does not fill up with sessions that nobody can use any more.    *)
ExpiredSessionsArePurged ==
    \A t \in Requests :
        (sessions[t] # NoSession /\ now >= copy[t].notValidAfter)
            ~> sessions[t] = NoSession

(* What the answer to a login promises: the token is valid until             *)
(* "validUntil".  A crash from outside, and a logout, are no breach.         *)
TokensLastAsPromised == [][
    \A t \in Stored : sessions'[t] = NoSession =>
        \/ ~IsValid(sessions[t])
        \/ t \in loggedOut'
        \/ restarted' = "crash"
    ]_vars
=============================================================================
