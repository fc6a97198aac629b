------------------------------ MODULE Registry ------------------------------
(***************************************************************************)
(* The accounts as their owners understand them.  A name belongs to the      *)
(* account that has claimed it, for good.  An account has methods to log in  *)
(* with, never fewer than before.  Nobody logs in with a method the account  *)
(* does not have, and whoever is told that the registration was successful   *)
(* has an account under the name, with a password.  The account on which     *)
(* cash purchases are booked is open to everybody: nobody may make it their   *)
(* own.                                                                      *)
(*                                                                           *)
(* Accounts.tla is how the handlers and initialize keep this.                *)
(***************************************************************************)
CONSTANTS
    Ids,        \* ids of accounts
    Names,      \* usernames
    Methods,    \* types of authentication
    Cash,       \* the account of cash purchases
    NoName      \* there is no such account

VARIABLES
    name,       \* the name of every account
    methods,    \* the methods of every account
    welcomed,   \* the accounts whose registration was confirmed
    online      \* who is logged in, and how

vars == <<name, methods, welcomed, online>>

Claim(i, n) ==
    /\ name[i] = NoName
    /\ \A j \in Ids : name[j] # n
    /\ name' = [name EXCEPT ![i] = n]
    /\ UNCHANGED <<methods, welcomed, online>>

Enrol(i, m) ==
    /\ name[i] # NoName
    /\ i # Cash
    /\ methods' = [methods EXCEPT ![i] = @ \cup {m}]
    /\ UNCHANGED <<name, welcomed, online>>

LogIn(i, m) ==
    /\ m \in methods[i] \/ (i = Cash /\ name[i] # NoName)
    /\ online' = online \cup {[user |-> i, backend |-> m]}
    /\ UNCHANGED <<name, methods>>

(* The one who has just been registered is logged in at once.                *)
Welcome(i) ==
    /\ LogIn(i, "password")
    /\ welcomed' = welcomed \cup {i}

(* By a logout, at the end of the session, or when the server is restarted.  *)
Leave ==
    /\ \E left \in SUBSET online : online' = online \ left
    /\ UNCHANGED <<name, methods, welcomed>>

-----------------------------------------------------------------------------

Init ==
    /\ name = [i \in Ids |-> NoName]
    /\ methods = [i \in Ids |-> {}]
    /\ welcomed = {}
    /\ online = {}

Next ==
    \/ \E i \in Ids, n \in Names : Claim(i, n)
    \/ \E i \in Ids, m \in Methods : Enrol(i, m)
    \/ \E i \in Ids, m \in Methods \cup {"cash"} : LogIn(i, m) /\ UNCHANGED welcomed
    \/ \E i \in Ids : Welcome(i)
    \/ Leave

Spec == Init /\ [][Next]_vars
=============================================================================
