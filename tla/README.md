# go-drink in TLA+

go-drink runs the fridge of a hackspace: users have an account with credit,
buy drinks from a list of items, pay in and draw out; administrators maintain
the list. It is one Go process with an HTTP server in front of an SQL database
(PostgreSQL in production, SQLite in tests). net/http serves every request in
a goroutine of its own. There is next to no locking in the program, so what it
guarantees depends on which reads and writes of the database and of the session
map may interleave. These modules say what that is.

All paths below are relative to `src/`.

## The system

| Component | State | Operations | Where it is hard |
|---|---|---|---|
| Sales and credit: `transactions/transaction.go`, `buyItem`, `changeCredit` in `handlers.go` | tables `users` (credit), `items` (amount), `transactions` | `MakeTransaction`, `UpdateUser`, `UpdateUserWithTransaction`, `UpdateItemWithTransaction` | read, decide and write back whole rows, in several statements; only the writes of a sale share a transaction; errors of a statement are shadowed by the result of the rollback |
| Catalogue: `items/inventar.go`, `addItem`, `updateItem` | table `items` | `InsertNewItem`, `UpdateItem`, lookups | the name check precedes the write; an edit races the sales of the item |
| Password reset: `users/user.go`, `requestPasswordReset`, `resetPassword` | tables `password_reset`, `auth` | `SendPasswordResetMail` (a goroutine nobody waits for), `ResetPassword`, `CleanExpiredResetTokens` (every four hours) | the token is read outside the transaction that uses it; expiry, sweep, replacement and a second use race with it |
| Sessions: `session/session.go`, `handlerUtil.go`, logins and `logout` in `handlers.go`, ticker in `main.go` | a Go map in memory | `Get`, `Store`, `Delete`, `Purge` | no lock at all; every request looks its session up twice; a crash loses everything |
| Accounts: `registerWithPassword`, `addAuthMethod`, the four logins | tables `users`, `auth` | `AddUser`, `AddAuthentication`, `GetUserForUsername`, `GetUserForNFCToken`, `GetAuthForUser` | two writes without a transaction; a name check that precedes the write; two tables without a foreign key, read one after the other |
| Startup: `initialize` in `main.go` | tables, cash user, administrator | `Verify...Exists` | several statements, repeated on every start; a crash may come after each; a password is logged before it is stored |
| Content negotiation: `handlehttp/content-type`, `match-accept.go` | the rest of the header | parsing, precedence and weight of media types | hand-written parsers, one pass over ranges in any order, nil maps beside empty ones |
| Parsing and validation: `data_transfer.go`, `read-request-data.go` | none | `ReadValidBody`, `Validate` | the reader hangs on an equality of media types; `ReadValidBody` never calls `Validate` |
| Response mappers, HTML frontend, CORS, mailing templates, password checks, configuration | none | pure output and input | - |

How they interact: `handleEnhanced` wraps each handler. `enrichRequestContext`
gets the session from the store, `verifyRole` looks at the copy, the handler
gets the session again, then reads rows, decides and writes. Handlers share
nothing but the database and the session store. `MappingResultOf` chooses the mapper of the
answer by the Accept header before the handler runs, `writeSessionCookie` after
it. Two tickers run beside them
(expired tokens, expired sessions). `requestPasswordReset` answers at once and
leaves the rest to a goroutine.

What makes each component correct:

- *Sales and credit, catalogue*: no account below zero, no negative stock, the
  cash account never charged; money, goods and record move together; no update
  is lost; the answer says what happened; handlers end.
- *Password reset*: a token works once, only for its user, only until it
  expires; a mailed token is not lost without effect; the cash account has no
  password; expired tokens go.
- *Sessions*: a session carries the rights its login gave; logout is final; a
  token given to a client is usable; expired sessions go.
- *Accounts, startup*: a name is one account's, for good; credentials are stored
  by their owner only; nobody gets a session without one; the answer to a
  registration is true; nobody owns the cash account; a server that is up has
  its tables and an administrator who can log in.
- *Content negotiation*: the parsers accept what the grammar allows and nothing
  else, and end; the answer has the format the client likes best.

## The modules

- `Ledger` - the abstract specification: what a user believes. A request takes
  effect in one step, on the books as they are in that step, or never.
- `Transactions` - sales, credit and catalogue as concurrent handlers.
- `TransactionsProofs`, `BooksProofs` - its theorems; the second holds those on
  sums.
- `PasswordReset`, `PasswordResetProofs` - the reset of forgotten passwords.
- `Sessions`, `SessionsProofs` - the session store and who uses it.
- `Registry` - the abstract specification of accounts: names are claimed,
  methods are added, people come and leave.
- `Accounts`, `AccountsProofs` - registration, added methods, logins and
  `initialize`, on the tables `users` and `auth`; they implement `Registry`.
- `Negotiation`, `NegotiationProofs`, `ParserProofs` - the parsers of Accept and
  Content-Type and the choices that hang on them.
- `HeaderGrammar`, `GrammarProofs` - how RFC 7231 writes these headers, which is
  a specification and no model of code, and that the parsers read them so.
- `MCTransactions`, `MCPasswordReset`, `MCSessions`, `MCAccounts`,
  `MCNegotiation` - the constants of the instances TLC checks.

The modules share tables and sessions as follows. What `Accounts!Startup` sets
up is the `Init` of the others. A "reset" in `Accounts` finds its
account and writes the password; what a token is worth in between is the
subject of `PasswordReset`. A login in `Accounts` is the `Login` and `Store` of
`Sessions`, where the races of the map and the clock are; `Accounts` keeps
apart who the session belongs to, `Sessions` what it is good for.
`Transactions` begins where `Sessions` lets a request through.

Operators whose comment begins with "Mutant" are not part of a model. Each is
a plausible bug in the definition it is named after, and shows that a property
would notice it.

### Transactions

A request `r` carries a payload `req[r]`: "buy", "credit" (changeCredit),
"update" or "add". `pc[r]` says where its handler stands, `user[r]` and
`item[r]` are the local copies of the rows, `tx[r]` the rows its open database
transaction has written, `reply[r]` what the client got. One action is one
statement, or the local computation between two statements:

| Action | Code |
|---|---|
| `Reject` | `enrichRequestContext`, `verifyRole`, body errors |
| `GetItemById`, `GetUserForId` | the two queries of `buyItem`; the second is also the first of `changeCredit` |
| `CheckSale` | `MakeTransaction` up to `db.Begin()` |
| `UpdateUserInSale`, `UpdateItemInSale` | the two UPDATEs, each with its rollback |
| `InsertAndCommit`, `CommitFails` | the INSERT and `tx.Commit()` |
| `CheckDiff`, `UpdateUser`, `UpdateUserOverflows` | the rest of `changeCredit` |
| `GetItemByName`, `WriteItem`, `UpdateNoItem`, `WriteItemConflicts` | `addItem` and `updateItem` |
| `StatementFails`, `QueryFails`, `GetItemByNameFails`, `WriteReportedFailed`, `Crash` | what may go wrong |

The database is an environment, modelled by what its clients observe at
PostgreSQL's default level READ COMMITTED: a statement reads committed rows, a
written row is locked until the transaction ends, item names are unique,
columns have a range, statements fail. The locks matter for the liveness
property: a handler waits for the row locks of others. The range of an INTEGER
column is `MaxColumn`; Go's 64-bit `int` is wider and does not wrap for values
that come from columns. SQLite fails a statement where PostgreSQL waits; the
failing statements cover that. `applied` records which requests have taken
effect.

`IsolatedSpec` is the same system with requests on one account, or one item,
not overlapping. Nothing in the code sees to that (it would take a
`SELECT ... FOR UPDATE` or relative updates), so it is an assumption about the
operator's traffic, and is named in the properties that need it.

### PasswordReset

A token is named by the mail `m` that carries it, a password by the reset that
chose it. `mailPc` is the goroutine (`LookUpUser`, `AddPasswordResetToken`,
`SendMail`, `MailFails`), `pc` the handler of `users.ResetPassword`
(`ReadToken`, `CheckExpiry`, `DeleteExpiredToken`, `DeleteTokenInTransaction`,
`SetPasswordInTransaction`, `Commit` and their failures), `resetTokens` and
`password` the committed tables, `open` the rows of the handler's open
transaction. A client presents a token that has been mailed, or one that was
never issued. `latest` (the token stored last for an account) and `lost` (the
mails that did not go out although their token was stored) are history: no
action reads them. `MailedTokensWork` is about them: a user who holds a mail
holds the token stored last for him, or that one is under way. The exception is
the code's own: `SendPasswordResetMail` replaces the row before it mails
(`users/user.go:317` and `321`), and when the mail server fails or the server
dies in between, the mails the user holds are worth nothing until he asks for
another.

### Sessions

An access to the map begins with one action and ends with the next, so that
accesses can overlap. If one of two overlapping accesses is a write, the
program has no defined meaning; the build can abort (`RuntimeAborts`), lose the
write, or miss the entry, and the model chooses among these. `purger` and
`purging` are `Purge` with its range loop: an entry stored meanwhile may or may
not be visited. `granted` collects the requests let through, `loggedOut` the
sessions deleted by logouts. "buy", "credit" and "admin" stand for the three
kinds of guarded routes.

### Accounts

`name` is the column `username` by id, `auth` the table of that name by id and
type. `server` is the next statement of `initialize`, or "up" or "down".

| Action | Code |
|---|---|
| `Start`, `VerifyTablesExist`, `VerifyCashUserExists`, `InsertAdmin`, `QueryAdminAuth`, `LogAdminPassword`, `InsertAdminAuth` | `initialize`; the last four are `VerifyAdminUserExists`, whose transaction holds none of its statements, since they go to `db` |
| `CheckName`, `AddUser` | `registerWithPassword` up to the first write |
| `AddAuthMethod` | `addAuthMethod` up to its write |
| `FindUserToReset` | the account a reset is for |
| `AddAuthentication` | the upsert into `auth`, of all three |
| `GetUserForUsername`, `GetUserForNFCToken`, `GetTaggedUser`, `GetAuthForUser`, `GetCashUser`, `CreateSession` | the logins; a registration ends with the last |
| `EndSession`, `Crash` | logout or purge; the end of the process |

Every statement may fail, and every write may take effect and yet be reported
as failed (`Fault`); crashes count as faults too. The id of an account is named
by the request that registers it, which is what a fresh UUID is. `held` is
history: every credential an account has ever had. A login reads the tables one
after the other, so what it has seen need not be there any more, and the
property `LoginsWereEntitled` speaks of `held`.

`Registry` is smaller by all of this: one step gives a name to an account, one
adds a method, one lets somebody in who has a method. In the refinement a method
is there when `auth` has a row, an account is welcomed when its registration was
answered "ok", and who is online is read off the session store. It does not
promise that a claimed name gets a method: a registration whose second
statement fails leaves an account nobody can log in to, which keeps its name
for good (`handlers.go:153`), until a password reset gives it one.

### Negotiation

A header is a sequence of tokens (words, separators, runs of whitespace, and
"?" for any character no token may hold), `s` is what is left of it, as in the
code, and every turn of a loop of the parsers is an action: `ConsumeType`,
`ConsumeParameter`, `ConsumeWeight`, `ConsumeExtension`, `Weigh` for
`GetAcceptableMediaTypeFromHeader`, `Select` for the loop that chooses,
`ParseType`, `ParseParameter`, `EndOfContentType` for `ParseMediaType`, and the
errors. `getWeight` is the constant `Weight`: which words are weights and what
they weigh. `made` tells the nil map of a media type from an empty one, which
`Equal` does too. Each header of an instance comes with its `meaning`, the
ranges it was written from or "malformed"; the parser never looks at it, the
properties do. The three routes are those that differ: `addItem` chooses the mapper
before the handler reads the body, a login after it, a logout has no body and
negotiates twice.

## What TLC checks

| Run | Question | Instance |
|---|---|---|
| `Shop` | What holds whatever overlaps and fails? | 3 requests, 2 users and cash, 2 items, one id to add, one unknown id; columns up to 6; 138,226 states |
| `Isolated` | Do the handlers implement the Ledger when conflicting requests do not overlap? | as `Shop`; 101,503 states |
| `Reset` | What holds for tokens and passwords? | 2 mails, 2 resets, 1 user and cash, lifetime 1, clock up to 2; 73,194 states |
| `Login` | What holds for sessions? | 3 requests, an administrator with two ways to log in, cash, lifetime 1, clock up to 2; 60,506 states |
| `Accounts` | What holds for accounts, credentials and sessions, from the first start on? | 4 requests in 29 workloads, 2 faults; 303,565 states |
| `Formats` | Which format is read and written, for which headers? | up to 3 ranges, and what one lost or added token makes of them; 22,044 states |
| `LostUpdate`, `OkWithoutSale`, `NegativeStock`, `ReplacedToken`, `MapRace`, `JsonBodies` | Where does the code break what its documents say? | the smallest workload that shows it; for `JsonBodies` all headers of `Formats` |

In `Shop`: `TypeOK`, `CreditNeverNegative`, `StockNeverNegative`,
`CashCreditFixed`, `NothingMovesAlone`, `AnswersMatchBooks`,
`FreshWritesKeepTheBooks` (a request whose copies are not stale does what the
Ledger says, whatever else goes on) and `EveryRequestAnswered`. In `Isolated`:
`CreditAddsUp`, `StockAddsUp`, `EditsStick`, and the refinement
`KeepsTheBooks`. In `Reset`: `TypeOK`, `CashHasNoPassword`,
`UsedTokensAreGone`, `MailedTokensWork`, `OkMeansReset`,
`TokensLeaveForAReason`, `PasswordsNeedMailedTokens`, `ExpiredTokensAreSwept`,
`EveryResetAnswered`. In `Login`: `TypeOK`, `PrivilegesNeedPassword`,
`LogoutIsFinal`, `LoginsAreUsable`, `SessionsLeaveForAReason`,
`ExpiredSessionsArePurged`. In `Accounts`: `TypeOK`, `OnlyOwnCredentials`,
`LoginsWereEntitled`, `AnswersMatchAccounts`, `AdminCanLogIn`, the refinement
`KeepsTheRegistry` and `ComesUpAgain`. In `Formats`: `TypeOK`, `BestTypeChosen`,
`ReadsWhatWasWritten`, `LogoutStatusAndBody`, `FormsArrive`,
`EveryRequestAnswered`. Each is explained at its definition.

**Bounds.** Interference here is between pairs: one request's reads and writes
around another's. Three requests give every pair and a bystander that holds a
lock or fails. The workload sets contain both requests on one account and on
different ones, on one item and on different ones, an edit that takes a name in
use, and values that overflow a column. `MaxColumn = 6` is above every balance
that occurs in regular trade and below what the item of price -6 pays out, so
both sides of the range occur. A lifetime of 1 with a clock up to 2 passes
before, at and after the end of a token or session. The clock bound `MaxTime`
is for TLC only.

In `Accounts` the second request competes with the first or works on its
account, and the others use what the two have left: four requests are what it
takes to register, add a method, and log in by it while somebody else resets
the password or has the same tag. Two faults let the server start, crash inside
`initialize`, start again and crash once more. In `Formats` three ranges are one
more than there are types to choose from, so that two compete for one type while a
third speaks for the other; 1, 0.5 and 0 are a weight, a smaller one and a refusal;
every token of a proper header is lost once, and every separator slipped in
everywhere.

**Fairness.** Weak fairness for each handler that has begun (Go schedules every
runnable goroutine, and the database answers), for the clock, the sweep of
tokens and the purge (tickers). None for the arrival of requests, for failures
or for crashes. A handler waiting for a row lock is not enabled; it is the
rollback or commit of the holder that lets it go on. In `Accounts` weak
fairness of `Startup`: both compose files say `restart: on-failure`, and
`initialize` is one goroutine before any other. In `Negotiation` weak fairness
of `Step`: one goroutine in loops without a wait.

**What the failing runs show.**

- `LostUpdate`: a purchase and a deposit of one user overlap; the later write
  of the account wipes out the earlier (`transactions/transaction.go:66`,
  `handlers.go:443`, against `openapi.yaml:351` and `426`).
- `OkWithoutSale`: `err := tx.Rollback()` shadows the error of the statement,
  and `buyItem` answers 200 (`transactions/transaction.go:68`, against
  `openapi.yaml:366`).
- `NegativeStock`: nothing calls `Validate` (`handlehttp/read-request-data.go:55`,
  against `openapi.yaml:486`).
- `ReplacedToken`: a token replaced or used after it was looked up still sets
  a password (`users/user.go:347`, against `users/users_test.go:336`).
- `MapRace`: the runtime kills the process on overlapping map accesses, and all
  sessions end early (`session/session.go:25`, against `openapi.yaml:518`).
- `JsonBodies`: `Equal` uses `reflect.DeepEqual`. `Json` in `match-accept.go` has
  a nil map of parameters, a parsed media type never has, so no body is read
  as JSON (`handlehttp/content-type/content-type.go:317`, against
  `openapi.yaml:180` and all other routes with a body). The frontend posts
  forms, which arrive (`FormsArrive`), and answers are not concerned, since
  there the types of `match-accept.go` are compared with each other.

Three more consequences of what the models contain have no run of their own. A
sale that overlaps an edit of its item writes the old name and price back
(`transactions/transaction.go:77`, against `openapi.yaml:107`): this is why
`EditsStick` is checked under `IsolatedSpec`. And editing an id without a row
is answered 200 (`UpdateNoItem`, `items/inventar.go:121`, against
`openapi.yaml:115`): this is why `AnswersMatchBooks` leaves edits out. And
`/logout` does not always answer 204 without data, as `openapi.yaml:343-348` has
it: a client that prefers HTML gets 200 and a page (`handlers.go:318`), and one
that sends no Accept header gets 200 and the empty answer, since
`GetAcceptableMediaType` then takes the first type there is
(`handlehttp/content-type/content-type.go:401`) and `MatchByAcceptHeader` its
default (`handlehttp/match-accept.go:35`). `LogoutStatusAndBody` states what the
code does, in all these cases.

## What is proved

For every value of the constants, with `tlapm`:

*TransactionsProofs.* `IInv` is `TypeOK` with, for every request, `HandlerOK`:
which copies are set at which label (`LabelOK`), that a handler past
`CheckSale` or `CheckDiff` still has copies that pass the check (`CheckedOK`),
which rows its transaction holds and that they fit (`TransactionOK`), and which
answers go with having taken effect (`EffectOK`). `TypeOK` alone is not
inductive: a commit writes a value that was range-checked two steps earlier.
The proof goes by locality: a step of `r` leaves the part of every other
request alone (`StepsAreLocal`), so each action is checked against its own part
only. From it: `TypeCorrect`, `NoAccountInDebt`, `CashIsNeverCharged`,
`SalesAreAtomic`, `AnswersAreHonest`. `FridgeNeverOwes` assumes
`AmountsValidated`, that the amounts in the workload are not negative, which is
what `Validate` would enforce. `NobodyWaitsInACircle` is why the shop cannot
deadlock on the rows of its tables: a sale writes the row of its user first and
that of its item second, so a handler that waits for an item waits for one that
waits for nobody. `FreshWritesAreLedgerSteps` shows that a write made on fresh
copies is a step of the Ledger, and `IsolatedRequestsKeepTheBooks` that with
requests that do not overlap all copies are fresh, hence that the handlers
implement the Ledger. That refinement
is the reason for the shape of the models: it says exactly what is missing in
the code.

*BooksProofs.* The sums are those of `FiniteSetsExt!MapThenSumSet`, defined by a
recursive function over sets. Induction on such data is out of reach for the
provers, but not a least counterexample: numbers are well-founded (`WFMin`), so
of the cardinalities of sets whose sum is not well-defined there would be a
smallest, and taking one element out of such a set gives a smaller one. From
this `TotalAddElement`: one element more adds its value. `EffectsInv`, which
holds for all behaviours (`EffectsAreCounted`), says that every sale on record
took effect and that an item with a committed update is there. With it, and
with the fresh copies of the refinement (`IsolatedInv`), each step of `books`
keeps both sides of an account equal: `CreditsAddUp`, `StocksAddUp`, and for
edits `SalesKeepEdits`. All three are about `IsolatedSpec`: the run `LostUpdate`
shows what an overlap does to a sum.

*PasswordResetProofs.* `IInv` adds to `TypeOK` that a token belongs to one
account from the moment it is drawn, enters the table once and before it is
mailed (`MailOK`, `TokenOK`), and that a handler past the lookup holds a mailed
token of its user (`ResetOK`). `RowMoves` says what a step can do to a row:
nothing, take it away for a reason, or store a fresh token. From these:
`TypeCorrect`, `CashIsNeverReset`, `TokensWorkOnce`, `ResetsAreHonest`,
`PasswordsAreGuarded`, `TokensAreNotLost`. `MailsAreHonest` needs an invariant of
its own: `LatestOK` follows the token stored last for an account from its INSERT
on (`StoredIsLatest`), through the steps that use it or let it expire
(`ServesOn`), while its mail is delivered or lost; an account without such a token
has no mail either.

*SessionsProofs.* `IInv` says of every request which session its handler has a
copy of at which label (`LabelOK`), that a copy taken by token is the session
given out under that token (`TokenOK`), and that this one has the role and the
backend its login was entitled to (`Genuine`); of the store, that every entry is
such a session (`EntryOK`). A copy may be stale, but what it says of the role
is right for good, hence `PrivilegesAreGuarded`. With it:
`TypeCorrect`, `SessionsAreNotLost`, `LogoutsAreFinal`, `TokensAreUsable`.

*AccountsProofs.* `IInv` says of every request what the account it has found is
to it (`LabelOK`): at "addAuth" that it may change its credentials, at "auth" that it has
the name asked for, at "session" that it has shown a credential; what its
session proves (`SessionOK`) and what its answer claims (`ReplyOK`). `ServerOK`
says how far `initialize` has come and what is there by then, `AdminOK` where
the administrator's password stands, `ReservedOK` that nobody is registered
before the cash account and the administrator are there, `HeldOK` that the cash
account has no credential. None of the properties is inductive without
these: that the cash account stays without a method, for example, needs that
no session by password belongs to it, which needs that nobody holds a credential
for it. The lemma all cases lean on is `Grows`: names, methods and sessions once
given stay as they are, whatever step is taken, so a claim about another request
survives. From it: `TypeCorrect`, `CredentialsAreOwn`, `LoginsAreEntitled`,
`RegistrationsAreHonest`, `TheAdministratorHasAPassword` and
`AccountsImplementRegistry`.

*NegotiationProofs.* The loop over the ranges keeps one entry for every available
type. The invariant is that the entry is the first of the most specific ranges
so far that take the type in (`Kept`), and for the loop after it that
`best` is the best of the types already seen (`ChosenSoFar`).
`getPrecedence` also counts parameters; since the available types have none, a
range with parameters takes in neither, and specificity comes down to the
wildcards. From it: `TypeCorrect`, and `NegotiationIsFair` for headers of any
length and any words and weights.

*ParserProofs.* What a parser does next depends on the header and on what it
remembers, so its run is the iteration of one function (`NextOf`) and it can end
in one way only. `LogoutStatusAndBody` compares two runs of it, the one for
the status and the one for the mapper: the invariant `Voice` says that a run that
has not ended can still reach the end that the first one had. Without a header
there is one run, over nothing, and `Silence` says that it gives no type a
weight. Both together: `LogoutAnswers`. `EveryStepIsNearer` is the part of "every request gets an
answer" that needs no fairness: `Round`, then `Phase`, then `Left` (what there
is left of the header or the list) decrease lexicographically with every step,
and stay natural numbers.

*GrammarProofs.* `Negotiation` gives every header of a request a meaning, next
to its tokens, and `ReadsWhatWasWritten` and `FormsArrive` compare what the
parsers made of the tokens with the meaning. For which pairs is that true?
`HeaderGrammar` says it without a parser: a header is made of pieces (`Derives`),
a media type or a name with its value, in an order (`AcceptGrammar`,
`TypeGrammar`), and the pieces say what the ranges are (`Says`). The hypotheses
`AcceptHeadersMean` and `ContentTypesMean` say that every meaning is the one by
that grammar, or `Malformed` where the grammar gives none. Then `HeadersAreRead`
and `FormsAreRead`: for headers of any length. The invariants are `ReadOK` and
`FormInv`: the tokens taken so far are pieces that say what the parser remembers,
and no header that goes on from here can begin in another way (`Begins`,
`Agree`), so a parser that fails was right to. No header is left out by the
hypotheses: `EveryHeaderMeans` and `EveryTypeMeans` show that every sequence of
tokens in which whitespace is one token has a meaning by the grammar. TLC cannot
evaluate `AcceptHeadersMean` (it quantifies over all sequences); the headers of
the run `Formats` have been compared with the grammar one by one by an
enumeration outside TLC, and all agree. The grammar leaves out what the RFC
allows and the code turns down: list elements that are empty and extensions
without a value.

The proofs use the named assumptions of the modules: the cash account is not a
registered user, "no row" is not a row, the workload consists of payloads, the
opening books have values their columns hold, the ids and names of the cash
account and the administrator differ, separators are not words, a weight is at
most 1000, a header that is not there has no tokens.

Only model-checked: the liveness properties `ComesUpAgain`,
`EveryRequestAnswered` (in `Transactions` and in `Negotiation`),
`EveryResetAnswered`, `ExpiredTokensAreSwept` and `ExpiredSessionsArePurged`,
because liveness under fairness and ENABLED are out of the prover's reach; of
what they rest on, `NobodyWaitsInACircle` and `EveryStepIsNearer` are proved. The
six disagreements with docs, comments and tests are counterexamples and have
nothing to prove.

## What is not modelled

- *A composition of all modules in one.* Sessions and accounts meet the sales
  in one value, the user id of the session, which `buyItem` and `changeCredit`
  take from their copy. Each module assumes of its neighbours only what the
  neighbour's module shows (see "The modules"), and a product of their state
  spaces would show nothing more.
- *Decoding and validation.* `encoding/json`, `gorilla/schema`, and the
  `Validate` methods, which nothing calls: that is modelled, by requests with any
  value. Hence `addAuthMethod` stores a method of any name, "password" too
  (`openapi.yaml:213` names two, and `data_transfer_test.go:136` tests that
  others are refused); a later login by such a password ends in a panic, of
  which net/http makes a broken connection (`Readable`).
- *Characters inside a token*: quoting, upper and lower case, the digits of a
  weight.
- *The connections of the database pool.* `VerifyAdminUserExists` leaves a
  transaction and a result open until it returns or longer; whether its statements
  outside the transaction can be held up by that depends on the driver.
- *Reading without deciding*: lists of items, users, transactions.
- *Output*: templates, static files, CORS headers, the encoding of answers.
- *Outside services and functions*: SMTP, argon2, the entropy and breach checks,
  the environment variables of `config.go`.
