# TLA+ specifications of the HSP user service

The user service (`src/hsp_user_service`) keeps accounts: it registers them,
logs them in with an e-mail and a password, hands out access tokens, guards
staff-only operations by role, and lets staff disable and enable workers. One
asyncio process serves the same operations over HTTP (FastAPI) and gRPC
(grpc.aio); several replicas may share one MySQL database, and a process may
keep its data in dictionaries instead.

The specifications answer what tests of this code hardly reach: what concurrent
calls do to each other between two database sessions, what a call or a start
that dies half way leaves behind, what differing clocks do to a token, in which
order a process takes itself down, and whether the two transports and the two
repositories really are the same service.

## Inventory

| Part | State | Operations | Talks to | What makes it correct | Modelled by |
|---|---|---|---|---|---|
| `service/auth_service.py` | none of its own; locals of each call | register, login, logout, get_me, authenticate (token or gateway identity), update_worker_status | the repository, one session per call of it; bcrypt, PyJWT | unique accounts; disabled workers kept out; decisions still true when acted on; an audit log that tells the truth | `AuthService`, `AuthServiceObserved` |
| access token | issue and expiry times in the token | issue, decode | the clock of a replica | good for its time to live on every replica, and no longer | `AccessToken`, `Clocks`, `Sessions` |
| `repository/mysql.py`, `infrastructure/orm.py` | tables users, worker_profiles, login_audit_logs, echo_records | eight user methods, two echo methods; a transaction each | MySQL through SQLAlchemy | uniqueness and foreign keys; updates that take effect | `UserStore`, `EchoService` |
| `repository/in_memory.py` | dictionaries | the same interface, atomic | - | behaves as the SQL one does | `MemoryService`, `RepositoryParity`, `EchoService` |
| `infrastructure/db.py` | which tables exist | create them at every start | MySQL | a start gets through over a whole schema only | `SchemaSetup` |
| `bootstrap/seed_users.py` | which default accounts exist | seed at every start | the repository | a service that serves has its default accounts; starts do not all block each other | `SeedUsers` |
| `transport/http` | none | routes, schemas, bearer token, role guard, error to status code | AuthService, EchoService | answers as gRPC does | `Transports`, `EchoService` |
| `transport/grpc` | none | handlers, gateway identity from metadata, enums, error to status code | AuthService, EchoService | the same; cancelled calls leave sound tables | `Transports`, `EchoService`, `AuthService` |
| `service/echo_service.py` | echo_records | create, get | echo repository | what is stored is found, as it was sent | `EchoService` |
| `main.py`, `container.py` | two server tasks, the engine | run until one server ends, stop the other, dispose the engine | both servers | always ends, cleans up in order | `ServiceProcess` |

Hard behaviours: every repository method is its own transaction, so each
operation is a sequence of separately committed steps between which any other
call, of this process or another replica, may run; a coroutine may die at any of
them (process death, database error, gRPC cancellation); an update assigns to a
row selected earlier, and writes only the columns whose value changed since;
decisions are taken from two tables read one after the other; starts of several
replicas look first and create later; tokens are written by one clock and read
by another. `PROJECT.json` lists each hazard at its line.

## Modules

### Accounts

* **`UserStore`** - the three tables and one operator per repository method. A
  table is a function whose domain grows: `users` (id to row), `profiles`
  (user id to employment status), `audit` (the rows each call wrote), and
  `nextId`, the auto-increment counter. The UNIQUE constraint on the e-mail is the
  guard of `CreateUser`, its violation `DuplicateUser` (which on InnoDB burns an
  id and on SQLite does not: both are allowed). `CommitUserStatus` and
  `CommitEmploymentStatus` write only when the assigned value differs from the
  one the session selected. bcrypt is a constant function `Digest`, which may map
  two passwords to one digest (it reads 72 bytes), and the normal form of an
  address is a constant function `Canonical`. The database is MySQL in its strict
  mode: `WideEmails` are the e-mails it refuses for their width, and `Collated` is
  its collation, under which e-mails of different letters may be the same one
  (`SameEmail`). The identity is one such collation.
* **`AuthService`** - all operations as one-shot requests. `pc[r]` names the
  round trip a request is about to make, or its outcome, which is the class of
  the error raised; `input[r]` is what the client sent, `who[r]` the account in
  its locals, `seen[r]` the column value the open update session selected. There
  is one action per round trip, and the code between two awaits belongs to the
  round trip before it. HTTP and gRPC run the same coroutine, so a request stands
  for either: its `claim` is what the token or the gateway metadata says. `Abort`
  kills a coroutine at any round trip; `Overflow` is the death it cannot escape, of
  an e-mail, a display name or a user agent too wide for its column. Of display
  names and user agents only their width is kept (`Texts`).
* **`AuthServiceObserved`** - promises about what happened *while* a request ran,
  with four history variables that only watch (`ObservedIsService` is the proof
  that they do).
* **`AccountLifecycle`** - the abstract specification: an account is pending,
  enabled or disabled, its e-mail and role are fixed, only workers are switched,
  and only once a staff account exists to do it. `UserStore` maps the tables to
  it (`Phase`, `AccountsOf`), and both `AuthService` and `SeedUsers` implement it.
* **`AccessToken`, `Clocks`, `Sessions`** - `_issue_access_token` and
  `_decode_access_token` over clocks read in ticks, of which a token keeps whole
  seconds; replicas whose clocks are ahead of true time by at most `MaxSkew`;
  and `AuthService` composed with them: `login_touch` issues a token, a later call
  on any replica carries it, and the claim it begins with is what decoding gives
  there and then. Every step but a tick is a step of `AuthService`
  (`SessionsAreService`).

### Start and end of a process

* **`SchemaSetup`** - `init_db`: `create_all` asks for every table, then creates the
  missing ones in order, one committed CREATE TABLE each. A table that somebody
  else has created by then makes the start fail.
* **`SeedUsers`** - `seed_default_users` at the start of several replicas over the
  tables of `UserStore`, with crashes and restarts.
* **`ServiceProcess`** - `asyncio.run(run())`: building the container, the two
  server tasks, `asyncio.wait` for the first, cancelling, stopping with grace,
  disposing the engine, with calls under way all the while. uvicorn, grpc.aio and
  SIGINT are its environment and may strike at any await.

### Two transports and two repositories

* **`MemoryService`** - the service over `InMemoryUserRepository`, whose coroutines
  await nothing: a call is an operator from the dictionaries before it to those
  after it and an answer. Log rows are kept under the call that wrote them, as in
  `UserStore`.
* **`RepositoryParity`** - the same calls, one after another, made to a deployment
  over SQL (the steps of `AuthService` and `OverflowOverSql`) and to one in memory,
  which first goes through the seeds (`SeedMemory`). Dictionaries have no column
  widths and no collation, so the two are compared as long as the calls are
  `Ordinary`: every value `Fits`, and the collation tells the e-mails in use apart.
  The call that ends this, and those after it, are steps of the model too.
* **`Transports`** - the FastAPI and the gRPC entrance in full: schemas, the order in
  which a route checks identity, role and body, metadata and peer parsing, wire
  enums, error codes, response mappers; each over a memory of its own. Which
  addresses are of a length the HTTP schemas refuse (`MissizedAddresses`) and which
  passwords are too long for them or empty are constants; a display name may be too
  long before it is stripped (`LongNames`). `PasswordSizeAssumption`
  says of them that bcrypt, which reads the first 72 bytes, does not take the empty
  password for one of eight characters or more; two long passwords may well have
  one digest.

### Echo

* **`EchoService`** - `create_echo` and `get_echo` through both transports, on
  processes over one database and on processes with a dictionary, where calls die
  and processes restart.
* **`WriteOnceStore`** - what that promises, abstractly: a record is written once,
  under a fresh id, and never changes; only a dictionary forgets, and then all.

`MCAuthService`, `MCAuthServiceObserved`, `MCSeedUsers`, `MCServiceProcess`,
`MCSessions`, `MCTransports`, `MCEchoService` are the instances TLC checks
(`SchemaSetup` needs none), and the `..._proofs` modules hold the theorems.

A few operators are marked *variant* in a comment: each is the operator below it
with a plausible mistake. They are used by no specification; substituting one
for its original must make a checked property fail (`mutants` in
`PROJECT.json`).

## Runs

| Run | Question | Bounds |
|---|---|---|
| `Registration.cfg` | One mailbox registered under two spellings and under an e-mail the collation equates with it, logged in to and switched at once, with refusals and deaths anywhere | 4 requests of 11 calls |
| `StatusRace.cfg` | A worker disabled, enabled, logging in and calling at once | 4 requests of 4 calls |
| `Access.cfg` | Every operation with every kind of claim: none, wrong role, no such account, worker, staff | 3 requests of 17 calls |
| `Tokens.cfg` | Tokens across two replicas, a disable and a logout | 3 requests; clocks a tick apart, 2 ticks to a second, 2 seconds to live, 5 ticks |
| `Schema.cfg` | Replicas creating the tables of one empty database | 3 replicas, the 4 tables of orm.py, 1 crash, any number of restarts |
| `Seeding.cfg` | Replicas seeding one empty database | 3 replicas, the 3 seeds, 1 crash, any number of restarts |
| `Process.cfg` | One process from its start to its end | 2 gRPC calls, 2 HTTP requests, which may be made again and again |
| `Echo.cfg` | Echoes on two processes over a database and one with a dictionary | 3 calls, 6 messages, 1 restart |
| `Transports.cfg` | The same calls to all four deployments, ordinary ones, too long, too wide and equal under the collation alone | 4 calls of 21, with each spelling of the gateway's metadata |
| `StatusDrift.cfg` (violated) | Are the two statuses of a worker in step whenever no update runs and none failed? | 3 requests |
| `SeedingCrash.cfg` (violated) | Does every default worker have a profile once every replica serves? | 2 replicas, 1 crash |
| `PeerAddress.cfg` (violated) | Is the address in the audit log the client's? | 3 calls, an IPv4 and an IPv6 client |

What the passing runs show:

* `UniqueEmail`, `ProfilesBelongToWorkers`, `StrandedWorkersStayActive`,
  `LoginAudited`, `ImplementsLifecycle`: registrations race only for the row,
  never for the account; a registration that died leaves a worker that is ACTIVE,
  cannot log in and cannot be disabled; a LOGIN_SUCCESS row is never about an
  account that could not log in. Two answers to a login leave no audit row: a
  refused address, and the NotFoundError of a worker whose profile is missing
  (`auth_service.py:144`), which only its right password brings about.
* `DisabledStaysOut`: a worker who is not enabled from the moment a call begins,
  with nobody enabling it meanwhile, is turned away, although login reads the two
  tables apart and a dead update may have left them apart.
* `LastUpdateWins`: an update nobody overlapped sets both tables until the next.
  `LastLoginCurrent`: last_login_at never falls behind a login that was over when
  the last one began; among logins that overlap it may go back.
* `StaffAlwaysActive`, `ActorStillEntitled`: checking a role or an identity once
  and using it several round trips later is sound here, because no operation
  changes a role or disables staff.
* `TokenHonoured`, `TokenExpires`: a token is honoured for its whole life on every
  replica while its account is enabled, save the skew at both ends and up to one
  second that int() rounds off, whoever logged out; after it and the skew it is
  worth nothing. (That being disabled and enabled again gives an old token back its
  use is beyond the three requests of the run, and left to the theorem.)
* `ReadyOverWholeSchema`, `SomeReplicaReady`, `ServesAfterSeeding`,
  `SomeReplicaServes`, `SomeReplicaAhead`: no replica goes on without all tables, or
  serves without all default accounts; replicas that start together may end each
  other's start (an existing table, a ConflictError nobody catches), never all of
  them, because unless one crashes some replica is ahead of all the others, and
  finds nothing of theirs in its way.
* `CleanReturn`, `EngineOutlivesCalls`, `ServerEndEndsProcess`: a run that returns
  has stopped the servers, their calls and the pool, in an order in which no
  handler outlives the pool, and hid no failure; a process with a dead server
  always ends. A failed server task makes `run()` raise before it cleans up: that
  is not a clean return, and `asyncio.run` closes the loop without the grace period.
* `EchoesFound`, `EchoesFaithful`, `WritesOnce`: an echo its creator was told of is
  found wherever it is kept as long as that lives, as it was sent. A create that
  died after its commit is recorded and never promised.
* `AnswersAgree`, `SameRecords`, `SameUserShown`, `SameAnswers`, `SameRows`,
  `MemorySound`: calls that do not overlap get the same answers, rows and users
  over SQL, in memory, over HTTP and over gRPC, with these differences and no other.
  What an HTTP schema refuses gets 422 before the service sees it, so that a login
  with an empty password is logged over gRPC only. The bounds on the length of an
  address, a password or a display name stand in the HTTP schemas alone, gRPC lets
  such calls through (`BeyondLengths`): the first three properties are about the
  behaviours up to the first such call (`Comparable`). And a value wider than its
  column, or an e-mail the collation equates with another, is one thing to MySQL and
  another to the dictionaries: the next two are about the behaviours up to the first
  such value (`Ordinary`). A test in memory says nothing of those.

Three sentences of the repository are refuted. "Update worker employment status and
sync account status" (`transport/http/auth_router.py:133`) holds of a lone update
(`LastUpdateWins`), not of two that interleave: `StatusDrift.cfg` ends with a
worker ON_DUTY whose account is DISABLED, both calls answered with success.
"seed_default_users creates loginable accounts" (`tests/unit/test_seed_users.py:10`)
does not survive a start that died between two inserts: `SeedingCrash.cfg`.
"peer format examples: ipv4:127.0.0.1:51234 or ipv6:[::1]:51234"
(`transport/grpc/service.py:231`): of the second an empty address is logged,
`PeerAddress.cfg`.

Why the bounds are enough: an operation touches at most one account and its
profile, so conflicts need two calls about the same one and the staff account
that acts; the third and fourth request give every pair of racing updates a
login, a call or a third update as witness. Requests are one-shot: a retry is
another request. The seeds are one owner and one worker (which may lack its
profile, as a dead start leaves it), so the id registration hands out is 3, or 4
after a burnt one. "n~ew" differs from "new" by an accent that the collation ignores; in
`Transports.cfg` the address "vast" is too long for the HTTP schema and for its
column, a name or an agent may be too wide, and a "padded" name fits once it is
stripped. For starts, two replicas race and the third comes late or
again. The tokens' instance has a second of two ticks, so that rounding and the
skew differ, and a horizon past the expiry. Three echo calls are a create, another
and a get of either. In `Transports.cfg` four calls are a registration, a login,
an update and a call that meets its result. Requests and echo calls are
interchangeable, hence the symmetry sets; runs with a liveness property use none.
The theorems below lift most of these bounds.

Fairness: `SeedSpec` and `SchemaSpec` assume weak fairness of a replica's own
steps once it has started, that is, that the event loop resumes a coroutine whose
round trip returned. Nothing in the repository restarts a replica, so `Start` and
`StartUp` are not fair, and neither liveness property promises anything once a
replica crashed. `ProcessSpec` assumes that the event loop resumes `run()` when what
it awaits is there, and lets a cancelled task unwind; that a server ends, a call
is answered or a signal arrives is never assumed: `ServerStopped` is the end of the
five seconds' grace, which passes by itself. `AuthService`, `Sessions`,
`EchoService` and `Transports` have only safety properties and assume no fairness.

## Proofs

Everything is proved for any values of the constants that satisfy the named
assumptions of the modules: sets of calls, replicas, seeds, clocks of any size.

* **`AuthService_proofs`** - `IInv` is invariant, and with it `TypeOK`,
  `UniqueEmail`, `ProfilesBelongToWorkers`, `StaffAlwaysActive`,
  `StrandedWorkersStayActive` and `ActorStillEntitled`; `LoginAudited` by `AuditInv`.
  None of these is inductive. That staff stays ACTIVE rests on the commit of an
  update hitting a worker, which was checked three round trips earlier; so `IInv`
  adds `LocalsTrue(r)`: what request r read and still holds in its locals is true
  of the tables now. The argument is that the tables only grow: no row is deleted
  and no row changes its e-mail or role (`Grows`), so what is true of one
  request's locals survives the steps of all others (`OthersStayTrue`). One lemma
  per repository method shows that it keeps the tables sound and lets them grow;
  one lemma per operation, with one step per round trip, shows that it establishes
  its own locals. A call that overflows a column is one that dies (`Overflow` implies
  `Abort`), so all of this holds of tables with and without widths. `AuditInv` adds what a login has found out by each of its round
  trips (`LoginKnows`) and that no other operation is ever at one (`Sectioned`).
  `ImplementsLifecycle`: of all round trips four change an account as a client sees
  it, and each is an open, a completion, a switch, or none because the other table
  already says so.
* **`AuthServiceObserved_proofs`** - `LastLoginCurrent` by `EarlierInv` (a login stamps
  an account with itself and is never among the earlier ones), `LastUpdateWins` by
  `UpdateInv` (what an update that runs alone selected is still what the tables
  hold), `DisabledStaysOut` by `ShutInv`: a call that got past users.status was let
  past it before that status was written, and meets an employment status that
  nobody could have put back (`BarredStays`).
* **`Sessions_proofs`** - every session is a behaviour of `AuthService`, so all of the
  above holds of it; `TokenExpires` and `TokenHonoured` from `SessionInv`, which says
  of each issued token what it was signed with, and of each call that carries one
  what it was decoded to and when. The rest is arithmetic on rounding and skew.
* **`SeedUsers_proofs`** - `SeedInv`: a replica has the seeds it has passed, because no
  row is ever removed; with it `SeedTypeOK`, `ServesAfterSeeding` and the refinement
  of `AccountLifecycle`. `SomeReplicaAhead` with `InOrder`: accounts come to exist in
  the order of the seeds, so the replica that created the last one is ahead until
  another creates the next.
* **`SchemaSetup_proofs`** - `SchemaInv`: a table a replica has passed exists or is still
  on its list; with it `ReadyOverWholeSchema`, and `SomeReplicaAhead` in the same way.
* **`ServiceProcess_proofs`** - `ProcessInv`: what `run()` has taken down by each await;
  with it `CleanReturn` and `EngineOutlivesCalls`.
* **`EchoService_proofs`** - `EchoInv`, and with it `EchoesFound`, `EchoesFaithful` and
  the refinement of `WriteOnceStore`.
* **`Transports_proofs`** - `ParityInv` and `TransportInv`, and with them `SameAnswers`,
  `SameRows`, `MemorySound`, `AnswersAgree`, `SameRecords` and `SameUserShown`.
  A call is one step in memory and up to seven round trips over SQL, so what links
  the two in between is what is *left* of the call: `Image` is the memory that holds
  what the tables hold, and `Left(r)` what request r would still do to it in one
  step, from the round trip it is at. Each repository method over SQL changes
  `Image` as the method in memory does (one lemma each), so no round trip of a call
  that runs alone changes `Left(r)` (one lemma per operation, one step per round
  trip); it is the whole call in memory when it begins, and the outcome when it is
  over. `Undisturbed` says that what such a call has read is still so: the e-mail it
  looked up is free, the column it selected is what it was. All this under `Ordinary`,
  which a step can end and none can restore (`GivenGrows`): as long as it holds, an
  account the database finds for an e-mail is the one the dictionary finds
  (`OrdinaryIsPlain`, since every account's e-mail was given by a seed or a call), and
  no call overflows (`OverflowIsNot`). For the entrances, gRPC
  decodes what was meant (`ReceivedAsMeant`), so its dictionaries are `memory`; those
  behind HTTP are `memory` but for the audit rows of the calls a schema turned away
  (`Without`), which no other call reads or writes (`CallWithout`), and a call the
  schema turns away is one the service refuses too, writing an audit row at most
  (`TurnedAway`). That needs `WellFormed` dictionaries: the index is the inverse of
  the users, so that a lookup finds one account, and no account has the digest of
  the empty password.

Only model-checked: the liveness properties (`SomeReplicaServes`,
`SomeReplicaReady`, `ServerEndEndsProcess`), since liveness under fairness and ENABLED
are out of this prover's reach; of the first two, `SomeReplicaAhead` is the part that
is proved. Every invariant and every refinement that a passing run checks is a theorem.
No module declares a RECURSIVE operator.

## Not modelled

* The generated gRPC code under `src/rpc`, the OpenAPI document and the script that
  exports it: no state of their own. Settings and their parsing are constants.
* The two health checks, logging, wording, response layout, row timestamps other
  than last_login_at (modelled by which request wrote it), display names beyond their
  width, and worker numbers (an injective rendering of the id). 200 stands for the
  201 of a registration.
* The SELECT with which `session.refresh` follows the commits of the user repository
  (`mysql.py:92`, `133`, `166`, `183`, `206`). A call that dies there has committed:
  for all but the last write of a call that is the death before its next round trip.
* Signature, issuer and audience of a token, which are the same on every replica.
* Lock waits and deadlock victims, but as `Abort`: the database is a store of
  committed rows with SELECT and INSERT or UPDATE as atomic steps. A MySQL that is not
  strict would cut a wide value off instead of refusing it.
* Nothing is claimed of what follows a call beyond the lengths that the HTTP schemas
  state, or a value that is not `Ordinary`: the deployments then hold different
  accounts, and no text promises bounds for gRPC or widths for the dictionaries.
* A call over SQL that dies (`Abort`) is no part of the comparison with the
  dictionaries, whose calls cannot.
* Concurrent calls in memory: the repository never suspends, so a call is atomic,
  and its behaviours are among those of `AuthService`.
