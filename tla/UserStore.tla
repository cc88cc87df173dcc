------------------------------ MODULE UserStore ------------------------------
(***************************************************************************)
(* The three tables behind hsp_user_service.repository.UserRepository, and *)
(* one operator per repository method.                                     *)
(*                                                                         *)
(* Every repository method opens its own session and commits its own       *)
(* transaction, so an operator below is one database round trip; the two   *)
(* update_* methods whose session first SELECTs the row and later UPDATEs  *)
(* it are two round trips (a Selected... and a Commit... operator), and    *)
(* other sessions may commit between them.                                 *)
(*                                                                         *)
(* Rows are never deleted by this service, and an account's e-mail, hash   *)
(* and role are never rewritten.  Row timestamps and the worker number (an *)
(* injective rendering of the user id) are left out, and so are display    *)
(* names, but for their width.                                             *)
(*                                                                         *)
(* The database is MySQL in its strict mode: it refuses a value wider than *)
(* its column, and compares e-mails by its collation (utf8mb4's default    *)
(* takes letters that differ in case or accent for equal).                 *)
(***************************************************************************)
EXTENDS Naturals, Sequences, FiniteSets

CONSTANTS
    Requests,      \* one-shot calls of the service; they also stamp last_login_at
    NoRequest,     \* last_login_at IS NULL
    Addresses,     \* e-mail strings as a client spells them
    Emails,        \* normalised e-mail strings
    NoEmail,       \* what an address normalises to when it is refused
    Canonical,     \* Addresses -> Emails \cup {NoEmail}
    WideEmails,    \* the e-mails of more than 255 characters, the column's width
    Collated,      \* e-mail -> the one that stands for all the collation equates with it
    Passwords,     \* raw passwords
    WeakPasswords, \* the passwords shorter than eight characters
    Digests,       \* bcrypt digests, up to their salt
    Digest,        \* Passwords -> Digests
    Seeds          \* the rows seed_default_users writes, in order

Roles == {"WORKER", "CUSTOMER_SERVICE", "OWNER"}
StaffRoles == {"CUSTOMER_SERVICE", "OWNER"}
UserStatuses == {"ACTIVE", "DISABLED"}
EmploymentStatuses == {"ON_DUTY", "DISABLED"}
AuditEvents == {"LOGIN_SUCCESS", "LOGIN_FAILED", "LOGOUT"}

NoUser == 0

UserRow == [email: Emails, password_hash: Digests, role: Roles,
            status: UserStatuses, lastLogin: Requests \cup {NoRequest}]
AuditRow == [user: Nat, event: AuditEvents]

ASSUME RequestAssumption == NoRequest \notin Requests
ASSUME EmailAssumption ==
    /\ NoEmail \notin Emails
    /\ Canonical \in [Addresses -> Emails \cup {NoEmail}]
    /\ WideEmails \subseteq Emails
    /\ Collated \in [Emails -> Emails]
ASSUME PasswordAssumption ==
    /\ WeakPasswords \subseteq Passwords
    /\ Digest \in [Passwords -> Digests]
ASSUME SeedAssumption ==
    /\ Seeds \in Seq([email: Emails \ WideEmails, password_hash: Digests, role: Roles])
    /\ \A i, j \in 1..Len(Seeds) :
          Collated[Seeds[i].email] = Collated[Seeds[j].email] => i = j

VARIABLES
    users,     \* users: id -> row
    profiles,  \* worker_profiles: user_id -> employment_status
    nextId,    \* the users table's AUTO_INCREMENT counter
    audit      \* login_audit_logs: the rows each request wrote, oldest first

storeVars == <<users, profiles, nextId, audit>>

StoreTypeOK ==
    /\ nextId \in Nat \ {0}
    /\ users \in [DOMAIN users -> UserRow]
    /\ DOMAIN users \subseteq 1..(nextId - 1)
    /\ profiles \in [DOMAIN profiles -> EmploymentStatuses]
    /\ DOMAIN profiles \subseteq DOMAIN users
    /\ audit \in [Requests -> Seq(AuditRow)]

-----------------------------------------------------------------------------
(* Reads.                                                                  *)

Insert(table, key, row) ==
    [k \in DOMAIN table \cup {key} |-> IF k = key THEN row ELSE table[k]]

\* The database's `=` on e-mails.
SameEmail(e, f) == Collated[e] = Collated[f]

\* The ids SELECT ... WHERE email = e returns; at most one, see UniqueEmail.
GetUserByEmail(e) == {i \in DOMAIN users : SameEmail(users[i].email, e)}

UserExists(i) == i \in DOMAIN users
ProfileExists(i) == i \in DOMAIN profiles

\* The UNIQUE constraint on users.email, checked by the INSERT itself.
NeverTaken(e) == FALSE   \* variant: no UNIQUE constraint
EmailTaken(e) == GetUserByEmail(e) # {}

-----------------------------------------------------------------------------
(* Writes.  Each leaves the tables it does not name as they were.  A value *)
(* too wide for its column is a DataError, which only `except              *)
(* IntegrityError` would have turned into an answer: see Overflow.         *)

NewUser(e, digest, role) ==
    [email |-> e, password_hash |-> digest, role |-> role,
     status |-> "ACTIVE", lastLogin |-> NoRequest]

CreateUser(e, digest, role) ==
    /\ e \notin WideEmails /\ ~ EmailTaken(e)
    /\ users' = Insert(users, nextId, NewUser(e, digest, role))
    /\ nextId' = nextId + 1
    /\ UNCHANGED <<profiles, audit>>

\* The rolled-back INSERT: InnoDB burns the id, SQLite and the in-memory
\* repository do not.
DuplicateUser(e) ==
    /\ e \notin WideEmails /\ EmailTaken(e)
    /\ nextId' \in {nextId, nextId + 1}
    /\ UNCHANGED <<users, profiles, audit>>

CreateWorkerProfile(i) ==
    /\ profiles' = IF ProfileExists(i) THEN profiles
                   ELSE Insert(profiles, i, "ON_DUTY")
    /\ UNCHANGED <<users, nextId, audit>>

FirstLoginAt(i, r) ==   \* variant: only the first login is written
    /\ users' = IF users[i].lastLogin = NoRequest
                THEN [users EXCEPT ![i].lastLogin = r] ELSE users
    /\ UNCHANGED <<profiles, nextId, audit>>

UpdateLastLoginAt(i, r) ==
    /\ users' = [users EXCEPT ![i].lastLogin = r]
    /\ UNCHANGED <<profiles, nextId, audit>>

\* The flush emits an UPDATE only for a column whose new value differs from
\* the value this session selected: a "no net change" assignment writes
\* nothing, whatever the row holds by now.
CommitEmploymentStatus(i, selected, status) ==
    /\ profiles' = IF status = selected THEN profiles
                   ELSE [profiles EXCEPT ![i] = status]
    /\ UNCHANGED <<users, nextId, audit>>

CommitUserStatus(i, selected, status) ==
    /\ users' = IF status = selected THEN users
                ELSE [users EXCEPT ![i].status = status]
    /\ UNCHANGED <<profiles, nextId, audit>>

CreateLoginAuditLog(r, i, event) ==
    /\ audit' = [audit EXCEPT ![r] = Append(@, [user |-> i, event |-> event])]
    /\ UNCHANGED <<users, profiles, nextId>>

-----------------------------------------------------------------------------
(* The tables as seed_default_users leaves them.  A start that died between *)
(* a worker's two inserts is not repaired by the next one, so any set of    *)
(* seeded workers may lack the profile.                                     *)

SeededWorkers == {i \in 1..Len(Seeds) : Seeds[i].role = "WORKER"}

StoreInit ==
    /\ users = [i \in 1..Len(Seeds) |->
                  NewUser(Seeds[i].email, Seeds[i].password_hash, Seeds[i].role)]
    /\ nextId = Len(Seeds) + 1
    /\ \E finished \in SUBSET SeededWorkers :
          profiles = [i \in finished |-> "ON_DUTY"]
    /\ audit = [r \in Requests |-> <<>>]

-----------------------------------------------------------------------------
(* The accounts these tables stand for.                                    *)

Phase(i) ==
    IF users[i].status # "ACTIVE" THEN "disabled"
    ELSE IF users[i].role # "WORKER" THEN "enabled"
    ELSE IF ~ ProfileExists(i) THEN "pending"
    ELSE IF profiles[i] = "ON_DUTY" THEN "enabled" ELSE "disabled"

AccountsOf == [i \in DOMAIN users |-> [email |-> users[i].email,
                                       role  |-> users[i].role,
                                       phase |-> Phase(i)]]

Lifecycle == INSTANCE AccountLifecycle WITH
    Workers <- {"WORKER"}, Staff <- StaffRoles, accounts <- AccountsOf

\* Every round trip opens, completes, enables or disables one account, or
\* changes nothing a client can tell, whatever interleaves with it and wherever
\* a handler or a start dies: staff is never disabled, an e-mail and a role
\* never change hands, a worker without a profile is never enabled or disabled.
ImplementsLifecycle == Lifecycle!Spec
-----------------------------------------------------------------------------
(* What the tables must satisfy.                                           *)

\* No two accounts have e-mails the database takes for equal, however
\* concurrent registrations interleave: get_user_by_email's scalar_one_or_none
\* would raise, and either owner could be locked out of the account.
UniqueEmail ==
    \A i, j \in DOMAIN users : SameEmail(users[i].email, users[j].email) => i = j

\* Only a WORKER account ever owns a worker profile: the staff roles are
\* admitted without looking at one.
ProfilesBelongToWorkers ==
    \A i \in DOMAIN profiles : users[i].role = "WORKER"
=============================================================================
