----------------------------- MODULE AuthService -----------------------------
(***************************************************************************)
(* hsp_user_service.service.AuthService behind its HTTP and gRPC handlers, *)
(* over the SQL repository.                                                *)
(*                                                                         *)
(* A request is one call of one handler.  Both transports run the same     *)
(* service coroutine, so a request is a sequence of database round trips   *)
(* and everything the coroutine computes between two awaits belongs to the *)
(* round trip before it.  Between any two of them other requests, of this  *)
(* process or of another replica, may take steps of their own.             *)
(*                                                                         *)
(* pc[r] names the round trip request r is about to make, or its outcome.  *)
(* A coroutine may die at any of them: the process or the database goes    *)
(* away, or gRPC cancels the handler.  What it committed stays.            *)
(***************************************************************************)
EXTENDS UserStore

CONSTANTS
    Inputs,   \* the calls clients may make
    NoInput,  \* a request not made yet
    NoClaim   \* a bearer token or gateway metadata that does not decode

Operations == {"register", "login", "logout", "me", "guard", "update"}
Claims == [id: Nat, role: Roles]

\* A text is blank or missing, fits the column it is for, does once its blanks
\* are stripped, or is too wide for it: 128 characters for a display name, 512
\* for a user agent.
Texts == {"none", "fits", "padded", "wide"}

Input == [op: Operations,
          address: Addresses, password: Passwords,            \* register, login
          role: Roles \cup {"UNSPECIFIED"}, name: Texts,      \* register
          agent: Texts \ {"padded"},                          \* login, logout
          claim: Claims \cup {NoClaim},                       \* the others
          target: Nat,                                        \* update
          status: EmploymentStatuses \cup {"UNSPECIFIED"}]

ASSUME InputAssumption == Inputs \subseteq Input /\ NoInput \notin Inputs
ASSUME ClaimAssumption == NoClaim \notin Claims

VARIABLES
    pc,      \* where each request stands
    input,   \* what its client sent
    who,     \* the account it read: the id and role its locals hold
    seen     \* the column value the open update session selected

vars == <<users, profiles, nextId, audit, pc, input, who, seen>>
localVars == <<input, who, seen>>

Final == {"ok", "conflict", "invalid", "unauthenticated", "forbidden",
          "not_found", "failed"}
WriteSection == {"profile_select", "profile_commit", "user_select", "user_commit"}
Labels == Final \cup WriteSection \cup
    {"idle", "register_lookup", "register_insert", "register_profile",
     "login_lookup", "login_profile", "login_touch", "login_success",
     "login_reload", "login_reject", "auth_user", "auth_profile",
     "logout_audit", "me_user", "me_profile", "update_target"}

Nobody == [id |-> NoUser, role |-> "UNSPECIFIED"]
NotSeen == "UNSPECIFIED"
Snapshot(i) == [id |-> i, role |-> users[i].role]

TypeOK ==
    /\ StoreTypeOK
    /\ pc \in [Requests -> Labels]
    /\ input \in [Requests -> Inputs \cup {NoInput}]
    /\ \A r \in Requests : pc[r] # "idle" => input[r] \in Inputs
    /\ who \in [Requests -> [id: Nat, role: Roles \cup {"UNSPECIFIED"}]]
    /\ seen \in [Requests -> UserStatuses \cup EmploymentStatuses \cup {NotSeen}]

Init ==
    /\ StoreInit
    /\ pc = [r \in Requests |-> "idle"]
    /\ input = [r \in Requests |-> NoInput]
    /\ who = [r \in Requests |-> Nobody]
    /\ seen = [r \in Requests |-> NotSeen]

Step(r, from, to) == pc[r] = from /\ pc' = [pc EXCEPT ![r] = to]

-----------------------------------------------------------------------------
(* Up to the first round trip: what a handler refuses on its input alone.  *)

NormalizeEmail(a) == Canonical[a]

RegistrationUnchecked(a) ==   \* variant: the role is not mapped before use
    /\ NormalizeEmail(a.address) # NoEmail
    /\ a.password \notin WeakPasswords
    /\ a.role = "WORKER" => a.name # "none"

RegistrationValid(a) ==
    /\ NormalizeEmail(a.address) # NoEmail
    /\ a.password \notin WeakPasswords
    /\ a.role \in Roles
    /\ a.role = "WORKER" => a.name # "none"

FirstStep(a) ==
    CASE a.op = "register" ->
            IF RegistrationValid(a) THEN "register_lookup" ELSE "invalid"
      [] a.op = "login" ->
            IF NormalizeEmail(a.address) # NoEmail THEN "login_lookup" ELSE "invalid"
      [] OTHER ->
            IF a.claim # NoClaim THEN "auth_user" ELSE "unauthenticated"

Begin(r, a) ==
    /\ Step(r, "idle", FirstStep(a))
    /\ input' = [input EXCEPT ![r] = a]
    /\ UNCHANGED <<users, profiles, nextId, audit, who, seen>>

-----------------------------------------------------------------------------
(* register                                                                *)

Email(r) == NormalizeEmail(input[r].address)

RegisterLookup(r) ==
    /\ Step(r, "register_lookup",
            IF GetUserByEmail(Email(r)) = {} THEN "register_insert" ELSE "conflict")
    /\ UNCHANGED <<storeVars, localVars>>

AlwaysProfile(role) == "register_profile"   \* variant: for every role
AfterInsert(role) == IF role = "WORKER" THEN "register_profile" ELSE "ok"

RegisterInsert(r) ==
    LET role == input[r].role IN
    /\ Step(r, "register_insert", AfterInsert(role))
    /\ CreateUser(Email(r), Digest[input[r].password], role)
    /\ who' = [who EXCEPT ![r] = [id |-> nextId, role |-> role]]
    /\ UNCHANGED <<input, seen>>

RegisterDuplicate(r) ==
    /\ Step(r, "register_insert", "conflict")
    /\ DuplicateUser(Email(r))
    /\ UNCHANGED localVars

RegisterProfile(r) ==
    /\ Step(r, "register_profile",
            IF ProfileExists(who[r].id) THEN "conflict" ELSE "ok")
    /\ input[r].name # "wide"
    /\ CreateWorkerProfile(who[r].id)
    /\ UNCHANGED localVars

-----------------------------------------------------------------------------
(* login                                                                   *)

PasswordMatches(password, i) == Digest[password] = users[i].password_hash

LoginUserVerdict(found, password) ==
    IF \E i \in found : PasswordMatches(password, i) /\ users[i].status = "ACTIVE"
    THEN "login_profile" ELSE "login_reject"

LoginLookup(r) ==
    LET found == GetUserByEmail(Email(r)) IN
    /\ Step(r, "login_lookup", LoginUserVerdict(found, input[r].password))
    /\ who' = [who EXCEPT ![r] = IF found = {} THEN Nobody
                                 ELSE Snapshot(CHOOSE i \in found : TRUE)]
    /\ UNCHANGED <<storeVars, input, seen>>

LoginUnlogged(w) ==   \* variant: being off duty leaves no audit row
    IF w.role = "WORKER" /\ ~ ProfileExists(w.id) THEN "not_found"
    ELSE IF w.role = "WORKER" /\ profiles[w.id] # "ON_DUTY" THEN "unauthenticated"
    ELSE "login_touch"

LoginProfileVerdict(w) ==
    IF w.role = "WORKER" /\ ~ ProfileExists(w.id) THEN "not_found"
    ELSE IF w.role = "WORKER" /\ profiles[w.id] # "ON_DUTY" THEN "login_reject"
    ELSE "login_touch"

LoginProfile(r) ==
    /\ Step(r, "login_profile", LoginProfileVerdict(who[r]))
    /\ UNCHANGED <<storeVars, localVars>>

\* The row holds the account's e-mail, or the one no account was found under.
AuditFits(r) ==
    /\ input[r].agent # "wide"
    /\ who[r].id = NoUser => Email(r) \notin WideEmails

LoginTouch(r) ==
    /\ Step(r, "login_touch", "login_success")
    /\ UpdateLastLoginAt(who[r].id, r)
    /\ UNCHANGED localVars

LoginSuccess(r) ==
    /\ Step(r, "login_success", "login_reload")
    /\ AuditFits(r)
    /\ CreateLoginAuditLog(r, who[r].id, "LOGIN_SUCCESS")
    /\ UNCHANGED localVars

LoginReload(r) ==
    /\ Step(r, "login_reload", IF UserExists(who[r].id) THEN "ok" ELSE "not_found")
    /\ UNCHANGED <<storeVars, localVars>>

LoginReject(r) ==
    /\ Step(r, "login_reject", "unauthenticated")
    /\ AuditFits(r)
    /\ CreateLoginAuditLog(r, who[r].id, "LOGIN_FAILED")
    /\ UNCHANGED localVars

-----------------------------------------------------------------------------
(* authenticate_gateway_identity, which every other operation runs first:   *)
(* HTTP with the claims of the access token, gRPC with the gateway's        *)
(* metadata.  Then the role guard, then the operation.                      *)

AuthUserVerdict(claim) ==
    IF /\ UserExists(claim.id)
       /\ users[claim.id].role = claim.role
       /\ users[claim.id].status = "ACTIVE"
    THEN "auth_profile" ELSE "unauthenticated"

AuthUser(r) ==
    LET claim == input[r].claim
        verdict == AuthUserVerdict(claim) IN
    /\ Step(r, "auth_user", verdict)
    /\ who' = [who EXCEPT ![r] = IF verdict = "auth_profile"
                                 THEN Snapshot(claim.id) ELSE @]
    /\ UNCHANGED <<storeVars, input, seen>>

AnyRole(w, next) == next   \* variant: no role guard
EnsureRoles(w, next) == IF w.role \in StaffRoles THEN next ELSE "forbidden"

AdmittedStep(a, w) ==
    CASE a.op = "logout" -> "logout_audit"
      [] a.op = "me"     -> "me_user"
      [] a.op = "update" ->
            EnsureRoles(w, IF a.status \in EmploymentStatuses
                           THEN "update_target" ELSE "invalid")
      [] OTHER -> EnsureRoles(w, "ok")

AnyProfileAdmits(w) ==   \* variant: employment_status is not looked at
    w.role = "WORKER" => ProfileExists(w.id)

ProfileAdmits(w) ==
    w.role = "WORKER" => ProfileExists(w.id) /\ profiles[w.id] = "ON_DUTY"

AuthProfile(r) ==
    /\ Step(r, "auth_profile",
            IF ProfileAdmits(who[r]) THEN AdmittedStep(input[r], who[r])
            ELSE "unauthenticated")
    /\ UNCHANGED <<storeVars, localVars>>

\* The access token is not revoked: logout only leaves a trace.
Logout(r) ==
    /\ Step(r, "logout_audit", "ok")
    /\ AuditFits(r)
    /\ CreateLoginAuditLog(r, who[r].id, "LOGOUT")
    /\ UNCHANGED localVars

MeUser(r) ==
    /\ Step(r, "me_user", IF UserExists(who[r].id) THEN "me_profile" ELSE "not_found")
    /\ UNCHANGED <<storeVars, localVars>>

MeProfile(r) ==
    /\ Step(r, "me_profile", "ok")
    /\ UNCHANGED <<storeVars, localVars>>

-----------------------------------------------------------------------------
(* update_worker_status: two tables, two sessions, two round trips each.   *)

AnyTarget(i) == IF UserExists(i) THEN "profile_select" ELSE "not_found"  \* variant

UpdateTargetVerdict(i) ==
    IF ~ UserExists(i) THEN "not_found"
    ELSE IF users[i].role = "WORKER" THEN "profile_select" ELSE "invalid"

UpdateTarget(r) ==
    /\ Step(r, "update_target", UpdateTargetVerdict(input[r].target))
    /\ UNCHANGED <<storeVars, localVars>>

SelectedAnyway(i) == "profile_commit"   \* variant: None is not checked
SelectedProfile(i) == IF ProfileExists(i) THEN "profile_commit" ELSE "not_found"

SelectProfile(r) ==
    LET i == input[r].target IN
    /\ Step(r, "profile_select", SelectedProfile(i))
    /\ seen' = [seen EXCEPT ![r] = IF ProfileExists(i) THEN profiles[i] ELSE @]
    /\ UNCHANGED <<storeVars, input, who>>

CommitProfile(r) ==
    /\ Step(r, "profile_commit", "user_select")
    /\ CommitEmploymentStatus(input[r].target, seen[r], input[r].status)
    /\ seen' = [seen EXCEPT ![r] = NotSeen]
    /\ UNCHANGED <<input, who>>

SelectUser(r) ==
    LET i == input[r].target IN
    /\ Step(r, "user_select", IF UserExists(i) THEN "user_commit" ELSE "not_found")
    /\ seen' = [seen EXCEPT ![r] = IF UserExists(i) THEN users[i].status ELSE @]
    /\ UNCHANGED <<storeVars, input, who>>

SameStatus(status) == status         \* variant: the enums are confused
NeverActive(status) == "DISABLED"    \* variant: enabling is forgotten
NextUserStatus(status) == IF status = "ON_DUTY" THEN "ACTIVE" ELSE "DISABLED"

CommitActor(r) ==   \* variant: the caller's row instead of the target's
    /\ Step(r, "user_commit", "ok")
    /\ CommitUserStatus(who[r].id, seen[r], NextUserStatus(input[r].status))
    /\ seen' = [seen EXCEPT ![r] = NotSeen]
    /\ UNCHANGED <<input, who>>

CommitUser(r) ==
    /\ Step(r, "user_commit", "ok")
    /\ CommitUserStatus(input[r].target, seen[r], NextUserStatus(input[r].status))
    /\ seen' = [seen EXCEPT ![r] = NotSeen]
    /\ UNCHANGED <<input, who>>

-----------------------------------------------------------------------------

InFlight(r) == pc[r] \notin Final \cup {"idle"}

\* The coroutine dies before its next round trip, or the round trip fails.
Abort(r) ==
    /\ InFlight(r)
    /\ pc' = [pc EXCEPT ![r] = "failed"]
    /\ seen' = [seen EXCEPT ![r] = NotSeen]
    /\ UNCHANGED <<storeVars, input, who>>

\* One that must fail: a value is too wide for its column, and nothing catches
\* the DataError.  What the call wrote before stays.
Overflow(r) ==
    /\ \/ pc[r] = "register_insert" /\ Email(r) \in WideEmails
       \/ pc[r] = "register_profile" /\ input[r].name = "wide"
       \/ pc[r] \in {"login_success", "login_reject", "logout_audit"} /\ ~ AuditFits(r)
    /\ Abort(r)

RegisterNext(r) == \/ RegisterLookup(r) \/ RegisterInsert(r)
                   \/ RegisterDuplicate(r) \/ RegisterProfile(r)
LoginNext(r) == \/ LoginLookup(r) \/ LoginProfile(r) \/ LoginTouch(r)
                \/ LoginSuccess(r) \/ LoginReload(r) \/ LoginReject(r)
AuthNext(r) == \/ AuthUser(r) \/ AuthProfile(r)
               \/ Logout(r) \/ MeUser(r) \/ MeProfile(r)
UpdateNext(r) == \/ UpdateTarget(r) \/ SelectProfile(r) \/ CommitProfile(r)
                 \/ SelectUser(r) \/ CommitUser(r)

\* The next round trip of a request already made.
Advance(r) == RegisterNext(r) \/ LoginNext(r) \/ AuthNext(r) \/ UpdateNext(r)

\* Every call of this model has been answered.
AllAnswered == (\A r \in Requests : pc[r] \in Final) /\ UNCHANGED vars

Next ==
    \/ \E r \in Requests : \/ \E a \in Inputs : Begin(r, a)
                           \/ Advance(r)
                           \/ Abort(r)
    \/ AllAnswered

Spec == Init /\ [][Next]_vars

-----------------------------------------------------------------------------
(* Safety.                                                                 *)

\* No staff account is ever disabled, by whatever sequence of status updates:
\* update_worker_status looks at the target's role once, before two further
\* sessions write, and the role guard is the only thing that stops the last
\* owner from being locked out for good (nothing else writes users.status).
StaffAlwaysActive ==
    \A i \in DOMAIN users :
        users[i].role \in StaffRoles => users[i].status = "ACTIVE"

\* A request that reached update_worker_status acts for an account that is
\* staff and ACTIVE now, not only when authenticate_gateway_identity read it
\* five round trips ago: the identity is checked once and then used stale.
ActorStillEntitled ==
    \A r \in Requests : pc[r] \in WriteSection \cup {"update_target"} =>
        /\ UserExists(who[r].id)
        /\ users[who[r].id].role \in StaffRoles
        /\ users[who[r].id].status = "ACTIVE"

\* A worker account whose profile was never written (its registration or the
\* seeding died between the two inserts) is ACTIVE and stays so: the status
\* update refuses it before it touches users.status.
StrandedWorkersStayActive ==
    \A i \in DOMAIN users :
        (users[i].role = "WORKER" /\ ~ ProfileExists(i)) => users[i].status = "ACTIVE"

\* The audit log tells the truth about logins.  One that was let in or turned
\* away left exactly one row, about the account owning that e-mail when it was
\* looked up (none for an unknown one), and its event agrees with the answer.
\* Only two answers leave none: an address that is none, and not_found, which
\* a login gets only with the right e-mail and password of a worker (whose
\* profile it missed).  No login leaves two, not even one that died before its
\* answer; and a LOGIN_SUCCESS row, even of such a one, is about an account
\* that exists, may be logged in to with that password, and shows a last login.
LoginAudited ==
    \A r \in Requests : input[r] # NoInput /\ input[r].op = "login" =>
        /\ pc[r] \notin {"conflict", "forbidden"}
        /\ Len(audit[r]) <= 1
        /\ pc[r] = "ok" =>
              audit[r] = <<[user |-> who[r].id, event |-> "LOGIN_SUCCESS"]>>
        /\ pc[r] = "unauthenticated" =>
              audit[r] = <<[user |-> who[r].id, event |-> "LOGIN_FAILED"]>>
        /\ pc[r] \in {"invalid", "not_found"} => audit[r] = <<>>
        /\ pc[r] = "not_found" =>
              /\ UserExists(who[r].id)
              /\ users[who[r].id].role = "WORKER"
              /\ SameEmail(users[who[r].id].email, Email(r))
              /\ PasswordMatches(input[r].password, who[r].id)
        /\ \A k \in 1..Len(audit[r]) : audit[r][k].event = "LOGIN_SUCCESS" =>
              LET i == audit[r][k].user IN
              /\ UserExists(i)
              /\ SameEmail(users[i].email, Email(r))
              /\ PasswordMatches(input[r].password, i)
              /\ users[i].lastLogin # NoRequest
              /\ users[i].role = "WORKER" => ProfileExists(i)

-----------------------------------------------------------------------------
(* Why they hold: what a request knows at each of its round trips is still *)
(* true, because accounts are never deleted and their roles never change.  *)

HoldsAccount ==
    {"register_profile", "login_profile", "login_touch", "login_success",
     "login_reload", "auth_profile", "logout_audit", "me_user", "me_profile",
     "update_target"} \cup WriteSection

LocalsTrue(r) ==
    /\ pc[r] \in HoldsAccount =>
          UserExists(who[r].id) /\ who[r].role = users[who[r].id].role
    /\ pc[r] \in {"register_lookup", "register_insert"} => RegistrationValid(input[r])
    /\ pc[r] = "register_profile" => who[r].role = "WORKER"
    /\ pc[r] \in WriteSection \cup {"update_target"} =>
          who[r].role \in StaffRoles /\ input[r].status \in EmploymentStatuses
    /\ pc[r] \in WriteSection =>
          UserExists(input[r].target) /\ users[input[r].target].role = "WORKER"
    /\ pc[r] \in {"profile_commit", "user_select", "user_commit"} =>
          ProfileExists(input[r].target)

TablesSound ==
    /\ UniqueEmail
    /\ ProfilesBelongToWorkers
    /\ StaffAlwaysActive
    /\ StrandedWorkersStayActive

IInv == TypeOK /\ TablesSound /\ \A r \in Requests : LocalsTrue(r)

-----------------------------------------------------------------------------
(* What the repository's texts say and concurrency refutes.                *)

Updates(r, i) == input[r] # NoInput /\ input[r].op = "update" /\ input[r].target = i

\* "Update worker employment status and sync account status."
\* (transport/http/auth_router.py:133).  Whenever no update of a worker is
\* under way and none of them failed, its account is ACTIVE exactly if it is
\* ON_DUTY.  Two updates that interleave leave the two tables apart for good.
StatusInSync ==
    \A i \in DOMAIN profiles :
        (\A r \in Requests : Updates(r, i) => pc[r] \notin WriteSection \cup {"failed"})
        => (users[i].status = "ACTIVE" <=> profiles[i] = "ON_DUTY")
=============================================================================
