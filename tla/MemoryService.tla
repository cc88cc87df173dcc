---------------------------- MODULE MemoryService ----------------------------
(***************************************************************************)
(* AuthService over InMemoryUserRepository, the repository of the tests    *)
(* and of use_mock_repository.  Its coroutines await nothing, so that a    *)
(* whole call is one step of the event loop: an operator below maps the    *)
(* dictionaries before the call to those after it, and to its answer.      *)
(* A memory m is [users, byEmail, profiles, logs, seq]; it dies with the   *)
(* process.  As in UserStore, log rows are kept under the request that     *)
(* wrote them, which stands for its e-mail, ip and agent.                  *)
(***************************************************************************)
EXTENDS AuthService

EmptyMemory == [users |-> <<>>, byEmail |-> <<>>, profiles |-> <<>>,
                logs |-> [r \in Requests |-> <<>>], seq |-> 0]

-----------------------------------------------------------------------------
(* The repository.                                                         *)

Known(m, i) == i \in DOMAIN m.users
Profiled(m, i) == i \in DOMAIN m.profiles
ByEmail(m, e) == {i \in DOMAIN m.users : e \in DOMAIN m.byEmail /\ m.byEmail[e] = i}

AddUserUnindexed(m, e, digest, role) ==   \* variant: _users_by_email is forgotten
    [m EXCEPT !.seq = @ + 1,
              !.users = Insert(@, m.seq + 1, NewUser(e, digest, role))]

AddUser(m, e, digest, role) ==
    [m EXCEPT !.seq = @ + 1,
              !.users = Insert(@, m.seq + 1, NewUser(e, digest, role)),
              !.byEmail = Insert(@, e, m.seq + 1)]

AddProfile(m, i) == [m EXCEPT !.profiles = Insert(@, i, "ON_DUTY")]
StampLogin(m, i, r) == [m EXCEPT !.users[i].lastLogin = r]
SetUserStatus(m, i, status) == [m EXCEPT !.users[i].status = status]
SetEmployment(m, i, status) == [m EXCEPT !.profiles[i] = status]
AddLog(m, r, i, event) ==
    [m EXCEPT !.logs[r] = Append(@, [user |-> i, event |-> event])]

-----------------------------------------------------------------------------
(* The service.                                                            *)

Reply(m, out) == [memory |-> m, out |-> out]

\* register and seed_default_users, once the e-mail is found to be free.
Enrol(m, e, digest, role) ==
    LET made == AddUser(m, e, digest, role) IN
    IF role = "WORKER" THEN AddProfile(made, made.seq) ELSE made

SeedUser(m, seed) ==
    IF ByEmail(m, seed.email) # {} THEN m
    ELSE Enrol(m, seed.email, seed.password_hash, seed.role)

RegisterCall(m, a) ==
    LET e == NormalizeEmail(a.address) IN
    IF ~ RegistrationValid(a) THEN Reply(m, "invalid")
    ELSE IF ByEmail(m, e) # {} THEN Reply(m, "conflict")
    ELSE Reply(Enrol(m, e, Digest[a.password], a.role), "ok")

OnDuty(m, i) == m.users[i].role = "WORKER" => Profiled(m, i) /\ m.profiles[i] = "ON_DUTY"

Refuse(m, r, i) == Reply(AddLog(m, r, i, "LOGIN_FAILED"), "unauthenticated")
LogIn(m, r, i) == Reply(AddLog(StampLogin(m, i, r), r, i, "LOGIN_SUCCESS"), "ok")

\* login of an ACTIVE account whose password matched.
LoginKnown(m, r, i) ==
    IF m.users[i].role = "WORKER" /\ ~ Profiled(m, i) THEN Reply(m, "not_found")
    ELSE IF OnDuty(m, i) THEN LogIn(m, r, i) ELSE Refuse(m, r, i)

LoginCall(m, r, a) ==
    LET found == ByEmail(m, NormalizeEmail(a.address))
        i == CHOOSE j \in found : TRUE IN
    IF NormalizeEmail(a.address) = NoEmail THEN Reply(m, "invalid")
    ELSE IF found = {} THEN Refuse(m, r, NoUser)
    ELSE IF m.users[i].password_hash = Digest[a.password] /\ m.users[i].status = "ACTIVE"
         THEN LoginKnown(m, r, i)
    ELSE Refuse(m, r, i)

Admitted(m, claim) ==
    /\ claim # NoClaim
    /\ Known(m, claim.id)
    /\ m.users[claim.id].role = claim.role /\ m.users[claim.id].status = "ACTIVE"
    /\ OnDuty(m, claim.id)

SwitchProfileOnly(m, i, status) ==   \* variant: users.status is left as it is
    Reply(SetEmployment(m, i, status), "ok")

Switch(m, i, status) ==
    Reply(SetUserStatus(SetEmployment(m, i, status), i, NextUserStatus(status)), "ok")

UpdateCall(m, i, status) ==
    IF status \notin EmploymentStatuses THEN Reply(m, "invalid")
    ELSE IF ~ Known(m, i) THEN Reply(m, "not_found")
    ELSE IF m.users[i].role # "WORKER" THEN Reply(m, "invalid")
    ELSE IF ~ Profiled(m, i) THEN Reply(m, "not_found")
    ELSE Switch(m, i, status)

AdmittedCall(m, r, a) ==
    IF a.op = "logout" THEN Reply(AddLog(m, r, a.claim.id, "LOGOUT"), "ok")
    ELSE IF a.op = "me" THEN Reply(m, "ok")
    ELSE IF m.users[a.claim.id].role \notin StaffRoles THEN Reply(m, "forbidden")
    ELSE IF a.op = "update" THEN UpdateCall(m, a.target, a.status)
    ELSE Reply(m, "ok")

AuthenticatedCall(m, r, a) ==
    IF Admitted(m, a.claim) THEN AdmittedCall(m, r, a) ELSE Reply(m, "unauthenticated")

ServiceCall(m, r, a) ==
    CASE a.op = "register" -> RegisterCall(m, a)
      [] a.op = "login"    -> LoginCall(m, r, a)
      [] OTHER             -> AuthenticatedCall(m, r, a)
=============================================================================
