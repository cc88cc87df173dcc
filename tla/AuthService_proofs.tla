-------------------------- MODULE AuthService_proofs --------------------------
(***************************************************************************)
(* IInv is an invariant of AuthService for all values of its constants,    *)
(* and with it type correctness and the safety properties that speak of    *)
(* one state of the tables and the requests; AuditInv adds what logins     *)
(* leave in the audit log.  Last, AuthService implements AccountLifecycle. *)
(*                                                                         *)
(* A step moves one request.  The ...Keeps lemmas of the first part show   *)
(* what each repository call does to the tables, those of the second that  *)
(* the request's locals stay true; those of all others do because the      *)
(* tables only grow.                                                       *)
(***************************************************************************)
EXTENDS AuthService, SequenceTheorems, TLAPS

\* Accounts and profiles stay, and an account keeps its e-mail, hash and role.
Grows ==
    /\ DOMAIN users \subseteq DOMAIN users'
    /\ DOMAIN profiles \subseteq DOMAIN profiles'
    /\ \A i \in DOMAIN users : /\ users'[i].role = users[i].role
                               /\ users'[i].email = users[i].email

\* Every column of a row of the users table can be read back.
LEMMA RowFields ==
    ASSUME NEW i \in DOMAIN users, StoreTypeOK
    PROVE  /\ i \in Nat /\ i # NoUser /\ i < nextId
           /\ users[i] \in UserRow
           /\ users[i].email \in Emails
           /\ users[i].role \in Roles
           /\ users[i].status \in UserStatuses
BY DEF StoreTypeOK, UserRow, NoUser

\* Init establishes the invariant: seeded accounts are ACTIVE, have distinct
\* e-mails, and only the workers among them may have a profile.
LEMMA InitIInv == Init => IInv
<1> SUFFICES ASSUME Init PROVE IInv
  OBVIOUS
<1> USE DEF Init, StoreInit
<1>1. \A i \in 1..Len(Seeds) :
         Seeds[i] \in [email: Emails \ WideEmails, password_hash: Digests, role: Roles]
  BY SeedAssumption, ElementOfSeq
<1>2. Len(Seeds) \in Nat
  BY SeedAssumption
<1>3. DOMAIN users = 1..Len(Seeds) /\ nextId = Len(Seeds) + 1
  OBVIOUS
<1>4. \A i \in DOMAIN users : users[i] \in UserRow /\ users[i].status = "ACTIVE"
                             /\ users[i].email = Seeds[i].email
                             /\ users[i].role = Seeds[i].role
  BY <1>1, <1>3 DEF NewUser, UserRow, UserStatuses
<1>5. \A i \in DOMAIN profiles : i \in SeededWorkers /\ profiles[i] = "ON_DUTY"
  OBVIOUS
<1>6. StoreTypeOK
  <2>1. nextId \in Nat \ {0} /\ DOMAIN users \subseteq 1..(nextId - 1)
    BY <1>2, <1>3
  <2>2. users \in [DOMAIN users -> UserRow]
    BY <1>4
  <2>3. profiles \in [DOMAIN profiles -> EmploymentStatuses]
    BY <1>5 DEF EmploymentStatuses
  <2>4. DOMAIN profiles \subseteq DOMAIN users
    BY <1>3, <1>5 DEF SeededWorkers
  <2>5. audit \in [Requests -> Seq(AuditRow)]
    BY EmptySeq
  <2> QED BY <2>1, <2>2, <2>3, <2>4, <2>5 DEF StoreTypeOK
<1>7. TypeOK
  BY <1>6 DEF TypeOK, Labels, Nobody, NotSeen, NoUser
<1>8. TablesSound
  <2>1. UniqueEmail
    BY <1>3, <1>4, SeedAssumption DEF UniqueEmail, SameEmail
  <2>2. ProfilesBelongToWorkers
    BY <1>5 DEF ProfilesBelongToWorkers, SeededWorkers, NewUser
  <2>3. StaffAlwaysActive /\ StrandedWorkersStayActive
    BY <1>4 DEF StaffAlwaysActive, StrandedWorkersStayActive
  <2> QED BY <2>1, <2>2, <2>3 DEF TablesSound
<1>9. ASSUME NEW r \in Requests PROVE LocalsTrue(r)
  BY DEF LocalsTrue, HoldsAccount, WriteSection
<1> QED BY <1>7, <1>8, <1>9 DEF IInv

-----------------------------------------------------------------------------
(* What one repository call does to sound tables.                          *)

StoreSound == StoreTypeOK /\ TablesSound
Kept == StoreSound' /\ Grows

\* A round trip that only reads.
LEMMA QuietKeeps ==
    ASSUME StoreSound, UNCHANGED storeVars
    PROVE  Kept
BY DEF StoreSound, Kept, Grows, storeVars, StoreTypeOK, TablesSound, UniqueEmail,
       ProfilesBelongToWorkers, StaffAlwaysActive, StrandedWorkersStayActive, ProfileExists

\* An INSERT refused for its e-mail leaves the rows alone.
LEMMA DuplicateUserKeeps ==
    ASSUME NEW e, StoreSound, DuplicateUser(e)
    PROVE  Kept
<1>1. nextId' \in Nat \ {0} /\ DOMAIN users \subseteq 1..(nextId' - 1)
  BY DEF StoreSound, StoreTypeOK, DuplicateUser
<1> QED
  BY <1>1 DEF DuplicateUser, StoreSound, Kept, Grows, StoreTypeOK, TablesSound, UniqueEmail,
         ProfilesBelongToWorkers, StaffAlwaysActive, StrandedWorkersStayActive, ProfileExists

\* create_user adds one ACTIVE row under a fresh id and a fresh e-mail.
LEMMA CreateUserKeeps ==
    ASSUME NEW e \in Emails, NEW digest \in Digests, NEW role \in Roles,
           StoreSound, CreateUser(e, digest, role)
    PROVE  Kept /\ nextId \in DOMAIN users' /\ users'[nextId].role = role
<1> DEFINE row == NewUser(e, digest, role)
<1>1. nextId \in Nat \ {0} /\ nextId \notin DOMAIN users /\ NoRequest \in Requests \cup {NoRequest}
  BY DEF StoreSound, StoreTypeOK
<1>2. /\ row \in UserRow
      /\ row.email = e /\ row.role = role /\ row.status = "ACTIVE"
  BY DEF NewUser, UserRow, UserStatuses
<1> HIDE DEF row
<1>3. /\ DOMAIN users' = DOMAIN users \cup {nextId}
      /\ users'[nextId] = row
      /\ \A i \in DOMAIN users : users'[i] = users[i]
      /\ \A i \in DOMAIN users' : i # nextId => i \in DOMAIN users
      /\ users' = [i \in DOMAIN users' |-> users'[i]]
  BY <1>1 DEF CreateUser, Insert, row
<1>4. nextId' = nextId + 1 /\ profiles' = profiles /\ audit' = audit
  BY DEF CreateUser
<1>5. Grows
  BY <1>3, <1>4 DEF Grows
<1>6. StoreTypeOK'
  <2>1. nextId' \in Nat \ {0} /\ DOMAIN users' \subseteq 1..(nextId' - 1)
    BY <1>1, <1>3, <1>4 DEF StoreSound, StoreTypeOK
  <2>2. users' \in [DOMAIN users' -> UserRow]
    BY <1>2, <1>3 DEF StoreSound, StoreTypeOK
  <2> QED BY <2>1, <2>2, <1>3, <1>4 DEF StoreSound, StoreTypeOK
<1>7. UniqueEmail'
  <2>1. \A i \in DOMAIN users : Collated[users[i].email] # Collated[e]
    BY DEF CreateUser, EmailTaken, GetUserByEmail, SameEmail
  <2> QED BY <2>1, <1>2, <1>3 DEF UniqueEmail, SameEmail, StoreSound, TablesSound
<1>8. ProfilesBelongToWorkers'
  BY <1>1, <1>3, <1>4 DEF ProfilesBelongToWorkers, StoreSound, StoreTypeOK, TablesSound
<1>9. StaffAlwaysActive' /\ StrandedWorkersStayActive'
  BY <1>2, <1>3, <1>4
     DEF StaffAlwaysActive, StrandedWorkersStayActive, ProfileExists, StoreSound, TablesSound
<1> QED BY <1>2, <1>3, <1>5, <1>6, <1>7, <1>8, <1>9 DEF Kept, StoreSound, TablesSound

\* create_worker_profile adds one row for an account that is a WORKER.
LEMMA CreateWorkerProfileKeeps ==
    ASSUME NEW i \in DOMAIN users, users[i].role = "WORKER",
           StoreSound, CreateWorkerProfile(i)
    PROVE  Kept
<1>1. /\ DOMAIN profiles \subseteq DOMAIN profiles'
      /\ DOMAIN profiles' \subseteq DOMAIN profiles \cup {i}
      /\ profiles' \in [DOMAIN profiles' -> EmploymentStatuses]
  BY DEF CreateWorkerProfile, Insert, ProfileExists, StoreSound, StoreTypeOK, EmploymentStatuses
<1>2. users' = users /\ nextId' = nextId /\ audit' = audit
  BY DEF CreateWorkerProfile
<1> QED
  BY <1>1, <1>2 DEF Kept, Grows, StoreSound, StoreTypeOK, TablesSound, UniqueEmail,
     ProfilesBelongToWorkers, StaffAlwaysActive, StrandedWorkersStayActive, ProfileExists

\* update_user_last_login_at rewrites that column only.
LEMMA UpdateLastLoginAtKeeps ==
    ASSUME NEW i \in DOMAIN users, NEW r \in Requests,
           StoreSound, UpdateLastLoginAt(i, r)
    PROVE  Kept
<1>1. /\ DOMAIN users' = DOMAIN users
      /\ \A j \in DOMAIN users : /\ users'[j] \in UserRow
                                 /\ users'[j].email = users[j].email
                                 /\ users'[j].role = users[j].role
                                 /\ users'[j].status = users[j].status
      /\ users' = [j \in DOMAIN users' |-> users'[j]]
  BY DEF UpdateLastLoginAt, StoreSound, StoreTypeOK, UserRow
<1>2. profiles' = profiles /\ nextId' = nextId /\ audit' = audit
  BY DEF UpdateLastLoginAt
<1>3. StoreTypeOK'
  BY <1>1, <1>2 DEF StoreSound, StoreTypeOK
<1>4. UniqueEmail' /\ ProfilesBelongToWorkers'
  <2>1. UniqueEmail'
    BY <1>1 DEF StoreSound, TablesSound, UniqueEmail
  <2>2. ProfilesBelongToWorkers'
    BY <1>1, <1>2 DEF StoreSound, StoreTypeOK, TablesSound, ProfilesBelongToWorkers
  <2> QED BY <2>1, <2>2
<1>5. StaffAlwaysActive' /\ StrandedWorkersStayActive'
  BY <1>1, <1>2 DEF StoreSound, TablesSound, StaffAlwaysActive,
     StrandedWorkersStayActive, ProfileExists
<1> QED BY <1>1, <1>2, <1>3, <1>4, <1>5 DEF Kept, Grows, StoreSound, TablesSound

\* update_user_status, run on a worker with a profile, disables no staff and
\* strands nobody.
LEMMA CommitUserStatusKeeps ==
    ASSUME NEW i \in DOMAIN users, users[i].role = "WORKER", ProfileExists(i),
           NEW selected, NEW status \in UserStatuses,
           StoreSound, CommitUserStatus(i, selected, status)
    PROVE  Kept
<1>1. /\ DOMAIN users' = DOMAIN users
      /\ \A j \in DOMAIN users : /\ users'[j] \in UserRow
                                 /\ users'[j].email = users[j].email
                                 /\ users'[j].role = users[j].role
                                 /\ j # i => users'[j].status = users[j].status
      /\ users' = [j \in DOMAIN users' |-> users'[j]]
  BY DEF CommitUserStatus, StoreSound, StoreTypeOK, UserRow
<1>2. profiles' = profiles /\ nextId' = nextId /\ audit' = audit
  BY DEF CommitUserStatus
<1>3. StoreTypeOK'
  BY <1>1, <1>2 DEF StoreSound, StoreTypeOK
<1>4. UniqueEmail' /\ ProfilesBelongToWorkers'
  <2>1. UniqueEmail'
    BY <1>1 DEF StoreSound, TablesSound, UniqueEmail
  <2>2. ProfilesBelongToWorkers'
    BY <1>1, <1>2 DEF StoreSound, StoreTypeOK, TablesSound, ProfilesBelongToWorkers
  <2> QED BY <2>1, <2>2
<1>5. StaffAlwaysActive' /\ StrandedWorkersStayActive'
  BY <1>1, <1>2 DEF StoreSound, TablesSound, StaffAlwaysActive, StaffRoles,
     StrandedWorkersStayActive, ProfileExists
<1> QED BY <1>1, <1>2, <1>3, <1>4, <1>5 DEF Kept, Grows, StoreSound, TablesSound

\* update_worker_employment_status adds and removes no profile.
LEMMA CommitEmploymentStatusKeeps ==
    ASSUME NEW i, NEW selected, NEW status \in EmploymentStatuses,
           StoreSound, CommitEmploymentStatus(i, selected, status)
    PROVE  Kept
<1>1. /\ DOMAIN profiles' = DOMAIN profiles
      /\ profiles' \in [DOMAIN profiles' -> EmploymentStatuses]
  BY DEF CommitEmploymentStatus, StoreSound, StoreTypeOK
<1>2. users' = users /\ nextId' = nextId /\ audit' = audit
  BY DEF CommitEmploymentStatus
<1> QED
  BY <1>1, <1>2 DEF Kept, Grows, StoreSound, StoreTypeOK, TablesSound, UniqueEmail,
     ProfilesBelongToWorkers, StaffAlwaysActive, StrandedWorkersStayActive, ProfileExists

\* create_login_audit_log appends one row and touches no other table.
LEMMA CreateLoginAuditLogKeeps ==
    ASSUME NEW r \in Requests, NEW i \in Nat, NEW event \in AuditEvents,
           StoreSound, CreateLoginAuditLog(r, i, event)
    PROVE  Kept
<1>1. users' = users /\ profiles' = profiles /\ nextId' = nextId
  BY DEF CreateLoginAuditLog
<1>2. Append(audit[r], [user |-> i, event |-> event]) \in Seq(AuditRow)
  BY AppendProperties DEF AuditRow, StoreSound, StoreTypeOK
<1>3. audit' \in [Requests -> Seq(AuditRow)]
  BY <1>2 DEF CreateLoginAuditLog, StoreSound, StoreTypeOK
<1> QED
  BY <1>1, <1>3 DEF Kept, Grows, StoreSound, StoreTypeOK, TablesSound, UniqueEmail,
     ProfilesBelongToWorkers, StaffAlwaysActive, StrandedWorkersStayActive, ProfileExists

-----------------------------------------------------------------------------
(* What a step does to the requests.                                       *)

\* What every other request knows stays true when the tables grow.
LEMMA OthersStayTrue ==
    ASSUME NEW q \in Requests, LocalsTrue(q), Grows, StoreTypeOK,
           pc'[q] = pc[q], input'[q] = input[q], who'[q] = who[q]
    PROVE  LocalsTrue(q)'
BY DEF LocalsTrue, Grows, UserExists, ProfileExists, RegistrationValid, NormalizeEmail

\* A request that has its answer claims nothing any more.
LEMMA AnswersAreTrue ==
    ASSUME NEW r \in Requests, pc'[r] \in Final
    PROVE  LocalsTrue(r)'
BY DEF LocalsTrue, Final, HoldsAccount, WriteSection

\* Step changes one entry of pc.
LEMMA StepMoves ==
    ASSUME TypeOK, NEW r \in Requests, NEW from, NEW to, Step(r, from, to)
    PROVE  /\ pc[r] = from /\ pc'[r] = to
           /\ \A q \in Requests \ {r} : pc'[q] = pc[q]
           /\ to \in Labels => pc' \in [Requests -> Labels]
BY DEF Step, TypeOK

SeenValues == UserStatuses \cup EmploymentStatuses \cup {NotSeen}

\* A step of r keeps the invariant if it keeps the tables, leaves r's new
\* locals true, and touches nobody else's.
LEMMA StepKeeps ==
    ASSUME IInv, NEW r \in Requests, NEW from, NEW to \in Labels, Kept,
           Step(r, from, to), LocalsTrue(r)',
           input' \in [Requests -> Inputs \cup {NoInput}], input'[r] \in Inputs,
           who' \in [Requests -> [id: Nat, role: Roles \cup {"UNSPECIFIED"}]],
           seen' \in [Requests -> SeenValues],
           \A q \in Requests \ {r} : input'[q] = input[q] /\ who'[q] = who[q]
    PROVE  IInv'
<1>0. TypeOK /\ StoreTypeOK
  BY DEF IInv, TypeOK
<1>1. pc' \in [Requests -> Labels] /\ \A q \in Requests \ {r} : pc'[q] = pc[q]
  BY <1>0, StepMoves
<1>2. \A q \in Requests : pc'[q] # "idle" => input'[q] \in Inputs
  BY <1>0, <1>1 DEF TypeOK
<1>3. TypeOK'
  BY <1>1, <1>2 DEF TypeOK, Kept, StoreSound, SeenValues
<1>4. ASSUME NEW q \in Requests PROVE LocalsTrue(q)'
  <2>1. CASE q = r
    BY <2>1
  <2>2. CASE q # r
    BY <1>0, <1>1, <2>2, OthersStayTrue DEF IInv, Kept
  <2> QED BY <2>1, <2>2
<1> QED BY <1>3, <1>4 DEF IInv, Kept, StoreSound

\* The same for the steps that leave the input and the account read alone.
LEMMA PlainStepKeeps ==
    ASSUME IInv, NEW r \in Requests, NEW from, NEW to \in Labels, from # "idle",
           Kept, Step(r, from, to), LocalsTrue(r)',
           UNCHANGED <<input, who>>, seen' \in [Requests -> SeenValues]
    PROVE  IInv'
<1>1. TypeOK /\ pc[r] = from
  BY StepMoves DEF IInv
<1>2. input[r] \in Inputs
  BY <1>1 DEF TypeOK
<1> QED BY <1>1, <1>2, StepKeeps DEF TypeOK

\* Begin: the handler refuses the call, or it makes its first round trip.
LEMMA BeginKeeps ==
    ASSUME IInv, NEW r \in Requests, NEW a \in Inputs, Begin(r, a)
    PROVE  IInv'
<1>1. TypeOK /\ StoreSound
  BY DEF IInv, TypeOK, StoreSound
<1>2. Kept
  BY <1>1, QuietKeeps DEF Begin, storeVars
<1>3. FirstStep(a) \in Labels
  BY DEF FirstStep, Labels, Final
<1>4. input' = [input EXCEPT ![r] = a] /\ who' = who /\ seen' = seen
  BY DEF Begin
<1>5. pc'[r] = FirstStep(a) /\ input'[r] = a
  BY <1>1, <1>4, StepMoves DEF Begin, TypeOK
<1>6. LocalsTrue(r)'
  BY <1>5 DEF LocalsTrue, FirstStep, HoldsAccount, WriteSection, RegistrationValid, NormalizeEmail
<1> QED BY <1>1, <1>2, <1>3, <1>4, <1>5, <1>6, StepKeeps DEF Begin, TypeOK, SeenValues

\* Abort: what the coroutine committed stays, what it knew is gone.
LEMMA AbortKeeps ==
    ASSUME IInv, NEW r \in Requests, Abort(r)
    PROVE  IInv'
<1>1. TypeOK /\ StoreSound
  BY DEF IInv, TypeOK, StoreSound
<1>2. Kept
  BY <1>1, QuietKeeps DEF Abort, storeVars
<1>3. Step(r, pc[r], "failed") /\ pc[r] # "idle"
  BY DEF Abort, Step, InFlight
<1>4. "failed" \in Labels /\ "failed" \in Final
  BY DEF Labels, Final
<1>5. LocalsTrue(r)'
  BY <1>1, <1>3, <1>4, StepMoves, AnswersAreTrue
<1>6. seen' \in [Requests -> SeenValues] /\ UNCHANGED <<input, who>>
  BY <1>1 DEF Abort, TypeOK, SeenValues
<1> QED BY <1>2, <1>3, <1>4, <1>5, <1>6, PlainStepKeeps

-----------------------------------------------------------------------------
(* One lemma per operation, one step per round trip.                       *)

\* Facts every step below starts from.
LEMMA Facts ==
    ASSUME IInv, NEW r \in Requests
    PROVE  /\ TypeOK /\ StoreSound /\ StoreTypeOK /\ LocalsTrue(r)
           /\ seen \in [Requests -> SeenValues]
           /\ who[r].id \in Nat
           /\ pc[r] # "idle" => input[r] \in Inputs /\ input[r] \in Input
BY InputAssumption DEF IInv, TypeOK, StoreSound, SeenValues

\* A step that reads or writes and then answers needs no more than its tables.
LEMMA AnswerKeeps ==
    ASSUME IInv, NEW r \in Requests, NEW from, NEW to \in Final, from # "idle",
           Kept, Step(r, from, to), UNCHANGED <<input, who>>,
           seen' \in [Requests -> SeenValues]
    PROVE  IInv'
<1>1. to \in Labels
  BY DEF Labels
<1>2. LocalsTrue(r)'
  BY Facts, StepMoves, AnswersAreTrue
<1> QED BY <1>1, <1>2, PlainStepKeeps

\* register
LEMMA RegisterKeeps ==
    ASSUME IInv, NEW r \in Requests, RegisterNext(r)
    PROVE  IInv'
<1> USE Facts
<1>0. pc[r] # "idle" /\ RegistrationValid(input[r]) => Email(r) \in Emails
  BY EmailAssumption DEF RegistrationValid, NormalizeEmail, Email, Input
<1>1. CASE RegisterLookup(r)
  <2>1. Kept /\ UNCHANGED <<input, who, seen>>
    BY <1>1, QuietKeeps DEF RegisterLookup, localVars
  <2>2. CASE GetUserByEmail(Email(r)) = {}
    <3>1. Step(r, "register_lookup", "register_insert")
      BY <1>1, <2>2 DEF RegisterLookup
    <3>2. LocalsTrue(r)'
      BY <2>1, <3>1, StepMoves
         DEF LocalsTrue, HoldsAccount, WriteSection, RegistrationValid, NormalizeEmail
    <3> QED BY <2>1, <3>1, <3>2, PlainStepKeeps DEF Labels
  <2>3. CASE GetUserByEmail(Email(r)) # {}
    <3>1. Step(r, "register_lookup", "conflict")
      BY <1>1, <2>3 DEF RegisterLookup
    <3> QED BY <2>1, <3>1, AnswerKeeps DEF Final
  <2> QED BY <2>2, <2>3
<1>2. CASE RegisterInsert(r)
  <2> DEFINE role == input[r].role
             digest == Digest[input[r].password]
             to == AfterInsert(role)
  <2>1. pc[r] = "register_insert" /\ RegistrationValid(input[r])
    BY <1>2, StepMoves DEF RegisterInsert, LocalsTrue
  <2>2. Email(r) \in Emails /\ digest \in Digests /\ role \in Roles
    BY <1>0, <2>1, PasswordAssumption DEF Input, RegistrationValid
  <2>3. CreateUser(Email(r), digest, role) /\ Step(r, "register_insert", to)
    BY <1>2 DEF RegisterInsert
  <2>4. Kept /\ nextId \in DOMAIN users' /\ users'[nextId].role = role
    BY <2>2, <2>3, CreateUserKeeps
  <2>5. /\ input' = input /\ seen' = seen
        /\ who' = [who EXCEPT ![r] = [id |-> nextId, role |-> role]]
    BY <1>2 DEF RegisterInsert
  <2>6. /\ who'[r] = [id |-> nextId, role |-> role]
        /\ who' \in [Requests -> [id: Nat, role: Roles \cup {"UNSPECIFIED"}]]
        /\ \A q \in Requests \ {r} : who'[q] = who[q]
    BY <2>2, <2>5 DEF TypeOK, StoreTypeOK
  <2>7. to \in Labels /\ pc'[r] = to
    BY <2>3, StepMoves DEF Labels, Final, AfterInsert
  <2>8. LocalsTrue(r)'
    BY <2>4, <2>6, <2>7
       DEF LocalsTrue, HoldsAccount, WriteSection, UserExists, AfterInsert
  <2> HIDE DEF to
  <2> QED BY <2>1, <2>3, <2>4, <2>5, <2>6, <2>7, <2>8, StepKeeps DEF TypeOK
<1>3. CASE RegisterDuplicate(r)
  <2>1. Kept /\ UNCHANGED <<input, who, seen>>
    BY <1>3, DuplicateUserKeeps DEF RegisterDuplicate, localVars
  <2> QED BY <1>3, <2>1, AnswerKeeps DEF RegisterDuplicate, Final
<1>4. CASE RegisterProfile(r)
  <2>1. who[r].id \in DOMAIN users /\ users[who[r].id].role = "WORKER"
    BY <1>4, StepMoves DEF RegisterProfile, LocalsTrue, HoldsAccount, UserExists
  <2>2. Kept /\ UNCHANGED <<input, who, seen>>
    BY <1>4, <2>1, CreateWorkerProfileKeeps DEF RegisterProfile, localVars
  <2>3. Step(r, "register_profile", "conflict") \/ Step(r, "register_profile", "ok")
    BY <1>4 DEF RegisterProfile
  <2> QED BY <2>2, <2>3, AnswerKeeps DEF Final
<1> QED BY <1>1, <1>2, <1>3, <1>4 DEF RegisterNext

\* login
LEMMA LoginKeeps ==
    ASSUME IInv, NEW r \in Requests, LoginNext(r)
    PROVE  IInv'
<1> USE Facts
<1>1. CASE LoginLookup(r)
  <2> DEFINE found == GetUserByEmail(Email(r))
             w == IF found = {} THEN Nobody ELSE Snapshot(CHOOSE i \in found : TRUE)
             to == LoginUserVerdict(found, input[r].password)
  <2>1. /\ Step(r, "login_lookup", to)
        /\ UNCHANGED <<storeVars, input, seen>>
        /\ who' = [who EXCEPT ![r] = w]
    BY <1>1 DEF LoginLookup
  <2>2. Kept /\ input' = input /\ seen' = seen /\ users' = users
    BY <2>1, QuietKeeps DEF storeVars
  <2>3. found # {} => /\ w.id \in DOMAIN users /\ w.role = users[w.id].role
                      /\ w \in [id: Nat, role: Roles \cup {"UNSPECIFIED"}]
    <3>1. found \subseteq DOMAIN users
      BY DEF GetUserByEmail
    <3>2. found # {} => (CHOOSE i \in found : TRUE) \in found
      OBVIOUS
    <3> QED BY <3>1, <3>2, RowFields DEF Snapshot
  <2>4. w \in [id: Nat, role: Roles \cup {"UNSPECIFIED"}]
    BY <2>3 DEF Nobody, NoUser
  <2>5. /\ who'[r] = w /\ \A q \in Requests \ {r} : who'[q] = who[q]
        /\ who' \in [Requests -> [id: Nat, role: Roles \cup {"UNSPECIFIED"}]]
    BY <2>1, <2>4 DEF TypeOK
  <2>6. to \in {"login_profile", "login_reject"} /\ (to = "login_profile" => found # {})
    BY DEF LoginUserVerdict
  <2>7. pc[r] = "login_lookup" /\ pc'[r] = to /\ to \in Labels
    BY <2>1, <2>6, StepMoves DEF Labels
  <2>8. LocalsTrue(r)'
    <3> HIDE DEF to, w, found
    <3>1. to = "login_profile" => w.id \in DOMAIN users' /\ w.role = users'[w.id].role
      BY <2>2, <2>3, <2>6
    <3> QED BY <3>1, <2>5, <2>6, <2>7 DEF LocalsTrue, HoldsAccount, WriteSection, UserExists
  <2> HIDE DEF to, w
  <2> QED BY <2>1, <2>2, <2>5, <2>7, <2>8, StepKeeps DEF TypeOK
<1>2. CASE LoginProfile(r)
  <2> DEFINE to == LoginProfileVerdict(who[r])
  <2>1. Step(r, "login_profile", to) /\ Kept /\ UNCHANGED <<users, input, who, seen>>
    BY <1>2, QuietKeeps DEF LoginProfile, localVars, storeVars
  <2>2. to \in {"login_touch", "not_found", "login_reject"}
    BY DEF LoginProfileVerdict
  <2> HIDE DEF to
  <2>3. LocalsTrue(r)'
    BY <2>1, <2>2, StepMoves DEF LocalsTrue, HoldsAccount, WriteSection, UserExists
  <2> QED BY <2>1, <2>2, <2>3, PlainStepKeeps DEF Labels, Final
<1>3. CASE LoginTouch(r)
  <2>1. Step(r, "login_touch", "login_success") /\ UNCHANGED <<input, who, seen>>
    BY <1>3 DEF LoginTouch, localVars
  <2>2. who[r].id \in DOMAIN users /\ who[r].role = users[who[r].id].role
    BY <2>1, StepMoves DEF LocalsTrue, HoldsAccount, UserExists
  <2>3. Kept
    BY <1>3, <2>2, UpdateLastLoginAtKeeps DEF LoginTouch
  <2>4. LocalsTrue(r)'
    BY <2>1, <2>2, <2>3, StepMoves
       DEF LocalsTrue, HoldsAccount, WriteSection, UserExists, Kept, Grows
  <2> QED BY <2>1, <2>3, <2>4, PlainStepKeeps DEF Labels
<1>4. CASE LoginSuccess(r)
  <2>1. Step(r, "login_success", "login_reload") /\ UNCHANGED <<input, who, seen>>
    BY <1>4 DEF LoginSuccess, localVars
  <2>2. Kept
    BY <1>4, CreateLoginAuditLogKeeps DEF LoginSuccess, AuditEvents
  <2>3. LocalsTrue(r)'
    BY <2>1, <2>2, StepMoves
       DEF LocalsTrue, HoldsAccount, WriteSection, UserExists, Kept, Grows
  <2> QED BY <2>1, <2>2, <2>3, PlainStepKeeps DEF Labels
<1>5. CASE LoginReload(r)
  <2>1. Kept /\ UNCHANGED <<input, who, seen>>
    BY <1>5, QuietKeeps DEF LoginReload, localVars
  <2>2. Step(r, "login_reload", "ok") \/ Step(r, "login_reload", "not_found")
    BY <1>5 DEF LoginReload
  <2> QED BY <2>1, <2>2, AnswerKeeps DEF Final
<1>6. CASE LoginReject(r)
  <2>1. Step(r, "login_reject", "unauthenticated") /\ UNCHANGED <<input, who, seen>>
    BY <1>6 DEF LoginReject, localVars
  <2>2. Kept
    BY <1>6, CreateLoginAuditLogKeeps DEF LoginReject, AuditEvents
  <2> QED BY <2>1, <2>2, AnswerKeeps DEF Final
<1> QED BY <1>1, <1>2, <1>3, <1>4, <1>5, <1>6 DEF LoginNext

\* authentication, and the operations of the account itself
LEMMA AuthKeeps ==
    ASSUME IInv, NEW r \in Requests, AuthNext(r)
    PROVE  IInv'
<1> USE Facts
<1>1. CASE AuthUser(r)
  <2> DEFINE claim == input[r].claim
             to == AuthUserVerdict(claim)
             w == IF to = "auth_profile" THEN Snapshot(claim.id) ELSE who[r]
  <2>1. /\ Step(r, "auth_user", to)
        /\ UNCHANGED <<storeVars, input, seen>>
        /\ who' = [who EXCEPT ![r] = w]
    BY <1>1 DEF AuthUser
  <2>2. Kept /\ input' = input /\ seen' = seen /\ users' = users
    BY <2>1, QuietKeeps DEF storeVars
  <2>3. to \in {"auth_profile", "unauthenticated"}
    BY DEF AuthUserVerdict
  <2>4. to = "auth_profile" => /\ w.id \in DOMAIN users /\ w.role = users[w.id].role
                               /\ w \in [id: Nat, role: Roles \cup {"UNSPECIFIED"}]
    BY RowFields DEF AuthUserVerdict, UserExists, Snapshot
  <2>5. w \in [id: Nat, role: Roles \cup {"UNSPECIFIED"}]
    BY <2>4 DEF TypeOK
  <2>6. /\ who'[r] = w /\ \A q \in Requests \ {r} : who'[q] = who[q]
        /\ who' \in [Requests -> [id: Nat, role: Roles \cup {"UNSPECIFIED"}]]
    BY <2>1, <2>5 DEF TypeOK
  <2>7. pc[r] = "auth_user" /\ pc'[r] = to /\ to \in Labels
    BY <2>1, <2>3, StepMoves DEF Labels, Final
  <2> HIDE DEF to, w
  <2>8. LocalsTrue(r)'
    BY <2>2, <2>3, <2>4, <2>6, <2>7 DEF LocalsTrue, HoldsAccount, WriteSection, UserExists
  <2> QED BY <2>1, <2>2, <2>6, <2>7, <2>8, StepKeeps DEF TypeOK
<1>2. CASE AuthProfile(r)
  <2> DEFINE to == IF ProfileAdmits(who[r]) THEN AdmittedStep(input[r], who[r])
                   ELSE "unauthenticated"
  <2>1. Step(r, "auth_profile", to) /\ Kept /\ UNCHANGED <<users, input, who, seen>>
    BY <1>2, QuietKeeps DEF AuthProfile, localVars, storeVars
  <2>2. /\ to \in {"logout_audit", "me_user", "update_target"} \cup Final
        /\ to = "update_target" => /\ who[r].role \in StaffRoles
                                   /\ input[r].status \in EmploymentStatuses
    BY DEF AdmittedStep, EnsureRoles, Final
  <2> HIDE DEF to
  <2>3. LocalsTrue(r)'
    BY <2>1, <2>2, StepMoves DEF LocalsTrue, HoldsAccount, WriteSection, UserExists, Final
  <2> QED BY <2>1, <2>2, <2>3, PlainStepKeeps DEF Labels
<1>3. CASE Logout(r)
  <2>1. Step(r, "logout_audit", "ok") /\ UNCHANGED <<input, who, seen>>
    BY <1>3 DEF Logout, localVars
  <2>2. Kept
    BY <1>3, CreateLoginAuditLogKeeps DEF Logout, AuditEvents
  <2> QED BY <2>1, <2>2, AnswerKeeps DEF Final
<1>4. CASE MeUser(r)
  <2>1. Kept /\ UNCHANGED <<input, who, seen>>
    BY <1>4, QuietKeeps DEF MeUser, localVars
  <2>2. Step(r, "me_user", "me_profile")
    BY <1>4, StepMoves DEF MeUser, Step, LocalsTrue, HoldsAccount
  <2>3. LocalsTrue(r)'
    BY <2>1, <2>2, StepMoves
       DEF LocalsTrue, HoldsAccount, WriteSection, UserExists, Kept, Grows
  <2> QED BY <2>1, <2>2, <2>3, PlainStepKeeps DEF Labels
<1>5. CASE MeProfile(r)
  <2>1. Kept /\ UNCHANGED <<input, who, seen>>
    BY <1>5, QuietKeeps DEF MeProfile, localVars
  <2> QED BY <1>5, <2>1, AnswerKeeps DEF MeProfile, Final
<1> QED BY <1>1, <1>2, <1>3, <1>4, <1>5 DEF AuthNext

\* update_worker_status
LEMMA UpdateKeeps ==
    ASSUME IInv, NEW r \in Requests, UpdateNext(r)
    PROVE  IInv'
<1> USE Facts
<1> DEFINE i == input[r].target
<1>1. CASE UpdateTarget(r)
  <2> DEFINE to == UpdateTargetVerdict(i)
  <2>1. Step(r, "update_target", to) /\ Kept /\ UNCHANGED <<users, input, who, seen>>
    BY <1>1, QuietKeeps DEF UpdateTarget, localVars, storeVars
  <2>2. /\ to \in {"profile_select", "not_found", "invalid"}
        /\ to = "profile_select" => UserExists(i) /\ users[i].role = "WORKER"
    BY DEF UpdateTargetVerdict
  <2> HIDE DEF to
  <2>3. LocalsTrue(r)'
    BY <2>1, <2>2, StepMoves DEF LocalsTrue, HoldsAccount, WriteSection, UserExists
  <2> QED BY <2>1, <2>2, <2>3, PlainStepKeeps DEF Labels, Final, WriteSection
<1>2. CASE SelectProfile(r)
  <2>1. Kept /\ UNCHANGED <<users, profiles, input, who>>
    BY <1>2, QuietKeeps DEF SelectProfile, storeVars
  <2>2. seen' \in [Requests -> SeenValues]
    BY <1>2 DEF SelectProfile, ProfileExists, StoreTypeOK, SeenValues
  <2>3. CASE ProfileExists(i)
    <3>1. Step(r, "profile_select", "profile_commit")
      BY <1>2, <2>3 DEF SelectProfile, SelectedProfile
    <3>2. LocalsTrue(r)'
      BY <2>1, <2>3, <3>1, StepMoves
         DEF LocalsTrue, HoldsAccount, WriteSection, UserExists, ProfileExists
    <3> QED BY <2>1, <2>2, <3>1, <3>2, PlainStepKeeps DEF Labels, WriteSection
  <2>4. CASE ~ ProfileExists(i)
    BY <1>2, <2>1, <2>2, <2>4, AnswerKeeps DEF SelectProfile, SelectedProfile, Final
  <2> QED BY <2>3, <2>4
<1>3. CASE CommitProfile(r)
  <2>1. /\ Step(r, "profile_commit", "user_select") /\ UNCHANGED <<input, who>>
        /\ seen' \in [Requests -> SeenValues]
    BY <1>3 DEF CommitProfile, SeenValues
  <2>2. /\ input[r].status \in EmploymentStatuses /\ ProfileExists(i)
        /\ UserExists(i) /\ users[i].role = "WORKER"
    BY <2>1, StepMoves DEF LocalsTrue, WriteSection
  <2>3. Kept
    BY <1>3, <2>2, CommitEmploymentStatusKeeps DEF CommitProfile
  <2>4. LocalsTrue(r)'
    BY <2>1, <2>2, <2>3, StepMoves
       DEF LocalsTrue, HoldsAccount, WriteSection, UserExists, ProfileExists, Kept, Grows
  <2> QED BY <2>1, <2>3, <2>4, PlainStepKeeps DEF Labels, WriteSection
<1>4. CASE SelectUser(r)
  <2>1. Kept /\ UNCHANGED <<users, profiles, input, who>>
    BY <1>4, QuietKeeps DEF SelectUser, storeVars
  <2>2. Step(r, "user_select", "user_commit") /\ UserExists(i)
    BY <1>4, StepMoves DEF SelectUser, Step, LocalsTrue, WriteSection
  <2>3. seen' \in [Requests -> SeenValues]
    <3>1. seen' = [seen EXCEPT ![r] = users[i].status]
      BY <1>4, <2>2 DEF SelectUser
    <3>2. users[i].status \in SeenValues
      BY <2>2, RowFields DEF UserExists, SeenValues
    <3> QED BY <3>1, <3>2
  <2>4. LocalsTrue(r)'
    BY <2>1, <2>2, StepMoves
       DEF LocalsTrue, HoldsAccount, WriteSection, UserExists, ProfileExists
  <2> QED BY <2>1, <2>2, <2>3, <2>4, PlainStepKeeps DEF Labels, WriteSection
<1>5. CASE CommitUser(r)
  <2>1. /\ Step(r, "user_commit", "ok") /\ UNCHANGED <<input, who>>
        /\ seen' \in [Requests -> SeenValues]
    BY <1>5 DEF CommitUser, SeenValues
  <2>2. i \in DOMAIN users /\ users[i].role = "WORKER" /\ ProfileExists(i)
    BY <2>1, StepMoves DEF LocalsTrue, WriteSection, UserExists
  <2>3. NextUserStatus(input[r].status) \in UserStatuses
    BY DEF NextUserStatus, UserStatuses
  <2>4. Kept
    BY <1>5, <2>2, <2>3, CommitUserStatusKeeps DEF CommitUser
  <2> QED BY <2>1, <2>4, AnswerKeeps DEF Final
<1> QED BY <1>1, <1>2, <1>3, <1>4, <1>5 DEF UpdateNext

\* No step breaks the invariant.
LEMMA NextKeeps == IInv /\ [Next]_vars => IInv'
<1> SUFFICES ASSUME IInv, [Next]_vars PROVE IInv'
  OBVIOUS
<1>1. CASE UNCHANGED vars
  BY <1>1 DEF vars, IInv, TypeOK, StoreTypeOK, TablesSound, UniqueEmail,
     ProfilesBelongToWorkers, StaffAlwaysActive, StrandedWorkersStayActive,
     LocalsTrue, UserExists, ProfileExists, RegistrationValid, NormalizeEmail
<1>2. ASSUME NEW r \in Requests, NEW a \in Inputs, Begin(r, a) PROVE IInv'
  BY <1>2, BeginKeeps
<1>3. ASSUME NEW r \in Requests, Advance(r) PROVE IInv'
  BY <1>3, RegisterKeeps, LoginKeeps, AuthKeeps, UpdateKeeps DEF Advance
<1>4. ASSUME NEW r \in Requests, Abort(r) PROVE IInv'
  BY <1>4, AbortKeeps
<1> QED BY <1>1, <1>2, <1>3, <1>4 DEF Next, AllAnswered

-----------------------------------------------------------------------------
(* The results.                                                            *)

\* The inductive invariant: sound tables, and requests whose locals are true.
THEOREM Invariance == Spec => []IInv
<1>1. Init => IInv
  BY InitIInv
<1>2. IInv /\ [Next]_vars => IInv'
  BY NextKeeps
<1> QED BY <1>1, <1>2, PTL DEF Spec

\* Every variable keeps its type: the tables their column types and foreign
\* keys, the requests their locals.
THEOREM TypeCorrect == Spec => []TypeOK
<1>1. IInv => TypeOK
  BY DEF IInv
<1> QED BY <1>1, Invariance, PTL

\* However many registrations race, no two accounts share an e-mail.
THEOREM EmailsUnique == Spec => []UniqueEmail
<1>1. IInv => UniqueEmail
  BY DEF IInv, TablesSound
<1> QED BY <1>1, Invariance, PTL

\* Only workers own a worker profile.
THEOREM ProfilesOfWorkers == Spec => []ProfilesBelongToWorkers
<1>1. IInv => ProfilesBelongToWorkers
  BY DEF IInv, TablesSound
<1> QED BY <1>1, Invariance, PTL

\* No interleaving of status updates disables a staff account.
THEOREM StaffStaysActive == Spec => []StaffAlwaysActive
<1>1. IInv => StaffAlwaysActive
  BY DEF IInv, TablesSound
<1> QED BY <1>1, Invariance, PTL

\* A worker without a profile cannot be disabled.
THEOREM StrandedStaysActive == Spec => []StrandedWorkersStayActive
<1>1. IInv => StrandedWorkersStayActive
  BY DEF IInv, TablesSound
<1> QED BY <1>1, Invariance, PTL

\* The identity an update was admitted with is still good at every one of its
\* writes: it is held by IInv's locals, and staff is never disabled.
THEOREM ActorsEntitled == Spec => []ActorStillEntitled
<1>1. IInv => ActorStillEntitled
  BY DEF IInv, TablesSound, LocalsTrue, HoldsAccount, StaffAlwaysActive,
         ActorStillEntitled, UserExists
<1> QED BY <1>1, Invariance, PTL

-----------------------------------------------------------------------------
(* What a step does to the requests and to the rows, for the proofs about  *)
(* more than one state.                                                    *)

LoginLabels == {"login_lookup", "login_profile", "login_touch", "login_success",
                "login_reload", "login_reject"}
OtherLabels == Labels \ (LoginLabels \cup Final \cup {"idle"})

StepOf(r) == (\E a \in Inputs : Begin(r, a)) \/ Advance(r) \/ Abort(r)

\* Besides what Grows says: nobody's password changes, and an account that was
\* logged in to stays so.
RowsKept ==
    /\ Grows
    /\ \A i \in DOMAIN users :
          /\ users'[i].password_hash = users[i].password_hash
          /\ users[i].lastLogin # NoRequest => users'[i].lastLogin # NoRequest

\* A step of r leaves the others where they are, and only r's audit rows move.
LEMMA StepFrame ==
  ASSUME TypeOK, NEW r \in Requests, StepOf(r)
  PROVE  /\ \A q \in Requests \ {r} :
               /\ pc'[q] = pc[q] /\ input'[q] = input[q] /\ who'[q] = who[q]
               /\ seen'[q] = seen[q] /\ audit'[q] = audit[q]
         /\ pc[r] \notin Final /\ pc'[r] # "idle"
         /\ pc[r] # "idle" => input' = input
<1> USE DEF TypeOK, StoreTypeOK, Step, localVars, storeVars, Final
<1>1. ASSUME NEW a \in Inputs, Begin(r, a) PROVE FirstStep(a) # "idle"
  BY DEF FirstStep
<1>2. CASE \E a \in Inputs : Begin(r, a)
  BY <1>1, <1>2 DEF Begin
<1>3. CASE RegisterNext(r)
  BY <1>3 DEF RegisterNext, RegisterLookup, RegisterInsert, RegisterDuplicate, RegisterProfile,
     CreateUser, DuplicateUser, CreateWorkerProfile, AfterInsert
<1>4. CASE LoginNext(r)
  BY <1>4 DEF LoginNext, LoginLookup, LoginProfile, LoginTouch, LoginSuccess, LoginReload,
     LoginReject, CreateLoginAuditLog, UpdateLastLoginAt, LoginUserVerdict, LoginProfileVerdict
<1>5. CASE AuthNext(r)
  BY <1>5 DEF AuthNext, AuthUser, AuthProfile, Logout, MeUser, MeProfile, CreateLoginAuditLog,
     AuthUserVerdict, AdmittedStep, EnsureRoles
<1>6. CASE UpdateNext(r)
  BY <1>6 DEF UpdateNext, UpdateTarget, SelectProfile, CommitProfile, SelectUser, CommitUser,
     CommitEmploymentStatus, CommitUserStatus, UpdateTargetVerdict, SelectedProfile
<1>7. CASE Abort(r)
  BY <1>7 DEF Abort, InFlight
<1> QED
  BY <1>2, <1>3, <1>4, <1>5, <1>6, <1>7 DEF StepOf, Advance

\* No step takes a row away, or changes what login compares of one; r may put its
\* own stamp on it.
LEMMA RowsStay ==
  ASSUME IInv, NEW r \in Requests, StepOf(r)
  PROVE  RowsKept /\ \A i \in DOMAIN users : users'[i].lastLogin \in {users[i].lastLogin, r}
<1>1. TypeOK /\ StoreTypeOK /\ LocalsTrue(r)
  BY DEF IInv, TypeOK
<1>2. CASE UNCHANGED <<users, profiles>>
  BY <1>2 DEF RowsKept, Grows
<1>3. CASE RegisterInsert(r)
  <2>1. nextId \notin DOMAIN users
    BY <1>1 DEF StoreTypeOK
  <2> QED
    BY <1>3, <2>1 DEF RowsKept, Grows, RegisterInsert, CreateUser, Insert
<1>4. CASE RegisterProfile(r)
  BY <1>4 DEF RowsKept, Grows, RegisterProfile, CreateWorkerProfile, Insert
<1>5. CASE LoginTouch(r)
  BY <1>1, <1>5, RequestAssumption
  DEF RowsKept, Grows, LoginTouch, UpdateLastLoginAt, StoreTypeOK, UserRow
<1>6. CASE CommitProfile(r)
  BY <1>1, <1>6 DEF RowsKept, Grows, CommitProfile, CommitEmploymentStatus
<1>7. CASE CommitUser(r)
  BY <1>1, <1>7 DEF RowsKept, Grows, CommitUser, CommitUserStatus, StoreTypeOK, UserRow
<1> QED
  BY <1>2, <1>3, <1>4, <1>5, <1>6, <1>7
  DEF StepOf, Begin, Advance, Abort, RegisterNext, LoginNext, AuthNext, UpdateNext,
      RegisterLookup, RegisterDuplicate, DuplicateUser, LoginLookup, LoginProfile, LoginSuccess,
      LoginReload, LoginReject, CreateLoginAuditLog, AuthUser, AuthProfile, Logout, MeUser,
      MeProfile, UpdateTarget, SelectProfile, SelectUser, storeVars

-----------------------------------------------------------------------------
(* Logins and their audit rows.                                            *)

\* A request at a login's round trips is a login, and a login is nowhere else.
Sectioned(r) ==
    /\ pc[r] \in LoginLabels => input[r].op = "login"
    /\ pc[r] \in OtherLabels => input[r].op # "login"

SuccessRow(r) == [user |-> who[r].id, event |-> "LOGIN_SUCCESS"]
FailureRow(r) == [user |-> who[r].id, event |-> "LOGIN_FAILED"]

Enterable(r, i) ==
    /\ UserExists(i)
    /\ SameEmail(users[i].email, Email(r))
    /\ PasswordMatches(input[r].password, i)

Completed(i) == users[i].role = "WORKER" => ProfileExists(i)

\* What a login has found out by now, and written by now.
LoginKnows(r) ==
    /\ pc[r] \in {"login_profile", "login_touch", "login_success", "login_reload"} =>
          Enterable(r, who[r].id)
    /\ pc[r] \in {"login_touch", "login_success", "login_reload"} => Completed(who[r].id)
    /\ pc[r] \in {"login_success", "login_reload"} => users[who[r].id].lastLogin # NoRequest
    /\ pc[r] \in {"idle"} \cup (LoginLabels \ {"login_reload"}) => audit[r] = <<>>
    /\ pc[r] = "login_reload" => audit[r] = <<SuccessRow(r)>>

\* LoginAudited, of one request.
AuditTrue(r) ==
    input[r] # NoInput /\ input[r].op = "login" =>
        /\ pc[r] \notin {"conflict", "forbidden"}
        /\ Len(audit[r]) <= 1
        /\ pc[r] = "ok" => audit[r] = <<SuccessRow(r)>>
        /\ pc[r] = "unauthenticated" => audit[r] = <<FailureRow(r)>>
        /\ pc[r] \in {"invalid", "not_found"} => audit[r] = <<>>
        /\ pc[r] = "not_found" =>
              Enterable(r, who[r].id) /\ users[who[r].id].role = "WORKER"
        /\ \A k \in 1..Len(audit[r]) : audit[r][k].event = "LOGIN_SUCCESS" =>
              LET i == audit[r][k].user IN
              /\ Enterable(r, i)
              /\ users[i].lastLogin # NoRequest
              /\ Completed(i)

AuditInv == \A r \in Requests : Sectioned(r) /\ LoginKnows(r) /\ AuditTrue(r)

\* Nothing has happened yet.
LEMMA AuditInit == Init => AuditInv
  BY EmptySeq DEF Init, StoreInit, AuditInv, Sectioned, LoginKnows, AuditTrue, LoginLabels, OtherLabels

\* What a request found out stays true when the rows are kept.
LEMMA FindingsStay ==
  ASSUME NEW r \in Requests, NEW i, RowsKept, UserExists(i), input'[r] = input[r]
  PROVE  /\ Enterable(r, i) => Enterable(r, i)'
         /\ Completed(i) => Completed(i)'
         /\ users[i].lastLogin # NoRequest => users'[i].lastLogin # NoRequest
BY DEF RowsKept, Grows, UserExists, ProfileExists, Enterable, Completed, Email, NormalizeEmail, PasswordMatches

LEMMA RowsStayTrue ==
  ASSUME NEW r \in Requests, RowsKept, AuditTrue(r), audit'[r] = audit[r],
         input'[r] = input[r], who'[r] = who[r],
         pc'[r] \in {pc[r], "failed"}
  PROVE  AuditTrue(r)'
<1>1. ASSUME input[r] # NoInput /\ input[r].op = "login",
             NEW k \in 1..Len(audit[r]), audit[r][k].event = "LOGIN_SUCCESS"
      PROVE  /\ Enterable(r, audit[r][k].user)'
             /\ users'[audit[r][k].user].lastLogin # NoRequest
             /\ Completed(audit[r][k].user)'
  <2> PICK i : i = audit[r][k].user
    OBVIOUS
  <2>1. Enterable(r, i) /\ UserExists(i) /\ users[i].lastLogin # NoRequest /\ Completed(i)
    BY <1>1 DEF AuditTrue, Enterable
  <2>2. Enterable(r, i)' /\ users'[i].lastLogin # NoRequest /\ Completed(i)'
    BY <2>1, FindingsStay
  <2> QED
    BY <2>2
<1>2. ASSUME input[r] # NoInput /\ input[r].op = "login", pc'[r] = "not_found"
      PROVE  Enterable(r, who[r].id)' /\ users'[who'[r].id].role = "WORKER"
  <2> PICK i : i = who[r].id
    OBVIOUS
  <2>1. Enterable(r, i) /\ users[i].role = "WORKER" /\ UserExists(i)
    BY <1>2 DEF AuditTrue, Enterable
  <2>2. Enterable(r, i)' /\ users'[i].role = "WORKER"
    BY <2>1, FindingsStay DEF RowsKept, Grows, UserExists
  <2> QED
    BY <2>2
<1> QED
  BY <1>1, <1>2 DEF AuditTrue, SuccessRow, FailureRow

LEMMA OthersAudited ==
  ASSUME NEW q \in Requests, RowsKept, LocalsTrue(q),
         Sectioned(q), LoginKnows(q), AuditTrue(q),
         pc'[q] = pc[q], input'[q] = input[q], who'[q] = who[q], audit'[q] = audit[q]
  PROVE  Sectioned(q)' /\ LoginKnows(q)' /\ AuditTrue(q)'
<1>1. pc[q] \in {"login_profile", "login_touch", "login_success", "login_reload"} => UserExists(who[q].id)
  BY DEF LoginKnows, Enterable
<1>2. LoginKnows(q)'
  <2> PICK i : i = who[q].id
    OBVIOUS
  <2>1. UserExists(i) =>
          /\ Enterable(q, i) => Enterable(q, i)'
          /\ Completed(i) => Completed(i)'
          /\ users[i].lastLogin # NoRequest => users'[i].lastLogin # NoRequest
    BY FindingsStay
  <2> QED
    BY <1>1, <2>1 DEF LoginKnows, SuccessRow
<1> QED
  BY <1>2, RowsStayTrue DEF Sectioned

\* Operations other than login leave no trace of a login.
LEMMA OtherOpsAudited ==
  ASSUME NEW r \in Requests, Sectioned(r), pc[r] \in OtherLabels,
         pc'[r] \in OtherLabels \cup Final, input'[r] = input[r]
  PROVE  Sectioned(r)' /\ LoginKnows(r)' /\ AuditTrue(r)'
BY DEF Sectioned, LoginKnows, AuditTrue, OtherLabels, LoginLabels, Final, Labels

\* A call that begins has no audit row yet.
LEMMA BeginAudited ==
  ASSUME TypeOK, NEW r \in Requests, NEW a \in Inputs, Begin(r, a), LoginKnows(r)
  PROVE  Sectioned(r)' /\ LoginKnows(r)' /\ AuditTrue(r)'
<1>1. /\ audit'[r] = <<>> /\ input'[r] = a /\ pc'[r] = FirstStep(a)
  BY DEF Begin, Step, LoginKnows, LoginLabels, TypeOK
<1>2. a.op = "login" => FirstStep(a) \in {"login_lookup", "invalid"}
  BY DEF FirstStep
<1>3. a.op # "login" => FirstStep(a) \in {"register_lookup", "invalid", "auth_user", "unauthenticated"}
  BY DEF FirstStep
<1> QED
  BY <1>1, <1>2, <1>3, EmptySeq DEF Sectioned, LoginKnows, AuditTrue, OtherLabels, LoginLabels, Final, Labels

\* So does a coroutine that dies: its rows stay as they were.
LEMMA AbortAudited ==
  ASSUME TypeOK, NEW r \in Requests, RowsKept, Abort(r), AuditTrue(r)
  PROVE  Sectioned(r)' /\ LoginKnows(r)' /\ AuditTrue(r)'
<1>1. /\ pc'[r] = "failed" /\ UNCHANGED <<input, who, audit>>
  BY DEF Abort, storeVars, TypeOK
<1> QED
  BY <1>1, RowsStayTrue DEF Sectioned, LoginKnows, OtherLabels, LoginLabels, Final

\* login, round trip by round trip.
LEMMA LoginAuditedSteps ==
  ASSUME IInv, NEW r \in Requests, LoginNext(r), RowsKept,
         Sectioned(r), LoginKnows(r), AuditTrue(r)
  PROVE  Sectioned(r)' /\ LoginKnows(r)' /\ AuditTrue(r)'
<1> USE DEF LoginLabels, OtherLabels, Final, Labels
<1>1. TypeOK /\ StoreTypeOK /\ LocalsTrue(r)
  BY DEF IInv, TypeOK
<1>2. input' = input /\ input[r].op = "login" /\ pc[r] \in LoginLabels
  BY DEF LoginNext, LoginLookup, LoginProfile, LoginTouch, LoginSuccess, LoginReload,
     LoginReject, localVars, Step, Sectioned
<1>3. Sectioned(r)'
  <2>1. pc'[r] \in LoginLabels \cup Final
    BY <1>1 DEF LoginNext, LoginLookup, LoginProfile, LoginTouch, LoginSuccess, LoginReload,
       LoginReject, Step, LoginUserVerdict, LoginProfileVerdict, TypeOK
  <2> QED
    BY <1>2, <2>1 DEF Sectioned
<1>4. CASE LoginLookup(r)
  <2> DEFINE found == GetUserByEmail(Email(r))
  <2>1. /\ pc[r] = "login_lookup" /\ pc'[r] = LoginUserVerdict(found, input[r].password)
        /\ UNCHANGED <<users, profiles, audit>>
        /\ who'[r] = IF found = {} THEN Nobody ELSE Snapshot(CHOOSE i \in found : TRUE)
    BY <1>1, <1>4 DEF LoginLookup, Step, storeVars, TypeOK
  <2>2. audit[r] = <<>> /\ pc'[r] \in {"login_profile", "login_reject"}
    BY <2>1 DEF LoginKnows, LoginUserVerdict
  <2>3. ASSUME pc'[r] = "login_profile" PROVE Enterable(r, who[r].id)'
    <3>1. PICK i \in found : PasswordMatches(input[r].password, i)
      BY <2>1, <2>3 DEF LoginUserVerdict
    <3>2. (CHOOSE j \in found : TRUE) = i
      <4>1. (CHOOSE j \in found : TRUE) \in found
        BY <3>1
      <4> QED
        BY <3>1, <4>1 DEF GetUserByEmail, IInv, TablesSound, UniqueEmail
    <3>3. who'[r].id = i
      BY <2>1, <3>1, <3>2 DEF Snapshot
    <3> QED
      BY <1>2, <2>1, <3>1, <3>3
      DEF Enterable, UserExists, GetUserByEmail, Email, NormalizeEmail, PasswordMatches
  <2> HIDE DEF found
  <2>4. AuditTrue(r)'
    BY <2>1, <2>2 DEF AuditTrue
  <2> QED
    BY <1>3, <2>1, <2>2, <2>3, <2>4 DEF LoginKnows
<1>5. CASE LoginProfile(r)
  <2>1. /\ pc[r] = "login_profile" /\ pc'[r] = LoginProfileVerdict(who[r])
        /\ UNCHANGED <<users, profiles, audit, who>>
    BY <1>1, <1>5 DEF LoginProfile, Step, storeVars, localVars, TypeOK
  <2>2. /\ audit[r] = <<>> /\ Enterable(r, who[r].id)
        /\ pc'[r] \in {"not_found", "login_reject", "login_touch"}
        /\ pc'[r] = "login_touch" => Completed(who[r].id)
    BY <1>1, <2>1 DEF LoginKnows, LoginProfileVerdict, Completed, LocalsTrue, HoldsAccount
  <2>3. Enterable(r, who[r].id)' /\ (Completed(who[r].id) => Completed(who[r].id)')
    BY <1>2, <2>1, <2>2 DEF Enterable, UserExists, Email, NormalizeEmail, PasswordMatches, Completed,
       ProfileExists
  <2>4. AuditTrue(r)'
    <3>1. pc'[r] = "not_found" => users'[who'[r].id].role = "WORKER"
      BY <1>1, <2>1 DEF LoginProfileVerdict, LocalsTrue, HoldsAccount
    <3>2. audit'[r] = <<>> /\ who'[r] = who[r]
      BY <2>1, <2>2
    <3> QED
      BY <2>2, <2>3, <3>1, <3>2, EmptySeq DEF AuditTrue
  <2> QED
    BY <1>3, <2>1, <2>2, <2>3, <2>4 DEF LoginKnows
<1>6. CASE LoginTouch(r)
  <2> PICK i : i = who[r].id
    OBVIOUS
  <2>1. /\ pc[r] = "login_touch" /\ pc'[r] = "login_success"
        /\ UpdateLastLoginAt(i, r) /\ UNCHANGED <<audit, who>>
    BY <1>1, <1>6 DEF LoginTouch, Step, localVars, TypeOK, UpdateLastLoginAt
  <2>2. audit[r] = <<>> /\ Enterable(r, i) /\ Completed(i) /\ UserExists(i)
    BY <2>1 DEF LoginKnows, Enterable
  <2>3. Enterable(r, i)' /\ Completed(i)'
    BY <1>2, <2>2, FindingsStay
  <2>4. users'[i].lastLogin # NoRequest
    BY <1>1, <2>1, <2>2, RequestAssumption DEF UpdateLastLoginAt, UserExists, StoreTypeOK, UserRow
  <2>5. AuditTrue(r)'
    BY <2>1, <2>2 DEF AuditTrue
  <2> QED
    BY <1>3, <2>1, <2>2, <2>3, <2>4, <2>5 DEF LoginKnows
<1>7. CASE LoginSuccess(r)
  <2> PICK i : i = who[r].id
    OBVIOUS
  <2>1. /\ pc[r] = "login_success" /\ pc'[r] = "login_reload" /\ audit[r] = <<>>
        /\ audit' = [audit EXCEPT ![r] = Append(@, SuccessRow(r))]
        /\ UNCHANGED <<users, profiles, who>>
    BY <1>1, <1>7 DEF LoginSuccess, Step, localVars, TypeOK, CreateLoginAuditLog, SuccessRow, LoginKnows
  <2>2. audit'[r] = <<SuccessRow(r)>> /\ SuccessRow(r)' = SuccessRow(r)
    BY <1>1, <2>1 DEF StoreTypeOK, SuccessRow
  <2>3. Enterable(r, i) /\ Completed(i) /\ UserExists(i) /\ users[i].lastLogin # NoRequest
    BY <2>1 DEF LoginKnows, Enterable
  <2>4. Enterable(r, i)' /\ Completed(i)' /\ users'[i].lastLogin # NoRequest
    BY <1>2, <2>1, <2>3, FindingsStay
  <2>5. AuditTrue(r)'
    BY <2>1, <2>2, <2>4 DEF AuditTrue, SuccessRow
  <2> QED
    BY <1>3, <2>1, <2>2, <2>4, <2>5 DEF LoginKnows
<1>8. CASE LoginReload(r)
  <2>1. /\ pc[r] = "login_reload" /\ pc'[r] = "ok"
        /\ UNCHANGED <<users, profiles, audit, who>>
    BY <1>1, <1>8 DEF LoginReload, Step, localVars, storeVars, TypeOK, LoginKnows, Enterable
  <2>2. audit'[r] = <<SuccessRow(r)>> /\ SuccessRow(r)' = SuccessRow(r)
    BY <2>1 DEF LoginKnows, SuccessRow
  <2> PICK i : i = who[r].id
    OBVIOUS
  <2>3. Enterable(r, i) /\ Completed(i) /\ UserExists(i) /\ users[i].lastLogin # NoRequest
    BY <2>1 DEF LoginKnows, Enterable
  <2>4. Enterable(r, i)' /\ Completed(i)' /\ users'[i].lastLogin # NoRequest
    BY <1>2, <2>1, <2>3, FindingsStay
  <2>5. AuditTrue(r)'
    BY <2>1, <2>2, <2>4 DEF AuditTrue, SuccessRow
  <2> QED
    BY <1>3, <2>1, <2>5 DEF LoginKnows
<1>9. CASE LoginReject(r)
  <2>1. /\ pc[r] = "login_reject" /\ pc'[r] = "unauthenticated" /\ audit[r] = <<>>
        /\ audit' = [audit EXCEPT ![r] = Append(@, FailureRow(r))] /\ who' = who
    BY <1>1, <1>9 DEF LoginReject, Step, localVars, TypeOK, CreateLoginAuditLog, FailureRow, LoginKnows
  <2>2. audit'[r] = <<FailureRow(r)>> /\ FailureRow(r)' = FailureRow(r)
    BY <1>1, <2>1 DEF StoreTypeOK, FailureRow
  <2>3. AuditTrue(r)'
    BY <2>1, <2>2 DEF AuditTrue, FailureRow
  <2> QED
    BY <1>3, <2>1, <2>3 DEF LoginKnows
<1> QED
  BY <1>4, <1>5, <1>6, <1>7, <1>8, <1>9 DEF LoginNext

\* The operations other than login stay among their own round trips.
LEMMA OtherSteps ==
  ASSUME TypeOK, NEW r \in Requests, RegisterNext(r) \/ AuthNext(r) \/ UpdateNext(r)
  PROVE  /\ pc[r] \in OtherLabels /\ pc'[r] \in OtherLabels \cup Final
         /\ input'[r] = input[r]
<1> USE DEF TypeOK, Step, localVars, OtherLabels, LoginLabels, Final, Labels, WriteSection
<1>1. CASE RegisterNext(r)
  BY <1>1 DEF RegisterNext, RegisterLookup, RegisterInsert, RegisterDuplicate, RegisterProfile, AfterInsert
<1>2. CASE AuthNext(r)
  BY <1>2 DEF AuthNext, AuthUser, AuthProfile, Logout, MeUser, MeProfile,
     AuthUserVerdict, AdmittedStep, EnsureRoles
<1>3. CASE UpdateNext(r)
  BY <1>3 DEF UpdateNext, UpdateTarget, SelectProfile, CommitProfile, SelectUser, CommitUser,
     UpdateTargetVerdict, SelectedProfile
<1> QED
  BY <1>1, <1>2, <1>3

\* No step makes the audit log lie.
LEMMA AuditKeeps == IInv /\ AuditInv /\ [Next]_vars => AuditInv'
<1> SUFFICES ASSUME IInv, AuditInv, [Next]_vars PROVE AuditInv'
  OBVIOUS
<1>1. CASE UNCHANGED vars
  BY <1>1 DEF vars, AuditInv, Sectioned, LoginKnows, AuditTrue, Enterable, Completed, SuccessRow,
     FailureRow, Email, NormalizeEmail, PasswordMatches, UserExists, ProfileExists
<1>2. ASSUME NEW r \in Requests, StepOf(r), NEW q \in Requests
      PROVE  Sectioned(q)' /\ LoginKnows(q)' /\ AuditTrue(q)'
  <2>1. TypeOK /\ RowsKept /\ LocalsTrue(q) /\ Sectioned(q) /\ LoginKnows(q) /\ AuditTrue(q)
    BY <1>2, RowsStay DEF IInv, AuditInv
  <2>2. CASE q # r
    BY <1>2, <2>1, <2>2, StepFrame, OthersAudited
  <2>3. CASE q = r
    BY <1>2, <2>1, <2>3, BeginAudited, AbortAudited, LoginAuditedSteps, OtherSteps, OtherOpsAudited
    DEF StepOf, Advance
  <2> QED
    BY <2>2, <2>3
<1> QED
  BY <1>1, <1>2 DEF Next, AllAnswered, StepOf, AuditInv

\* However logins race with updates and registrations, and wherever they die, the
\* audit log tells the truth about them.
THEOREM AuditTruthful == Spec => []LoginAudited
<1>1. AuditInv => LoginAudited
  BY DEF AuditInv, AuditTrue, LoginAudited, SuccessRow, FailureRow, Enterable, Completed
<1>2. Spec => []AuditInv
  BY AuditInit, AuditKeeps, Invariance, PTL DEF Spec
<1> QED
  BY <1>1, <1>2, PTL

-----------------------------------------------------------------------------
(* AuthService implements AccountLifecycle: of all its round trips four    *)
(* change an account as a client sees it, and each of them opens,          *)
(* completes or switches one.                                              *)

\* The seeded tables stand for accounts none of which is disabled.
LEMMA InitialAccounts == Init => Lifecycle!Init
<1> SUFFICES ASSUME Init PROVE Lifecycle!Init
  OBVIOUS
<1>1. IInv
  BY InitIInv
<1>2. \A i \in DOMAIN users : users[i].status = "ACTIVE"
  BY DEF Init, StoreInit, NewUser
<1>3. \A i \in DOMAIN profiles : profiles[i] = "ON_DUTY"
  BY DEF Init, StoreInit
<1>4. \A i \in DOMAIN users : /\ Phase(i) # "disabled"
                              /\ users[i].role # "WORKER" => Phase(i) = "enabled"
  BY <1>2, <1>3 DEF Phase, ProfileExists
<1>5. /\ DOMAIN AccountsOf = DOMAIN users
      /\ \A i \in DOMAIN users : /\ AccountsOf[i].email = users[i].email
                                 /\ AccountsOf[i].role = users[i].role
                                 /\ AccountsOf[i].phase = Phase(i)
  BY DEF AccountsOf
<1>6. \A i, j \in DOMAIN users : users[i].email = users[j].email => i = j
  BY <1>1 DEF IInv, TablesSound, UniqueEmail, SameEmail
<1>7. ASSUME NEW i \in DOMAIN AccountsOf
      PROVE  /\ AccountsOf[i].phase # "disabled"
             /\ AccountsOf[i].role \notin {"WORKER"} => AccountsOf[i].phase = "enabled"
  <2>1. /\ AccountsOf[i].phase = Phase(i) /\ AccountsOf[i].role = users[i].role
        /\ i \in DOMAIN users
    BY <1>5
  <2>2. Phase(i) # "disabled" /\ (users[i].role # "WORKER" => Phase(i) = "enabled")
    BY <1>4, <2>1
  <2> QED
    BY <2>1, <2>2
<1>8. \A i, j \in DOMAIN AccountsOf : AccountsOf[i].email = AccountsOf[j].email => i = j
  BY <1>5, <1>6
<1> QED
  BY <1>7, <1>8 DEF Lifecycle!Init

\* create_user opens an account.
LEMMA RegisterOpens ==
  ASSUME IInv, NEW r \in Requests, RegisterInsert(r)
  PROVE  Lifecycle!Next
<1> PICK i : i = nextId
  OBVIOUS
<1> DEFINE e == Email(r)
           role == input[r].role
           row == NewUser(e, Digest[input[r].password], role)
<1>1. TypeOK /\ StoreTypeOK /\ LocalsTrue(r) /\ pc[r] = "register_insert"
  BY StepMoves DEF IInv, TypeOK, RegisterInsert
<1>2. e \in Emails /\ role \in Roles
  <2>1. input[r] \in Input
    BY <1>1, InputAssumption DEF TypeOK
  <2> QED
    BY <1>1, <2>1, EmailAssumption DEF LocalsTrue, RegistrationValid, Email, NormalizeEmail, Input
<1>3. /\ i \notin DOMAIN users /\ i \notin DOMAIN profiles
      /\ users' = Insert(users, i, row) /\ profiles' = profiles
      /\ \A j \in DOMAIN users : users[j].email # e
      /\ row.email = e /\ row.role = role /\ row.status = "ACTIVE"
  BY <1>1 DEF RegisterInsert, CreateUser, EmailTaken, GetUserByEmail, SameEmail, StoreTypeOK,
     NewUser
<1> HIDE DEF e, role, row
<1>4. /\ DOMAIN users' = DOMAIN users \cup {i}
      /\ \A j \in DOMAIN users : users'[j] = users[j]
      /\ users'[i] = row
  BY <1>3 DEF Insert
<1>5. /\ \A j \in DOMAIN users : Phase(j)' = Phase(j)
      /\ Phase(i)' = Lifecycle!FirstPhase(role)
  BY <1>3, <1>4 DEF Phase, ProfileExists, Lifecycle!FirstPhase
<1>6. Lifecycle!Open(i, e, role)
  BY <1>3, <1>4, <1>5 DEF Lifecycle!Open, Lifecycle!Account, AccountsOf
<1>7. i \in DOMAIN AccountsOf' /\ role \in {"WORKER"} \cup StaffRoles
  BY <1>2, <1>4 DEF AccountsOf, Roles, StaffRoles
<1> QED
  BY <1>2, <1>6, <1>7 DEF Lifecycle!Next

\* create_worker_profile completes a pending account, which is ACTIVE since
\* nobody can disable it.
LEMMA ProfileCompletes ==
  ASSUME IInv, NEW r \in Requests, RegisterProfile(r)
  PROVE  Lifecycle!Next \/ AccountsOf' = AccountsOf
<1> PICK i : i = who[r].id
  OBVIOUS
<1>1. /\ i \in DOMAIN users /\ users[i].role = "WORKER" /\ users' = users
      /\ CreateWorkerProfile(i)
  BY StepMoves DEF IInv, RegisterProfile, CreateWorkerProfile, LocalsTrue, HoldsAccount, UserExists
<1>2. CASE ProfileExists(i)
  BY <1>1, <1>2 DEF CreateWorkerProfile, AccountsOf, Phase, ProfileExists
<1>3. CASE ~ ProfileExists(i)
  <2>1. profiles' = Insert(profiles, i, "ON_DUTY") /\ users[i].status = "ACTIVE"
    BY <1>1, <1>3 DEF CreateWorkerProfile, IInv, TablesSound, StrandedWorkersStayActive
  <2>2. /\ Phase(i) = "pending" /\ Phase(i)' = "enabled"
        /\ \A j \in DOMAIN users \ {i} : Phase(j)' = Phase(j)
    BY <1>1, <1>3, <2>1 DEF Phase, ProfileExists, Insert
  <2>3. AccountsOf' = [AccountsOf EXCEPT ![i].phase = "enabled"]
    BY <1>1, <2>2 DEF AccountsOf
  <2>4. Lifecycle!Complete(i) /\ i \in DOMAIN AccountsOf
    BY <1>1, <2>2, <2>3 DEF Lifecycle!Complete, Lifecycle!SetPhase, AccountsOf
  <2> QED
    BY <2>4 DEF Lifecycle!Next
<1> QED
  BY <1>2, <1>3

\* update_user_last_login_at changes nothing of an account.
LEMMA TouchStutters ==
  ASSUME IInv, NEW r \in Requests, LoginTouch(r)
  PROVE  AccountsOf' = AccountsOf
<1>1. /\ who[r].id \in DOMAIN users /\ UpdateLastLoginAt(who[r].id, r)
      /\ TypeOK /\ StoreTypeOK
  BY StepMoves DEF IInv, TypeOK, LoginTouch, LocalsTrue, HoldsAccount, UserExists
<1>2. /\ DOMAIN users' = DOMAIN users /\ profiles' = profiles
      /\ \A j \in DOMAIN users : /\ users'[j].email = users[j].email
                                 /\ users'[j].role = users[j].role
                                 /\ users'[j].status = users[j].status
  BY <1>1 DEF UpdateLastLoginAt, StoreTypeOK, UserRow
<1>3. \A j \in DOMAIN users : Phase(j)' = Phase(j)
  BY <1>2 DEF Phase, ProfileExists
<1> QED
  BY <1>2, <1>3 DEF AccountsOf

\* Either commit of a status update switches the worker it is about, or leaves
\* it as it was; and the caller, who is staff, is enabled all the while.
LEMMA CommitSwitches ==
  ASSUME IInv, NEW r \in Requests, CommitProfile(r) \/ CommitUser(r)
  PROVE  Lifecycle!Next \/ AccountsOf' = AccountsOf
<1> PICK i : i = input[r].target
  OBVIOUS
<1>1. /\ TypeOK /\ StoreTypeOK /\ pc[r] \in {"profile_commit", "user_commit"}
      /\ i \in DOMAIN users /\ users[i].role = "WORKER" /\ ProfileExists(i)
      /\ who[r].id \in DOMAIN users /\ users[who[r].id].role \in StaffRoles
      /\ users[who[r].id].status = "ACTIVE"
  BY StepMoves DEF IInv, TypeOK, CommitProfile, CommitUser, LocalsTrue, HoldsAccount, UserExists,
     WriteSection, TablesSound, StaffAlwaysActive
<1>2. Lifecycle!StaffOnDuty
  BY <1>1 DEF Lifecycle!StaffOnDuty, AccountsOf, Phase, StaffRoles
<1>3. /\ DOMAIN users' = DOMAIN users /\ DOMAIN profiles' = DOMAIN profiles
      /\ \A j \in DOMAIN users : /\ users'[j].email = users[j].email
                                 /\ users'[j].role = users[j].role
                                 /\ j # i => users'[j].status = users[j].status
      /\ \A j \in DOMAIN profiles : j # i => profiles'[j] = profiles[j]
  <2>1. CASE CommitProfile(r)
    BY <1>1, <2>1 DEF CommitProfile, CommitEmploymentStatus, StoreTypeOK
  <2>2. CASE CommitUser(r)
    BY <1>1, <2>2 DEF CommitUser, CommitUserStatus, StoreTypeOK, UserRow
  <2> QED
    BY <2>1, <2>2
<1>4. PICK phase : phase = Phase(i)'
  OBVIOUS
<1>5. /\ Phase(i) \in {"enabled", "disabled"} /\ phase \in {"enabled", "disabled"}
      /\ \A j \in DOMAIN users \ {i} : Phase(j)' = Phase(j)
  BY <1>1, <1>3, <1>4 DEF Phase, ProfileExists
<1>6. AccountsOf' = [AccountsOf EXCEPT ![i].phase = phase]
  BY <1>1, <1>3, <1>4, <1>5 DEF AccountsOf
<1>7. CASE phase = Phase(i)
  BY <1>1, <1>6, <1>7 DEF AccountsOf
<1>8. CASE phase # Phase(i)
  <2>1. Lifecycle!Switch(i, phase) /\ i \in DOMAIN AccountsOf
    BY <1>1, <1>2, <1>5, <1>6, <1>8 DEF Lifecycle!Switch, Lifecycle!SetPhase, AccountsOf
  <2> QED
    BY <1>5, <2>1 DEF Lifecycle!Next
<1> QED
  BY <1>7, <1>8

\* Every step of every call is a step of the account lifecycle or changes
\* nothing a client can tell, whatever interleaves with it and wherever it dies.
THEOREM ServiceImplementsLifecycle == Spec => ImplementsLifecycle
<1>1. IInv /\ [Next]_vars => [Lifecycle!Next]_AccountsOf
  <2> SUFFICES ASSUME IInv, [Next]_vars PROVE Lifecycle!Next \/ AccountsOf' = AccountsOf
    OBVIOUS
  <2>1. CASE UNCHANGED <<users, profiles>>
    BY <2>1 DEF AccountsOf, Phase, ProfileExists
  <2>2. CASE \E r \in Requests : RegisterInsert(r) \/ RegisterProfile(r)
    BY <2>2, RegisterOpens, ProfileCompletes
  <2>3. CASE \E r \in Requests : LoginTouch(r)
    BY <2>3, TouchStutters
  <2>4. CASE \E r \in Requests : CommitProfile(r) \/ CommitUser(r)
    BY <2>4, CommitSwitches
  <2> QED
    BY <2>1, <2>2, <2>3, <2>4
    DEF Next, Begin, Advance, Abort, AllAnswered, RegisterNext, LoginNext, AuthNext, UpdateNext,
        RegisterLookup, RegisterDuplicate, DuplicateUser, LoginLookup, LoginProfile, LoginSuccess,
        LoginReload, LoginReject, CreateLoginAuditLog, AuthUser, AuthProfile, Logout, MeUser,
        MeProfile, UpdateTarget, SelectProfile, SelectUser, storeVars, vars
<1> QED
  BY <1>1, InitialAccounts, Invariance, PTL DEF Spec, ImplementsLifecycle, Lifecycle!Spec
=============================================================================
