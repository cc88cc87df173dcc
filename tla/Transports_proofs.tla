-------------------------- MODULE Transports_proofs --------------------------
(***************************************************************************)
(* Calls that do not overlap get the same answers and leave the same rows  *)
(* over SQL, in memory, over HTTP and over gRPC, for all values of the     *)
(* constants.                                                              *)
(*                                                                         *)
(* The argument for the repositories: Image is the memory that holds what  *)
(* the tables hold.  Each repository method over SQL changes Image as the  *)
(* same method in memory would (the ...Image lemmas), so that what is left *)
(* of a call, Left, is the same before and after each of its round trips.  *)
(* It is the answer of the call in memory when the call begins; when it is *)
(* over, nothing is left but Image and the outcome.  All this as long as   *)
(* the calls are Ordinary: then the collation's equality of e-mails is the *)
(* dictionary's (Plain), and no call dies of a value too wide (Overflow).  *)
(*                                                                         *)
(* The argument for the entrances: gRPC decodes what was meant, so that    *)
(* its dictionaries are memory.  Those behind HTTP are memory but for the  *)
(* audit rows of the calls a schema turned away, Without; on WellFormed    *)
(* dictionaries no other call reads or writes those rows, and of a call    *)
(* the schema refuses nothing but an audit row would have come.            *)
(***************************************************************************)
EXTENDS Transports, AuthService_proofs, SequenceTheorems

-----------------------------------------------------------------------------
(* The index by e-mail.                                                    *)

Distinct(rows) ==
    \A i, j \in DOMAIN rows : rows[i].email = rows[j].email => i = j

\* The index names the row of an e-mail.
LEMMA IndexPoints ==
    ASSUME NEW rows, Distinct(rows), NEW i \in DOMAIN rows
    PROVE  rows[i].email \in DOMAIN Index(rows) /\ Index(rows)[rows[i].email] = i
<1> DEFINE e == rows[i].email
           k == CHOOSE j \in DOMAIN rows : rows[j].email = e
<1>1. e \in DOMAIN Index(rows) /\ Index(rows)[e] = k
  BY DEF Index
<1>2. k \in DOMAIN rows /\ rows[k].email = e
  OBVIOUS
<1> QED
  BY <1>1, <1>2 DEF Distinct

\* A dictionary that names each row by its e-mail, and nothing else, is the index.
LEMMA IndexIs ==
    ASSUME NEW rows, Distinct(rows), NEW f, f = [e \in DOMAIN f |-> f[e]],
           DOMAIN f = {rows[i].email : i \in DOMAIN rows},
           \A i \in DOMAIN rows : f[rows[i].email] = i
    PROVE  Index(rows) = f
<1>1. /\ DOMAIN Index(rows) = DOMAIN f
      /\ Index(rows) = [e \in DOMAIN Index(rows) |-> Index(rows)[e]]
  BY DEF Index
<1>2. \A e \in DOMAIN f : Index(rows)[e] = f[e]
  BY IndexPoints
<1> QED
  BY <1>1, <1>2

\* Rewriting columns other than the e-mail leaves the index alone.
LEMMA IndexStays ==
    ASSUME NEW rows, NEW new, Distinct(rows), DOMAIN new = DOMAIN rows,
           \A i \in DOMAIN rows : new[i].email = rows[i].email
    PROVE  Index(new) = Index(rows)
<1>1. Distinct(new)
  BY DEF Distinct
<1>2. /\ DOMAIN Index(rows) = {new[i].email : i \in DOMAIN new}
      /\ Index(rows) = [e \in DOMAIN Index(rows) |-> Index(rows)[e]]
  BY DEF Index
<1>3. \A i \in DOMAIN new : Index(rows)[new[i].email] = i
  BY IndexPoints
<1> QED
  BY <1>1, <1>2, <1>3, IndexIs

\* A new row is indexed as create_user indexes it.
LEMMA IndexOfInsert ==
    ASSUME NEW rows, Distinct(rows), NEW id, id \notin DOMAIN rows, NEW row,
           \A i \in DOMAIN rows : rows[i].email # row.email
    PROVE  /\ Index(Insert(rows, id, row)) = Insert(Index(rows), row.email, id)
           /\ Distinct(Insert(rows, id, row))
<1> DEFINE new == Insert(rows, id, row)
           f == Insert(Index(rows), row.email, id)
<1>1. /\ DOMAIN new = DOMAIN rows \cup {id} /\ new[id] = row
      /\ \A i \in DOMAIN rows : new[i] = rows[i]
  BY DEF Insert
<1>2. /\ DOMAIN f = DOMAIN Index(rows) \cup {row.email} /\ f[row.email] = id
      /\ \A e \in DOMAIN Index(rows) : e # row.email => f[e] = Index(rows)[e]
      /\ f = [e \in DOMAIN f |-> f[e]]
  BY DEF Insert
<1>3. DOMAIN Index(rows) = {rows[i].email : i \in DOMAIN rows}
  BY DEF Index
<1> HIDE DEF new, f
<1>4. Distinct(new)
  BY <1>1 DEF Distinct
<1>5. DOMAIN f = {new[i].email : i \in DOMAIN new}
  BY <1>1, <1>2, <1>3
<1>6. \A i \in DOMAIN new : f[new[i].email] = i
  BY <1>1, <1>2, IndexPoints
<1> QED
  BY <1>2, <1>4, <1>5, <1>6, IndexIs DEF new, f

\* get_user_by_email answers from an exact index as the SELECT does.
LEMMA LookupByIndex ==
    ASSUME NEW m, Distinct(m.users), m.byEmail = Index(m.users), NEW e
    PROVE  ByEmail(m, e) = {i \in DOMAIN m.users : m.users[i].email = e}
<1>1. ASSUME NEW i \in DOMAIN m.users, e \in DOMAIN m.byEmail, m.byEmail[e] = i
      PROVE  m.users[i].email = e
  <2>1. PICK k \in DOMAIN m.users : m.users[k].email = e
    BY <1>1 DEF Index
  <2> QED
    BY <1>1, <2>1, IndexPoints
<1>2. ASSUME NEW i \in DOMAIN m.users, m.users[i].email = e
      PROVE  e \in DOMAIN m.byEmail /\ m.byEmail[e] = i
  BY <1>2, IndexPoints
<1> QED
  BY <1>1, <1>2 DEF ByEmail

-----------------------------------------------------------------------------
(* Every method of the repository replaces whole dictionaries.             *)

\* create_user
LEMMA AddUserTo ==
    ASSUME NEW u, NEW b, NEW p, NEW l, NEW n, NEW e, NEW digest, NEW role
    PROVE  AddUser(Dictionaries(u, b, p, l, n), e, digest, role) =
              Dictionaries(Insert(u, n + 1, NewUser(e, digest, role)),
                           Insert(b, e, n + 1), p, l, n + 1)
<1> DEFINE m == Dictionaries(u, b, p, l, n)
<1>1. m.seq = n /\ m.users = u /\ m.byEmail = b
  BY DEF Dictionaries
<1>2. AddUser(m, e, digest, role) =
        [m EXCEPT !.seq = n + 1, !.users = Insert(u, n + 1, NewUser(e, digest, role)),
                  !.byEmail = Insert(b, e, n + 1)]
  BY <1>1 DEF AddUser
<1> QED
  BY <1>2 DEF Dictionaries

\* create_worker_profile
LEMMA AddProfileTo ==
    ASSUME NEW u, NEW b, NEW p, NEW l, NEW n, NEW i
    PROVE  AddProfile(Dictionaries(u, b, p, l, n), i) =
              Dictionaries(u, b, Insert(p, i, "ON_DUTY"), l, n)
BY DEF Dictionaries, AddProfile

\* update_user_last_login_at
LEMMA StampLoginTo ==
    ASSUME NEW u, NEW b, NEW p, NEW l, NEW n, NEW i, NEW r
    PROVE  StampLogin(Dictionaries(u, b, p, l, n), i, r) =
              Dictionaries([u EXCEPT ![i].lastLogin = r], b, p, l, n)
BY DEF Dictionaries, StampLogin

\* update_user_status
LEMMA SetUserStatusTo ==
    ASSUME NEW u, NEW b, NEW p, NEW l, NEW n, NEW i, NEW status
    PROVE  SetUserStatus(Dictionaries(u, b, p, l, n), i, status) =
              Dictionaries([u EXCEPT ![i].status = status], b, p, l, n)
BY DEF Dictionaries, SetUserStatus

\* update_worker_employment_status
LEMMA SetEmploymentTo ==
    ASSUME NEW u, NEW b, NEW p, NEW l, NEW n, NEW i, NEW status
    PROVE  SetEmployment(Dictionaries(u, b, p, l, n), i, status) =
              Dictionaries(u, b, [p EXCEPT ![i] = status], l, n)
BY DEF Dictionaries, SetEmployment

\* create_login_audit_log
LEMMA AddLogTo ==
    ASSUME NEW u, NEW b, NEW p, NEW l, NEW n, NEW r, NEW i, NEW event
    PROVE  AddLog(Dictionaries(u, b, p, l, n), r, i, event) =
              Dictionaries(u, b, p, [l EXCEPT ![r] = Append(@, [user |-> i, event |-> event])], n)
BY DEF Dictionaries, AddLog

-----------------------------------------------------------------------------
(* Each repository method does to Image what it does in memory.            *)

\* Image reads the tables.
LEMMA ImageFields ==
    /\ Image.users = users /\ Image.byEmail = Index(users) /\ Image.profiles = profiles
    /\ Image.logs = audit /\ Image.seq = nextId - 1
BY DEF Image, Dictionaries

\* The collation equates no account's e-mail with e, unless it is e.
Plain(e) == \A i \in DOMAIN users : SameEmail(users[i].email, e) => users[i].email = e

\* E-mails unequal under the collation are unequal.
LEMMA EmailsDistinct ==
    ASSUME UniqueEmail
    PROVE  Distinct(users)
BY DEF UniqueEmail, SameEmail, Distinct

\* get_user_by_email
LEMMA LookupImage ==
    ASSUME UniqueEmail, NEW e, Plain(e)
    PROVE  ByEmail(Image, e) = GetUserByEmail(e)
<1>1. ByEmail(Image, e) = {i \in DOMAIN users : users[i].email = e}
  BY EmailsDistinct, LookupByIndex, ImageFields
<1> QED
  BY <1>1 DEF Plain, GetUserByEmail, SameEmail

\* A round trip that only reads.
LEMMA ImageStays ==
    ASSUME UNCHANGED storeVars
    PROVE  Image' = Image
BY DEF storeVars, Image

\* create_user
LEMMA CreateUserImage ==
    ASSUME StoreSound, NEW e, NEW digest, NEW role, CreateUser(e, digest, role)
    PROVE  Image' = AddUser(Image, e, digest, role)
<1> DEFINE row == NewUser(e, digest, role)
<1>1. /\ nextId \in Nat /\ nextId \notin DOMAIN users /\ Distinct(users)
      /\ \A i \in DOMAIN users : users[i].email # e
      /\ row.email = e
  BY EmailsDistinct DEF StoreSound, StoreTypeOK, TablesSound, CreateUser, EmailTaken,
     GetUserByEmail, SameEmail, NewUser
<1>2. /\ users' = Insert(users, nextId, row) /\ nextId' = nextId + 1
      /\ profiles' = profiles /\ audit' = audit
  BY DEF CreateUser
<1> HIDE DEF row
<1>3. Index(users') = Insert(Index(users), e, nextId)
  BY <1>1, <1>2, IndexOfInsert
<1>4. nextId' - 1 = (nextId - 1) + 1 /\ nextId = (nextId - 1) + 1
  BY <1>1, <1>2
<1>5. Image' = Dictionaries(Insert(users, nextId, row), Insert(Index(users), e, nextId),
                            profiles, audit, nextId)
  BY <1>1, <1>2, <1>3 DEF Image
<1>6. AddUser(Image, e, digest, role) =
        Dictionaries(Insert(users, nextId, row), Insert(Index(users), e, nextId),
                     profiles, audit, nextId)
  BY <1>4, AddUserTo DEF Image, row
<1> QED
  BY <1>5, <1>6

\* create_worker_profile
LEMMA CreateWorkerProfileImage ==
    ASSUME NEW i, ~ ProfileExists(i), CreateWorkerProfile(i)
    PROVE  Image' = AddProfile(Image, i)
BY AddProfileTo DEF CreateWorkerProfile, Image

\* update_user_last_login_at
LEMMA UpdateLastLoginAtImage ==
    ASSUME StoreSound, NEW i \in DOMAIN users, NEW r, UpdateLastLoginAt(i, r)
    PROVE  Image' = StampLogin(Image, i, r)
<1>1. /\ users' = [users EXCEPT ![i].lastLogin = r] /\ nextId' = nextId
      /\ profiles' = profiles /\ audit' = audit
  BY DEF UpdateLastLoginAt
<1>2. /\ DOMAIN users' = DOMAIN users /\ Distinct(users)
      /\ \A j \in DOMAIN users : users'[j].email = users[j].email
  BY <1>1, EmailsDistinct DEF StoreSound, StoreTypeOK, UserRow, TablesSound
<1>3. Index(users') = Index(users)
  BY <1>2, IndexStays
<1> QED
  <2>1. Image' = Dictionaries([users EXCEPT ![i].lastLogin = r], Index(users), profiles,
                              audit, nextId - 1)
    BY <1>1, <1>3 DEF Image
  <2> QED
    BY <2>1, StampLoginTo DEF Image

\* update_user_status, when nobody wrote the row since it was selected.
LEMMA CommitUserStatusImage ==
    ASSUME StoreSound, NEW i \in DOMAIN users, NEW status,
           CommitUserStatus(i, users[i].status, status)
    PROVE  Image' = SetUserStatus(Image, i, status)
<1>1. nextId' = nextId /\ profiles' = profiles /\ audit' = audit
  BY DEF CommitUserStatus
<1>2. users' = [users EXCEPT ![i].status = status]
  BY DEF CommitUserStatus, StoreSound, StoreTypeOK, UserRow
<1>3. /\ DOMAIN users' = DOMAIN users /\ Distinct(users)
      /\ \A j \in DOMAIN users : users'[j].email = users[j].email
  BY <1>2, EmailsDistinct DEF StoreSound, StoreTypeOK, UserRow, TablesSound
<1>4. Index(users') = Index(users)
  BY <1>3, IndexStays
<1> QED
  <2>1. Image' = Dictionaries([users EXCEPT ![i].status = status], Index(users), profiles,
                              audit, nextId - 1)
    BY <1>1, <1>2, <1>4 DEF Image
  <2> QED
    BY <2>1, SetUserStatusTo DEF Image

\* update_worker_employment_status, when nobody wrote the row since.
LEMMA CommitEmploymentStatusImage ==
    ASSUME StoreSound, NEW i \in DOMAIN profiles, NEW status,
           CommitEmploymentStatus(i, profiles[i], status)
    PROVE  Image' = SetEmployment(Image, i, status)
<1>1. nextId' = nextId /\ users' = users /\ audit' = audit
  BY DEF CommitEmploymentStatus
<1>2. profiles' = [profiles EXCEPT ![i] = status]
  BY DEF CommitEmploymentStatus, StoreSound, StoreTypeOK
<1> QED
  <2>1. Image' = Dictionaries(users, Index(users), [profiles EXCEPT ![i] = status],
                              audit, nextId - 1)
    BY <1>1, <1>2 DEF Image
  <2> QED
    BY <2>1, SetEmploymentTo DEF Image

\* create_login_audit_log
LEMMA CreateLoginAuditLogImage ==
    ASSUME NEW r, NEW i, NEW event, CreateLoginAuditLog(r, i, event)
    PROVE  Image' = AddLog(Image, r, i, event)
<1>1. /\ users' = users /\ profiles' = profiles /\ nextId' = nextId
      /\ audit' = [audit EXCEPT ![r] = Append(@, [user |-> i, event |-> event])]
  BY DEF CreateLoginAuditLog
<1> QED
  <2>1. Image' = Dictionaries(users, Index(users), profiles,
                   [audit EXCEPT ![r] = Append(@, [user |-> i, event |-> event])], nextId - 1)
    BY <1>1 DEF Image
  <2> QED
    BY <2>1, AddLogTo DEF Image

-----------------------------------------------------------------------------
(* A round trip leaves what it leaves of the call.                         *)

\* The arms of Remaining.
LEMMA RemainingAt ==
    ASSUME NEW m, NEW r, NEW a, NEW i
    PROVE  /\ Remaining(m, "register_lookup", r, a, i) = RegisterCall(m, a)
           /\ Remaining(m, "register_insert", r, a, i) =
                 Reply(Enrol(m, NormalizeEmail(a.address), Digest[a.password], a.role), "ok")
           /\ Remaining(m, "register_profile", r, a, i) = Reply(AddProfile(m, i), "ok")
           /\ Remaining(m, "login_lookup", r, a, i) = LoginCall(m, r, a)
           /\ Remaining(m, "login_profile", r, a, i) = LoginKnown(m, r, i)
           /\ Remaining(m, "login_touch", r, a, i) = LogIn(m, r, i)
           /\ Remaining(m, "login_success", r, a, i) =
                 Reply(AddLog(m, r, i, "LOGIN_SUCCESS"), "ok")
           /\ Remaining(m, "login_reject", r, a, i) = Refuse(m, r, i)
           /\ Remaining(m, "auth_user", r, a, i) = AuthenticatedCall(m, r, a)
           /\ Remaining(m, "auth_profile", r, a, i) =
                 IF OnDuty(m, i) THEN AdmittedCall(m, r, a) ELSE Reply(m, "unauthenticated")
           /\ Remaining(m, "logout_audit", r, a, i) = Reply(AddLog(m, r, i, "LOGOUT"), "ok")
           /\ Remaining(m, "update_target", r, a, i) = UpdateCall(m, a.target, a.status)
           /\ Remaining(m, "profile_select", r, a, i) =
                 IF Profiled(m, a.target) THEN Switch(m, a.target, a.status)
                 ELSE Reply(m, "not_found")
           /\ Remaining(m, "profile_commit", r, a, i) = Switch(m, a.target, a.status)
           /\ \A label \in {"user_select", "user_commit"} :
                 Remaining(m, label, r, a, i) =
                    Reply(SetUserStatus(m, a.target, NextUserStatus(a.status)), "ok")
           /\ \A label \in {"login_reload", "me_user", "me_profile"} :
                 Remaining(m, label, r, a, i) = Reply(m, "ok")
           /\ \A out \in Final : Remaining(m, out, r, a, i) = Reply(m, out)
BY DEF Remaining, Final

\* What is left at a label.
LEMMA LeftAt ==
    ASSUME TypeOK, NEW r \in Requests, NEW from, NEW to, Step(r, from, to)
    PROVE  /\ Left(r) = Remaining(Image, from, r, input[r], who[r].id)
           /\ Left(r)' = Remaining(Image', to, r, input'[r], who'[r].id)
BY StepMoves DEF Left

\* register
LEMMA RegisterLeaves ==
    ASSUME IInv, NEW r \in Requests, Undisturbed(r), Email(r) # NoEmail => Plain(Email(r)),
           RegisterNext(r)
    PROVE  Left(r)' = Left(r) /\ Undisturbed(r)'
<1> USE Facts
<1> PICK a : a = input[r]
  OBVIOUS
<1>0. Email(r) = NormalizeEmail(a.address) /\ UniqueEmail
  BY DEF Email, StoreSound, TablesSound
<1>1. CASE RegisterLookup(r)
  <2>1. /\ UNCHANGED storeVars /\ input' = input /\ who' = who /\ Image' = Image
        /\ pc[r] = "register_lookup" /\ RegistrationValid(a)
    BY <1>1, StepMoves, ImageStays DEF RegisterLookup, localVars, LocalsTrue
  <2>2. ByEmail(Image, Email(r)) = GetUserByEmail(Email(r))
    BY <1>0, <2>1, LookupImage DEF RegistrationValid
  <2>3. CASE GetUserByEmail(Email(r)) = {}
    <3>1. Step(r, "register_lookup", "register_insert")
      BY <1>1, <2>3 DEF RegisterLookup
    <3>2. Undisturbed(r)'
      BY <2>1, <2>3, <3>1, StepMoves DEF Undisturbed, GetUserByEmail, Email, storeVars
    <3>3. /\ Left(r) = RegisterCall(Image, a)
          /\ Left(r)' = Reply(Enrol(Image, Email(r), Digest[a.password], a.role), "ok")
      BY <1>0, <2>1, <3>1, LeftAt, RemainingAt
    <3> QED
      BY <1>0, <2>1, <2>2, <2>3, <3>2, <3>3 DEF RegisterCall
  <2>4. CASE GetUserByEmail(Email(r)) # {}
    <3>1. Step(r, "register_lookup", "conflict")
      BY <1>1, <2>4 DEF RegisterLookup
    <3>2. Undisturbed(r)'
      BY <3>1, StepMoves DEF Undisturbed
    <3>3. Left(r) = RegisterCall(Image, a) /\ Left(r)' = Reply(Image, "conflict")
      BY <2>1, <3>1, LeftAt, RemainingAt DEF Final
    <3> QED
      BY <1>0, <2>1, <2>2, <2>4, <3>2, <3>3 DEF RegisterCall
  <2> QED
    BY <2>3, <2>4
<1>2. CASE RegisterInsert(r)
  <2> DEFINE e == Email(r)
             role == a.role
             made == AddUser(Image, e, Digest[a.password], role)
  <2>1. /\ Step(r, "register_insert", AfterInsert(role))
        /\ CreateUser(e, Digest[a.password], role)
        /\ who'[r].id = nextId /\ input' = input /\ seen' = seen
    BY <1>2 DEF RegisterInsert, TypeOK
  <2>2. Image' = made
    BY <2>1, CreateUserImage
  <2>3. made.seq = nextId
    BY DEF AddUser, Image, Dictionaries, StoreTypeOK
  <2>4. Left(r) = Reply(Enrol(Image, e, Digest[a.password], role), "ok")
    BY <1>0, <2>1, LeftAt, RemainingAt
  <2>5. CASE role = "WORKER"
    <3>1. Step(r, "register_insert", "register_profile")
      BY <2>1, <2>5 DEF AfterInsert
    <3>2. Left(r)' = Reply(AddProfile(made, nextId), "ok")
      BY <2>1, <2>2, <3>1, LeftAt, RemainingAt
    <3>3. nextId \notin DOMAIN profiles'
      BY <2>1 DEF CreateUser, StoreTypeOK
    <3>4. Undisturbed(r)'
      BY <2>1, <3>1, <3>3, StepMoves DEF Undisturbed, ProfileExists
    <3> QED
      BY <2>3, <2>4, <2>5, <3>2, <3>4 DEF Enrol
  <2>6. CASE role # "WORKER"
    <3>1. Step(r, "register_insert", "ok")
      BY <2>1, <2>6 DEF AfterInsert
    <3>2. Undisturbed(r)'
      BY <3>1, StepMoves DEF Undisturbed
    <3>3. Left(r)' = Reply(made, "ok")
      BY <2>1, <2>2, <3>1, LeftAt, RemainingAt DEF Final
    <3> QED
      BY <2>4, <2>6, <3>2, <3>3 DEF Enrol
  <2> QED
    BY <2>5, <2>6
<1>3. CASE RegisterDuplicate(r)
  BY <1>3, StepMoves DEF RegisterDuplicate, DuplicateUser, EmailTaken, Undisturbed
<1>4. CASE RegisterProfile(r)
  <2> PICK i : i = who[r].id
    OBVIOUS
  <2>1. pc[r] = "register_profile" /\ ~ ProfileExists(i)
    BY <1>4, StepMoves DEF RegisterProfile, Undisturbed
  <2>2. /\ Step(r, "register_profile", "ok") /\ CreateWorkerProfile(i)
        /\ input' = input /\ who' = who
    BY <1>4, <2>1 DEF RegisterProfile, localVars
  <2>3. Image' = AddProfile(Image, i)
    BY <2>1, <2>2, CreateWorkerProfileImage
  <2>4. Left(r) = Reply(AddProfile(Image, i), "ok") /\ Left(r)' = Reply(Image', "ok")
    BY <2>2, LeftAt, RemainingAt DEF Final
  <2>5. Undisturbed(r)'
    BY <2>2, StepMoves DEF Undisturbed
  <2> QED
    BY <2>3, <2>4, <2>5
<1> QED
  BY <1>1, <1>2, <1>3, <1>4 DEF RegisterNext

\* login
LEMMA LoginLeaves ==
    ASSUME IInv, NEW r \in Requests, Undisturbed(r), Email(r) # NoEmail => Plain(Email(r)),
           LoginNext(r)
    PROVE  Left(r)' = Left(r) /\ Undisturbed(r)'
<1> USE Facts
<1> PICK a : a = input[r]
  OBVIOUS
<1> PICK i : i = who[r].id
  OBVIOUS
<1>0. Email(r) = NormalizeEmail(a.address) /\ UniqueEmail
  BY DEF Email, StoreSound, TablesSound
<1>1. CASE LoginLookup(r)
  <2> DEFINE found == GetUserByEmail(Email(r))
             to == LoginUserVerdict(found, a.password)
  <2>1. /\ UNCHANGED storeVars /\ input' = input /\ Image' = Image
        /\ Step(r, "login_lookup", to) /\ pc[r] = "login_lookup" /\ Email(r) # NoEmail
    BY <1>1, StepMoves, ImageStays DEF LoginLookup, Undisturbed
  <2>2. ByEmail(Image, Email(r)) = found
    BY <1>0, <2>1, LookupImage
  <2>3. Left(r) = LoginCall(Image, r, a) /\ Left(r)' = Remaining(Image, to, r, a, who'[r].id)
    BY <2>1, LeftAt, RemainingAt
  <2>4. to \in {"login_profile", "login_reject"}
    BY DEF LoginUserVerdict
  <2>5. Undisturbed(r)'
    BY <2>1, <2>4, StepMoves DEF Undisturbed
  <2>6. CASE found = {}
    <3>1. to = "login_reject" /\ who'[r].id = NoUser
      BY <1>1, <2>6 DEF LoginUserVerdict, LoginLookup, Nobody, TypeOK
    <3>2. Left(r)' = Refuse(Image, r, NoUser)
      BY <2>3, <3>1, RemainingAt
    <3>3. LoginCall(Image, r, a) = Refuse(Image, r, NoUser)
      BY <1>0, <2>1, <2>2, <2>6 DEF LoginCall
    <3> QED
      BY <2>3, <2>5, <3>2, <3>3
  <2>7. CASE found # {}
    <3>1. PICK k : found = {k} /\ k \in DOMAIN users
      BY <1>0, <2>7 DEF GetUserByEmail, UniqueEmail, SameEmail
    <3>2. (CHOOSE j \in found : TRUE) = k
      BY <3>1
    <3>3. who'[r].id = k
      BY <1>1, <2>7, <3>2 DEF LoginLookup, Snapshot, TypeOK
    <3>4. LoginCall(Image, r, a) =
            IF PasswordMatches(a.password, k) /\ users[k].status = "ACTIVE"
            THEN LoginKnown(Image, r, k) ELSE Refuse(Image, r, k)
      <4>1. ByEmail(Image, NormalizeEmail(a.address)) = {k}
        BY <1>0, <2>2, <3>1
      <4>2. (CHOOSE j \in {k} : TRUE) = k
        OBVIOUS
      <4> QED
        BY <1>0, <2>1, <4>1, <4>2, ImageFields DEF LoginCall, PasswordMatches
    <3>5. CASE PasswordMatches(a.password, k) /\ users[k].status = "ACTIVE"
      <4>1. to = "login_profile"
        BY <3>1, <3>5 DEF LoginUserVerdict
      <4> QED
        BY <2>3, <2>5, <3>3, <3>4, <3>5, <4>1, RemainingAt
    <3>6. CASE ~ (PasswordMatches(a.password, k) /\ users[k].status = "ACTIVE")
      <4>1. to = "login_reject"
        BY <3>1, <3>6 DEF LoginUserVerdict
      <4> QED
        BY <2>3, <2>5, <3>3, <3>4, <3>6, <4>1, RemainingAt
    <3> QED
      BY <3>5, <3>6
  <2> QED
    BY <2>6, <2>7
<1>2. CASE LoginProfile(r)
  <2> DEFINE to == LoginProfileVerdict(who[r])
  <2>1. /\ input' = input /\ who' = who /\ Image' = Image /\ Step(r, "login_profile", to)
        /\ who[r].role = users[i].role
    BY <1>2, StepMoves, ImageStays DEF LoginProfile, localVars, LocalsTrue, HoldsAccount
  <2>2. Left(r) = LoginKnown(Image, r, i) /\ Left(r)' = Remaining(Image, to, r, a, i)
    BY <2>1, LeftAt, RemainingAt
  <2>3. to \in {"not_found", "login_reject", "login_touch"}
    BY DEF LoginProfileVerdict
  <2>4. Undisturbed(r)'
    BY <2>1, <2>3, StepMoves DEF Undisturbed
  <2>5. LoginKnown(Image, r, i) =
          IF to = "not_found" THEN Reply(Image, "not_found")
          ELSE IF to = "login_touch" THEN LogIn(Image, r, i) ELSE Refuse(Image, r, i)
    BY <2>1, ImageFields DEF LoginKnown, LoginProfileVerdict, OnDuty, Profiled, ProfileExists
  <2> HIDE DEF to
  <2> QED
    BY <2>2, <2>3, <2>4, <2>5, RemainingAt DEF Final
<1>3. CASE LoginTouch(r)
  <2>1. /\ Step(r, "login_touch", "login_success") /\ UpdateLastLoginAt(i, r)
        /\ input' = input /\ who' = who /\ i \in DOMAIN users
    BY <1>3, StepMoves DEF LoginTouch, localVars, LocalsTrue, HoldsAccount, UserExists
  <2>2. Image' = StampLogin(Image, i, r)
    BY <2>1, UpdateLastLoginAtImage
  <2>3. /\ Left(r) = LogIn(Image, r, i)
        /\ Left(r)' = Reply(AddLog(Image', r, i, "LOGIN_SUCCESS"), "ok")
    BY <2>1, LeftAt, RemainingAt
  <2>4. Undisturbed(r)'
    BY <2>1, StepMoves DEF Undisturbed
  <2> QED
    BY <2>2, <2>3, <2>4 DEF LogIn
<1>4. CASE LoginSuccess(r)
  <2>1. /\ Step(r, "login_success", "login_reload") /\ input' = input /\ who' = who
        /\ Image' = AddLog(Image, r, i, "LOGIN_SUCCESS")
    BY <1>4, CreateLoginAuditLogImage DEF LoginSuccess, localVars
  <2>2. Left(r) = Reply(Image', "ok") /\ Left(r)' = Reply(Image', "ok")
    BY <2>1, LeftAt, RemainingAt
  <2>3. Undisturbed(r)'
    BY <2>1, StepMoves DEF Undisturbed
  <2> QED
    BY <2>2, <2>3
<1>5. CASE LoginReload(r)
  <2>1. UserExists(i)
    BY <1>5, StepMoves DEF LoginReload, LocalsTrue, HoldsAccount
  <2>2. /\ Step(r, "login_reload", "ok") /\ input' = input /\ who' = who /\ Image' = Image
    BY <1>5, <2>1, ImageStays DEF LoginReload, localVars
  <2>3. Left(r) = Reply(Image, "ok") /\ Left(r)' = Reply(Image, "ok")
    BY <2>2, LeftAt, RemainingAt DEF Final
  <2>4. Undisturbed(r)'
    BY <2>2, StepMoves DEF Undisturbed
  <2> QED
    BY <2>3, <2>4
<1>6. CASE LoginReject(r)
  <2>1. /\ Step(r, "login_reject", "unauthenticated") /\ input' = input /\ who' = who
        /\ Image' = AddLog(Image, r, i, "LOGIN_FAILED")
    BY <1>6, CreateLoginAuditLogImage DEF LoginReject, localVars
  <2>2. Left(r) = Refuse(Image, r, i) /\ Left(r)' = Reply(Image', "unauthenticated")
    BY <2>1, LeftAt, RemainingAt DEF Final
  <2>3. Undisturbed(r)'
    BY <2>1, StepMoves DEF Undisturbed
  <2> QED
    BY <2>1, <2>2, <2>3 DEF Refuse
<1> QED
  BY <1>1, <1>2, <1>3, <1>4, <1>5, <1>6 DEF LoginNext

\* logout, get_me and the identity check before every operation but two
LEMMA AuthLeaves ==
    ASSUME IInv, NEW r \in Requests, Undisturbed(r), AuthNext(r)
    PROVE  Left(r)' = Left(r) /\ Undisturbed(r)'
<1> USE Facts
<1> PICK a : a = input[r]
  OBVIOUS
<1> PICK i : i = who[r].id
  OBVIOUS
<1>1. CASE AuthUser(r)
  <2> DEFINE id == a.claim.id
             to == AuthUserVerdict(a.claim)
  <2>1. /\ input' = input /\ Image' = Image /\ Step(r, "auth_user", to) /\ a.claim # NoClaim
    BY <1>1, StepMoves, ImageStays DEF AuthUser, Undisturbed
  <2>2. /\ Left(r) = AuthenticatedCall(Image, r, a)
        /\ Left(r)' = Remaining(Image, to, r, a, who'[r].id)
    BY <2>1, LeftAt, RemainingAt
  <2>3. Admitted(Image, a.claim) <=> to = "auth_profile" /\ OnDuty(Image, id)
    BY <2>1, ImageFields DEF Admitted, AuthUserVerdict, Known, UserExists
  <2>4. CASE to = "auth_profile"
    <3>1. who'[r].id = id
      BY <1>1, <2>4 DEF AuthUser, Snapshot, TypeOK
    <3>2. Undisturbed(r)'
      BY <2>1, <2>4, <3>1, StepMoves DEF Undisturbed
    <3>3. Left(r)' = IF OnDuty(Image, id) THEN AdmittedCall(Image, r, a)
                     ELSE Reply(Image, "unauthenticated")
      BY <2>2, <2>4, <3>1, RemainingAt
    <3> QED
      BY <2>2, <2>3, <2>4, <3>2, <3>3 DEF AuthenticatedCall
  <2>5. CASE to # "auth_profile"
    <3>1. to = "unauthenticated"
      BY <2>5 DEF AuthUserVerdict
    <3>2. Undisturbed(r)'
      BY <2>1, <3>1, StepMoves DEF Undisturbed
    <3>3. Left(r)' = Reply(Image, "unauthenticated")
      BY <2>2, <3>1, RemainingAt DEF Final
    <3> QED
      BY <2>2, <2>3, <2>5, <3>2, <3>3 DEF AuthenticatedCall
  <2> QED
    BY <2>4, <2>5
<1>2. CASE AuthProfile(r)
  <2> DEFINE to == IF ProfileAdmits(who[r]) THEN AdmittedStep(a, who[r])
                   ELSE "unauthenticated"
  <2>1. /\ input' = input /\ who' = who /\ Image' = Image /\ Step(r, "auth_profile", to)
        /\ who[r].role = users[i].role /\ i = a.claim.id
    BY <1>2, StepMoves, ImageStays
       DEF AuthProfile, localVars, LocalsTrue, HoldsAccount, Undisturbed
  <2>2. /\ Left(r) = IF OnDuty(Image, i) THEN AdmittedCall(Image, r, a)
                     ELSE Reply(Image, "unauthenticated")
        /\ Left(r)' = Remaining(Image, to, r, a, i)
    <3>1. /\ Left(r) = Remaining(Image, "auth_profile", r, a, i)
          /\ Left(r)' = Remaining(Image, to, r, a, i)
      BY <2>1, LeftAt
    <3> QED
      BY <3>1, RemainingAt
  <2>3. OnDuty(Image, i) <=> ProfileAdmits(who[r])
    BY <2>1, ImageFields DEF OnDuty, ProfileAdmits, Profiled, ProfileExists
  <2>4. to \in {"logout_audit", "me_user", "update_target", "invalid", "ok", "forbidden",
                "unauthenticated"}
    BY DEF AdmittedStep, EnsureRoles
  <2>5. Undisturbed(r)'
    BY <2>1, <2>4, StepMoves DEF Undisturbed
  <2>6. CASE ~ ProfileAdmits(who[r])
    BY <2>2, <2>3, <2>5, <2>6, RemainingAt DEF Final
  <2>7. CASE ProfileAdmits(who[r])
    <3>1. to = AdmittedStep(a, who[r]) /\ Left(r) = AdmittedCall(Image, r, a)
      BY <2>2, <2>3, <2>7
    <3>2. Image.users[a.claim.id].role = who[r].role
      BY <2>1, ImageFields
    <3> HIDE DEF to
    <3>3. CASE a.op = "logout"
      BY <2>1, <2>2, <2>5, <3>1, <3>3, RemainingAt DEF AdmittedStep, AdmittedCall
    <3>4. CASE a.op = "me"
      BY <2>2, <2>5, <3>1, <3>4, RemainingAt DEF AdmittedStep, AdmittedCall
    <3>5. CASE a.op \notin {"logout", "me"} /\ who[r].role \notin StaffRoles
      <4>1. to = "forbidden"
        BY <3>1, <3>5 DEF AdmittedStep, EnsureRoles
      <4> QED
        BY <2>2, <2>5, <3>1, <3>2, <3>5, <4>1, RemainingAt DEF AdmittedCall, Final
    <3>6. CASE a.op = "update" /\ who[r].role \in StaffRoles
      <4>1. to = IF a.status \in EmploymentStatuses THEN "update_target" ELSE "invalid"
        BY <3>1, <3>6 DEF AdmittedStep, EnsureRoles
      <4>2. Left(r) = UpdateCall(Image, a.target, a.status)
        BY <3>1, <3>2, <3>6 DEF AdmittedCall
      <4>3. CASE a.status \in EmploymentStatuses
        BY <2>2, <2>5, <4>1, <4>2, <4>3, RemainingAt
      <4>4. CASE a.status \notin EmploymentStatuses
        BY <2>2, <2>5, <4>1, <4>2, <4>4, RemainingAt DEF UpdateCall, Final
      <4> QED
        BY <4>3, <4>4
    <3>7. CASE a.op \notin {"logout", "me", "update"} /\ who[r].role \in StaffRoles
      <4>1. to = "ok"
        BY <3>1, <3>7 DEF AdmittedStep, EnsureRoles
      <4> QED
        BY <2>2, <2>5, <3>1, <3>2, <3>7, <4>1, RemainingAt DEF AdmittedCall, Final
    <3> QED
      BY <3>3, <3>4, <3>5, <3>6, <3>7
  <2> QED
    BY <2>6, <2>7
<1>3. CASE Logout(r)
  <2>1. /\ Step(r, "logout_audit", "ok") /\ input' = input /\ who' = who
        /\ Image' = AddLog(Image, r, i, "LOGOUT")
    BY <1>3, CreateLoginAuditLogImage DEF Logout, localVars
  <2>2. Left(r) = Reply(Image', "ok") /\ Left(r)' = Reply(Image', "ok")
    BY <2>1, LeftAt, RemainingAt DEF Final
  <2>3. Undisturbed(r)'
    BY <2>1, StepMoves DEF Undisturbed
  <2> QED
    BY <2>2, <2>3
<1>4. CASE MeUser(r)
  <2>1. UserExists(i)
    BY <1>4, StepMoves DEF MeUser, LocalsTrue, HoldsAccount
  <2>2. Step(r, "me_user", "me_profile") /\ input' = input /\ who' = who /\ Image' = Image
    BY <1>4, <2>1, ImageStays DEF MeUser, localVars
  <2>3. Left(r) = Reply(Image, "ok") /\ Left(r)' = Reply(Image, "ok")
    BY <2>2, LeftAt, RemainingAt
  <2>4. Undisturbed(r)'
    BY <2>2, StepMoves DEF Undisturbed
  <2> QED
    BY <2>3, <2>4
<1>5. CASE MeProfile(r)
  <2>1. Step(r, "me_profile", "ok") /\ input' = input /\ who' = who /\ Image' = Image
    BY <1>5, ImageStays DEF MeProfile, localVars
  <2>2. Left(r) = Reply(Image, "ok") /\ Left(r)' = Reply(Image, "ok")
    BY <2>1, LeftAt, RemainingAt DEF Final
  <2>3. Undisturbed(r)'
    BY <2>1, StepMoves DEF Undisturbed
  <2> QED
    BY <2>2, <2>3
<1> QED
  BY <1>1, <1>2, <1>3, <1>4, <1>5 DEF AuthNext

\* update_worker_status
LEMMA UpdateLeaves ==
    ASSUME IInv, NEW r \in Requests, Undisturbed(r), UpdateNext(r)
    PROVE  Left(r)' = Left(r) /\ Undisturbed(r)'
<1> USE Facts
<1> PICK a : a = input[r]
  OBVIOUS
<1> DEFINE i == a.target
           next == NextUserStatus(a.status)
<1>1. CASE UpdateTarget(r)
  <2> DEFINE to == UpdateTargetVerdict(i)
  <2>1. /\ input' = input /\ who' = who /\ Image' = Image /\ Step(r, "update_target", to)
        /\ a.status \in EmploymentStatuses
    BY <1>1, StepMoves, ImageStays DEF UpdateTarget, localVars, LocalsTrue
  <2>2. /\ Left(r) = UpdateCall(Image, i, a.status)
        /\ Left(r)' = Remaining(Image, to, r, a, who[r].id)
    BY <2>1, LeftAt, RemainingAt
  <2>3. to \in {"not_found", "profile_select", "invalid"}
    BY DEF UpdateTargetVerdict
  <2>4. Undisturbed(r)'
    BY <2>1, <2>3, StepMoves DEF Undisturbed
  <2>5. UpdateCall(Image, i, a.status) =
          IF to \in {"not_found", "invalid"} THEN Reply(Image, to)
          ELSE IF Profiled(Image, i) THEN Switch(Image, i, a.status)
          ELSE Reply(Image, "not_found")
    BY <2>1, ImageFields DEF UpdateCall, UpdateTargetVerdict, Known, UserExists
  <2> HIDE DEF to
  <2> QED
    BY <2>2, <2>3, <2>4, <2>5, RemainingAt DEF Final
<1>2. CASE SelectProfile(r)
  <2>1. input' = input /\ who' = who /\ UNCHANGED storeVars /\ Image' = Image
    BY <1>2, ImageStays DEF SelectProfile
  <2>2. CASE ProfileExists(i)
    <3>1. Step(r, "profile_select", "profile_commit") /\ seen'[r] = profiles[i]
      BY <1>2, <2>2 DEF SelectProfile, SelectedProfile, TypeOK
    <3>2. Undisturbed(r)'
      BY <2>1, <3>1, StepMoves DEF Undisturbed, storeVars
    <3>3. /\ Left(r) = Remaining(Image, "profile_select", r, a, who[r].id)
          /\ Left(r)' = Remaining(Image, "profile_commit", r, a, who[r].id)
      BY <2>1, <3>1, LeftAt
    <3> QED
      BY <2>2, <3>2, <3>3, RemainingAt, ImageFields DEF Profiled, ProfileExists
  <2>3. CASE ~ ProfileExists(i)
    <3>1. Step(r, "profile_select", "not_found")
      BY <1>2, <2>3 DEF SelectProfile, SelectedProfile
    <3>2. Undisturbed(r)'
      BY <3>1, StepMoves DEF Undisturbed
    <3>3. /\ Left(r) = Remaining(Image, "profile_select", r, a, who[r].id)
          /\ Left(r)' = Remaining(Image, "not_found", r, a, who[r].id)
      BY <2>1, <3>1, LeftAt
    <3> QED
      BY <2>3, <3>2, <3>3, RemainingAt, ImageFields DEF Profiled, ProfileExists, Final
  <2> QED
    BY <2>2, <2>3
<1>3. CASE CommitProfile(r)
  <2>1. /\ Step(r, "profile_commit", "user_select") /\ input' = input /\ who' = who
        /\ CommitEmploymentStatus(i, profiles[i], a.status) /\ i \in DOMAIN profiles
    BY <1>3, StepMoves DEF CommitProfile, Undisturbed, LocalsTrue, ProfileExists
  <2>2. Image' = SetEmployment(Image, i, a.status)
    BY <2>1, CommitEmploymentStatusImage
  <2>3. /\ Left(r) = Switch(Image, i, a.status)
        /\ Left(r)' = Reply(SetUserStatus(Image', i, next), "ok")
    BY <2>1, LeftAt, RemainingAt
  <2>4. Undisturbed(r)'
    BY <2>1, StepMoves DEF Undisturbed
  <2> QED
    BY <2>2, <2>3, <2>4 DEF Switch
<1>4. CASE SelectUser(r)
  <2>1. i \in DOMAIN users
    BY <1>4, StepMoves DEF SelectUser, LocalsTrue, WriteSection, UserExists
  <2>2. /\ Step(r, "user_select", "user_commit") /\ seen'[r] = users[i].status
        /\ UNCHANGED storeVars /\ input' = input /\ who' = who /\ Image' = Image
    BY <1>4, <2>1, ImageStays DEF SelectUser, UserExists, TypeOK
  <2>3. /\ Left(r) = Reply(SetUserStatus(Image, i, next), "ok")
        /\ Left(r)' = Reply(SetUserStatus(Image, i, next), "ok")
    BY <2>2, LeftAt, RemainingAt
  <2>4. Undisturbed(r)'
    BY <2>2, StepMoves DEF Undisturbed, storeVars
  <2> QED
    BY <2>3, <2>4
<1>5. CASE CommitUser(r)
  <2>1. /\ Step(r, "user_commit", "ok") /\ input' = input /\ who' = who
        /\ CommitUserStatus(i, users[i].status, next) /\ i \in DOMAIN users
    BY <1>5, StepMoves DEF CommitUser, Undisturbed, LocalsTrue, WriteSection, UserExists
  <2>2. Image' = SetUserStatus(Image, i, next)
    BY <2>1, CommitUserStatusImage
  <2>3. Left(r) = Reply(SetUserStatus(Image, i, next), "ok") /\ Left(r)' = Reply(Image', "ok")
    BY <2>1, LeftAt, RemainingAt DEF Final
  <2>4. Undisturbed(r)'
    BY <2>1, StepMoves DEF Undisturbed
  <2> QED
    BY <2>2, <2>3, <2>4
<1> QED
  BY <1>1, <1>2, <1>3, <1>4, <1>5 DEF UpdateNext

\* A call over SQL begins with all of the call in memory left to do.
LEMMA BeginLeaves ==
    ASSUME IInv, NEW r \in Requests, NEW a \in Inputs, Begin(r, a)
    PROVE  Left(r)' = ServiceCall(Image, r, a) /\ Undisturbed(r)' /\ Image' = Image
<1> DEFINE to == FirstStep(a)
           i == who[r].id
<1>1. /\ TypeOK /\ Step(r, "idle", to) /\ input'[r] = a /\ who' = who /\ Image' = Image
  BY ImageStays DEF IInv, TypeOK, Begin, storeVars
<1>2. Left(r)' = Remaining(Image, to, r, a, i) /\ pc'[r] = to
  BY <1>1, LeftAt, StepMoves
<1>3. CASE a.op = "register"
  <2>1. to \in {"register_lookup", "invalid"}
    BY <1>3 DEF FirstStep
  <2>2. Undisturbed(r)'
    BY <1>2, <2>1 DEF Undisturbed
  <2>3. Remaining(Image, to, r, a, i) = RegisterCall(Image, a)
    BY <1>3, RemainingAt DEF FirstStep, RegisterCall, Final
  <2> QED
    BY <1>1, <1>2, <1>3, <2>2, <2>3 DEF ServiceCall
<1>4. CASE a.op = "login"
  <2>1. to = IF NormalizeEmail(a.address) # NoEmail THEN "login_lookup" ELSE "invalid"
    BY <1>4 DEF FirstStep
  <2>2. Undisturbed(r)'
    BY <1>1, <1>2, <2>1 DEF Undisturbed, Email
  <2>3. Remaining(Image, to, r, a, i) = LoginCall(Image, r, a)
    <3>1. CASE NormalizeEmail(a.address) # NoEmail
      BY <2>1, <3>1, RemainingAt
    <3>2. CASE NormalizeEmail(a.address) = NoEmail
      <4>1. Remaining(Image, to, r, a, i) = Reply(Image, "invalid")
        BY <2>1, <3>2, RemainingAt DEF Final
      <4> QED
        BY <3>2, <4>1 DEF LoginCall
    <3> QED
      BY <3>1, <3>2
  <2> QED
    BY <1>1, <1>2, <1>4, <2>2, <2>3 DEF ServiceCall
<1>5. CASE a.op \notin {"register", "login"}
  <2>1. to = IF a.claim # NoClaim THEN "auth_user" ELSE "unauthenticated"
    BY <1>5 DEF FirstStep
  <2>2. Undisturbed(r)'
    BY <1>1, <1>2, <2>1 DEF Undisturbed
  <2>3. Remaining(Image, to, r, a, i) = AuthenticatedCall(Image, r, a)
    BY <2>1, RemainingAt DEF AuthenticatedCall, Admitted, Final
  <2> QED
    BY <1>1, <1>2, <1>5, <2>2, <2>3 DEF ServiceCall
<1> QED
  BY <1>3, <1>4, <1>5

\* Every round trip but Begin.
LEMMA AdvanceLeaves ==
    ASSUME IInv, NEW r \in Requests, Undisturbed(r), Email(r) # NoEmail => Plain(Email(r)),
           Advance(r)
    PROVE  Left(r)' = Left(r) /\ Undisturbed(r)'
BY RegisterLeaves, LoginLeaves, AuthLeaves, UpdateLeaves DEF Advance

\* Advance moves a request in flight, and no other.
LEMMA AdvanceMoves ==
    ASSUME IInv, NEW r \in Requests, Advance(r)
    PROVE  InFlight(r) /\ \A q \in Requests \ {r} : pc'[q] = pc[q]
<1>1. TypeOK
  BY DEF IInv
<1>2. CASE RegisterNext(r)
  BY <1>1, <1>2, StepMoves DEF RegisterNext, RegisterLookup, RegisterInsert, RegisterDuplicate,
     RegisterProfile, InFlight, Final
<1>3. CASE LoginNext(r)
  BY <1>1, <1>3, StepMoves DEF LoginNext, LoginLookup, LoginProfile, LoginTouch, LoginSuccess,
     LoginReload, LoginReject, InFlight, Final
<1>4. CASE AuthNext(r)
  BY <1>1, <1>4, StepMoves DEF AuthNext, AuthUser, AuthProfile, Logout, MeUser, MeProfile,
     InFlight, Final
<1>5. CASE UpdateNext(r)
  BY <1>1, <1>5, StepMoves DEF UpdateNext, UpdateTarget, SelectProfile, CommitProfile,
     SelectUser, CommitUser, InFlight, Final
<1> QED
  BY <1>2, <1>3, <1>4, <1>5 DEF Advance

-----------------------------------------------------------------------------
(* Calls that stay Ordinary.                                               *)

\* The accounts have the e-mails of the seeds and of the calls made.
Addressed == \A i \in DOMAIN users : users[i].email \in InUse

\* Calls are made, and never taken back or changed.
LEMMA GivenGrows ==
    ASSUME TypeOK, NEW r \in Requests, StepOf(r)
    PROVE  InUse \subseteq InUse' /\ (Ordinary' => Ordinary)
<1>1. /\ Given \subseteq Given' /\ Given \subseteq Requests
      /\ \A q \in Given : input'[q] = input[q]
  BY StepFrame DEF Given
<1>2. \A q \in Given : Email(q)' = Email(q)
  BY <1>1 DEF Email, NormalizeEmail
<1>3. InUse \subseteq InUse'
  BY <1>1, <1>2 DEF InUse
<1>4. ASSUME Ordinary'
      PROVE  Ordinary
  <2>1. \A q \in Given : Fits(input[q])
    BY <1>1, <1>4 DEF Ordinary, Fits, NormalizeEmail
  <2>2. \A e, f \in InUse : SameEmail(e, f) => e = f
    BY <1>3, <1>4 DEF Ordinary, SameEmail
  <2> QED
    BY <2>1, <2>2 DEF Ordinary
<1> QED
  BY <1>3, <1>4

\* A step of r adds no account but one under r's own e-mail.
LEMMA RowsAdded ==
    ASSUME IInv, NEW r \in Requests, StepOf(r)
    PROVE  \A i \in DOMAIN users' \ DOMAIN users :
              users'[i].email = Email(r) /\ Email(r) # NoEmail /\ pc[r] # "idle"
<1>1. CASE RegisterInsert(r)
  <2>1. /\ users' = Insert(users, nextId, NewUser(Email(r), Digest[input[r].password],
                                                  input[r].role))
        /\ pc[r] = "register_insert"
    BY <1>1 DEF RegisterInsert, CreateUser, Step
  <2>2. Email(r) # NoEmail
    BY <2>1 DEF IInv, LocalsTrue, RegistrationValid, Email
  <2> QED
    BY <2>1, <2>2 DEF Insert, NewUser
<1>2. CASE LoginTouch(r)
  BY <1>2 DEF LoginTouch, UpdateLastLoginAt
<1>3. CASE CommitUser(r)
  BY <1>3 DEF CommitUser, CommitUserStatus
<1>4. CASE UNCHANGED users
  BY <1>4
<1> QED
  BY <1>1, <1>2, <1>3, <1>4
  DEF StepOf, Begin, Advance, Abort, RegisterNext, LoginNext, AuthNext, UpdateNext,
      RegisterLookup, RegisterDuplicate, DuplicateUser, RegisterProfile, CreateWorkerProfile,
      LoginLookup, LoginProfile, LoginSuccess, LoginReload, LoginReject, CreateLoginAuditLog,
      AuthUser, AuthProfile, Logout, MeUser, MeProfile, UpdateTarget, SelectProfile,
      CommitProfile, CommitEmploymentStatus, SelectUser, storeVars

\* Every step keeps the accounts so.
LEMMA StaysAddressed ==
    ASSUME IInv, Addressed, NEW r \in Requests, StepOf(r)
    PROVE  Addressed'
<1>1. RowsKept /\ InUse \subseteq InUse' /\ TypeOK
  BY RowsStay, GivenGrows DEF IInv
<1>2. \A i \in DOMAIN users : users'[i].email \in InUse'
  BY <1>1 DEF RowsKept, Grows, Addressed
<1>3. ASSUME NEW i \in DOMAIN users' \ DOMAIN users
      PROVE  users'[i].email \in InUse'
  <2>1. users'[i].email = Email(r) /\ Email(r) # NoEmail /\ pc[r] # "idle"
    BY RowsAdded
  <2>2. Email(r) \in InUse
    BY <2>1 DEF InUse, Given
  <2> QED
    BY <1>1, <2>1, <2>2
<1> QED
  BY <1>2, <1>3 DEF Addressed

\* To an Ordinary call, the collation is equality.
LEMMA OrdinaryIsPlain ==
    ASSUME Ordinary, Addressed, NEW r \in Given, Email(r) # NoEmail
    PROVE  Plain(Email(r))
BY DEF Ordinary, Addressed, InUse, Plain

\* A call that overflows a column is not Ordinary.
LEMMA OverflowIsNot ==
    ASSUME NEW r \in Requests, Overflow(r)
    PROVE  ~ Ordinary
<1>1. r \in Given
  BY DEF Overflow, Given
<1>2. ~ Fits(input[r])
  BY DEF Overflow, AuditFits, Fits, Email
<1> QED
  BY <1>1, <1>2 DEF Ordinary

-----------------------------------------------------------------------------
(* The start of a process with dictionaries.                               *)

\* What the assumption says of one seed.
LEMMA SeedFields ==
    ASSUME NEW k \in 1..Len(Seeds)
    PROVE  Seeds[k] \in [email: Emails \ WideEmails, password_hash: Digests, role: Roles]
BY SeedAssumption, ElementOfSeq

\* No seed takes the e-mail of another.
LEMMA SeedsDistinct ==
    ASSUME NEW n \in 0..Len(Seeds)
    PROVE  /\ DOMAIN SeededUsers(n) = 1..n
           /\ \A i \in 1..n : /\ SeededUsers(n)[i].email = Seeds[i].email
                              /\ SeededUsers(n)[i].password_hash = Seeds[i].password_hash
                              /\ SeededUsers(n)[i].role = Seeds[i].role
                              /\ SeededUsers(n)[i].status = "ACTIVE"
           /\ Distinct(SeededUsers(n))
BY SeedAssumption DEF SeededUsers, NewUser, Distinct

\* Before the first seed the dictionaries are empty.
LEMMA SeedsStart == SeededTo(0) = EmptyMemory
<1>1. SeededUsers(0) = <<>>
  BY DEF SeededUsers
<1>2. [i \in SeededWorkers \cap 1..0 |-> "ON_DUTY"] = <<>>
  OBVIOUS
<1>3. Index(<<>>) = <<>>
  BY DEF Index
<1> QED
  BY <1>1, <1>2, <1>3 DEF SeededTo, EmptyMemory, Dictionaries

\* One pass of the loop of seed_default_users writes the next seed.
LEMMA SeedsGrow ==
    ASSUME NEW n \in 0..(Len(Seeds) - 1)
    PROVE  SeedUser(SeededTo(n), Seeds[n + 1]) = SeededTo(n + 1)
<1> DEFINE m == SeededTo(n)
           u == SeededUsers(n)
           k == n + 1
           seed == Seeds[k]
           row == NewUser(seed.email, seed.password_hash, seed.role)
           p == [i \in SeededWorkers \cap 1..n |-> "ON_DUTY"]
           none == [r \in Requests |-> <<>>]
<1>1. /\ n \in Nat /\ n \in 0..Len(Seeds) /\ k \in 1..Len(Seeds) /\ k \notin 1..n
      /\ 1..k = 1..n \cup {k}
  BY SeedAssumption
<1>2. /\ m = Dictionaries(u, Index(u), p, none, n)
      /\ m.users = u /\ m.byEmail = Index(u) /\ DOMAIN u = 1..n /\ Distinct(u)
      /\ \A i \in 1..n : u[i].email # seed.email
  BY <1>1, SeedsDistinct, SeedAssumption DEF SeededTo, Dictionaries
<1>3. ByEmail(m, seed.email) = {}
  BY <1>2, LookupByIndex
<1>4. SeededUsers(k) = Insert(u, k, row)
  BY <1>1 DEF SeededUsers, Insert
<1>5. Index(SeededUsers(k)) = Insert(Index(u), seed.email, k)
  <2>1. row.email = seed.email
    BY DEF NewUser
  <2>2. k \notin DOMAIN u /\ Distinct(u) /\ \A i \in DOMAIN u : u[i].email # row.email
    BY <1>1, <1>2, <2>1
  <2> HIDE DEF row, u, k
  <2>3. Index(Insert(u, k, row)) = Insert(Index(u), row.email, k)
    BY <2>2, IndexOfInsert
  <2> QED
    BY <1>4, <2>1, <2>3
<1>6. AddUser(m, seed.email, seed.password_hash, seed.role)
        = Dictionaries(SeededUsers(k), Index(SeededUsers(k)), p, none, k)
  BY <1>2, <1>4, <1>5, AddUserTo
<1>7. CASE seed.role = "WORKER"
  <2>1. [i \in SeededWorkers \cap 1..k |-> "ON_DUTY"] = Insert(p, k, "ON_DUTY")
    BY <1>1, <1>7 DEF SeededWorkers, Insert
  <2>2. Enrol(m, seed.email, seed.password_hash, seed.role)
          = AddProfile(Dictionaries(SeededUsers(k), Index(SeededUsers(k)), p, none, k), k)
    BY <1>6, <1>7 DEF Enrol, Dictionaries
  <2> QED
    BY <1>3, <2>1, <2>2, AddProfileTo DEF SeedUser, SeededTo
<1>8. CASE seed.role # "WORKER"
  <2>1. SeededWorkers \cap 1..k = SeededWorkers \cap 1..n
    BY <1>1, <1>8 DEF SeededWorkers
  <2> QED
    BY <1>3, <1>6, <1>8, <2>1 DEF SeedUser, Enrol, SeededTo
<1> QED
  BY <1>7, <1>8

\* Starts over SQL that ran to their ends leave what a start in memory does.
LEMMA InitialImage ==
    ASSUME ParityInit
    PROVE  Image = SeededTo(Len(Seeds))
<1>1. /\ users = SeededUsers(Len(Seeds)) /\ nextId - 1 = Len(Seeds)
      /\ audit = [r \in Requests |-> <<>>]
  BY SeedAssumption DEF ParityInit, Init, StoreInit, SeededUsers
<1>2. SeededWorkers \cap 1..Len(Seeds) = SeededWorkers
  BY DEF SeededWorkers
<1>3. profiles = [i \in SeededWorkers |-> "ON_DUTY"]
  BY DEF ParityInit, Init, StoreInit
<1> QED
  BY <1>1, <1>2, <1>3 DEF Image, SeededTo

\* Before any call, the dictionaries are empty and the tables seeded.
LEMMA ParityInitially == ParityInit => ParityInv
<1> SUFFICES ASSUME ParityInit PROVE ParityInv
  OBVIOUS
<1>1. \A r \in Requests : pc[r] = "idle"
  BY DEF ParityInit, Init
<1>2. Alone /\ SameAnswers
  BY <1>1 DEF Alone, InFlight, SameAnswers, Final
<1>4. Addressed
  <2>1. ASSUME NEW i \in 1..Len(Seeds)
        PROVE  Seeds[i].email \in InUse
    BY SeedFields, EmailAssumption DEF InUse
  <2>2. /\ DOMAIN users = 1..Len(Seeds)
        /\ \A i \in 1..Len(Seeds) : users[i].email = Seeds[i].email
    BY DEF ParityInit, Init, StoreInit, NewUser
  <2> QED
    BY <2>1, <2>2 DEF Addressed
<1>3. seeded = 0 /\ memory = SeededTo(0) /\ Image = SeededTo(Len(Seeds)) /\ Len(Seeds) \in Nat
  BY SeedsStart, InitialImage, SeedAssumption DEF ParityInit
<1> QED
  BY <1>2, <1>3, <1>4 DEF ParityInv, Addressed, Alone, Quiet

-----------------------------------------------------------------------------
(* ParityInv is inductive.                                                 *)

\* What it says of the calls depends on the requests' variables alone.
LEMMA OrdinaryStays ==
    ASSUME UNCHANGED vars
    PROVE  /\ InUse' = InUse /\ Ordinary' = Ordinary /\ Alone' = Alone
           /\ \A r \in Requests : InFlight(r)' = InFlight(r)
<1>1. pc' = pc /\ input' = input
  BY DEF vars
<1>2. Given' = Given
  BY <1>1 DEF Given
<1>3. InUse' = InUse
  BY <1>1, <1>2 DEF InUse, Email, NormalizeEmail
<1> QED
  BY <1>1, <1>2, <1>3 DEF Ordinary, Fits, NormalizeEmail, SameEmail, Alone, InFlight

\* A default account put into the dictionaries is the one the tables have.
LEMMA SeedKeepsParity ==
    ASSUME ParityInv, SeedMemory
    PROVE  ParityInv'
<1>1. /\ seeded \in 0..Len(Seeds) /\ seeded < Len(Seeds) /\ Len(Seeds) \in Nat
      /\ Alone /\ SameAnswers /\ memory = SeededTo(seeded) /\ Image = SeededTo(Len(Seeds))
  BY SeedAssumption DEF ParityInv, SeedMemory
<1>2. seeded' = seeded + 1 /\ UNCHANGED <<vars, reply>> /\ memory' = SeededTo(seeded')
  BY <1>1, SeedsGrow DEF SeedMemory
<1>3. Image' = Image /\ SeededTo(Len(Seeds))' = SeededTo(Len(Seeds))
  BY <1>2 DEF vars, Image
<1>4. Alone' /\ SameAnswers' /\ Addressed'
  <2>1. users' = users /\ pc' = pc /\ reply' = reply
    BY <1>2 DEF vars
  <2> QED
    BY <1>1, <1>2, <2>1, OrdinaryStays DEF SameAnswers, ParityInv, Addressed
<1> QED
  BY <1>1, <1>2, <1>3, <1>4 DEF ParityInv, Addressed, Alone, Quiet

\* Reply is a pair.
LEMMA ReplyPair ==
    ASSUME NEW m, NEW n, NEW x, NEW y
    PROVE  /\ Reply(m, x).memory = m /\ Reply(m, x).out = x
           /\ Reply(m, x) = Reply(n, y) => m = n /\ x = y
BY DEF Reply

\* Every call in memory gives a reply.
LEMMA CallsReply ==
    ASSUME NEW m, NEW r, NEW a
    PROVE  LET s == ServiceCall(m, r, a) IN s = Reply(s.memory, s.out)
<1>1. \A i : /\ Refuse(m, r, i) = Reply(Refuse(m, r, i).memory, Refuse(m, r, i).out)
             /\ LoginKnown(m, r, i) = Reply(LoginKnown(m, r, i).memory, LoginKnown(m, r, i).out)
  BY DEF Refuse, LoginKnown, LogIn, Reply
<1>2. RegisterCall(m, a) = Reply(RegisterCall(m, a).memory, RegisterCall(m, a).out)
  BY DEF RegisterCall, Reply
<1>3. LoginCall(m, r, a) = Reply(LoginCall(m, r, a).memory, LoginCall(m, r, a).out)
  BY <1>1, ReplyPair DEF LoginCall
<1>4. UpdateCall(m, a.target, a.status)
        = Reply(UpdateCall(m, a.target, a.status).memory, UpdateCall(m, a.target, a.status).out)
  BY DEF UpdateCall, Switch, Reply
<1>5. AuthenticatedCall(m, r, a)
        = Reply(AuthenticatedCall(m, r, a).memory, AuthenticatedCall(m, r, a).out)
  BY <1>4, ReplyPair DEF AuthenticatedCall, AdmittedCall
<1> QED
  BY <1>2, <1>3, <1>5 DEF ServiceCall

\* Of a call that has its answer, nothing is left but the memory and the answer.
LEMMA NothingLeft ==
    ASSUME NEW r \in Requests, pc'[r] \in Final, NEW m, NEW out, Left(r)' = Reply(m, out)
    PROVE  m = Image' /\ out = pc'[r]
<1>1. Left(r)' = Remaining(Image', pc'[r], r, input'[r], who'[r].id)
  BY DEF Left
<1>2. Left(r)' = Reply(Image', pc'[r])
  BY <1>1, RemainingAt DEF Final
<1>3. /\ Reply(m, out).memory = Reply(Image', pc'[r]).memory
      /\ Reply(m, out).out = Reply(Image', pc'[r]).out
  BY <1>2
<1> QED
  BY <1>3, ReplyPair

\* A step of a request that runs alone keeps the invariant if what is left of
\* it is what the memory answered, or if it is not Ordinary.
LEMMA StepKeepsParity ==
    ASSUME IInv, ParityInv, NEW r \in Requests, StepOf(r),
           seeded = Len(Seeds), seeded' = Len(Seeds),
           \A q \in Requests \ {r} : ~ InFlight(q) /\ reply'[q] = reply[q],
           Ordinary' => Left(r)' = Reply(memory', reply'[r]) /\ Undisturbed(r)'
    PROVE  ParityInv'
<1>1. /\ Ordinary' => Ordinary
      /\ Len(Seeds) \in Nat /\ Addressed' /\ pc'[r] # "idle"
      /\ \A q \in Requests \ {r} : pc'[q] = pc[q] /\ ~ InFlight(q)'
  <2>1. TypeOK /\ Addressed
    BY DEF IInv, ParityInv, Addressed
  <2>2. Addressed'
    BY <2>1, StaysAddressed
  <2> QED
    BY <2>1, <2>2, GivenGrows, StepFrame, SeedAssumption DEF InFlight
<1>2. \A p, q \in Requests : InFlight(p)' /\ InFlight(q)' => p = q
  BY <1>1
<1>3. SameAnswers'
  <2> SUFFICES ASSUME Ordinary', NEW q \in Requests, pc'[q] \in Final
               PROVE  reply'[q] = pc'[q]
    BY DEF SameAnswers
  <2>1. CASE q = r
    BY <2>1, <1>1, NothingLeft
  <2>2. CASE q # r
    BY <2>2, <1>1 DEF ParityInv, SameAnswers
  <2> QED
    BY <2>1, <2>2
<1>4. ASSUME Ordinary', Quiet'
      PROVE  memory' = Image'
  <2>1. pc'[r] \in Final
    BY <1>1, <1>4 DEF Quiet, Alone, InFlight
  <2> QED
    BY <1>4, <2>1, NothingLeft
<1>5. ASSUME Ordinary', NEW q \in Requests, InFlight(q)'
      PROVE  Left(q)' = Reply(memory', reply'[q]) /\ Undisturbed(q)'
  BY <1>1, <1>5
<1> QED
  BY <1>1, <1>2, <1>3, <1>4, <1>5 DEF ParityInv, Addressed

\* A call is made to both deployments, which hold the same.
LEMMA BeginKeepsParity ==
    ASSUME IInv, ParityInv, Total(reply), NEW r \in Requests, NEW a \in Inputs, BeginBoth(r, a)
    PROVE  ParityInv'
<1> DEFINE s == ServiceCall(memory, r, a)
<1>1. /\ Begin(r, a) /\ Quiet /\ TypeOK /\ StepOf(r)
      /\ memory' = s.memory /\ reply' = [reply EXCEPT ![r] = s.out]
      /\ seeded = Len(Seeds) /\ seeded' = Len(Seeds)
  BY DEF BeginBoth, Quiet, IInv, StepOf
<1>2. /\ s = Reply(memory', reply'[r])
      /\ \A q \in Requests \ {r} : ~ InFlight(q) /\ reply'[q] = reply[q]
  BY <1>1, CallsReply DEF Total, Quiet, Alone
<1>3. ASSUME Ordinary'
      PROVE  Left(r)' = s /\ Undisturbed(r)'
  <2>1. Ordinary
    BY <1>1, <1>3, GivenGrows
  <2>2. memory = Image
    BY <1>1, <2>1 DEF ParityInv
  <2> QED
    BY <1>1, <2>2, BeginLeaves
<1> QED
  BY <1>1, <1>2, <1>3, StepKeepsParity

\* In flight, one call runs alone.
LEMMA RunsAlone ==
    ASSUME ParityInv, NEW r \in Requests, InFlight(r)
    PROVE  seeded = Len(Seeds) /\ \A q \in Requests \ {r} : ~ InFlight(q)
BY SeedAssumption DEF ParityInv, Alone

\* A round trip over SQL is no step of the memory.
LEMMA AdvanceKeepsParity ==
    ASSUME IInv, ParityInv, NEW r \in Requests, Advance(r), UNCHANGED <<memory, seeded, reply>>
    PROVE  ParityInv'
<1>1. InFlight(r) /\ StepOf(r) /\ r \in Given /\ Addressed /\ TypeOK
  BY AdvanceMoves DEF StepOf, Given, InFlight, ParityInv, Addressed, IInv
<1>2. ASSUME Ordinary'
      PROVE  Left(r)' = Reply(memory', reply'[r]) /\ Undisturbed(r)'
  <2>1. Ordinary
    BY <1>1, <1>2, GivenGrows
  <2>2. Left(r) = Reply(memory, reply[r]) /\ Undisturbed(r)
    BY <1>1, <2>1 DEF ParityInv
  <2>3. Email(r) # NoEmail => Plain(Email(r))
    BY <1>1, <2>1, OrdinaryIsPlain
  <2> QED
    BY <2>2, <2>3, AdvanceLeaves
<1> QED
  BY <1>1, <1>2, RunsAlone, StepKeepsParity

\* Nor is a failure over SQL.
LEMMA OverflowKeepsParity ==
    ASSUME IInv, ParityInv, NEW r \in Requests, OverflowOverSql(r)
    PROVE  ParityInv'
<1>1. InFlight(r) /\ StepOf(r) /\ TypeOK /\ UNCHANGED <<memory, seeded, reply>>
  BY DEF OverflowOverSql, Overflow, Abort, StepOf, IInv
<1>2. ~ Ordinary'
  BY <1>1, GivenGrows, OverflowIsNot DEF OverflowOverSql
<1> QED
  BY <1>1, <1>2, RunsAlone, StepKeepsParity

-----------------------------------------------------------------------------
(* Dictionaries stay well formed.                                          *)

\* WellFormed, of the dictionaries one by one.
GoodTables(u, p, l, n) ==
    /\ n \in Nat
    /\ u \in [DOMAIN u -> UserRow] /\ DOMAIN u \subseteq 1..n
    /\ p \in [DOMAIN p -> EmploymentStatuses]
    /\ l \in [Requests -> Seq(AuditRow)]
    /\ Distinct(u)
    /\ \A i \in DOMAIN u : u[i].role = "WORKER" =>
          i \in DOMAIN p /\ (u[i].status = "ACTIVE" <=> p[i] = "ON_DUTY")
    /\ \A i \in DOMAIN u : u[i].password_hash # Digest[EmptyPassword]

Tables(u, p, l, n) == Dictionaries(u, Index(u), p, l, n)

\* A call of r turns well formed dictionaries m into x, and logs for r alone.
Follows(m, x, r) ==
    WellFormed(x) /\ \A q \in Requests \ {r} : x.logs[q] = m.logs[q]

\* Good tables are well formed dictionaries,
LEMMA GoodIsWellFormed ==
    ASSUME NEW u, NEW p, NEW l, NEW n, GoodTables(u, p, l, n)
    PROVE  WellFormed(Tables(u, p, l, n))
<1> DEFINE m == Tables(u, p, l, n)
<1>1. /\ m.users = u /\ m.byEmail = Index(u) /\ m.profiles = p /\ m.logs = l /\ m.seq = n
      /\ m = Dictionaries(u, Index(u), p, l, n)
  BY DEF Tables, Dictionaries
<1>2. DOMAIN Index(u) = {u[i].email : i \in DOMAIN u}
  BY DEF Index
<1>3. \A i \in DOMAIN u : Index(u)[u[i].email] = i
  BY IndexPoints DEF GoodTables
<1> HIDE DEF m
<1>4. Sound(m)
  BY <1>1, <1>2, <1>3 DEF Sound, Profiled, GoodTables
<1> QED
  BY <1>1, <1>4 DEF WellFormed, GoodTables, m

\* and the other way round.
LEMMA WellFormedIsGood ==
    ASSUME NEW m, WellFormed(m)
    PROVE  /\ m = Tables(m.users, m.profiles, m.logs, m.seq)
           /\ GoodTables(m.users, m.profiles, m.logs, m.seq)
<1>1. Distinct(m.users)
  BY DEF WellFormed, Sound, Distinct
<1> QED
  BY <1>1 DEF WellFormed, Sound, Profiled, GoodTables, Tables

\* What the reads of Tables return.
LEMMA TableFields ==
    ASSUME NEW u, NEW b, NEW p, NEW l, NEW n
    PROVE  LET m == Dictionaries(u, b, p, l, n) IN
           /\ m.users = u /\ m.byEmail = b /\ m.profiles = p /\ m.logs = l /\ m.seq = n
BY DEF Dictionaries

\* register and seed_default_users, in terms of the dictionaries
LEMMA EnrolTo ==
    ASSUME NEW u, NEW b, NEW p, NEW l, NEW n, NEW e, NEW digest, NEW role
    PROVE  Enrol(Dictionaries(u, b, p, l, n), e, digest, role) =
              Dictionaries(Insert(u, n + 1, NewUser(e, digest, role)), Insert(b, e, n + 1),
                           IF role = "WORKER" THEN Insert(p, n + 1, "ON_DUTY") ELSE p,
                           l, n + 1)
<1> DEFINE made == Dictionaries(Insert(u, n + 1, NewUser(e, digest, role)),
                                Insert(b, e, n + 1), p, l, n + 1)
<1>1. AddUser(Dictionaries(u, b, p, l, n), e, digest, role) = made
  BY AddUserTo
<1>2. made.seq = n + 1
  BY TableFields
<1>3. AddProfile(made, n + 1) =
        Dictionaries(Insert(u, n + 1, NewUser(e, digest, role)), Insert(b, e, n + 1),
                     Insert(p, n + 1, "ON_DUTY"), l, n + 1)
  BY AddProfileTo
<1> HIDE DEF made
<1> QED
  BY <1>1, <1>2, <1>3 DEF Enrol, made

\* a refused login
LEMMA RefuseTo ==
    ASSUME NEW u, NEW b, NEW p, NEW l, NEW n, NEW r, NEW i
    PROVE  Refuse(Dictionaries(u, b, p, l, n), r, i) =
              Reply(Dictionaries(u, b, p,
                 [l EXCEPT ![r] = Append(@, [user |-> i, event |-> "LOGIN_FAILED"])], n),
                 "unauthenticated")
<1>1. AddLog(Dictionaries(u, b, p, l, n), r, i, "LOGIN_FAILED") = Dictionaries(u, b, p,
        [l EXCEPT ![r] = Append(@, [user |-> i, event |-> "LOGIN_FAILED"])], n)
  BY AddLogTo
<1> QED
  BY <1>1 DEF Refuse

\* a login that is let in
LEMMA LogInTo ==
    ASSUME NEW u, NEW b, NEW p, NEW l, NEW n, NEW r, NEW i
    PROVE  LogIn(Dictionaries(u, b, p, l, n), r, i) =
              Reply(Dictionaries([u EXCEPT ![i].lastLogin = r], b, p,
                 [l EXCEPT ![r] = Append(@, [user |-> i, event |-> "LOGIN_SUCCESS"])], n), "ok")
<1> DEFINE v == [u EXCEPT ![i].lastLogin = r]
<1>1. StampLogin(Dictionaries(u, b, p, l, n), i, r) = Dictionaries(v, b, p, l, n)
  BY StampLoginTo
<1>2. AddLog(Dictionaries(v, b, p, l, n), r, i, "LOGIN_SUCCESS") = Dictionaries(v, b, p,
        [l EXCEPT ![r] = Append(@, [user |-> i, event |-> "LOGIN_SUCCESS"])], n)
  <2> HIDE DEF v
  <2> QED
    BY AddLogTo
<1> QED
  BY <1>1, <1>2 DEF LogIn

\* update_worker_status
LEMMA SwitchTo ==
    ASSUME NEW u, NEW b, NEW p, NEW l, NEW n, NEW i, NEW status
    PROVE  Switch(Dictionaries(u, b, p, l, n), i, status) =
              Reply(Dictionaries([u EXCEPT ![i].status = NextUserStatus(status)], b,
                                 [p EXCEPT ![i] = status], l, n), "ok")
<1> DEFINE q == [p EXCEPT ![i] = status]
           next == NextUserStatus(status)
<1>1. SetEmployment(Dictionaries(u, b, p, l, n), i, status) = Dictionaries(u, b, q, l, n)
  BY SetEmploymentTo
<1>2. SetUserStatus(Dictionaries(u, b, q, l, n), i, next)
        = Dictionaries([u EXCEPT ![i].status = next], b, q, l, n)
  <2> HIDE DEF q, next
  <2> QED
    BY SetUserStatusTo
<1> QED
  BY <1>1, <1>2 DEF Switch

\* Rewriting columns other than the e-mail of one row.
LEMMA RowRewritten ==
    ASSUME NEW u, NEW v, Distinct(u), DOMAIN v = DOMAIN u,
           \A i \in DOMAIN u : v[i].email = u[i].email
    PROVE  Distinct(v) /\ Index(v) = Index(u)
BY IndexStays DEF Distinct

\* get_user_by_email
LEMMA LookupWellFormed ==
    ASSUME NEW m, WellFormed(m), NEW e
    PROVE  ByEmail(m, e) = {i \in DOMAIN m.users : m.users[i].email = e}
<1>1. Distinct(m.users) /\ m.byEmail = Index(m.users)
  BY WellFormedIsGood, TableFields DEF GoodTables, Tables
<1> QED
  BY <1>1, LookupByIndex

\* register and seed_default_users
LEMMA EnrolKeeps ==
    ASSUME NEW m, WellFormed(m), NEW e \in Emails, ByEmail(m, e) = {}, NEW digest \in Digests,
           digest # Digest[EmptyPassword], NEW role \in Roles
    PROVE  WellFormed(Enrol(m, e, digest, role)) /\ Enrol(m, e, digest, role).logs = m.logs
<1> PICK u, p, l, n : u = m.users /\ p = m.profiles /\ l = m.logs /\ n = m.seq
  OBVIOUS
<1> DEFINE row == NewUser(e, digest, role)
           v == Insert(u, n + 1, row)
           q == IF role = "WORKER" THEN Insert(p, n + 1, "ON_DUTY") ELSE p
<1>1. m = Tables(u, p, l, n) /\ GoodTables(u, p, l, n)
  BY WellFormedIsGood
<1>2. \A i \in DOMAIN u : u[i].email # e
  BY LookupWellFormed
<1>3. row.email = e /\ row.password_hash = digest /\ row.role = role /\ row.status = "ACTIVE"
  BY DEF NewUser
<1>4. row \in UserRow
  BY DEF NewUser, UserRow, UserStatuses
<1>5. n + 1 \notin DOMAIN u /\ n + 1 \in 1..(n + 1) /\ 1..n \subseteq 1..(n + 1) /\ n + 1 \in Nat
  BY <1>1 DEF GoodTables
<1> HIDE DEF row
<1>6. Index(v) = Insert(Index(u), e, n + 1) /\ Distinct(v)
  BY <1>1, <1>2, <1>3, <1>5, IndexOfInsert DEF GoodTables
<1>7. /\ DOMAIN v = DOMAIN u \cup {n + 1} /\ v[n + 1] = row
      /\ \A i \in DOMAIN u : v[i] = u[i]
      /\ v = [i \in DOMAIN v |-> v[i]]
  BY <1>5 DEF Insert
<1>8. /\ role = "WORKER" => DOMAIN q = DOMAIN p \cup {n + 1} /\ q[n + 1] = "ON_DUTY"
      /\ role # "WORKER" => q = p
      /\ \A i \in DOMAIN p : i # n + 1 => i \in DOMAIN q /\ q[i] = p[i]
      /\ q \in [DOMAIN q -> EmploymentStatuses]
  BY <1>1 DEF Insert, GoodTables, EmploymentStatuses
<1> HIDE DEF v, q
<1>9. GoodTables(v, q, l, n + 1)
  <2>1. v \in [DOMAIN v -> UserRow] /\ DOMAIN v \subseteq 1..(n + 1)
    <3>1. \A i \in DOMAIN v : v[i] \in UserRow /\ i \in 1..(n + 1)
      BY <1>1, <1>4, <1>5, <1>7 DEF GoodTables
    <3> QED
      BY <1>7, <3>1
  <2>2. ASSUME NEW i \in DOMAIN v, v[i].role = "WORKER"
        PROVE  i \in DOMAIN q /\ (v[i].status = "ACTIVE" <=> q[i] = "ON_DUTY")
    <3>1. CASE i = n + 1
      BY <1>3, <1>7, <1>8, <2>2, <3>1
    <3>2. CASE i \in DOMAIN u
      <4>1. v[i] = u[i] /\ i # n + 1
        BY <1>5, <1>7, <3>2
      <4>2. i \in DOMAIN p /\ (u[i].status = "ACTIVE" <=> p[i] = "ON_DUTY")
        BY <1>1, <2>2, <3>2, <4>1 DEF GoodTables
      <4>3. i \in DOMAIN q /\ q[i] = p[i]
        BY <1>8, <4>1, <4>2
      <4> QED
        BY <4>1, <4>2, <4>3
    <3> QED
      BY <1>7, <3>1, <3>2
  <2>3. \A i \in DOMAIN v : v[i].password_hash # Digest[EmptyPassword]
    BY <1>1, <1>3, <1>7 DEF GoodTables
  <2> QED
    BY <1>1, <1>5, <1>6, <1>8, <2>1, <2>2, <2>3 DEF GoodTables
<1>10. Enrol(m, e, digest, role) = Tables(v, q, l, n + 1)
  BY <1>1, <1>6, EnrolTo DEF Tables, v, q, row
<1> QED
  BY <1>9, <1>10, GoodIsWellFormed, TableFields DEF Tables

\* create_login_audit_log
LEMMA LogsGood ==
    ASSUME NEW u, NEW p, NEW l, NEW n, GoodTables(u, p, l, n),
           NEW r \in Requests, NEW i \in Nat, NEW event \in AuditEvents
    PROVE  GoodTables(u, p, [l EXCEPT ![r] = Append(@, [user |-> i, event |-> event])], n)
<1>1. [user |-> i, event |-> event] \in AuditRow
  BY DEF AuditRow
<1>2. l[r] \in Seq(AuditRow)
  BY DEF GoodTables
<1>3. Append(l[r], [user |-> i, event |-> event]) \in Seq(AuditRow)
  BY <1>1, <1>2, AppendProperties
<1> QED
  BY <1>3 DEF GoodTables

\* a refused login
LEMMA RefuseKeeps ==
    ASSUME NEW m, WellFormed(m), NEW r \in Requests, NEW i \in Nat
    PROVE  Follows(m, Refuse(m, r, i).memory, r)
<1> PICK u, p, l, n : u = m.users /\ p = m.profiles /\ l = m.logs /\ n = m.seq
  OBVIOUS
<1> DEFINE k == [l EXCEPT ![r] = Append(@, [user |-> i, event |-> "LOGIN_FAILED"])]
<1>1. m = Tables(u, p, l, n) /\ GoodTables(u, p, l, n)
  BY WellFormedIsGood
<1>2. GoodTables(u, p, k, n)
  BY <1>1, LogsGood DEF AuditEvents
<1>3. Refuse(m, r, i) = Reply(Tables(u, p, k, n), "unauthenticated")
  <2>1. Refuse(Dictionaries(u, Index(u), p, l, n), r, i) =
          Reply(Dictionaries(u, Index(u), p, k, n), "unauthenticated")
    BY RefuseTo
  <2> QED
    BY <1>1, <2>1 DEF Tables
<1> HIDE DEF k
<1>4. \A q \in Requests \ {r} : k[q] = l[q]
  BY <1>1 DEF GoodTables, k
<1> QED
  BY <1>2, <1>3, <1>4, GoodIsWellFormed, ReplyPair, TableFields DEF Tables, Follows

\* logout
LEMMA LogoutKeeps ==
    ASSUME NEW m, WellFormed(m), NEW r \in Requests, NEW i \in Nat
    PROVE  Follows(m, AddLog(m, r, i, "LOGOUT"), r)
<1> PICK u, p, l, n : u = m.users /\ p = m.profiles /\ l = m.logs /\ n = m.seq
  OBVIOUS
<1> DEFINE k == [l EXCEPT ![r] = Append(@, [user |-> i, event |-> "LOGOUT"])]
<1>1. m = Tables(u, p, l, n) /\ GoodTables(u, p, l, n)
  BY WellFormedIsGood
<1>2. GoodTables(u, p, k, n)
  BY <1>1, LogsGood DEF AuditEvents
<1>3. AddLog(m, r, i, "LOGOUT") = Tables(u, p, k, n)
  <2>1. AddLog(Dictionaries(u, Index(u), p, l, n), r, i, "LOGOUT")
           = Dictionaries(u, Index(u), p, k, n)
    BY AddLogTo
  <2> HIDE DEF k
  <2> QED
    BY <1>1, <2>1 DEF Tables
<1> HIDE DEF k
<1>4. \A q \in Requests \ {r} : k[q] = l[q]
  BY <1>1 DEF GoodTables, k
<1> QED
  BY <1>2, <1>3, <1>4, GoodIsWellFormed, TableFields DEF Tables, Follows

\* a login that is let in
LEMMA LogInKeeps ==
    ASSUME NEW m, WellFormed(m), NEW r \in Requests, NEW i \in DOMAIN m.users
    PROVE  Follows(m, LogIn(m, r, i).memory, r)
<1> PICK u, p, l, n : u = m.users /\ p = m.profiles /\ l = m.logs /\ n = m.seq
  OBVIOUS
<1> DEFINE v == [u EXCEPT ![i].lastLogin = r]
           k == [l EXCEPT ![r] = Append(@, [user |-> i, event |-> "LOGIN_SUCCESS"])]
<1>1. /\ m = Tables(u, p, l, n) /\ GoodTables(u, p, l, n)
      /\ u \in [DOMAIN u -> UserRow] /\ i \in DOMAIN u /\ i \in Nat
  BY WellFormedIsGood DEF GoodTables
<1>2. /\ DOMAIN v = DOMAIN u
      /\ \A j \in DOMAIN u : /\ v[j] \in UserRow
                             /\ v[j].email = u[j].email /\ v[j].role = u[j].role
                             /\ v[j].status = u[j].status
                             /\ v[j].password_hash = u[j].password_hash
      /\ v = [j \in DOMAIN v |-> v[j]]
  BY <1>1 DEF UserRow
<1>3. LogIn(m, r, i) = Reply(Dictionaries(v, Index(u), p, k, n), "ok")
  <2>1. LogIn(Dictionaries(u, Index(u), p, l, n), r, i) =
          Reply(Dictionaries(v, Index(u), p, k, n), "ok")
    BY LogInTo
  <2> QED
    BY <1>1, <2>1 DEF Tables
<1>4. GoodTables(u, p, k, n)
  BY <1>1, LogsGood DEF AuditEvents
<1> HIDE DEF v, k
<1>5. Distinct(v) /\ Index(v) = Index(u)
  <2>1. /\ Distinct(u) /\ DOMAIN v = DOMAIN u
        /\ \A j \in DOMAIN u : v[j].email = u[j].email
    BY <1>1, <1>2 DEF GoodTables
  <2> QED
    BY <2>1, RowRewritten
<1>6. GoodTables(v, p, k, n)
  <2>1. v \in [DOMAIN v -> UserRow] /\ DOMAIN v \subseteq 1..n
    BY <1>2, <1>4 DEF GoodTables
  <2>2. \A j \in DOMAIN v : v[j].role = "WORKER" =>
           j \in DOMAIN p /\ (v[j].status = "ACTIVE" <=> p[j] = "ON_DUTY")
    <3>1. \A j \in DOMAIN u : u[j].role = "WORKER" =>
             j \in DOMAIN p /\ (u[j].status = "ACTIVE" <=> p[j] = "ON_DUTY")
      BY <1>4 DEF GoodTables
    <3> QED
      BY <1>2, <3>1
  <2> QED
    BY <1>2, <1>4, <1>5, <2>1, <2>2 DEF GoodTables
<1>7. \A q \in Requests \ {r} : k[q] = l[q]
  BY <1>1 DEF GoodTables, k
<1> QED
  BY <1>3, <1>5, <1>6, <1>7, GoodIsWellFormed, ReplyPair, TableFields DEF Tables, Follows

\* update_worker_status
LEMMA SwitchKeeps ==
    ASSUME NEW m, WellFormed(m), NEW i \in DOMAIN m.users, i \in DOMAIN m.profiles,
           NEW status \in EmploymentStatuses, NEW r \in Requests
    PROVE  Follows(m, Switch(m, i, status).memory, r)
<1> PICK u, p, l, n : u = m.users /\ p = m.profiles /\ l = m.logs /\ n = m.seq
  OBVIOUS
<1> DEFINE v == [u EXCEPT ![i].status = NextUserStatus(status)]
           q == [p EXCEPT ![i] = status]
<1>1. /\ m = Tables(u, p, l, n) /\ GoodTables(u, p, l, n)
      /\ u \in [DOMAIN u -> UserRow] /\ i \in DOMAIN u
  BY WellFormedIsGood DEF GoodTables
<1>2. /\ DOMAIN v = DOMAIN u
      /\ \A j \in DOMAIN u : /\ v[j] \in UserRow
                             /\ v[j].email = u[j].email /\ v[j].role = u[j].role
                             /\ j # i => v[j].status = u[j].status
                             /\ v[j].password_hash = u[j].password_hash
      /\ v = [j \in DOMAIN v |-> v[j]]
      /\ v[i].status = NextUserStatus(status)
  <2>1. NextUserStatus(status) \in UserStatuses
    BY DEF NextUserStatus, UserStatuses
  <2> QED
    BY <1>1, <2>1 DEF UserRow
<1>3. /\ DOMAIN q = DOMAIN p /\ q \in [DOMAIN q -> EmploymentStatuses] /\ q[i] = status
      /\ \A j \in DOMAIN p : j # i => q[j] = p[j]
  BY <1>1 DEF GoodTables
<1>4. Switch(m, i, status) = Reply(Dictionaries(v, Index(u), q, l, n), "ok")
  BY <1>1, SwitchTo DEF Tables
<1> HIDE DEF v, q
<1>5. Distinct(v) /\ Index(v) = Index(u)
  <2>1. /\ Distinct(u) /\ DOMAIN v = DOMAIN u
        /\ \A j \in DOMAIN u : v[j].email = u[j].email
    BY <1>1, <1>2 DEF GoodTables
  <2> QED
    BY <2>1, RowRewritten
<1>6. GoodTables(v, q, l, n)
  <2>1. v \in [DOMAIN v -> UserRow]
    BY <1>2
  <2>2. v[i].status = "ACTIVE" <=> q[i] = "ON_DUTY"
    BY <1>2, <1>3 DEF NextUserStatus
  <2>3. \A j \in DOMAIN v : v[j].role = "WORKER" =>
           j \in DOMAIN q /\ (v[j].status = "ACTIVE" <=> q[j] = "ON_DUTY")
    <3>1. \A j \in DOMAIN u : u[j].role = "WORKER" =>
             j \in DOMAIN p /\ (u[j].status = "ACTIVE" <=> p[j] = "ON_DUTY")
      BY <1>1 DEF GoodTables
    <3> QED
      BY <1>2, <1>3, <2>2, <3>1
  <2>4. \A j \in DOMAIN v : v[j].password_hash # Digest[EmptyPassword]
    BY <1>1, <1>2 DEF GoodTables
  <2>5. /\ n \in Nat /\ DOMAIN v \subseteq 1..n /\ q \in [DOMAIN q -> EmploymentStatuses]
        /\ l \in [Requests -> Seq(AuditRow)]
    BY <1>1, <1>2, <1>3 DEF GoodTables
  <2> QED
    BY <1>5, <2>1, <2>3, <2>4, <2>5 DEF GoodTables
<1> QED
  BY <1>4, <1>5, <1>6, GoodIsWellFormed, ReplyPair, TableFields DEF Tables, Follows

\* No call answers anything but what the transports have a code for.
LEMMA AnswersKnown ==
    ASSUME NEW m, NEW r, NEW a
    PROVE  ServiceCall(m, r, a).out \in Final \ {"failed"}
<1> USE DEF Reply, Final
<1>1. \A i : /\ Refuse(m, r, i).out = "unauthenticated"
             /\ LoginKnown(m, r, i).out \in {"not_found", "ok", "unauthenticated"}
  BY DEF Refuse, LoginKnown, LogIn
<1>2. RegisterCall(m, a).out \in {"invalid", "conflict", "ok"}
  BY DEF RegisterCall
<1>3. LoginCall(m, r, a).out \in {"invalid", "not_found", "ok", "unauthenticated"}
  BY <1>1 DEF LoginCall
<1>4. UpdateCall(m, a.target, a.status).out \in {"invalid", "not_found", "ok"}
  BY DEF UpdateCall, Switch
<1>5. AuthenticatedCall(m, r, a).out
        \in {"invalid", "not_found", "ok", "unauthenticated", "forbidden"}
  BY <1>4 DEF AuthenticatedCall, AdmittedCall
<1> QED
  BY <1>2, <1>3, <1>5 DEF ServiceCall

\* The claim and the account of an input are of their types.
LEMMA InputFields ==
    ASSUME NEW a \in Inputs
    PROVE  /\ a \in Input /\ a.op \in Operations /\ a.target \in Nat
           /\ NormalizeEmail(a.address) \in Emails \cup {NoEmail}
           /\ a.address \in Addresses /\ a.password \in Passwords
           /\ Digest[a.password] \in Digests
           /\ a.claim # NoClaim => a.claim \in Claims /\ a.claim.id \in Nat
BY InputAssumption, EmailAssumption, PasswordAssumption DEF Input, NormalizeEmail, Claims

\* Every call leaves well formed dictionaries, and only rows of its own in the log.
LEMMA CallKeeps ==
    ASSUME NEW m, WellFormed(m), NEW r \in Requests, NEW a \in Inputs
    PROVE  Follows(m, ServiceCall(m, r, a).memory, r)
<1>1. Follows(m, m, r)
  BY DEF Follows
<1>2. \A x, out : Reply(x, out).memory = x
  BY ReplyPair
<1>3. Follows(m, RegisterCall(m, a).memory, r)
  <2> DEFINE e == NormalizeEmail(a.address)
             made == Enrol(m, e, Digest[a.password], a.role)
  <2>1. CASE RegistrationValid(a) /\ ByEmail(m, e) = {}
    <3>1. e \in Emails /\ a.role \in Roles /\ Digest[a.password] # Digest[EmptyPassword]
          /\ Digest[a.password] \in Digests
      BY <2>1, InputFields, PasswordSizeAssumption DEF RegistrationValid
    <3>2. WellFormed(made) /\ made.logs = m.logs
      BY <2>1, <3>1, EnrolKeeps
    <3>3. RegisterCall(m, a) = Reply(made, "ok")
      BY <2>1 DEF RegisterCall
    <3> QED
      BY <1>2, <3>2, <3>3 DEF Follows
  <2>2. CASE ~ (RegistrationValid(a) /\ ByEmail(m, e) = {})
    <3>1. RegisterCall(m, a) \in {Reply(m, "invalid"), Reply(m, "conflict")}
      BY <2>2 DEF RegisterCall
    <3> QED
      BY <1>1, <1>2, <3>1
  <2> QED
    BY <2>1, <2>2
<1>4. Follows(m, LoginCall(m, r, a).memory, r)
  <2> DEFINE e == NormalizeEmail(a.address)
             i == CHOOSE j \in ByEmail(m, e) : TRUE
  <2>1. ASSUME ByEmail(m, e) # {} PROVE i \in DOMAIN m.users /\ i \in Nat
    <3>1. i \in DOMAIN m.users
      BY <2>1 DEF ByEmail
    <3> QED
      BY <3>1 DEF WellFormed
  <2>2. \/ LoginCall(m, r, a) \in {Reply(m, "invalid"), Refuse(m, r, NoUser)}
        \/ ByEmail(m, e) # {} /\ LoginCall(m, r, a) \in {Refuse(m, r, i), LoginKnown(m, r, i)}
    BY DEF LoginCall
  <2> HIDE DEF i
  <2>3. LoginKnown(m, r, i) \in {Refuse(m, r, i), LogIn(m, r, i), Reply(m, "not_found")}
    BY DEF LoginKnown
  <2> QED
    BY <1>1, <1>2, <2>1, <2>2, <2>3, RefuseKeeps, LogInKeeps DEF NoUser
<1>5. Follows(m, UpdateCall(m, a.target, a.status).memory, r)
  <2>1. CASE UpdateCall(m, a.target, a.status) = Switch(m, a.target, a.status)
             /\ a.status \in EmploymentStatuses
             /\ Known(m, a.target) /\ Profiled(m, a.target)
    BY <2>1, SwitchKeeps DEF Known, Profiled
  <2>2. CASE UpdateCall(m, a.target, a.status) \in {Reply(m, "invalid"), Reply(m, "not_found")}
    BY <1>1, <1>2, <2>2
  <2> QED
    BY <2>1, <2>2 DEF UpdateCall
<1>6. Follows(m, AuthenticatedCall(m, r, a).memory, r)
  <2>1. CASE Admitted(m, a.claim)
    <3>1. a.claim.id \in Nat
      BY <2>1, InputFields DEF Admitted
    <3>2. AuthenticatedCall(m, r, a) \in
            {Reply(AddLog(m, r, a.claim.id, "LOGOUT"), "ok"), Reply(m, "ok"),
             Reply(m, "forbidden"), UpdateCall(m, a.target, a.status)}
      BY <2>1 DEF AuthenticatedCall, AdmittedCall
    <3> QED
      BY <1>1, <1>2, <1>5, <3>1, <3>2, LogoutKeeps
  <2>2. CASE ~ Admitted(m, a.claim)
    BY <1>1, <1>2, <2>2 DEF AuthenticatedCall
  <2> QED
    BY <2>1, <2>2
<1> QED
  BY <1>3, <1>4, <1>6 DEF ServiceCall

-----------------------------------------------------------------------------
(* A call never looks at the audit log.                                    *)

Hidden(l, rs) == [q \in Requests |-> IF q \in rs THEN <<>> ELSE l[q]]

\* Without, of the dictionaries one by one.
LEMMA WithoutTo ==
    ASSUME NEW u, NEW b, NEW p, NEW l, NEW n, NEW rs
    PROVE  Without(Dictionaries(u, b, p, l, n), rs) = Dictionaries(u, b, p, Hidden(l, rs), n)
BY DEF Without, Hidden, Dictionaries

\* Dictionaries and the same without some of their audit rows.
LEMMA WithoutFields ==
    ASSUME NEW m, WellFormed(m), NEW rs
    PROVE  LET w == Without(m, rs) IN
           /\ m = Dictionaries(m.users, m.byEmail, m.profiles, m.logs, m.seq)
           /\ w = Dictionaries(m.users, m.byEmail, m.profiles, Hidden(m.logs, rs), m.seq)
           /\ w.users = m.users /\ w.byEmail = m.byEmail
           /\ w.profiles = m.profiles /\ w.seq = m.seq
           /\ w.logs = Hidden(m.logs, rs)
<1>1. m = Dictionaries(m.users, m.byEmail, m.profiles, m.logs, m.seq)
  BY WellFormedIsGood, TableFields DEF Tables
<1>2. Without(m, rs) =
        Dictionaries(m.users, m.byEmail, m.profiles, Hidden(m.logs, rs), m.seq)
  BY <1>1, WithoutTo
<1> QED
  BY <1>1, <1>2, TableFields

\* The reads of a call.
LEMMA ReadsWithout ==
    ASSUME NEW m, WellFormed(m), NEW rs
    PROVE  LET w == Without(m, rs) IN
           /\ w.users = m.users /\ w.profiles = m.profiles
           /\ \A e : ByEmail(w, e) = ByEmail(m, e)
           /\ \A i : Known(w, i) <=> Known(m, i)
           /\ \A i : Profiled(w, i) <=> Profiled(m, i)
           /\ \A i : OnDuty(w, i) <=> OnDuty(m, i)
           /\ \A c : Admitted(w, c) <=> Admitted(m, c)
<1> PICK w : w = Without(m, rs)
  OBVIOUS
<1>1. w.users = m.users /\ w.byEmail = m.byEmail /\ w.profiles = m.profiles
  BY WithoutFields
<1>2. \A i : OnDuty(w, i) <=> OnDuty(m, i)
  BY <1>1 DEF OnDuty, Profiled
<1> QED
  BY <1>1, <1>2 DEF ByEmail, Known, Profiled, Admitted

\* What a call answers, with some audit rows left out.
Veiled(s, rs) == Reply(Without(s.memory, rs), s.out)

\* Leaving out rows of an answer leaves them out of its memory.
LEMMA VeiledReply ==
    ASSUME NEW x, NEW out, NEW rs
    PROVE  Veiled(Reply(x, out), rs) = Reply(Without(x, rs), out)
BY ReplyPair DEF Veiled

\* The writes of a call.
LEMMA WritesWithout ==
    ASSUME NEW m, WellFormed(m), NEW rs, NEW r \in Requests \ rs
    PROVE  LET w == Without(m, rs) IN
           /\ \A e, digest, role :
                 Enrol(w, e, digest, role) = Without(Enrol(m, e, digest, role), rs)
           /\ \A i : Refuse(w, r, i) = Veiled(Refuse(m, r, i), rs)
           /\ \A i : LogIn(w, r, i) = Veiled(LogIn(m, r, i), rs)
           /\ \A i : AddLog(w, r, i, "LOGOUT") = Without(AddLog(m, r, i, "LOGOUT"), rs)
           /\ \A i, status : Switch(w, i, status) = Veiled(Switch(m, i, status), rs)
<1> PICK u, b, p, l, n : /\ u = m.users /\ b = m.byEmail /\ p = m.profiles
                         /\ l = m.logs /\ n = m.seq
  OBVIOUS
<1> PICK k, w : k = Hidden(l, rs) /\ w = Without(m, rs)
  OBVIOUS
<1>1. m = Dictionaries(u, b, p, l, n) /\ w = Dictionaries(u, b, p, k, n)
  BY WithoutFields
<1>2. DOMAIN l = Requests
  BY DEF WellFormed
<1>3. ASSUME NEW e, NEW digest, NEW role
      PROVE  Enrol(w, e, digest, role) = Without(Enrol(m, e, digest, role), rs)
  <2> DEFINE v == Insert(u, n + 1, NewUser(e, digest, role))
             c == Insert(b, e, n + 1)
             q == IF role = "WORKER" THEN Insert(p, n + 1, "ON_DUTY") ELSE p
  <2>1. /\ Enrol(m, e, digest, role) = Dictionaries(v, c, q, l, n + 1)
        /\ Enrol(w, e, digest, role) = Dictionaries(v, c, q, k, n + 1)
    BY <1>1, EnrolTo
  <2> HIDE DEF v, c, q
  <2> QED
    BY <2>1, WithoutTo
<1>4. ASSUME NEW i PROVE Refuse(w, r, i) = Veiled(Refuse(m, r, i), rs)
  <2> DEFINE row == [user |-> i, event |-> "LOGIN_FAILED"]
             ll == [l EXCEPT ![r] = Append(@, row)]
             kk == [k EXCEPT ![r] = Append(@, row)]
  <2>1. /\ Refuse(m, r, i) = Reply(Dictionaries(u, b, p, ll, n), "unauthenticated")
        /\ Refuse(w, r, i) = Reply(Dictionaries(u, b, p, kk, n), "unauthenticated")
    <3>1. Refuse(Dictionaries(u, b, p, l, n), r, i) = Reply(Dictionaries(u, b, p, ll, n), "unauthenticated")
      BY RefuseTo
    <3>2. Refuse(Dictionaries(u, b, p, k, n), r, i) = Reply(Dictionaries(u, b, p, kk, n), "unauthenticated")
      BY RefuseTo
    <3> HIDE DEF ll, kk
    <3> QED
      BY <1>1, <3>1, <3>2
  <2>2. Hidden(ll, rs) = kk
    <3> HIDE DEF row
    <3> QED
      BY <1>2 DEF Hidden
  <2> HIDE DEF ll, kk
  <2> QED
    BY <2>1, <2>2, WithoutTo, VeiledReply
<1>5. ASSUME NEW i PROVE LogIn(w, r, i) = Veiled(LogIn(m, r, i), rs)
  <2> DEFINE row == [user |-> i, event |-> "LOGIN_SUCCESS"]
             ll == [l EXCEPT ![r] = Append(@, row)]
             kk == [k EXCEPT ![r] = Append(@, row)]
             v == [u EXCEPT ![i].lastLogin = r]
  <2>1. /\ LogIn(m, r, i) = Reply(Dictionaries(v, b, p, ll, n), "ok")
        /\ LogIn(w, r, i) = Reply(Dictionaries(v, b, p, kk, n), "ok")
    <3>1. LogIn(Dictionaries(u, b, p, l, n), r, i) = Reply(Dictionaries(v, b, p, ll, n), "ok")
      BY LogInTo
    <3>2. LogIn(Dictionaries(u, b, p, k, n), r, i) = Reply(Dictionaries(v, b, p, kk, n), "ok")
      BY LogInTo
    <3> HIDE DEF v, ll, kk
    <3> QED
      BY <1>1, <3>1, <3>2
  <2>2. Hidden(ll, rs) = kk
    <3> HIDE DEF row
    <3> QED
      BY <1>2 DEF Hidden
  <2> HIDE DEF ll, kk, v
  <2> QED
    BY <2>1, <2>2, WithoutTo, VeiledReply
<1>6. ASSUME NEW i
      PROVE  AddLog(w, r, i, "LOGOUT") = Without(AddLog(m, r, i, "LOGOUT"), rs)
  <2> DEFINE row == [user |-> i, event |-> "LOGOUT"]
             ll == [l EXCEPT ![r] = Append(@, row)]
             kk == [k EXCEPT ![r] = Append(@, row)]
  <2>1. /\ AddLog(m, r, i, "LOGOUT") = Dictionaries(u, b, p, ll, n)
        /\ AddLog(w, r, i, "LOGOUT") = Dictionaries(u, b, p, kk, n)
    <3>1. AddLog(Dictionaries(u, b, p, l, n), r, i, "LOGOUT") = Dictionaries(u, b, p, ll, n)
      BY AddLogTo
    <3>2. AddLog(Dictionaries(u, b, p, k, n), r, i, "LOGOUT") = Dictionaries(u, b, p, kk, n)
      BY AddLogTo
    <3> HIDE DEF ll, kk
    <3> QED
      BY <1>1, <3>1, <3>2
  <2>2. Hidden(ll, rs) = kk
    <3> HIDE DEF row
    <3> QED
      BY <1>2 DEF Hidden
  <2> HIDE DEF ll, kk
  <2> QED
    BY <2>1, <2>2, WithoutTo
<1>7. ASSUME NEW i, NEW status PROVE Switch(w, i, status) = Veiled(Switch(m, i, status), rs)
  <2> DEFINE v == [u EXCEPT ![i].status = NextUserStatus(status)]
             q == [p EXCEPT ![i] = status]
  <2>1. /\ Switch(m, i, status) = Reply(Dictionaries(v, b, q, l, n), "ok")
        /\ Switch(w, i, status) = Reply(Dictionaries(v, b, q, k, n), "ok")
    <3>1. Switch(Dictionaries(u, b, p, l, n), i, status) = Reply(Dictionaries(v, b, q, l, n), "ok")
      BY SwitchTo
    <3>2. Switch(Dictionaries(u, b, p, k, n), i, status) = Reply(Dictionaries(v, b, q, k, n), "ok")
      BY SwitchTo
    <3> HIDE DEF v, q
    <3> QED
      BY <1>1, <3>1, <3>2
  <2> HIDE DEF v, q
  <2> QED
    BY <2>1, WithoutTo, VeiledReply
<1> QED
  BY <1>3, <1>4, <1>5, <1>6, <1>7

\* A call in either of them.
LEMMA CallWithout ==
    ASSUME NEW m, WellFormed(m), NEW rs, NEW r \in Requests \ rs, NEW a
    PROVE  ServiceCall(Without(m, rs), r, a) = Veiled(ServiceCall(m, r, a), rs)
<1> PICK w : w = Without(m, rs)
  OBVIOUS
<1>1. /\ w.users = m.users /\ w.profiles = m.profiles
      /\ \A e : ByEmail(w, e) = ByEmail(m, e)
      /\ \A i : Known(w, i) <=> Known(m, i)
      /\ \A i : Profiled(w, i) <=> Profiled(m, i)
      /\ \A i : OnDuty(w, i) <=> OnDuty(m, i)
      /\ \A c : Admitted(w, c) <=> Admitted(m, c)
  BY ReadsWithout
<1>2. /\ \A e, digest, role :
            Enrol(w, e, digest, role) = Without(Enrol(m, e, digest, role), rs)
      /\ \A i : Refuse(w, r, i) = Veiled(Refuse(m, r, i), rs)
      /\ \A i : LogIn(w, r, i) = Veiled(LogIn(m, r, i), rs)
      /\ \A i : AddLog(w, r, i, "LOGOUT") = Without(AddLog(m, r, i, "LOGOUT"), rs)
      /\ \A i, status : Switch(w, i, status) = Veiled(Switch(m, i, status), rs)
  BY WritesWithout
<1>3. \A out : Veiled(Reply(m, out), rs) = Reply(w, out)
  BY VeiledReply
<1>4. RegisterCall(w, a) = Veiled(RegisterCall(m, a), rs)
  BY <1>1, <1>2, <1>3, VeiledReply DEF RegisterCall
<1>5. \A i : LoginKnown(w, r, i) = Veiled(LoginKnown(m, r, i), rs)
  BY <1>1, <1>2, <1>3 DEF LoginKnown
<1>6. LoginCall(w, r, a) = Veiled(LoginCall(m, r, a), rs)
  BY <1>1, <1>2, <1>3, <1>5 DEF LoginCall
<1>7. UpdateCall(w, a.target, a.status) = Veiled(UpdateCall(m, a.target, a.status), rs)
  BY <1>1, <1>2, <1>3 DEF UpdateCall
<1>8. AdmittedCall(w, r, a) = Veiled(AdmittedCall(m, r, a), rs)
  BY <1>1, <1>2, <1>3, <1>7, VeiledReply DEF AdmittedCall
<1>9. AuthenticatedCall(w, r, a) = Veiled(AuthenticatedCall(m, r, a), rs)
  BY <1>1, <1>3, <1>8 DEF AuthenticatedCall
<1> QED
  BY <1>4, <1>6, <1>9 DEF ServiceCall

-----------------------------------------------------------------------------
(* The entrances.                                                          *)

\* The handlers of gRPC decode what was meant.
LEMMA ReceivedAsMeant ==
    ASSUME NEW a \in Inputs, NEW metadata \in GatewayMetadata(a.claim)
    PROVE  Received(a, metadata) = a
<1>1. a \in Input
  BY InputAssumption
<1>2. ToDomainUserRole(WireRole[a.role]) = a.role
  BY <1>1 DEF Input, Roles, ToDomainUserRole, WireRole
<1>3. ToDomainEmploymentStatus(WireEmployment[a.status]) = a.status
  BY <1>1 DEF Input, EmploymentStatuses, ToDomainEmploymentStatus, WireEmployment
<1>4. AuthenticateFromContext(metadata) = a.claim
  <2>1. CASE a.claim = NoClaim
    BY <2>1 DEF AuthenticateFromContext, GatewayMetadata, ParseGatewayRole, Spelled, Digits,
       NotDigits, Roles
  <2>2. CASE a.claim # NoClaim
    <3>1. a.claim \in Claims
      BY <1>1, <2>2 DEF Input
    <3>2. PICK p \in {0, 1} : metadata = [ids |-> <<Digits(a.claim.id)>>,
                                          roles |-> <<Spelled(a.claim.role, p)>>]
      BY <2>2 DEF GatewayMetadata
    <3>3. ParseGatewayRole(Head(metadata.roles)) = a.claim.role
      BY <3>1, <3>2 DEF ParseGatewayRole, Spelled, Claims
    <3>4. Head(metadata.ids).digits /\ Head(metadata.ids).number = a.claim.id
      BY <3>2 DEF Digits
    <3>5. a.claim.role # "UNSPECIFIED" /\ a.claim = [id |-> a.claim.id, role |-> a.claim.role]
      BY <3>1 DEF Claims, Roles
    <3> QED
      BY <3>2, <3>3, <3>4, <3>5 DEF AuthenticateFromContext
  <2> QED
    BY <2>1, <2>2
<1> QED
  BY <1>1, <1>2, <1>3, <1>4 DEF Received, Input

\* The identity and the roles come first: where they refuse, the update they
\* guard answers the same.
LEMMA GuardFirst ==
    ASSUME NEW m, NEW r, NEW a \in Inputs, a.op = "update",
           ServiceCall(m, r, [a EXCEPT !.op = "guard"]).out # "ok"
    PROVE  ServiceCall(m, r, a) = Reply(m, ServiceCall(m, r, [a EXCEPT !.op = "guard"]).out)
<1> DEFINE g == [a EXCEPT !.op = "guard"]
<1>1. g.op = "guard" /\ g.claim = a.claim
  BY InputFields DEF Input
<1> HIDE DEF g
<1>2. /\ ServiceCall(m, r, g) = AuthenticatedCall(m, r, g)
      /\ ServiceCall(m, r, a) = AuthenticatedCall(m, r, a)
  BY <1>1 DEF ServiceCall
<1>3. CASE ~ Admitted(m, a.claim)
  <2>1. /\ ServiceCall(m, r, g) = Reply(m, "unauthenticated")
        /\ ServiceCall(m, r, a) = Reply(m, "unauthenticated")
    BY <1>1, <1>2, <1>3 DEF AuthenticatedCall
  <2> QED
    BY <2>1, ReplyPair DEF g
<1>4. CASE Admitted(m, a.claim)
  <2>1. /\ ServiceCall(m, r, g) = AdmittedCall(m, r, g)
        /\ ServiceCall(m, r, a) = AdmittedCall(m, r, a)
    BY <1>1, <1>2, <1>4 DEF AuthenticatedCall
  <2>2. CASE m.users[a.claim.id].role \notin StaffRoles
    <3>1. /\ AdmittedCall(m, r, g) = Reply(m, "forbidden")
          /\ AdmittedCall(m, r, a) = Reply(m, "forbidden")
      BY <1>1, <2>2 DEF AdmittedCall
    <3> QED
      BY <2>1, <3>1, ReplyPair DEF g
  <2>3. CASE m.users[a.claim.id].role \in StaffRoles
    <3>1. AdmittedCall(m, r, g) = Reply(m, "ok")
      BY <1>1, <2>3 DEF AdmittedCall
    <3> QED
      BY <2>1, <3>1, ReplyPair DEF g
  <2> QED
    BY <2>2, <2>3
<1> QED
  BY <1>3, <1>4

\* What the HTTP schema turns away, lengths set aside, the service refuses, and
\* at most logs the refusal.
LEMMA TurnedAway ==
    ASSUME NEW m, WellFormed(m), NEW r \in Requests, NEW a \in Inputs,
           SchemaRefuses(a), ~ BeyondLengths(a)
    PROVE  LET s == ServiceCall(m, r, a) IN
           s.out # "ok" /\ (s.memory = m \/ \E i \in Nat : s.memory = Refuse(m, r, i).memory)
<1> DEFINE e == NormalizeEmail(a.address)
<1>1. CASE a.op = "register"
  <2>1. ~ RegistrationValid(a)
    BY <1>1, PasswordSizeAssumption
       DEF SchemaRefuses, BeyondLengths, RegistrationValid
  <2>2. ServiceCall(m, r, a) = Reply(m, "invalid")
    BY <1>1, <2>1 DEF ServiceCall, RegisterCall
  <2> QED
    BY <2>2, ReplyPair
<1>2. CASE a.op = "login" /\ e = NoEmail
  <2>1. ServiceCall(m, r, a) = Reply(m, "invalid")
    BY <1>2 DEF ServiceCall, LoginCall
  <2> QED
    BY <2>1, ReplyPair
<1>3. CASE a.op = "login" /\ e # NoEmail
  <2> DEFINE i == CHOOSE j \in ByEmail(m, e) : TRUE
  <2>1. a.password = EmptyPassword
    BY <1>3 DEF SchemaRefuses, BeyondLengths
  <2>2. ServiceCall(m, r, a) = LoginCall(m, r, a)
    BY <1>3 DEF ServiceCall
  <2>3. CASE ByEmail(m, e) = {}
    <3>1. LoginCall(m, r, a) = Refuse(m, r, NoUser)
      BY <1>3, <2>3 DEF LoginCall
    <3> QED
      BY <2>2, <3>1, ReplyPair DEF Refuse, NoUser
  <2>4. CASE ByEmail(m, e) # {}
    <3>1. i \in DOMAIN m.users
      BY <2>4 DEF ByEmail
    <3>2. m.users[i].password_hash # Digest[a.password] /\ i \in Nat
      BY <2>1, <3>1 DEF WellFormed
    <3>3. LoginCall(m, r, a) = Refuse(m, r, i)
      BY <1>3, <2>4, <3>2 DEF LoginCall
    <3> HIDE DEF i
    <3> QED
      BY <2>2, <3>2, <3>3, ReplyPair DEF Refuse
  <2> QED
    BY <2>3, <2>4
<1>4. CASE a.op = "update"
  <2>1. UpdateCall(m, a.target, a.status) \in {Reply(m, "invalid"), Reply(m, "not_found")}
    <3>1. a.status \in EmploymentStatuses => ~ Known(m, a.target)
      BY <1>4, InputFields DEF SchemaRefuses, Known, WellFormed
    <3> QED
      BY <3>1 DEF UpdateCall
  <2>2. AdmittedCall(m, r, a) \in {Reply(m, "forbidden"), UpdateCall(m, a.target, a.status)}
    BY <1>4 DEF AdmittedCall
  <2>3. ServiceCall(m, r, a) \in {Reply(m, "unauthenticated"), AdmittedCall(m, r, a)}
    BY <1>4 DEF ServiceCall, AuthenticatedCall
  <2> QED
    BY <2>1, <2>2, <2>3, ReplyPair
<1> QED
  BY <1>1, <1>2, <1>3, <1>4 DEF SchemaRefuses

\* What a turned away call has logged is all that it did.
LEMMA OnlyLogged ==
    ASSUME NEW m, WellFormed(m), NEW rs, NEW r \in Requests \ rs, NEW i \in Nat, NEW x,
           x = m \/ x = Refuse(m, r, i).memory
    PROVE  Without(x, rs \cup {r}) = Without(m, rs \cup {r})
<1> DEFINE qs == rs \cup {r}
<1>1. CASE x = Refuse(m, r, i).memory
  <2> PICK u, b, p, l, n : /\ u = m.users /\ b = m.byEmail /\ p = m.profiles
                           /\ l = m.logs /\ n = m.seq
    OBVIOUS
  <2> DEFINE k == [l EXCEPT ![r] = Append(@, [user |-> i, event |-> "LOGIN_FAILED"])]
  <2>1. m = Dictionaries(u, b, p, l, n)
    BY WithoutFields
  <2>2. x = Dictionaries(u, b, p, k, n)
    BY <1>1, <2>1, RefuseTo, ReplyPair
  <2>3. Hidden(k, qs) = Hidden(l, qs)
    BY DEF Hidden, WellFormed
  <2> HIDE DEF k, qs
  <2>4. /\ Without(x, qs) = Dictionaries(u, b, p, Hidden(k, qs), n)
        /\ Without(m, qs) = Dictionaries(u, b, p, Hidden(l, qs), n)
    <3>1. /\ Without(Dictionaries(u, b, p, k, n), qs) = Dictionaries(u, b, p, Hidden(k, qs), n)
          /\ Without(Dictionaries(u, b, p, l, n), qs) = Dictionaries(u, b, p, Hidden(l, qs), n)
      BY WithoutTo
    <3> QED
      BY <2>1, <2>2, <3>1
  <2> QED
    BY <2>3, <2>4 DEF qs
<1> QED
  BY <1>1

\* Leaving out rows that are not there.
LEMMA NothingLogged ==
    ASSUME NEW m, WellFormed(m), NEW rs, NEW r \in Requests, m.logs[r] = <<>>
    PROVE  Without(m, rs \cup {r}) = Without(m, rs)
<1>1. Hidden(m.logs, rs \cup {r}) = Hidden(m.logs, rs)
  BY DEF Hidden
<1> QED
  BY <1>1, WithoutFields

\* Each field of a user on the wire.
LEMMA WireFields ==
    ASSUME NEW id, NEW email, NEW role, NEW status, NEW profile
    PROVE  OnTheWire([id |-> id, email |-> email, role |-> role, status |-> status,
                      profile |-> profile]) =
             [id |-> id, email |-> email, role |-> WireRole[role], status |-> WireStatus[status],
              profile |-> IF profile = <<>> THEN <<>> ELSE <<WireEmployment[Head(profile)]>>]
<1> DEFINE wired == IF profile = <<>> THEN <<>> ELSE <<WireEmployment[Head(profile)]>>
           u(a, b, c) == [id |-> id, email |-> email, role |-> a, status |-> b, profile |-> c]
           x == WireRole[role]
           y == WireStatus[status]
<1>1. OnTheWire(u(role, status, profile)) =
        [u(role, status, profile) EXCEPT !.role = x, !.status = y, !.profile = wired]
  BY DEF OnTheWire
<1> HIDE DEF wired, x, y
<1>2. [u(role, status, profile) EXCEPT !.role = x] = u(x, status, profile)
  OBVIOUS
<1>3. [u(x, status, profile) EXCEPT !.status = y] = u(x, y, profile)
  OBVIOUS
<1>4. [u(x, y, profile) EXCEPT !.profile = wired] = u(x, y, wired)
  OBVIOUS
<1>5. OnTheWire(u(role, status, profile)) = u(x, y, wired)
  <2> HIDE DEF u
  <2> QED
    BY <1>1, <1>2, <1>3, <1>4
<1> QED
  BY <1>5 DEF wired, x, y

\* The user shown is the same whatever was logged, and the same on the wire.
LEMMA ShownAlike ==
    ASSUME NEW x, WellFormed(x), NEW rs, NEW a
    PROVE  LET w == Without(x, rs) IN
           SameUser(UserResponse(w, Subject(w, a)), ToGrpcUser(x, Subject(x, a)))
<1> PICK w : w = Without(x, rs)
  OBVIOUS
<1>1. /\ w.users = x.users /\ w.profiles = x.profiles /\ w.seq = x.seq
      /\ \A e : ByEmail(w, e) = ByEmail(x, e)
  BY ReadsWithout, WithoutFields
<1>2. Subject(w, a) = Subject(x, a)
  BY <1>1 DEF Subject
<1> PICK i : i = Subject(x, a)
  OBVIOUS
<1>3. CASE i = NotShown
  BY <1>2, <1>3 DEF UserResponse, ToGrpcUser, SameUser
<1>4. CASE i # NotShown
  <2> DEFINE row == x.users[i]
             shown == [id |-> i, email |-> row.email, role |-> row.role, status |-> row.status,
                       profile |-> IF Profiled(x, i) THEN <<x.profiles[i]>> ELSE <<>>]
             wire == [id |-> i, email |-> row.email, role |-> WireRole[row.role],
                      status |-> WireStatus[row.status],
                      profile |-> IF Profiled(x, i) THEN <<WireEmployment[x.profiles[i]]>>
                                  ELSE <<>>]
  <2>1. UserResponse(w, i) = <<shown>> /\ ToGrpcUser(x, i) = <<wire>>
    BY <1>1, <1>4 DEF UserResponse, ToGrpcUser, Profiled
  <2>2. wire = OnTheWire(shown)
    <3>1. CASE Profiled(x, i)
      <4>1. shown.profile # <<>> /\ Head(shown.profile) = x.profiles[i]
        BY <3>1
      <4> QED
        BY <3>1, <4>1, WireFields
    <3>2. CASE ~ Profiled(x, i)
      BY <3>2, WireFields
    <3> QED
      BY <3>1, <3>2
  <2> HIDE DEF shown, wire
  <2>3. SameUser(<<shown>>, <<wire>>)
    BY <2>2 DEF SameUser
  <2> QED
    BY <1>2, <2>1, <2>3
<1> QED
  BY <1>3, <1>4

\* What an answer of the service is over HTTP and over gRPC.
LEMMA CodesOf ==
    ASSUME NEW out \in Final \ {"failed"}
    PROVE  /\ HttpCode[out] # Unprocessable
           /\ CodesAgree(HttpCode[out], GrpcCode[out])
           /\ out # "ok" => CodesAgree(Unprocessable, GrpcCode[out])
<1>1. out \in DOMAIN HttpCode /\ HttpCode[out] # Unprocessable
  BY DEF Final, HttpCode, Unprocessable
<1>2. out # "ok" => GrpcCode[out] # "OK"
  BY DEF Final, GrpcCode
<1> QED
  BY <1>1, <1>2 DEF CodesAgree

\* An answer over HTTP, of a deployment without the audit rows of rs, and one over
\* gRPC, of a deployment with them.
AlikeAnswers(s, h, a, r, rs) ==
    /\ h.memory = Without(s.memory, IF h.code = Unprocessable THEN rs \cup {r} ELSE rs)
    /\ CodesAgree(h.code, GrpcCode[s.out])
    /\ SameUser(h.user, IF s.out # "ok" THEN <<>>
                        ELSE ToGrpcUser(s.memory, Subject(s.memory, a)))

\* One call at both entrances, of deployments that differ in hidden rows alone.
LEMMA ServedAlike ==
    ASSUME NEW m, NEW rs, NEW r \in Requests, NEW a \in Inputs,
           WellFormed(m), r \notin rs, m.logs[r] = <<>>, ~ BeyondLengths(a)
    PROVE  AlikeAnswers(ServiceCall(m, r, a), HttpCall(Without(m, rs), r, a), a, r, rs)
<1> PICK s, h : s = ServiceCall(m, r, a) /\ h = HttpCall(Without(m, rs), r, a)
  OBVIOUS
<1> SUFFICES /\ h.memory = Without(s.memory, IF h.code = Unprocessable THEN rs \cup {r} ELSE rs)
             /\ CodesAgree(h.code, GrpcCode[s.out])
             /\ SameUser(h.user, IF s.out # "ok" THEN <<>>
                                 ELSE ToGrpcUser(s.memory, Subject(s.memory, a)))
  BY DEF AlikeAnswers
<1> r \in Requests \ rs
  OBVIOUS
<1> PICK w : w = Without(m, rs)
  OBVIOUS
<1>1. s.out \in Final \ {"failed"}
  BY AnswersKnown
<1>2. SameUser(<<>>, <<>>)
  BY DEF SameUser
<1>3. CASE SchemaRefuses(a)
  <2> DEFINE g == ServiceCall(w, r, [a EXCEPT !.op = "guard"])
             code == IF a.op = "update" /\ g.out # "ok" THEN HttpCode[g.out] ELSE Unprocessable
  <2>1. h.memory = w /\ h.code = code /\ h.user = <<>>
    BY <1>3 DEF HttpCall
  <2>2. s.out # "ok" /\ (s.memory = m \/ \E i \in Nat : s.memory = Refuse(m, r, i).memory)
    BY <1>3, TurnedAway
  <2>3. g.out = ServiceCall(m, r, [a EXCEPT !.op = "guard"]).out
    BY CallWithout, ReplyPair DEF Veiled
  <2>4. CASE a.op = "update" /\ g.out # "ok"
    <3>1. s = Reply(m, g.out)
      BY <2>3, <2>4, GuardFirst
    <3>2. s.memory = m /\ s.out = g.out
      BY <3>1, ReplyPair
    <3>3. h.code = HttpCode[s.out]
      BY <2>1, <2>4, <3>2
    <3> QED
      BY <1>1, <1>2, <2>1, <2>2, <3>2, <3>3, CodesOf
  <2>5. CASE ~ (a.op = "update" /\ g.out # "ok")
    <3>1. h.code = Unprocessable
      BY <2>1, <2>5
    <3>2. Without(s.memory, rs \cup {r}) = w
      <4>1. Without(m, rs \cup {r}) = w
        BY NothingLogged
      <4>2. ASSUME NEW i \in Nat, s.memory = Refuse(m, r, i).memory
            PROVE  Without(s.memory, rs \cup {r}) = Without(m, rs \cup {r})
        BY <4>2, OnlyLogged
      <4> QED
        BY <2>2, <4>1, <4>2
    <3> QED
      BY <1>1, <1>2, <2>1, <2>2, <3>1, <3>2, CodesOf
  <2> QED
    BY <2>4, <2>5
<1>4. CASE ~ SchemaRefuses(a)
  <2> DEFINE t == ServiceCall(w, r, a)
             x == Without(s.memory, rs)
  <2>1. t.memory = x /\ t.out = s.out
    BY CallWithout, ReplyPair DEF Veiled
  <2>2. /\ h.memory = t.memory /\ h.code = HttpCode[t.out]
        /\ h.user = IF t.out # "ok" THEN <<>>
                    ELSE UserResponse(t.memory, Subject(t.memory, a))
    BY <1>4 DEF HttpCall
  <2>3. WellFormed(s.memory)
    BY CallKeeps DEF Follows
  <2>4. SameUser(UserResponse(x, Subject(x, a)), ToGrpcUser(s.memory, Subject(s.memory, a)))
    BY <2>3, ShownAlike
  <2> HIDE DEF t, x
  <2>5. h.code # Unprocessable /\ CodesAgree(h.code, GrpcCode[s.out])
    BY <1>1, <2>1, <2>2, CodesOf
  <2> QED
    BY <1>2, <2>1, <2>2, <2>4, <2>5 DEF x
<1> QED
  BY <1>3, <1>4

-----------------------------------------------------------------------------
(* TransportInv is inductive, on top of the other two.                     *)

\* What seed_default_users leaves is well formed, at each of its passes.
LEMMA SeedsWellFormed ==
    ASSUME NEW n \in 0..Len(Seeds)
    PROVE  WellFormed(SeededTo(n)) /\ \A r \in Requests : SeededTo(n).logs[r] = <<>>
<1> DEFINE u == SeededUsers(n)
           p == [i \in SeededWorkers \cap 1..n |-> "ON_DUTY"]
           l == [r \in Requests |-> <<>>]
<1>1. /\ DOMAIN u = 1..n /\ Distinct(u) /\ n \in Nat
      /\ \A i \in 1..n : /\ u[i].password_hash = Seeds[i].password_hash
                         /\ u[i].role = Seeds[i].role /\ u[i].status = "ACTIVE"
      /\ \A i \in 1..n : i \in 1..Len(Seeds)
  BY SeedsDistinct, SeedAssumption
<1>2. u \in [1..n -> UserRow]
  BY <1>1, SeedFields DEF SeededUsers, NewUser, UserRow, UserStatuses
<1>3. \A i \in DOMAIN u : u[i].role = "WORKER" =>
         i \in DOMAIN p /\ (u[i].status = "ACTIVE" <=> p[i] = "ON_DUTY")
  BY <1>1 DEF SeededWorkers
<1>4. p \in [DOMAIN p -> EmploymentStatuses] /\ l \in [Requests -> Seq(AuditRow)]
  BY DEF EmploymentStatuses
<1>5. \A i \in DOMAIN u : u[i].password_hash # Digest[EmptyPassword]
  BY <1>1, PasswordSizeAssumption
<1> HIDE DEF u, p
<1>6. GoodTables(u, p, l, n)
  BY <1>1, <1>2, <1>3, <1>4, <1>5 DEF GoodTables
<1> QED
  BY <1>6, GoodIsWellFormed, TableFields DEF Tables, SeededTo, u, p

\* Leaving out nothing.
LEMMA WithoutNothing ==
    ASSUME NEW m, WellFormed(m)
    PROVE  Without(m, {}) = m
<1>1. Hidden(m.logs, {}) = m.logs
  BY DEF Hidden, WellFormed
<1> QED
  BY <1>1, WithoutFields

\* TransportInv, when no call has been made.
LEMMA NoCalls ==
    ASSUME WellFormed(memory), \A r \in Requests : memory.logs[r] = <<>>,
           Total(reply), Total(calls), Made = {}, \A r \in Requests : pc[r] = "idle",
           web = memory, rpc = memory
    PROVE  TransportInv
<1>1. Turned = {} /\ web = Without(memory, Turned)
  BY WithoutNothing DEF Turned
<1> QED
  BY <1>1 DEF TransportInv, AnswersAgree, SameUserShown

\* All dictionaries start empty.
LEMMA TransportInitially == TransportInit => IInv /\ ParityInv /\ TransportInv
<1> SUFFICES ASSUME TransportInit PROVE IInv /\ ParityInv /\ TransportInv
  OBVIOUS
<1>1. ParityInit /\ Init /\ IInv /\ ParityInv
  BY InitIInv, ParityInitially DEF TransportInit, ParityInit
<1>2. memory = SeededTo(0) /\ web = memory /\ rpc = memory
  BY <1>1, SeedsStart DEF TransportInit, ParityInit
<1>3. WellFormed(memory) /\ \A r \in Requests : memory.logs[r] = <<>>
  BY <1>2, SeedsWellFormed, SeedAssumption
<1>4. /\ Total(reply) /\ Total(calls) /\ Made = {} /\ \A r \in Requests : pc[r] = "idle"
  BY <1>1 DEF TransportInit, ParityInit, Init, Total, Made
<1> QED
  BY <1>1, <1>2, <1>3, <1>4, NoCalls

\* The start of the processes.
LEMMA SeedAllKeeps ==
    ASSUME IInv, ParityInv, TransportInv, SeedAll
    PROVE  IInv' /\ ParityInv' /\ TransportInv'
<1>1. /\ SeedMemory /\ UNCHANGED <<vars, reply, calls>> /\ seeded < Len(Seeds)
      /\ seeded' = seeded + 1
      /\ memory' = SeedUser(memory, Seeds[seeded + 1])
      /\ web' = SeedUser(web, Seeds[seeded + 1]) /\ rpc' = SeedUser(rpc, Seeds[seeded + 1])
  BY DEF SeedAll, SeedMemory
<1>2. IInv' /\ ParityInv'
  BY <1>1, SeedKeepsParity, NextKeeps
<1>3. /\ seeded \in 0..(Len(Seeds) - 1) /\ seeded + 1 \in 0..Len(Seeds)
      /\ memory = SeededTo(seeded) /\ Made = {} /\ web = memory /\ rpc = memory
      /\ Total(reply) /\ Total(calls) /\ \A r \in Requests : pc[r] = "idle"
  BY <1>1, SeedAssumption DEF ParityInv, TransportInv
<1>4. memory' = SeededTo(seeded + 1) /\ web' = memory' /\ rpc' = memory'
  BY <1>1, <1>3, SeedsGrow
<1>5. WellFormed(memory') /\ \A r \in Requests : memory'.logs[r] = <<>>
  BY <1>3, <1>4, SeedsWellFormed
<1>6. /\ Total(reply') /\ Total(calls') /\ Made' = {} /\ Turned' = {}
      /\ \A r \in Requests : pc'[r] = "idle"
  BY <1>1, <1>3 DEF vars, Total, Made, Turned
<1>7. web' = Without(memory', {})
  BY <1>4, <1>5, WithoutNothing
<1>8. TransportInv'
  BY <1>4, <1>5, <1>6, <1>7 DEF TransportInv, AnswersAgree, SameUserShown, Total
<1> QED
  BY <1>2, <1>8

\* A call made at every entrance.
LEMMA ServeKeeps ==
    ASSUME IInv, ParityInv, TransportInv, NEW r \in Requests, NEW a \in Inputs,
           NEW client \in Clients, NEW metadata \in GatewayMetadata(a.claim),
           Serve(r, a, client, metadata)
    PROVE  IInv' /\ ParityInv' /\ TransportInv'
<1> PICK s, h, g : /\ s = ServiceCall(memory, r, a) /\ h = HttpCall(web, r, a)
                   /\ g = GrpcCall(rpc, r, a, metadata)
  OBVIOUS
<1>1. /\ BeginBoth(r, a) /\ Begin(r, a) /\ seeded' = Len(Seeds) /\ TypeOK
      /\ memory' = s.memory /\ reply' = [reply EXCEPT ![r] = s.out]
      /\ web' = h.memory /\ rpc' = g.memory
      /\ calls' = [calls EXCEPT ![r] =
            <<[httpCode |-> h.code, httpUser |-> h.user, httpIp |-> client.host,
               grpcCode |-> g.code, grpcUser |-> g.user,
               grpcIp |-> ParsePeerIp(client.peer)]>>]
  BY DEF Serve, BeginBoth, Quiet, IInv
<1>2. /\ Total(reply) /\ Total(calls) /\ WellFormed(memory) /\ rpc = memory
      /\ \A q \in Requests : q \in Made <=> pc[q] # "idle"
      /\ \A q \in Requests \ Made : memory.logs[q] = <<>>
      /\ Comparable => web = Without(memory, Turned)
  BY DEF TransportInv
<1>3. IInv' /\ ParityInv'
  BY <1>1, <1>2, BeginKeeps, BeginKeepsParity
<1>4. /\ pc[r] = "idle" /\ pc'[r] # "idle" /\ input'[r] = a
      /\ \A q \in Requests \ {r} : pc'[q] = pc[q] /\ input'[q] = input[q]
  <2>1. FirstStep(a) # "idle"
    BY DEF FirstStep
  <2> QED
    BY <1>1, <2>1, StepMoves DEF Begin, TypeOK
<1>5. /\ calls'[r] # <<>> /\ calls'[r][1].httpCode = h.code /\ calls'[r][1].httpUser = h.user
      /\ calls'[r][1].grpcCode = g.code /\ calls'[r][1].grpcUser = g.user
      /\ \A q \in Requests \ {r} : calls'[q] = calls[q]
      /\ Total(calls') /\ Total(reply')
  BY <1>1, <1>2 DEF Total
<1>6. r \notin Made /\ Made' = Made \cup {r}
  BY <1>2, <1>4, <1>5 DEF Made
<1>7. Turned' = IF h.code = Unprocessable THEN Turned \cup {r} ELSE Turned
  BY <1>5, <1>6 DEF Turned, Made
<1>8. /\ g.memory = s.memory /\ g.code = GrpcCode[s.out]
      /\ g.user = IF s.out # "ok" THEN <<>> ELSE ToGrpcUser(s.memory, Subject(s.memory, a))
  BY <1>2, ReceivedAsMeant DEF GrpcCall
<1>9. WellFormed(s.memory) /\ \A q \in Requests \ {r} : s.memory.logs[q] = memory.logs[q]
  BY <1>2, CallKeeps DEF Follows
<1>10. Comparable' => Comparable /\ ~ BeyondLengths(a)
  BY <1>4, <1>6 DEF Comparable, BeyondLengths, NormalizeEmail, Made
<1>11. ASSUME Comparable'
       PROVE  /\ web' = Without(memory', Turned')
              /\ CodesAgree(h.code, g.code) /\ SameUser(h.user, g.user)
  <2>1. r \notin Turned /\ memory.logs[r] = <<>>
    BY <1>2, <1>6 DEF Turned
  <2>2. AlikeAnswers(ServiceCall(memory, r, a), HttpCall(Without(memory, Turned), r, a),
                     a, r, Turned)
    BY <1>2, <1>10, <1>11, <2>1, ServedAlike
  <2>3. AlikeAnswers(s, h, a, r, Turned)
    BY <1>2, <1>10, <1>11, <2>2
  <2> QED
    BY <1>1, <1>7, <1>8, <2>3 DEF AlikeAnswers
<1>12. Comparable' => /\ \A q \in Made : /\ CodesAgree(calls[q][1].httpCode, calls[q][1].grpcCode)
                                         /\ SameUser(calls[q][1].httpUser, calls[q][1].grpcUser)
  BY <1>10 DEF TransportInv, AnswersAgree, SameUserShown
<1>13. AnswersAgree' /\ SameUserShown'
  BY <1>5, <1>6, <1>11, <1>12 DEF AnswersAgree, SameUserShown, Made
<1>14. /\ \A q \in Requests : q \in Made' <=> pc'[q] # "idle"
       /\ \A q \in Requests \ Made' : memory'.logs[q] = <<>>
  BY <1>1, <1>2, <1>4, <1>6, <1>9
<1> QED
  BY <1>1, <1>3, <1>5, <1>8, <1>9, <1>11, <1>13, <1>14 DEF TransportInv, Total

\* A round trip over SQL, or its failure.
LEMMA RoundTripKeeps ==
    ASSUME IInv, ParityInv, TransportInv, NEW r \in Requests,
           Advance(r) \/ OverflowOverSql(r),
           UNCHANGED <<memory, seeded, reply, web, rpc, calls>>
    PROVE  IInv' /\ ParityInv' /\ TransportInv'
<1>0. InFlight(r) /\ StepOf(r) /\ TypeOK
  BY AdvanceMoves DEF StepOf, OverflowOverSql, Overflow, Abort, IInv
<1>1. IInv' /\ ParityInv'
  <2>1. ParityInv'
    BY AdvanceKeepsParity, OverflowKeepsParity
  <2>2. [Next]_vars
    BY DEF Next, OverflowOverSql, Overflow
  <2> QED
    BY <2>1, <2>2, NextKeeps
<1>2. /\ pc[r] # "idle" /\ pc'[r] # "idle" /\ input' = input
      /\ \A q \in Requests \ {r} : pc'[q] = pc[q]
  BY <1>0, StepFrame DEF InFlight
<1>3. Made' = Made /\ Turned' = Turned /\ Comparable' = Comparable
  BY <1>2 DEF Made, Turned, Comparable
<1>4. TransportInv'
  BY <1>2, <1>3 DEF TransportInv, AnswersAgree, SameUserShown, Total
<1> QED
  BY <1>1, <1>4

\* The end, and a step of something else.
LEMMA StutterKeeps ==
    ASSUME IInv, ParityInv, TransportInv, UNCHANGED transportVars
    PROVE  IInv' /\ ParityInv' /\ TransportInv'
<1>1. UNCHANGED <<vars, memory, seeded, reply, web, rpc, calls>>
  BY DEF transportVars, parityVars
<1>2. IInv'
  BY <1>1, NextKeeps
<1>3. Image' = Image /\ Quiet' = Quiet /\ SameAnswers' = SameAnswers
  BY <1>1, OrdinaryStays DEF vars, Image, Quiet, SameAnswers
<1>4. \A r \in Requests : InFlight(r) => Left(r)' = Left(r) /\ Undisturbed(r)' = Undisturbed(r)
  BY <1>1, <1>3 DEF vars, Left, Undisturbed, GetUserByEmail, Email, ProfileExists
<1>5. ParityInv'
  BY <1>1, <1>3, <1>4, OrdinaryStays DEF vars, ParityInv
<1>6. Made' = Made /\ Turned' = Turned /\ Comparable' = Comparable
  BY <1>1 DEF vars, Made, Turned, Comparable
<1>7. TransportInv'
  BY <1>1, <1>6 DEF vars, TransportInv, AnswersAgree, SameUserShown, Total
<1> QED
  BY <1>2, <1>5, <1>7

\* Every step keeps the deployments in step.
LEMMA TransportKeeps ==
    IInv /\ ParityInv /\ TransportInv /\ [TransportNext]_transportVars
        => IInv' /\ ParityInv' /\ TransportInv'
<1> SUFFICES ASSUME IInv, ParityInv, TransportInv, [TransportNext]_transportVars
             PROVE  IInv' /\ ParityInv' /\ TransportInv'
  OBVIOUS
<1>1. CASE AllAnswered /\ UNCHANGED <<memory, seeded, reply, web, rpc, calls>>
  BY <1>1, StutterKeeps DEF AllAnswered, transportVars, parityVars
<1>2. ASSUME NEW r \in Requests, OverflowOverSql(r), UNCHANGED <<web, rpc, calls>>
      PROVE  IInv' /\ ParityInv' /\ TransportInv'
  BY <1>2, RoundTripKeeps DEF OverflowOverSql
<1> QED
  BY <1>1, <1>2, SeedAllKeeps, ServeKeeps, RoundTripKeeps, StutterKeeps DEF TransportNext

-----------------------------------------------------------------------------
(* The results.                                                            *)

\* The deployments stay in step, at every step of every call.
THEOREM Parity == TransportSpec => [](IInv /\ ParityInv /\ TransportInv)
BY TransportInitially, TransportKeeps, PTL DEF TransportSpec

\* Calls one after another are answered alike over SQL and in memory, until one
\* of them is beyond a column's width or the collation's distinctions.
THEOREM SameAnswersEverywhere == TransportSpec => []SameAnswers
<1>1. ParityInv => SameAnswers
  BY DEF ParityInv
<1> QED
  BY <1>1, Parity, PTL

\* And leave the same rows, until then.
THEOREM SameRowsEverywhere == TransportSpec => []SameRows
<1>1. IInv /\ ParityInv => SameRows
  <2> SUFFICES ASSUME IInv, ParityInv, Ordinary, Quiet
               PROVE  /\ users = memory.users /\ profiles = memory.profiles
                      /\ nextId = memory.seq + 1 /\ audit = memory.logs
    BY DEF SameRows
  <2>1. memory = Image /\ nextId \in Nat \ {0}
    BY DEF ParityInv, IInv, TypeOK, StoreTypeOK
  <2> QED
    BY <2>1, ImageFields
<1> QED
  BY <1>1, Parity, PTL

\* The dictionaries never break what concurrent calls over SQL may break.
THEOREM MemoryStaysSound == TransportSpec => []MemorySound
<1>1. TransportInv => MemorySound
  BY DEF TransportInv, WellFormed, MemorySound
<1> QED
  BY <1>1, Parity, PTL

\* Both entrances answer alike, until a call is beyond the schema's lengths.
THEOREM EntrancesAgree == TransportSpec => []AnswersAgree
<1>1. TransportInv => AnswersAgree
  BY DEF TransportInv
<1> QED
  BY <1>1, Parity, PTL

\* Both leave the same records, until then.
THEOREM EntrancesRecordAlike == TransportSpec => []SameRecords
<1>1. TransportInv => SameRecords
  <2> SUFFICES ASSUME TransportInv, Comparable
               PROVE  /\ web.users = rpc.users /\ web.profiles = rpc.profiles
                      /\ \A r \in Made : calls[r][1].httpCode # Unprocessable =>
                             web.logs[r] = rpc.logs[r]
    BY DEF SameRecords
  <2>1. WellFormed(memory) /\ rpc = memory /\ web = Without(memory, Turned)
    BY DEF TransportInv
  <2>2. /\ web.users = memory.users /\ web.profiles = memory.profiles
        /\ web.logs = Hidden(memory.logs, Turned)
    BY <2>1, WithoutFields
  <2> QED
    BY <2>1, <2>2 DEF Hidden, Turned, Made
<1> QED
  BY <1>1, Parity, PTL

\* Both show the same user, until then.
THEOREM EntrancesShowAlike == TransportSpec => []SameUserShown
<1>1. TransportInv => SameUserShown
  BY DEF TransportInv
<1> QED
  BY <1>1, Parity, PTL
=============================================================================
