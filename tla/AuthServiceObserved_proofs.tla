---------------------- MODULE AuthServiceObserved_proofs ----------------------
(***************************************************************************)
(* What an outcome has to do with all that happened while it was worked    *)
(* out, for all values of the constants: the last login an account shows,  *)
(* updates that ran alone, workers that are shut out.                      *)
(***************************************************************************)
EXTENDS AuthServiceObserved, AuthService_proofs

-----------------------------------------------------------------------------
(* The history only watches.                                               *)

\* Every step of the observed service is a step of the service.
LEMMA ObservedIsService == ObservedSpec => Spec
<1>1. ObservedInit => Init
  BY DEF ObservedInit
<1>2. [Next /\ Observe]_observedVars => [Next]_vars
  BY DEF observedVars, vars
<1> QED
  BY <1>1, <1>2, PTL DEF ObservedSpec, Spec

\* Both invariants hold of the observed service.
LEMMA ObservedSound == ObservedSpec => [](IInv /\ AuditInv)
<1>1. Spec => []AuditInv
  BY AuditInit, AuditKeeps, Invariance, PTL DEF Spec
<1> QED
  BY <1>1, ObservedIsService, Invariance, PTL

-----------------------------------------------------------------------------
(* The last login an account shows.                                        *)

\* The logins that were over when another began are over, and none of them is
\* what its account shows once it has written.
TouchedBy(q) ==
    pc[q] \in {"login_success", "login_reload"} \/ LoggedIn(q)
    => users[who[q].id].lastLogin \notin earlier[q] \cup {NoRequest}

EarlierInv ==
    /\ earlier \in [Requests -> SUBSET Requests]
    /\ \A q \in Requests : \A p \in earlier[q] : LoggedIn(p)
    /\ \A q \in Requests : q \notin earlier[q]
    /\ \A q \in Requests : TouchedBy(q) /\ (LoggedIn(q) => UserExists(who[q].id))

\* A later login stamps an account with itself, and was not over earlier.
LEMMA EarlierKeeps ==
  ASSUME IInv, AuditInv, EarlierInv, NEW r \in Requests, StepOf(r), Observe
  PROVE  EarlierInv'
<1>1. /\ TypeOK /\ StoreTypeOK /\ RowsKept
      /\ \A q \in Requests \ {r} : pc'[q] = pc[q] /\ input'[q] = input[q] /\ who'[q] = who[q]
      /\ pc[r] \notin Final /\ pc'[r] # "idle"
      /\ pc[r] # "idle" => input' = input
  BY RowsStay, StepFrame DEF IInv, TypeOK
<1>2. \A q \in Requests : LoggedIn(q) => LoggedIn(q)' /\ q # r
  BY <1>1 DEF LoggedIn, Final
<1>3. \A q \in Requests : earlier'[q] = earlier[q] \/ earlier'[q] = {p \in Requests : LoggedIn(p)}
  BY DEF Observe
<1>4. \A q \in Requests : (pc[q] # "idle" => earlier'[q] = earlier[q]) /\ (pc[q] = "idle" => ~ LoggedIn(q))
  BY DEF Observe, LoggedIn
<1>5. /\ earlier' \in [Requests -> SUBSET Requests]
      /\ \A q \in Requests : \A p \in earlier'[q] : LoggedIn(p)'
      /\ \A q \in Requests : q \notin earlier'[q]
  BY <1>2, <1>3, <1>4 DEF EarlierInv, Observe
<1>6. ASSUME NEW q \in Requests PROVE TouchedBy(q)' /\ (LoggedIn(q)' => UserExists(who[q].id)')
  <2>1. CASE q # r
    <3> PICK i : i = who[q].id
      OBVIOUS
    <3>1. /\ pc'[q] = pc[q] /\ who'[q] = who[q] /\ (LoggedIn(q)' <=> LoggedIn(q))
          /\ LocalsTrue(q) /\ TouchedBy(q) /\ (LoggedIn(q) => UserExists(i))
      BY <1>1, <2>1 DEF LoggedIn, IInv, EarlierInv
    <3>2. CASE ~ (pc[q] \in {"login_success", "login_reload"} \/ LoggedIn(q))
      BY <3>1, <3>2 DEF TouchedBy
    <3>3. CASE pc[q] \in {"login_success", "login_reload"} \/ LoggedIn(q)
      <4>1. i \in DOMAIN users /\ i \in DOMAIN users'
        BY <1>1, <3>1, <3>3 DEF LocalsTrue, HoldsAccount, UserExists, RowsKept, Grows
      <4>2. earlier'[q] = earlier[q] /\ users[i].lastLogin \notin earlier[q] \cup {NoRequest}
        BY <1>4, <3>1, <3>3 DEF TouchedBy, LoggedIn
      <4>3. r \notin earlier[q] /\ r # NoRequest
        BY <1>1, RequestAssumption DEF EarlierInv, LoggedIn, Final
      <4>4. users'[i].lastLogin \in {users[i].lastLogin, r}
        BY <4>1, RowsStay
      <4> QED
        BY <3>1, <4>1, <4>2, <4>3, <4>4 DEF TouchedBy, UserExists
    <3> QED
      BY <3>2, <3>3
  <2>2. CASE q = r /\ LoginNext(r)
    <3> PICK i : i = who[r].id
      OBVIOUS
    <3>1. pc[r] \in LoginLabels /\ earlier'[r] = earlier[r] /\ r \notin earlier[r] /\ r # NoRequest
      BY <1>4, <2>2, RequestAssumption DEF LoginNext, LoginLookup, LoginProfile, LoginTouch,
         LoginSuccess, LoginReload, LoginReject, Step, LoginLabels, EarlierInv
    <3>2. CASE LoginTouch(r)
      <4>1. who' = who /\ i \in DOMAIN users /\ users' = [users EXCEPT ![i].lastLogin = r]
            /\ pc'[r] = "login_success"
        BY <1>1, <3>2 DEF LoginTouch, UpdateLastLoginAt, Step, localVars, IInv, LocalsTrue, HoldsAccount,
           UserExists, TypeOK
      <4>2. users'[i].lastLogin = r
        BY <1>1, <4>1 DEF StoreTypeOK, UserRow
      <4> QED
        BY <2>2, <3>1, <4>1, <4>2 DEF TouchedBy, LoggedIn
    <3>3. CASE LoginSuccess(r) \/ LoginReload(r)
      <4>1. /\ who' = who /\ users' = users /\ pc[r] \in {"login_success", "login_reload"}
            /\ i \in DOMAIN users
        BY <3>3 DEF LoginSuccess, LoginReload, Step, localVars, storeVars, CreateLoginAuditLog,
           IInv, LocalsTrue, HoldsAccount, UserExists
      <4> QED
        BY <2>2, <3>1, <4>1 DEF TouchedBy, EarlierInv, UserExists
    <3>4. CASE LoginLookup(r) \/ LoginProfile(r) \/ LoginReject(r)
      <4>1. pc'[r] \notin {"login_success", "login_reload", "ok"}
        BY <1>1, <3>4 DEF LoginLookup, LoginProfile, LoginReject, Step, TypeOK, LoginUserVerdict,
           LoginProfileVerdict
      <4> QED
        BY <2>2, <4>1 DEF TouchedBy, LoggedIn
    <3> QED
      BY <2>2, <3>2, <3>3, <3>4 DEF LoginNext
  <2>3. CASE q = r /\ (RegisterNext(r) \/ AuthNext(r) \/ UpdateNext(r))
    <3>1. input'[r].op # "login" /\ pc'[r] \notin {"login_success", "login_reload"}
      BY <1>1, <2>3, OtherSteps DEF AuditInv, Sectioned, OtherLabels, LoginLabels, Final
    <3> QED
      BY <2>3, <3>1 DEF TouchedBy, LoggedIn
  <2>4. CASE q = r /\ ((\E a \in Inputs : Begin(r, a)) \/ Abort(r))
    <3>1. pc'[r] \notin {"login_success", "login_reload", "ok"}
      BY <1>1, <2>4 DEF Begin, Abort, Step, FirstStep, TypeOK
    <3> QED
      BY <2>4, <3>1 DEF TouchedBy, LoggedIn
  <2> QED
    BY <2>1, <2>2, <2>3, <2>4 DEF StepOf, Advance
<1> QED
  BY <1>5, <1>6 DEF EarlierInv

\* Initially nobody has logged in, and a step of no request changes nothing of it.
LEMMA EarlierInvariance == ObservedSpec => []EarlierInv
<1>1. ObservedInit => EarlierInv
  BY DEF ObservedInit, Init, EarlierInv, TouchedBy, LoggedIn
<1>2. IInv /\ AuditInv /\ EarlierInv /\ [Next /\ Observe]_observedVars => EarlierInv'
  <2> SUFFICES ASSUME IInv, AuditInv, EarlierInv, [Next /\ Observe]_observedVars PROVE EarlierInv'
    OBVIOUS
  <2>1. CASE UNCHANGED <<vars, earlier>>
    BY <2>1 DEF vars, EarlierInv, TouchedBy, LoggedIn, UserExists
  <2>2. CASE AllAnswered /\ Observe
    <3>1. earlier' = [q \in Requests |-> earlier[q]] /\ UNCHANGED vars
      BY <2>2 DEF AllAnswered, Observe, Final, vars
    <3>2. earlier' = earlier
      BY <3>1 DEF EarlierInv
    <3> QED
      BY <2>1, <3>1, <3>2
  <2> QED
    BY <2>1, <2>2, EarlierKeeps DEF Next, StepOf, observedVars
<1> QED
  BY <1>1, <1>2, ObservedSound, PTL DEF ObservedSpec

\* An answered login's account shows that login or one that was not over when it
\* began, however logins race and die.
THEOREM LastLoginsCurrent == ObservedSpec => []LastLoginCurrent
<1>1. EarlierInv => LastLoginCurrent
  BY DEF EarlierInv, TouchedBy, LastLoginCurrent
<1> QED
  BY <1>1, EarlierInvariance, PTL

-----------------------------------------------------------------------------
(* Updates that run alone.                                                 *)

\* What an update that runs alone selected is still what the tables hold, and
\* what it wrote first is still there when it writes the rest.
AloneKnows(q) ==
    LET i == input[q].target IN
    /\ pc[q] \in WriteSection /\ ~ Overlapped(q)
    /\ pc[q] = "profile_commit" => seen[q] = profiles[i]
    /\ pc[q] \in {"user_select", "user_commit"} => profiles[i] = input[q].status
    /\ pc[q] = "user_commit" => seen[q] = users[i].status

SettledTrue(p) ==
    /\ p \in (DOMAIN users) \X EmploymentStatuses
    /\ p[1] \in DOMAIN profiles
    /\ \A r \in Requests : ~ Updating(r, p[1])
    /\ profiles[p[1]] = p[2]
    /\ users[p[1]].status = "ACTIVE" <=> p[2] = "ON_DUTY"

UpdateInv ==
    /\ alone \subseteq Requests
    /\ \A q \in alone : AloneKnows(q)
    /\ \A p \in settled : SettledTrue(p)

\* Only the two commits of an update rewrite a status, and only its target's.
LEMMA StatusesMove ==
  ASSUME IInv, NEW r \in Requests, StepOf(r), NEW i, ~ Updating(r, i)
  PROVE  /\ i \in DOMAIN profiles => i \in DOMAIN profiles' /\ profiles'[i] = profiles[i]
         /\ i \in DOMAIN users => i \in DOMAIN users' /\ users'[i].status = users[i].status
<1>1. TypeOK /\ StoreTypeOK /\ LocalsTrue(r)
  BY DEF IInv, TypeOK
<1>2. CASE UNCHANGED <<users, profiles>>
  BY <1>2
<1>3. CASE RegisterInsert(r)
  <2>1. nextId \notin DOMAIN users
    BY <1>1 DEF StoreTypeOK
  <2> QED
    BY <1>3, <2>1 DEF RegisterInsert, CreateUser, Insert
<1>4. CASE RegisterProfile(r)
  BY <1>4 DEF RegisterProfile, CreateWorkerProfile, Insert, ProfileExists
<1>5. CASE LoginTouch(r)
  BY <1>1, <1>5 DEF LoginTouch, UpdateLastLoginAt, StoreTypeOK, UserRow
<1>6. CASE CommitProfile(r)
  BY <1>1, <1>6 DEF CommitProfile, CommitEmploymentStatus, Updating, Step, WriteSection
<1>7. CASE CommitUser(r)
  BY <1>1, <1>7 DEF CommitUser, CommitUserStatus, Updating, Step, WriteSection, StoreTypeOK, UserRow
<1> QED
  BY <1>2, <1>3, <1>4, <1>5, <1>6, <1>7
  DEF StepOf, Begin, Advance, Abort, RegisterNext, LoginNext, AuthNext, UpdateNext,
      RegisterLookup, RegisterDuplicate, DuplicateUser, LoginLookup, LoginProfile, LoginSuccess,
      LoginReload, LoginReject, CreateLoginAuditLog, AuthUser, AuthProfile, Logout, MeUser,
      MeProfile, UpdateTarget, SelectProfile, SelectUser, storeVars

\* A request enters and goes through the write section by update's own steps.
LEMMA WritingSteps ==
  ASSUME TypeOK, NEW r \in Requests, StepOf(r), pc[r] \in WriteSection \/ pc'[r] \in WriteSection
  PROVE  UpdateNext(r) \/ Abort(r)
<1> USE DEF TypeOK, Step, WriteSection
<1>1. ASSUME NEW a \in Inputs, Begin(r, a) PROVE FALSE
  BY <1>1 DEF Begin, FirstStep
<1>2. CASE RegisterNext(r)
  BY <1>2 DEF RegisterNext, RegisterLookup, RegisterInsert, RegisterDuplicate, RegisterProfile, AfterInsert
<1>3. CASE LoginNext(r)
  BY <1>3 DEF LoginNext, LoginLookup, LoginProfile, LoginTouch, LoginSuccess, LoginReload,
     LoginReject, LoginUserVerdict, LoginProfileVerdict
<1>4. CASE AuthNext(r)
  BY <1>4 DEF AuthNext, AuthUser, AuthProfile, Logout, MeUser, MeProfile,
     AuthUserVerdict, AdmittedStep, EnsureRoles
<1> QED
  BY <1>1, <1>2, <1>3, <1>4 DEF StepOf, Advance

\* A step of an update that runs alone.
LEMMA AloneStep ==
  ASSUME IInv, NEW r \in Requests, UpdateNext(r), Observe, r \in alone',
         pc[r] \in WriteSection => AloneKnows(r)
  PROVE  AloneKnows(r)'
<1> PICK i : i = input[r].target
  OBVIOUS
<1>1. /\ TypeOK /\ StoreTypeOK /\ LocalsTrue(r) /\ pc'[r] \in WriteSection /\ ~ Overlapped(r)'
  BY DEF IInv, TypeOK, Observe
<1>2. input' = input
  BY DEF UpdateNext, UpdateTarget, SelectProfile, CommitProfile, SelectUser, CommitUser, localVars
<1>3. CASE UpdateTarget(r)
  BY <1>1, <1>2, <1>3 DEF UpdateTarget, UpdateTargetVerdict, Step, TypeOK, AloneKnows, WriteSection
<1>4. CASE SelectProfile(r)
  <2>1. pc'[r] = "profile_commit" /\ seen'[r] = profiles[i] /\ profiles' = profiles
    BY <1>1, <1>4 DEF SelectProfile, SelectedProfile, Step, TypeOK, storeVars, WriteSection
  <2> QED
    BY <1>1, <1>2, <2>1 DEF AloneKnows
<1>5. CASE CommitProfile(r)
  <2>1. pc[r] = "profile_commit" /\ pc'[r] = "user_select" /\ seen[r] = profiles[i]
        /\ i \in DOMAIN profiles
    BY <1>1, <1>5 DEF CommitProfile, Step, TypeOK, AloneKnows, WriteSection, LocalsTrue, ProfileExists
  <2>2. profiles'[i] = input[r].status
    BY <1>5, <2>1 DEF CommitProfile, CommitEmploymentStatus
  <2> QED
    BY <1>1, <1>2, <2>1, <2>2 DEF AloneKnows
<1>6. CASE SelectUser(r)
  <2>1. /\ pc[r] = "user_select" /\ pc'[r] = "user_commit" /\ seen'[r] = users[i].status
        /\ UNCHANGED <<users, profiles>> /\ profiles[i] = input[r].status
    BY <1>1, <1>6 DEF SelectUser, Step, TypeOK, AloneKnows, WriteSection, storeVars
  <2> QED
    BY <1>1, <1>2, <2>1 DEF AloneKnows
<1>7. CASE CommitUser(r)
  BY <1>1, <1>7 DEF CommitUser, Step, TypeOK, WriteSection
<1> QED
  BY <1>3, <1>4, <1>5, <1>6, <1>7 DEF UpdateNext

\* Nor does a step of anybody else touch what it selected or wrote.
LEMMA UpdatesKeep ==
  ASSUME IInv, UpdateInv, NEW r \in Requests, StepOf(r), Observe
  PROVE  UpdateInv'
<1>1. /\ TypeOK /\ StoreTypeOK /\ RowsKept
      /\ \A q \in Requests \ {r} : /\ pc'[q] = pc[q] /\ input'[q] = input[q]
                                   /\ who'[q] = who[q] /\ seen'[q] = seen[q]
      /\ pc[r] # "idle" => input' = input
  BY RowsStay, StepFrame DEF IInv, TypeOK
<1>2. alone' \subseteq Requests
  BY DEF Observe
<1>3. ASSUME NEW q \in alone' PROVE AloneKnows(q)'
  <2>1. q \in Requests /\ pc'[q] \in WriteSection /\ ~ Overlapped(q)'
        /\ (pc[q] \in WriteSection => q \in alone /\ AloneKnows(q))
    BY <1>3 DEF Observe, UpdateInv
  <2>2. CASE q = r
    <3>1. UpdateNext(r)
      BY <1>1, <2>1, <2>2, WritingSteps DEF Abort, TypeOK, WriteSection
    <3> QED
      BY <2>1, <2>2, <3>1, AloneStep
  <2>3. CASE q # r
    <3> PICK i : i = input[q].target
      OBVIOUS
    <3>1. AloneKnows(q) /\ LocalsTrue(q)
      BY <1>1, <2>1, <2>3 DEF IInv
    <3>2. ~ Updating(r, i)
      BY <2>1, <2>3, <3>1 DEF AloneKnows, Overlapped
    <3>3. /\ i \in DOMAIN users
          /\ pc[q] \in {"profile_commit", "user_select", "user_commit"} => i \in DOMAIN profiles
      BY <3>1 DEF AloneKnows, LocalsTrue, UserExists, ProfileExists
    <3>4. /\ users'[i].status = users[i].status
          /\ i \in DOMAIN profiles => profiles'[i] = profiles[i]
      BY <3>2, <3>3, StatusesMove
    <3> QED
      BY <1>1, <2>1, <2>3, <3>1, <3>3, <3>4 DEF AloneKnows
  <2> QED
    BY <2>2, <2>3
<1>4. ASSUME NEW p \in settled' PROVE SettledTrue(p)'
  <2>1. CASE p \in settled /\ \A q \in Requests : ~ Updating(q, p[1])'
    <3>1. SettledTrue(p) /\ ~ Updating(r, p[1])
      BY <2>1 DEF UpdateInv, SettledTrue
    <3> QED
      BY <1>1, <2>1, <3>1, StatusesMove DEF SettledTrue
  <2>2. ASSUME NEW q \in alone, pc'[q] = "ok", p = <<input[q].target, input[q].status>>
        PROVE  SettledTrue(p)'
    <3> PICK i : i = input[q].target
      OBVIOUS
    <3>1. AloneKnows(q) /\ q \in Requests
      BY DEF UpdateInv
    <3>2. q = r
      BY <1>1, <2>2, <3>1 DEF AloneKnows, WriteSection
    <3>3. CommitUser(r)
      <4>1. UpdateNext(r)
        BY <1>1, <2>2, <3>1, <3>2, WritingSteps DEF AloneKnows, Abort, TypeOK
      <4> QED
        BY <1>1, <2>2, <3>2, <4>1 DEF UpdateNext, UpdateTarget, SelectProfile, CommitProfile, SelectUser,
           UpdateTargetVerdict, SelectedProfile, Step, TypeOK
    <3>4. /\ pc[r] = "user_commit" /\ seen[r] = users[i].status /\ profiles[i] = input[r].status
          /\ i \in DOMAIN users /\ i \in DOMAIN profiles /\ input[r].status \in EmploymentStatuses
          /\ input' = input
      BY <3>1, <3>2, <3>3 DEF CommitUser, Step, AloneKnows, IInv, LocalsTrue, UserExists, ProfileExists,
         WriteSection
    <3>5. /\ DOMAIN users' = DOMAIN users /\ profiles' = profiles
          /\ users'[i].status = NextUserStatus(input[r].status)
      BY <1>1, <3>2, <3>3, <3>4 DEF CommitUser, CommitUserStatus, StoreTypeOK, UserRow
    <3>6. \A s \in Requests : ~ Updating(s, i)'
      <4>1. ASSUME NEW s \in Requests PROVE ~ (pc'[s] \in WriteSection /\ input'[s].target = i)
        BY <1>1, <2>2, <3>1, <3>2, <3>4 DEF AloneKnows, Overlapped, Updating, WriteSection
      <4> QED
        BY <4>1 DEF Updating
    <3>7. p = <<i, input[r].status>> /\ p[1] = i /\ p[2] = input[r].status
      BY <2>2, <3>2
    <3> QED
      BY <3>4, <3>5, <3>6, <3>7 DEF SettledTrue, NextUserStatus
  <2> QED
    BY <2>1, <2>2, <1>4 DEF Observe
<1> QED
  BY <1>2, <1>3, <1>4 DEF UpdateInv

\* Initially nothing has run, and a step of no request leaves it at that.
LEMMA UpdateInvariance == ObservedSpec => []UpdateInv
<1>1. ObservedInit => UpdateInv
  BY DEF ObservedInit, UpdateInv
<1>2. IInv /\ UpdateInv /\ [Next /\ Observe]_observedVars => UpdateInv'
  <2> SUFFICES ASSUME IInv, UpdateInv, [Next /\ Observe]_observedVars PROVE UpdateInv'
    OBVIOUS
  <2>1. CASE UNCHANGED vars /\ alone' \subseteq alone /\ settled' \subseteq settled
    BY <2>1 DEF vars, UpdateInv, AloneKnows, SettledTrue, Overlapped, Updating
  <2>2. CASE AllAnswered /\ Observe
    <3>1. UNCHANGED vars /\ \A q \in Requests : pc[q] \notin WriteSection
      BY <2>2 DEF AllAnswered, vars, Final, WriteSection
    <3>2. alone' \subseteq alone /\ settled' \subseteq settled
      BY <2>2, <3>1 DEF Observe, UpdateInv, AloneKnows, vars
    <3> QED
      BY <2>1, <3>1, <3>2
  <2> QED
    BY <2>1, <2>2, UpdatesKeep DEF Next, StepOf, observedVars
<1> QED
  BY <1>1, <1>2, ObservedSound, PTL DEF ObservedSpec

\* An update nobody overlapped takes effect in both tables and keeps it, for any
\* number of calls and workers.
THEOREM LoneUpdatesWin == ObservedSpec => []LastUpdateWins
<1>1. UpdateInv => LastUpdateWins
  BY DEF UpdateInv, SettledTrue, LastUpdateWins
<1> QED
  BY <1>1, UpdateInvariance, PTL

-----------------------------------------------------------------------------
(* Workers that are shut out.                                              *)

\* A worker login and authentication must not let pass, whatever its status.
Barred(i) == users[i].role = "WORKER" /\ (ProfileExists(i) => profiles[i] # "ON_DUTY")

Looking == {"login_lookup", "login_reject", "auth_user"}
Halfway == {"login_profile", "auth_profile"}

\* A call of such a worker that got past users.status was let past it before
\* the status was written, and meets the employment status next.
TurnedAway(r, i) ==
    /\ i \in DOMAIN users /\ Concerns(r, i) /\ AccountShut(i)
    /\ pc[r] \in Halfway => who[r].id = i /\ Barred(i)

ShutInv ==
    /\ shut \subseteq Requests
    /\ \A r \in shut : /\ pc[r] \in Refused \cup Looking \cup Halfway
                       /\ InFlight(r) => \E i : TurnedAway(r, i)

\* Whoever is shut out and ACTIVE is a worker that is not on duty.
LEMMA ShutActiveBarred ==
  ASSUME StoreTypeOK, NEW i \in DOMAIN users, AccountShut(i), users[i].status = "ACTIVE"
  PROVE  Barred(i)
BY DEF AccountShut, Phase, Barred, ProfileExists

\* Nobody puts such a worker on duty while it is shut out.
LEMMA BarredStays ==
  ASSUME IInv, NEW s \in Requests, StepOf(s), NEW i \in DOMAIN users, AccountShut(i), Barred(i)
  PROVE  Barred(i)'
<1>1. TypeOK /\ StoreTypeOK /\ LocalsTrue(s)
  BY DEF IInv, TypeOK
<1>2. i \in DOMAIN users' /\ users'[i].role = users[i].role
  BY RowsStay DEF RowsKept, Grows
<1>3. CASE profiles' = profiles
  BY <1>2, <1>3 DEF Barred, ProfileExists
<1>4. CASE RegisterProfile(s)
  <2>1. i # who[s].id
    BY <1>4 DEF RegisterProfile, Step, AccountShut
  <2> QED
    BY <1>2, <1>4, <2>1 DEF Barred, RegisterProfile, CreateWorkerProfile, Insert, ProfileExists
<1>5. CASE CommitProfile(s)
  <2>1. i = input[s].target => input[s].status # "ON_DUTY"
    BY <1>5 DEF CommitProfile, Step, AccountShut, Updating, WriteSection
  <2> QED
    BY <1>1, <1>2, <1>5, <2>1 DEF Barred, CommitProfile, CommitEmploymentStatus, ProfileExists
<1> QED
  BY <1>3, <1>4, <1>5
  DEF StepOf, Begin, Advance, Abort, RegisterNext, LoginNext, AuthNext, UpdateNext,
      RegisterLookup, RegisterInsert, RegisterDuplicate, CreateUser, DuplicateUser, LoginLookup,
      LoginProfile, LoginTouch, UpdateLastLoginAt, LoginSuccess,
      LoginReload, LoginReject, CreateLoginAuditLog, AuthUser, AuthProfile, Logout, MeUser,
      MeProfile, UpdateTarget, SelectProfile, SelectUser, CommitUser, CommitUserStatus, storeVars

\* A call is about one account, before a step and after it.
LEMMA SameAccount ==
  ASSUME NEW r \in Requests, RowsKept, UniqueEmail', input'[r] = input[r],
         NEW i \in DOMAIN users, NEW j \in DOMAIN users', Concerns(r, i), Concerns(r, j)'
  PROVE  i = j
BY DEF Concerns, RowsKept, Grows, UniqueEmail, SameEmail, Email, NormalizeEmail

\* What a call of a worker that is shut out does next: it is refused, or gets as
\* far as the employment status.
LEMMA TurnedAwayStep ==
  ASSUME IInv, AuditInv, NEW r \in Requests, Advance(r) \/ Abort(r), NEW i, TurnedAway(r, i),
         pc[r] \in Looking \cup Halfway
  PROVE  /\ pc'[r] \in Refused \cup Looking \cup Halfway
         /\ pc'[r] \in Halfway => who'[r].id = i /\ Barred(i)'
<1>1. /\ TypeOK /\ StoreTypeOK /\ LocalsTrue(r) /\ Sectioned(r)
      /\ i \in DOMAIN users /\ Concerns(r, i) /\ AccountShut(i) /\ UniqueEmail
  BY DEF IInv, TypeOK, AuditInv, TurnedAway, TablesSound
<1> USE DEF Looking, Halfway, Refused
<1>2. CASE Abort(r)
  BY <1>1, <1>2 DEF Abort, TypeOK
<1>3. CASE LoginLookup(r)
  <2>1. /\ pc[r] = "login_lookup" /\ SameEmail(users[i].email, Email(r))
        /\ pc'[r] = LoginUserVerdict(GetUserByEmail(Email(r)), input[r].password)
        /\ UNCHANGED <<users, profiles>>
    BY <1>1, <1>3 DEF LoginLookup, Step, TypeOK, storeVars, Sectioned, LoginLabels, Concerns
  <2>2. GetUserByEmail(Email(r)) = {i}
    BY <1>1, <2>1 DEF GetUserByEmail, SameEmail, UniqueEmail
  <2>3. who'[r].id = i
    BY <1>1, <1>3, <2>2 DEF LoginLookup, Snapshot, TypeOK
  <2>4. pc'[r] \in {"login_profile", "login_reject"}
    BY <2>1 DEF LoginUserVerdict
  <2>5. pc'[r] = "login_profile" => Barred(i)'
    <3>1. pc'[r] = "login_profile" => Barred(i)
      BY <1>1, <2>1, <2>2, ShutActiveBarred DEF LoginUserVerdict
    <3> QED
      BY <2>1, <3>1 DEF Barred, ProfileExists
  <2> QED
    BY <2>3, <2>4, <2>5
<1>4. CASE LoginProfile(r)
  <2>1. pc[r] = "login_profile" /\ pc'[r] = LoginProfileVerdict(who[r])
    BY <1>1, <1>4 DEF LoginProfile, Step, TypeOK
  <2>2. who[r].id = i /\ Barred(i) /\ who[r].role = users[i].role
    BY <1>1, <2>1 DEF TurnedAway, LocalsTrue, HoldsAccount
  <2> QED
    BY <2>1, <2>2 DEF LoginProfileVerdict, Barred
<1>5. CASE LoginReject(r)
  BY <1>1, <1>5 DEF LoginReject, Step, TypeOK
<1>6. CASE AuthUser(r)
  <2>1. /\ pc[r] = "auth_user" /\ pc'[r] = AuthUserVerdict(input[r].claim)
        /\ UNCHANGED <<users, profiles>> /\ input[r].claim.id = i
    BY <1>1, <1>6 DEF AuthUser, Step, TypeOK, storeVars, Sectioned, LoginLabels, OtherLabels, Labels,
       Final, Concerns
  <2>2. pc'[r] \in {"auth_profile", "unauthenticated"}
    BY <2>1 DEF AuthUserVerdict
  <2>3. pc'[r] = "auth_profile" => who'[r].id = i /\ Barred(i)
    BY <1>1, <1>6, <2>1, ShutActiveBarred DEF AuthUser, AuthUserVerdict, Snapshot, TypeOK
  <2> QED
    BY <2>1, <2>2, <2>3 DEF Barred, ProfileExists
<1>7. CASE AuthProfile(r)
  <2>1. pc[r] = "auth_profile"
    BY <1>7 DEF AuthProfile, Step
  <2>2. who[r].id = i /\ Barred(i) /\ who[r].role = users[i].role
    BY <1>1, <2>1 DEF TurnedAway, LocalsTrue, HoldsAccount
  <2>3. ~ ProfileAdmits(who[r])
    BY <2>2 DEF ProfileAdmits, Barred
  <2> QED
    BY <1>1, <1>7, <2>3 DEF AuthProfile, Step, TypeOK
<1> QED
  BY <1>2, <1>3, <1>4, <1>5, <1>6, <1>7
  DEF Advance, RegisterNext, LoginNext, AuthNext, UpdateNext, RegisterLookup, RegisterInsert,
      RegisterDuplicate, RegisterProfile, LoginTouch, LoginSuccess, LoginReload, Logout, MeUser, MeProfile,
      UpdateTarget, SelectProfile, CommitProfile, SelectUser, CommitUser, Step
\* A call is shut out for as long as it was before this step, or since this step.
LEMMA ShutKeeps ==
  ASSUME IInv, IInv', AuditInv, ShutInv, NEW s \in Requests, StepOf(s), Observe
  PROVE  ShutInv'
<1>1. /\ TypeOK /\ RowsKept /\ UniqueEmail'
      /\ \A q \in Requests \ {s} : pc'[q] = pc[q] /\ input'[q] = input[q] /\ who'[q] = who[q]
      /\ pc[s] \notin Final /\ (pc[s] # "idle" => input' = input)
  BY RowsStay, StepFrame DEF IInv, TypeOK, TablesSound
<1>2. shut' \subseteq Requests
  BY DEF Observe
<1> SUFFICES ASSUME NEW q \in shut'
             PROVE  /\ pc'[q] \in Refused \cup Looking \cup Halfway
                    /\ InFlight(q)' => \E i : TurnedAway(q, i)'
  BY <1>2 DEF ShutInv
<1>3. CASE q \in shut /\ ~ InFlight(q)
  BY <1>1, <1>2, <1>3 DEF ShutInv, InFlight, Refused, Looking, Halfway, Final
<1>4. CASE q \in shut /\ InFlight(q) /\ ShutOut(q)'
  <2>1. PICK j : j \in DOMAIN users' /\ Concerns(q, j)' /\ AccountShut(j)'
    BY <1>4 DEF ShutOut
  <2>2. PICK i : TurnedAway(q, i)
    BY <1>4 DEF ShutInv
  <2>3. /\ q \in Requests /\ input'[q] = input[q] /\ pc[q] \in Looking \cup Halfway
        /\ i \in DOMAIN users /\ Concerns(q, i) /\ AccountShut(i)
    BY <1>1, <1>2, <1>4, <2>2 DEF ShutInv, InFlight, TurnedAway, Refused, Final
  <2>4. i = j
    BY <1>1, <2>1, <2>3, SameAccount
  <2>5. CASE q # s
    <3>1. Barred(i) => Barred(i)'
      BY <2>3, BarredStays
    <3> QED
      BY <1>1, <2>1, <2>2, <2>3, <2>4, <2>5, <3>1 DEF TurnedAway
  <2>6. CASE q = s
    <3>1. Advance(s) \/ Abort(s)
      BY <2>3, <2>6 DEF StepOf, Begin, Step, Looking, Halfway
    <3>2. /\ pc'[q] \in Refused \cup Looking \cup Halfway
          /\ pc'[q] \in Halfway => who'[q].id = i /\ Barred(i)'
      BY <2>2, <2>3, <2>6, <3>1, TurnedAwayStep
    <3> QED
      BY <2>1, <2>4, <3>2 DEF TurnedAway
  <2> QED
    BY <2>5, <2>6
<1>5. CASE pc[q] = "idle" /\ pc'[q] # "idle" /\ ShutOut(q)'
  <2>1. q = s /\ q \in Requests
    BY <1>1, <1>2, <1>5
  <2>2. PICK j : j \in DOMAIN users' /\ Concerns(q, j)' /\ AccountShut(j)'
    BY <1>5 DEF ShutOut
  <2>3. PICK a \in Inputs : Begin(q, a)
    BY <1>5, <2>1 DEF StepOf, Advance, Abort, InFlight, RegisterNext, LoginNext, AuthNext,
       UpdateNext, RegisterLookup, RegisterInsert, RegisterDuplicate, RegisterProfile, LoginLookup,
       LoginProfile, LoginTouch, LoginSuccess, LoginReload, LoginReject, AuthUser, AuthProfile,
       Logout, MeUser, MeProfile, UpdateTarget, SelectProfile, CommitProfile, SelectUser, CommitUser,
       Step
  <2>4. pc'[q] = FirstStep(a) /\ input'[q] = a
    BY <1>1, <2>1, <2>3 DEF Begin, Step, TypeOK
  <2>5. a.op # "register"
    BY <2>2, <2>4 DEF Concerns
  <2>6. pc'[q] \in Refused \cup Looking
    BY <2>4, <2>5 DEF FirstStep, Refused, Looking
  <2> QED
    BY <2>2, <2>6 DEF TurnedAway, Refused, Looking, Halfway
<1> QED
  BY <1>3, <1>4, <1>5 DEF Observe

\* What is shut out stays out, from the first round trip to the answer.
LEMMA ShutInvariance == ObservedSpec => []ShutInv
<1>1. ObservedInit => ShutInv
  BY DEF ObservedInit, ShutInv
<1>2. IInv /\ IInv' /\ AuditInv /\ ShutInv /\ [Next /\ Observe]_observedVars => ShutInv'
  <2> SUFFICES ASSUME IInv, IInv', AuditInv, ShutInv, [Next /\ Observe]_observedVars PROVE ShutInv'
    OBVIOUS
  <2>1. CASE UNCHANGED vars /\ shut' \subseteq shut
    BY <2>1 DEF vars, ShutInv, TurnedAway, InFlight, Concerns, AccountShut, Barred, Phase, Updating,
       ProfileExists, Email, NormalizeEmail
  <2>2. CASE AllAnswered /\ Observe
    <3>1. UNCHANGED vars /\ shut' \subseteq shut
      BY <2>2 DEF AllAnswered, Observe, Final
    <3> QED
      BY <2>1, <3>1
  <2> QED
    BY <2>1, <2>2, ShutKeeps DEF Next, StepOf, observedVars
<1> QED
  BY <1>1, <1>2, ObservedSound, PTL DEF ObservedSpec

\* A worker shut out all the while a call of theirs is under way is turned away,
\* for any number of calls and workers.
THEOREM DisabledStayOut == ObservedSpec => []DisabledStaysOut
<1>1. ShutInv => DisabledStaysOut
  BY DEF ShutInv, DisabledStaysOut, Looking, Halfway
<1> QED
  BY <1>1, ShutInvariance, PTL

-----------------------------------------------------------------------------
(* The types of the history.                                               *)

\* The four history variables range over requests, workers and statuses.
THEOREM ObservedTypeCorrect == ObservedSpec => []ObservedTypeOK
<1>1. IInv /\ EarlierInv /\ UpdateInv /\ ShutInv => ObservedTypeOK
  BY DEF IInv, EarlierInv, UpdateInv, ShutInv, SettledTrue, ObservedTypeOK
<1> QED
  BY <1>1, ObservedSound, EarlierInvariance, UpdateInvariance, ShutInvariance, PTL
=============================================================================
