--------------------------- MODULE Sessions_proofs ---------------------------
(***************************************************************************)
(* What an access token is good for, whatever the clocks of the replicas,  *)
(* the time to live and the calls that race with it: nothing after its     *)
(* time and the skew, and everything until then while its account is       *)
(* enabled.                                                                *)
(***************************************************************************)
EXTENDS Sessions, AuthService_proofs

\* int() rounds down by less than a second.
LEMMA Rounding ==
  ASSUME NEW t \in Nat
  PROVE  /\ WholeSecond(t) \in Int
         /\ WholeSecond(t) <= t /\ t < WholeSecond(t) + TicksPerSecond
<1>1. t % TicksPerSecond \in 0..(TicksPerSecond - 1)
  BY TokenAssumption
<1> QED
  BY <1>1, TokenAssumption DEF WholeSecond

LEMMA LifetimeNat == Lifetime \in Nat
BY TokenAssumption DEF Lifetime

-----------------------------------------------------------------------------
(* Every step of a session is one of the service.                          *)

\* So all that is proved of AuthService holds of the sessions.
THEOREM SessionsAreService == SessionSpec => Spec
<1>1. SessionInit => Init
  BY DEF SessionInit
<1>2. [SessionNext]_sessionVars => [Next]_vars
  BY DEF SessionNext, sessionVars, BeginSession, AdvanceSession, AllAnswered, Next, vars
<1> QED
  BY <1>1, <1>2, PTL DEF SessionSpec, Spec

LEMMA SessionSound == SessionSpec => [](IInv /\ AuditInv)
<1>1. Spec => []AuditInv
  BY AuditInit, AuditKeeps, Invariance, PTL DEF Spec
<1> QED
  BY <1>1, SessionsAreService, Invariance, PTL

-----------------------------------------------------------------------------
(* What tokens and the calls that carry them look like.                    *)

SessionTypeOK ==
    /\ now \in Nat
    /\ home \in [Requests -> Replicas]
    /\ bearer \in [Requests -> Requests \cup {NoRequest}]
    /\ token \in [Requests -> [sub: Nat, role: Roles \cup {"UNSPECIFIED"}, iat: Int, exp: Int]]
    /\ began \in [Requests -> Nat]
    /\ issued \in [Requests -> Nat]
    /\ \A q \in Requests : issued[q] <= now

\* A login that has issued its token.
Issued(q) == pc[q] \in {"login_success", "login_reload"} \/ LoggedIn(q)

\* The token names the account that logged in, as it still is, and the time.
Signed(q) ==
    Issued(q) =>
        /\ UserExists(who[q].id) /\ who[q].role = users[who[q].id].role
        /\ token[q] = IssueToken(who[q], issued[q] + Ahead[home[q]])

\* A call that carries a token makes the claim the token was good for then.
Carried(r) ==
    Bearer(r) =>
        /\ LoggedIn(bearer[r])
        /\ pc[r] # "idle"
        /\ input[r].op \notin {"register", "login"}
        /\ input[r].claim = DecodedClaim(token[bearer[r]], began[r] + Ahead[home[r]])
        /\ input[r].claim = NoClaim => pc[r] = "unauthenticated"
        /\ pc[r] = "auth_profile" => who[r].id = input[r].claim.id

\* The account of such a call is enabled up to its answer.
Welcome(r) ==
    /\ r \in Requests /\ Bearer(r) /\ pc[r] # "idle"
    /\ InFlight(r) => Enabled(r)
    /\ input[r].claim # NoClaim => pc[r] # "unauthenticated"

SessionInv ==
    /\ SessionTypeOK
    /\ \A q \in Requests : Signed(q) /\ Carried(q)
    /\ \A r \in open : Welcome(r)

\* Nobody has logged in yet.
LEMMA SessionStart == SessionInit => SessionInv
BY RequestAssumption, ClockAssumption
DEF SessionInit, SessionInv, SessionTypeOK, Init, Signed, Carried, Issued, LoggedIn, Bearer, NoToken, NoUser

\* A clock reading is a natural number.
LEMMA Readings ==
  ASSUME SessionTypeOK, NEW p \in Replicas
  PROVE  /\ Ahead[p] \in Nat /\ Ahead[p] <= MaxSkew /\ Clock(p) \in Nat
         /\ MaxSkew \in Nat
BY ClockAssumption DEF SessionTypeOK, Clock

\* The replica writes a token of the right type.
LEMMA TokenType ==
  ASSUME NEW w \in [id: Nat, role: Roles \cup {"UNSPECIFIED"}], NEW t \in Nat
  PROVE  IssueToken(w, t) \in [sub: Nat, role: Roles \cup {"UNSPECIFIED"}, iat: Int, exp: Int]
<1>1. WholeSecond(t) \in Int /\ WholeSecond(t + Lifetime) \in Int
  BY Rounding, LifetimeNat
<1> QED
  BY <1>1 DEF IssueToken

\* The variables keep their types, and time goes on.
LEMMA SessionTypesKept ==
  ASSUME IInv, SessionTypeOK, SessionNext
  PROVE  SessionTypeOK' /\ now <= now'
<1>1. TypeOK /\ now \in Nat
  BY DEF IInv, SessionTypeOK
<1>2. CASE Tick /\ UNCHANGED <<vars, home, tokenVars>>
  BY <1>1, <1>2 DEF Tick, SessionTypeOK, tokenVars
<1>3. ASSUME NEW r \in Requests, NEW a \in Inputs, BeginSession(r, a)
      PROVE  SessionTypeOK' /\ now <= now'
  BY <1>1, <1>3 DEF BeginSession, BeginPublic, BeginGateway, BeginBearer, SessionTypeOK, tokenVars
<1>4. ASSUME NEW r \in Requests, AdvanceSession(r) PROVE SessionTypeOK' /\ now <= now'
  <2>1. IssueToken(who[r], Clock(home[r])) \in
           [sub: Nat, role: Roles \cup {"UNSPECIFIED"}, iat: Int, exp: Int]
    BY <1>1, Readings, TokenType DEF TypeOK, SessionTypeOK
  <2>2. CASE Issues(r)
    <3>1. /\ token' = [token EXCEPT ![r] = IssueToken(who[r], Clock(home[r]))]
          /\ issued' = [issued EXCEPT ![r] = now]
          /\ UNCHANGED <<now, home, bearer, began>>
      BY <1>4, <2>2 DEF AdvanceSession
    <3>2. token' \in [Requests -> [sub: Nat, role: Roles \cup {"UNSPECIFIED"}, iat: Int, exp: Int]]
      BY <2>1, <3>1 DEF SessionTypeOK
    <3> QED
      BY <1>1, <3>1, <3>2 DEF SessionTypeOK
  <2>3. CASE UNCHANGED <<now, home, tokenVars>>
    BY <1>1, <2>3 DEF SessionTypeOK, tokenVars
  <2> QED
    BY <1>4, <2>2, <2>3 DEF AdvanceSession, tokenVars
<1>5. CASE UNCHANGED <<now, home, tokenVars>>
  BY <1>1, <1>5 DEF SessionTypeOK, tokenVars
<1> QED
  BY <1>2, <1>3, <1>4, <1>5 DEF SessionNext

-----------------------------------------------------------------------------
(* A step of one request.                                                  *)

SessionStepOf(r) ==
    \/ \E a \in Inputs : BeginSession(r, a)
    \/ AdvanceSession(r)
    \/ Abort(r) /\ UNCHANGED <<now, home, tokenVars>>

\* It leaves the tokens and the calls of all others alone.
LEMMA SessionFrame ==
  ASSUME IInv, SessionTypeOK, NEW r \in Requests, SessionStepOf(r)
  PROVE  /\ StepOf(r) /\ RowsKept
         /\ \A q \in Requests \ {r} :
               /\ pc'[q] = pc[q] /\ input'[q] = input[q] /\ who'[q] = who[q]
               /\ home'[q] = home[q] /\ token'[q] = token[q] /\ bearer'[q] = bearer[q]
               /\ began'[q] = began[q] /\ issued'[q] = issued[q]
         /\ pc[r] \notin Final /\ pc'[r] # "idle"
         /\ pc[r] # "idle" => /\ input' = input /\ home' = home /\ bearer' = bearer
                              /\ began' = began
<1>1. StepOf(r) /\ TypeOK
  BY DEF SessionStepOf, StepOf, BeginSession, AdvanceSession, IInv
<1>2. /\ \A q \in Requests \ {r} :
            /\ home'[q] = home[q] /\ token'[q] = token[q] /\ bearer'[q] = bearer[q]
            /\ began'[q] = began[q] /\ issued'[q] = issued[q]
      /\ pc[r] # "idle" => home' = home /\ bearer' = bearer /\ began' = began
  BY DEF SessionStepOf, BeginSession, BeginPublic, BeginGateway, BeginBearer, AdvanceSession,
     SessionTypeOK, tokenVars, Begin, Step
<1> QED
  BY <1>1, <1>2, StepFrame, RowsStay

\* A login signs once, with the clock of its replica.
LEMMA SignedStep ==
  ASSUME IInv, AuditInv, SessionInv, NEW r \in Requests, SessionStepOf(r)
  PROVE  Signed(r)'
<1>1. /\ TypeOK /\ SessionTypeOK /\ RowsKept /\ LocalsTrue(r) /\ Sectioned(r) /\ Signed(r)
      /\ pc[r] # "idle" => input' = input /\ home' = home
  BY SessionFrame DEF IInv, AuditInv, SessionInv
<1>2. CASE Abort(r)
  BY <1>1, <1>2 DEF Abort, TypeOK, Signed, Issued, LoggedIn
<1>3. ASSUME NEW a \in Inputs, Begin(r, a) PROVE Signed(r)'
  <2>1. pc'[r] = FirstStep(a)
    BY <1>1, <1>3 DEF Begin, Step, TypeOK
  <2>2. FirstStep(a) \notin {"login_success", "login_reload", "ok"}
    BY DEF FirstStep
  <2> QED
    BY <2>1, <2>2 DEF Signed, Issued, LoggedIn
<1>4. CASE AdvanceSession(r) /\ (RegisterNext(r) \/ AuthNext(r) \/ UpdateNext(r))
  BY <1>1, <1>4, OtherSteps DEF Sectioned, OtherLabels, LoginLabels, Final, Labels, Signed, Issued, LoggedIn
<1>5. CASE AdvanceSession(r) /\ LoginNext(r)
  <2> PICK i : i = who[r].id
    OBVIOUS
  <2>1. CASE LoginTouch(r)
    <3>1. /\ pc[r] = "login_touch" /\ pc'[r] = "login_success" /\ who' = who /\ home' = home
          /\ UserExists(i) /\ who[r].role = users[i].role
      BY <1>1, <1>5, <2>1 DEF LoginTouch, Step, TypeOK, localVars, LocalsTrue, HoldsAccount, AdvanceSession
    <3>2. token'[r] = IssueToken(who[r], now + Ahead[home[r]]) /\ issued'[r] = now
      BY <1>1, <1>5, <3>1 DEF AdvanceSession, Issues, SessionTypeOK, Clock
    <3>3. UserExists(i)' /\ who'[r].role = users'[i].role
      BY <1>1, <3>1 DEF RowsKept, Grows, UserExists
    <3> QED
      BY <3>1, <3>2, <3>3 DEF Signed
  <2>2. CASE LoginSuccess(r) \/ LoginReload(r)
    <3>1. /\ pc[r] \in {"login_success", "login_reload"} /\ who' = who /\ users' = users
      BY <2>2 DEF LoginSuccess, LoginReload, Step, localVars, storeVars, CreateLoginAuditLog
    <3>2. token' = token /\ issued' = issued /\ home' = home
      BY <1>1, <1>5, <3>1 DEF AdvanceSession, Issues
    <3> QED
      BY <1>1, <3>1, <3>2 DEF Signed, Issued, UserExists
  <2>3. CASE LoginLookup(r) \/ LoginProfile(r) \/ LoginReject(r)
    <3>1. pc'[r] \notin {"login_success", "login_reload", "ok"}
      BY <1>1, <2>3 DEF LoginLookup, LoginProfile, LoginReject, Step, TypeOK, LoginUserVerdict,
         LoginProfileVerdict
    <3> QED
      BY <3>1 DEF Signed, Issued, LoggedIn
  <2> QED
    BY <1>5, <2>1, <2>2, <2>3 DEF LoginNext
<1> QED
  BY <1>2, <1>3, <1>4, <1>5 DEF SessionStepOf, BeginSession, AdvanceSession, Advance

\* Only the lookup of a claim's account goes on to its profile.
LEMMA OnlyAuthUser ==
  ASSUME TypeOK, NEW r \in Requests, Advance(r) \/ Abort(r), ~ AuthUser(r)
  PROVE  pc'[r] # "auth_profile"
<1> USE DEF TypeOK, Step
<1>1. CASE RegisterNext(r)
  BY <1>1 DEF RegisterNext, RegisterLookup, RegisterInsert, RegisterDuplicate, RegisterProfile, AfterInsert
<1>2. CASE LoginNext(r)
  BY <1>2 DEF LoginNext, LoginLookup, LoginProfile, LoginTouch, LoginSuccess, LoginReload,
     LoginReject, LoginUserVerdict, LoginProfileVerdict
<1>3. CASE AuthNext(r)
  BY <1>3 DEF AuthNext, AuthProfile, Logout, MeUser, MeProfile, AdmittedStep, EnsureRoles
<1>4. CASE UpdateNext(r)
  BY <1>4 DEF UpdateNext, UpdateTarget, SelectProfile, CommitProfile, SelectUser, CommitUser,
     UpdateTargetVerdict, SelectedProfile
<1>5. CASE Abort(r)
  BY <1>5 DEF Abort
<1> QED
  BY <1>1, <1>2, <1>3, <1>4, <1>5 DEF Advance

\* A call takes a token that was issued, and keeps the claim it made with it.
LEMMA CarriedStep ==
  ASSUME IInv, SessionInv, NEW r \in Requests, SessionStepOf(r)
  PROVE  Carried(r)'
<1>1. /\ TypeOK /\ SessionTypeOK /\ Carried(r) /\ pc[r] \notin Final /\ pc'[r] # "idle"
      /\ \A q \in Requests \ {r} : pc'[q] = pc[q] /\ input'[q] = input[q] /\ token'[q] = token[q]
      /\ pc[r] # "idle" => input' = input /\ home' = home /\ bearer' = bearer /\ began' = began
  BY SessionFrame DEF IInv, SessionInv
<1>2. CASE pc[r] # "idle"
  <2> SUFFICES ASSUME Bearer(r)' PROVE Carried(r)'
    BY DEF Carried
  <2>1. /\ bearer[r] \in Requests \ {r} /\ LoggedIn(bearer[r]) /\ input[r].claim # NoClaim
    BY <1>1, <1>2 DEF Bearer, Carried, LoggedIn, Final, SessionTypeOK
  <2> PICK b : b = bearer[r]
    OBVIOUS
  <2>2. b \in Requests \ {r} /\ bearer'[r] = b /\ LoggedIn(b)' /\ token'[b] = token[b]
    BY <1>1, <1>2, <2>1 DEF LoggedIn
  <2>3. pc'[r] = "auth_profile" => who'[r].id = input[r].claim.id
    <3>1. CASE AuthUser(r)
      BY <1>1, <3>1 DEF AuthUser, Step, TypeOK, Snapshot
    <3>2. CASE ~ AuthUser(r)
      <4>1. Advance(r) \/ Abort(r)
        BY <1>2 DEF SessionStepOf, BeginSession, Begin, Step, AdvanceSession
      <4> QED
        BY <1>1, <3>2, <4>1, OnlyAuthUser
    <3> QED
      BY <3>1, <3>2
  <2> QED
    BY <1>1, <1>2, <2>1, <2>2, <2>3 DEF Carried, Bearer
<1>3. CASE pc[r] = "idle"
  <2>1. PICK a \in Inputs : BeginSession(r, a)
    BY <1>3 DEF SessionStepOf, AdvanceSession, Advance, Abort, InFlight, RegisterNext, LoginNext, AuthNext,
       UpdateNext, RegisterLookup, RegisterInsert, RegisterDuplicate, RegisterProfile, LoginLookup,
       LoginProfile, LoginTouch, LoginSuccess, LoginReload, LoginReject, AuthUser, AuthProfile,
       Logout, MeUser, MeProfile, UpdateTarget, SelectProfile, CommitProfile, SelectUser, CommitUser,
       Step
  <2>2. CASE bearer' = bearer
    BY <1>1, <1>3, <2>2 DEF Carried, Bearer
  <2>3. CASE BeginBearer(r, a)
    <3>1. PICK b \in Requests, p \in Replicas :
             /\ LoggedIn(b)
             /\ a.claim = DecodedClaim(token[b], Clock(p))
             /\ home' = [home EXCEPT ![r] = p]
             /\ bearer' = [bearer EXCEPT ![r] = b]
      BY <2>3 DEF BeginBearer
    <3>2. b # r /\ pc'[r] = FirstStep(a) /\ input'[r] = a
      BY <1>1, <1>3, <2>1, <3>1 DEF LoggedIn, BeginSession, Begin, Step, TypeOK
    <3>3. LoggedIn(b)' /\ token'[b] = token[b] /\ bearer'[r] = b
      BY <1>1, <3>1, <3>2 DEF LoggedIn, SessionTypeOK
    <3>4. began'[r] = now /\ home'[r] = p /\ a.op \notin {"register", "login"}
      BY <1>1, <2>3, <3>1 DEF BeginBearer, SessionTypeOK
    <3>5. a.claim = DecodedClaim(token'[b], began'[r] + Ahead[home'[r]])
      BY <3>1, <3>3, <3>4 DEF Clock
    <3>6. FirstStep(a) \in {"auth_user", "unauthenticated"} /\ (a.claim = NoClaim => FirstStep(a) = "unauthenticated")
      BY <3>4 DEF FirstStep
    <3> QED
      BY <1>1, <3>2, <3>3, <3>4, <3>5, <3>6 DEF Carried
  <2> QED
    BY <2>1, <2>2, <2>3 DEF BeginSession, BeginPublic, BeginGateway, tokenVars
<1> QED
  BY <1>2, <1>3

\* While its account is enabled, a claim that was decoded is not refused.
LEMMA WelcomedStep ==
  ASSUME IInv, AuditInv, SessionInv, NEW r \in Requests, Advance(r) \/ Abort(r),
         Enabled(r), input[r].claim # NoClaim
  PROVE  pc'[r] # "unauthenticated"
<1> PICK b : b = bearer[r]
  OBVIOUS
<1> PICK i : i = token[b].sub
  OBVIOUS
<1>1. /\ TypeOK /\ SessionTypeOK /\ LocalsTrue(r) /\ Sectioned(r) /\ Carried(r)
      /\ b \in Requests /\ Signed(b) /\ Phase(i) = "enabled"
  BY DEF IInv, AuditInv, SessionInv, SessionTypeOK, Enabled
<1>2. /\ LoggedIn(b) /\ input[r].op \notin {"register", "login"}
      /\ input[r].claim = [id |-> token[b].sub, role |-> token[b].role]
      /\ pc[r] = "auth_profile" => who[r].id = i
  BY <1>1 DEF Enabled, Carried, Bearer, DecodedClaim
<1>3. UserExists(i) /\ token[b].role = users[i].role
  BY <1>1, <1>2 DEF Signed, Issued, IssueToken
<1>4. /\ users[i].status = "ACTIVE"
      /\ users[i].role = "WORKER" => ProfileExists(i) /\ profiles[i] = "ON_DUTY"
  BY <1>1 DEF Phase
<1>5. CASE RegisterNext(r)
  BY <1>1, <1>5 DEF RegisterNext, RegisterLookup, RegisterInsert, RegisterDuplicate, RegisterProfile,
     AfterInsert, Step, TypeOK
<1>6. CASE LoginNext(r)
  <2>1. pc[r] \in LoginLabels
    BY <1>6 DEF LoginNext, LoginLookup, LoginProfile, LoginTouch, LoginSuccess, LoginReload,
       LoginReject, Step, LoginLabels
  <2> QED
    BY <1>1, <1>2, <2>1 DEF Sectioned
<1>7. CASE AuthUser(r)
  <2>1. AuthUserVerdict(input[r].claim) = "auth_profile"
    BY <1>2, <1>3, <1>4 DEF AuthUserVerdict
  <2> QED
    BY <1>1, <1>7, <2>1 DEF AuthUser, Step, TypeOK
<1>8. CASE AuthProfile(r)
  <2>1. who[r].id = i /\ who[r].role = users[i].role
    BY <1>1, <1>2, <1>8 DEF AuthProfile, Step, LocalsTrue, HoldsAccount
  <2>2. ProfileAdmits(who[r])
    BY <1>4, <2>1 DEF ProfileAdmits
  <2> QED
    BY <1>1, <1>8, <2>2 DEF AuthProfile, Step, TypeOK, AdmittedStep, EnsureRoles
<1>9. CASE Logout(r) \/ MeUser(r) \/ MeProfile(r)
  BY <1>1, <1>9 DEF Logout, MeUser, MeProfile, Step, TypeOK
<1>10. CASE UpdateNext(r)
  BY <1>1, <1>10 DEF UpdateNext, UpdateTarget, SelectProfile, CommitProfile, SelectUser, CommitUser,
     UpdateTargetVerdict, SelectedProfile, Step, TypeOK
<1>11. CASE Abort(r)
  BY <1>1, <1>11 DEF Abort, TypeOK
<1> QED
  BY <1>5, <1>6, <1>7, <1>8, <1>9, <1>10, <1>11 DEF Advance, AuthNext

-----------------------------------------------------------------------------
(* Every step.                                                             *)

\* What others do takes nothing from a login or a call.
LEMMA OthersSession ==
  ASSUME IInv, SessionInv, NEW s \in Requests, SessionStepOf(s), NEW q \in Requests \ {s}
  PROVE  Signed(q)' /\ Carried(q)'
<1>1. /\ RowsKept /\ pc[s] \notin Final /\ Signed(q) /\ Carried(q) /\ SessionTypeOK
      /\ \A r \in Requests \ {s} :
            /\ pc'[r] = pc[r] /\ input'[r] = input[r] /\ who'[r] = who[r]
            /\ home'[r] = home[r] /\ token'[r] = token[r] /\ bearer'[r] = bearer[r]
            /\ began'[r] = began[r] /\ issued'[r] = issued[r]
  BY SessionFrame DEF SessionInv
<1>2. Signed(q)'
  <2> PICK i : i = who[q].id
    OBVIOUS
  <2>1. UserExists(i) => UserExists(i)' /\ users'[i].role = users[i].role
    BY <1>1 DEF RowsKept, Grows, UserExists
  <2> QED
    BY <1>1, <2>1 DEF Signed, Issued, LoggedIn
<1>3. Carried(q)'
  <2> SUFFICES ASSUME Bearer(q)' PROVE Carried(q)'
    BY DEF Carried
  <2> PICK b : b = bearer[q]
    OBVIOUS
  <2>1. b \in Requests \ {s} /\ LoggedIn(b)
    BY <1>1 DEF Bearer, Carried, LoggedIn, Final, SessionTypeOK
  <2>2. LoggedIn(b)' /\ token'[b] = token[b] /\ bearer'[q] = b
    BY <1>1, <2>1 DEF LoggedIn
  <2> QED
    BY <1>1, <2>2 DEF Carried, Bearer
<1> QED
  BY <1>2, <1>3

\* Who was welcome stays welcome, and who begins with a good token is.
LEMMA WelcomeKept ==
  ASSUME IInv, AuditInv, SessionInv, NEW s \in Requests, SessionStepOf(s), Watch,
         NEW r \in open', Carried(r)'
  PROVE  Welcome(r)'
<1>1. /\ r \in Requests /\ SessionTypeOK /\ pc[s] \notin Final /\ pc'[s] # "idle"
      /\ r # s => pc'[r] = pc[r] /\ input'[r] = input[r] /\ bearer'[r] = bearer[r]
      /\ pc[s] # "idle" => input' = input /\ bearer' = bearer
      /\ r \in open => Welcome(r)
  BY SessionFrame DEF Watch, SessionInv
<1>2. CASE r \in open /\ ~ InFlight(r)
  BY <1>1, <1>2 DEF Welcome, InFlight, Bearer
<1>3. CASE r \in open /\ InFlight(r) /\ Enabled(r)'
  <2>1. pc[r] # "idle" /\ Enabled(r) /\ Bearer(r)' /\ input'[r] = input[r]
    BY <1>1, <1>3 DEF Welcome, Enabled, Bearer, InFlight
  <2>2. CASE r # s
    BY <1>1, <1>3, <2>1, <2>2 DEF Welcome
  <2>3. CASE r = s
    <3>1. Advance(s) \/ Abort(s)
      BY <2>1, <2>3 DEF SessionStepOf, BeginSession, Begin, Step, AdvanceSession
    <3>2. input[r].claim # NoClaim => pc'[r] # "unauthenticated"
      BY <1>1, <2>1, <2>3, <3>1, WelcomedStep
    <3> QED
      BY <1>1, <1>3, <2>1, <2>3, <3>2 DEF Welcome
  <2> QED
    BY <2>2, <2>3
<1>4. CASE pc[r] = "idle" /\ Enabled(r)'
  <2>1. Bearer(r)' /\ pc'[r] # "idle"
    BY <1>4 DEF Enabled, Carried, Bearer
  <2>2. r = s
    BY <1>1, <1>4, <2>1
  <2>3. PICK a \in Inputs : Begin(r, a)
    BY <1>4, <2>2 DEF SessionStepOf, BeginSession, AdvanceSession, Advance, Abort, InFlight, RegisterNext,
       LoginNext, AuthNext, UpdateNext, RegisterLookup, RegisterInsert, RegisterDuplicate,
       RegisterProfile, LoginLookup, LoginProfile, LoginTouch, LoginSuccess, LoginReload, LoginReject,
       AuthUser, AuthProfile, Logout, MeUser, MeProfile, UpdateTarget, SelectProfile, CommitProfile,
       SelectUser, CommitUser, Step
  <2>4. pc'[r] = FirstStep(a) /\ input'[r] = a
    BY <1>1, <2>3 DEF Begin, Step, IInv, TypeOK
  <2>5. a.op \notin {"register", "login"}
    BY <2>1, <2>4 DEF Carried
  <2>6. a.claim # NoClaim => pc'[r] # "unauthenticated"
    BY <2>4, <2>5 DEF FirstStep
  <2> QED
    BY <1>1, <1>4, <2>1, <2>4, <2>6 DEF Welcome
<1> QED
  BY <1>1, <1>2, <1>3, <1>4 DEF Watch, InFlight, Welcome

\* A tick and a step of nobody change nothing of it.
LEMMA QuietSession ==
  ASSUME SessionInv, SessionTypeOK', UNCHANGED <<vars, home, tokenVars>>,
         \A r \in open' : r \in open \/ (r \in Requests /\ pc[r] = "idle" /\ Enabled(r)')
  PROVE  SessionInv'
<1>1. \A q \in Requests : Signed(q)' /\ Carried(q)'
  BY DEF SessionInv, Signed, Carried, Issued, LoggedIn, Bearer, UserExists, vars, tokenVars
<1>2. ASSUME NEW r \in open' PROVE Welcome(r)'
  <2>1. r \in open
    BY <1>1, <1>2 DEF Enabled, Carried, Bearer, vars
  <2> QED
    BY <2>1 DEF SessionInv, Welcome, Bearer, InFlight, Enabled, Phase, ProfileExists, vars, tokenVars
<1> QED
  BY <1>1, <1>2 DEF SessionInv

LEMMA SessionKeeps == IInv /\ AuditInv /\ SessionInv /\ [SessionNext]_sessionVars => SessionInv'
<1> SUFFICES ASSUME IInv, AuditInv, SessionInv, [SessionNext]_sessionVars PROVE SessionInv'
  OBVIOUS
<1>1. CASE UNCHANGED sessionVars
  <2>1. SessionTypeOK' /\ UNCHANGED <<vars, home, tokenVars>> /\ open' = open
    BY <1>1 DEF SessionInv, SessionTypeOK, sessionVars, tokenVars
  <2> QED
    BY <2>1, QuietSession
<1>2. CASE SessionNext
  <2>1. SessionTypeOK' /\ Watch
    BY <1>2, SessionTypesKept DEF SessionNext, SessionInv
  <2>2. CASE UNCHANGED <<vars, home, tokenVars>>
    BY <2>1, <2>2, QuietSession DEF Watch
  <2>3. ASSUME NEW s \in Requests, SessionStepOf(s) PROVE SessionInv'
    <3>1. \A q \in Requests : Signed(q)' /\ Carried(q)'
      BY <2>3, OthersSession, SignedStep, CarriedStep
    <3>2. open' \subseteq Requests
      BY <2>1 DEF Watch
    <3>3. \A r \in open' : Welcome(r)'
      BY <2>1, <2>3, <3>1, <3>2, WelcomeKept
    <3> QED
      BY <2>1, <3>1, <3>3 DEF SessionInv
  <2> QED
    BY <1>2, <2>2, <2>3 DEF SessionNext, SessionStepOf, AllAnswered
<1> QED
  BY <1>1, <1>2

LEMMA SessionInvariance == SessionSpec => []SessionInv
BY SessionStart, SessionKeeps, SessionSound, PTL DEF SessionSpec

-----------------------------------------------------------------------------
(* The results.                                                            *)

\* What a token and the call that carries it have to do with each other: the
\* times are those of two replicas, and only the issue rounds.
LEMMA Carrying ==
  ASSUME SessionInv, NEW r \in Requests, Bearer(r)
  PROVE  \E b \in Requests, early, late \in 0..MaxSkew :
            /\ b = bearer[r]
            /\ began[r] \in Nat /\ issued[b] \in Nat
            /\ token[b] = IssueToken(who[b], issued[b] + early)
            /\ input[r].claim = DecodedClaim(token[b], began[r] + late)
<1>1. /\ SessionTypeOK /\ Carried(r) /\ bearer[r] \in Requests /\ Signed(bearer[r])
  BY DEF SessionInv, SessionTypeOK, Bearer
<1>2. home[r] \in Replicas /\ home[bearer[r]] \in Replicas
  BY <1>1 DEF SessionTypeOK
<1>3. Ahead[home[r]] \in 0..MaxSkew /\ Ahead[home[bearer[r]]] \in 0..MaxSkew
  BY <1>2, ClockAssumption
<1> QED
  BY <1>1, <1>3 DEF Carried, Signed, Issued, SessionTypeOK

\* A token is worth nothing once its time to live and the skew have passed, with
\* any clocks and however many calls.
THEOREM TokensExpire == SessionSpec => []TokenExpires
<1>1. SessionInv => TokenExpires
  <2> SUFFICES ASSUME SessionInv, NEW r \in Requests, Bearer(r),
                      began[r] >= IssuedAt(r) + Lifetime + MaxSkew
               PROVE  pc[r] = "unauthenticated"
    BY DEF TokenExpires
  <2>1. PICK b \in Requests, early \in 0..MaxSkew, late \in 0..MaxSkew :
           /\ b = bearer[r]
           /\ began[r] \in Nat /\ issued[b] \in Nat
           /\ token[b] = IssueToken(who[b], issued[b] + early)
           /\ input[r].claim = DecodedClaim(token[b], began[r] + late)
    BY Carrying
  <2>2. WholeSecond(issued[b] + early + Lifetime) <= issued[b] + early + Lifetime
        /\ WholeSecond(issued[b] + early + Lifetime) \in Int
    BY <2>1, LifetimeNat, Rounding
  <2>3. ~ Decodes(token[b], began[r] + late)
    BY <2>1, <2>2, LifetimeNat, ClockAssumption DEF Decodes, IssueToken, IssuedAt
  <2> QED
    BY <2>1, <2>3 DEF DecodedClaim, SessionInv, Carried
<1> QED
  BY <1>1, SessionInvariance, PTL

\* Until then, and while its account is enabled, it is good on every replica.
THEOREM TokensHonoured == SessionSpec => []TokenHonoured
<1>1. IInv /\ SessionInv => TokenHonoured
  <2> SUFFICES ASSUME IInv, SessionInv, NEW r \in open,
                      IssuedAt(r) + MaxSkew <= began[r],
                      began[r] + MaxSkew + TicksPerSecond <= IssuedAt(r) + Lifetime
               PROVE  pc[r] # "unauthenticated"
    BY DEF TokenHonoured
  <2>1. Welcome(r) /\ r \in Requests /\ Bearer(r)
    BY DEF SessionInv, Welcome
  <2>2. PICK b \in Requests, early \in 0..MaxSkew, late \in 0..MaxSkew :
           /\ b = bearer[r]
           /\ began[r] \in Nat /\ issued[b] \in Nat
           /\ token[b] = IssueToken(who[b], issued[b] + early)
           /\ input[r].claim = DecodedClaim(token[b], began[r] + late)
    BY <2>1, Carrying
  <2>3. issued[b] + early \in Nat /\ issued[b] + early + Lifetime \in Nat
    BY <2>2, LifetimeNat, ClockAssumption
  <2>4. /\ WholeSecond(issued[b] + early) <= issued[b] + early
        /\ WholeSecond(issued[b] + early) \in Int
        /\ issued[b] + early + Lifetime < WholeSecond(issued[b] + early + Lifetime) + TicksPerSecond
        /\ WholeSecond(issued[b] + early + Lifetime) \in Int
    BY <2>3, Rounding
  <2>5. Decodes(token[b], began[r] + late)
    BY <2>2, <2>4, LifetimeNat, TokenAssumption, ClockAssumption DEF Decodes, IssueToken, IssuedAt
  <2>6. input[r].claim = [id |-> who[b].id, role |-> who[b].role]
    BY <2>2, <2>5 DEF DecodedClaim, IssueToken
  <2>7. who[b].id \in Nat /\ who[b].role \in Roles
    <3>1. Signed(b) /\ LoggedIn(b) /\ StoreTypeOK /\ TypeOK
      BY <2>1, <2>2 DEF SessionInv, Carried, IInv, TypeOK
    <3> QED
      BY <3>1, RowFields DEF Signed, Issued, UserExists, TypeOK
  <2>8. input[r].claim # NoClaim
    BY <2>6, <2>7, ClaimAssumption DEF Claims
  <2> QED
    BY <2>1, <2>8 DEF Welcome
<1> QED
  BY <1>1, SessionInvariance, SessionSound, PTL
=============================================================================
