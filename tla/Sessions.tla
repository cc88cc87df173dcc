------------------------------- MODULE Sessions -------------------------------
(***************************************************************************)
(* AuthService with the access tokens its logins hand out: a login on one  *)
(* replica, calls that carry its token to any other, whose clock may       *)
(* differ, while the account is disabled and enabled and its owner logs    *)
(* out.                                                                    *)
(*                                                                         *)
(* Every step but a tick is a step of AuthService; the claim a call begins *)
(* with is what its token says, or what the gateway vouches for.           *)
(***************************************************************************)
EXTENDS AuthService, AccessToken, Clocks

CONSTANT GatewayCalls   \* the calls that come by gRPC, with an identity in metadata

VARIABLES
    home,            \* the replica that runs each request
    token,           \* the token each login issued
    bearer,          \* the login whose token a request carries
    began, issued,   \* history: when a bearer began, when a login issued
    open             \* history: the bearers enabled ever since their request began

tokenVars == <<token, bearer, began, issued>>
sessionVars == <<vars, now, home, tokenVars, open>>

NoToken == [sub |-> NoUser, role |-> "UNSPECIFIED", iat |-> 0, exp |-> 0]

SessionInit ==
    /\ Init
    /\ now \in Epochs
    /\ home = [r \in Requests |-> CHOOSE p \in Replicas : TRUE]
    /\ token = [r \in Requests |-> NoToken]
    /\ bearer = [r \in Requests |-> NoRequest]
    /\ began = [r \in Requests |-> 0]
    /\ issued = [r \in Requests |-> 0]
    /\ open = {}

-----------------------------------------------------------------------------

\* A login the client got its answer to, and with it the token.
LoggedIn(q) == pc[q] = "ok" /\ input[q].op = "login"

DecodedClaim(t, reading) ==
    IF Decodes(t, reading) THEN [id |-> t.sub, role |-> t.role] ELSE NoClaim

BeginPublic(r, a) ==
    /\ a.op \in {"register", "login"}
    /\ \E p \in Replicas : home' = [home EXCEPT ![r] = p]
    /\ UNCHANGED <<now, tokenVars>>

BeginGateway(r, a) ==
    /\ a \in GatewayCalls
    /\ UNCHANGED <<now, home, tokenVars>>

BeginBearer(r, a) ==
    /\ a.op \notin {"register", "login"}
    /\ \E q \in Requests, p \in Replicas :
          /\ LoggedIn(q)
          /\ a.claim = DecodedClaim(token[q], Clock(p))
          /\ home' = [home EXCEPT ![r] = p]
          /\ bearer' = [bearer EXCEPT ![r] = q]
    /\ began' = [began EXCEPT ![r] = now]
    /\ UNCHANGED <<now, token, issued>>

BeginSession(r, a) ==
    /\ Begin(r, a)
    /\ BeginPublic(r, a) \/ BeginGateway(r, a) \/ BeginBearer(r, a)

\* login issues the token once last_login_at is written, of the row it read
\* when it began.
Issues(r) == pc[r] = "login_touch" /\ pc'[r] = "login_success"

AdvanceSession(r) ==
    /\ Advance(r)
    /\ IF Issues(r)
       THEN /\ token' = [token EXCEPT ![r] = IssueToken(who[r], Clock(home[r]))]
            /\ issued' = [issued EXCEPT ![r] = now]
       ELSE UNCHANGED <<token, issued>>
    /\ UNCHANGED <<now, home, bearer, began>>

Enabled(r) == bearer[r] # NoRequest /\ Phase(token[bearer[r]].sub) = "enabled"

\* The calls whose bearer was enabled in every state since they began.
Watch ==
    open' = {r \in Requests :
               \/ r \in open /\ ~ InFlight(r)
               \/ (r \in open \/ pc[r] = "idle") /\ Enabled(r)'}

SessionNext ==
    /\ \/ Tick /\ UNCHANGED <<vars, home, tokenVars>>
       \/ \E r \in Requests :
             \/ \E a \in Inputs : BeginSession(r, a)
             \/ AdvanceSession(r)
             \/ Abort(r) /\ UNCHANGED <<now, home, tokenVars>>
       \/ AllAnswered /\ UNCHANGED <<now, home, tokenVars>>
    /\ Watch

SessionSpec == SessionInit /\ [][SessionNext]_sessionVars

-----------------------------------------------------------------------------

Bearer(r) == bearer[r] # NoRequest
IssuedAt(r) == issued[bearer[r]]

\* "Access token itself remains valid until expiration"
\* (transport/http/auth_router.py:83), whoever logged out meanwhile: a call that
\* carries a token is not refused while its account is enabled, save within the
\* clock skew of the token's issue, and within the skew and one rounded-off
\* second of its end.
TokenHonoured ==
    \A r \in open :
        (/\ IssuedAt(r) + MaxSkew <= began[r]
         /\ began[r] + MaxSkew + TicksPerSecond <= IssuedAt(r) + Lifetime)
        => pc[r] # "unauthenticated"

\* A token is good for nothing once its time to live and the skew have passed,
\* on every replica, whatever it was first used for.
TokenExpires ==
    \A r \in Requests :
        (Bearer(r) /\ began[r] >= IssuedAt(r) + Lifetime + MaxSkew)
        => pc[r] = "unauthenticated"
=============================================================================
