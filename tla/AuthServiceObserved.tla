------------------------- MODULE AuthServiceObserved -------------------------
(***************************************************************************)
(* AuthService with four history variables, for the promises that relate   *)
(* an outcome to everything that happened while it was worked out.  They   *)
(* only watch: every step of AuthService is taken as it is.                *)
(***************************************************************************)
EXTENDS AuthService

VARIABLES
    shut,    \* the requests whose account was shut ever since they began
    alone,   \* the updates nobody else's update of that worker overlapped
    settled, \* <<worker, status>> of updates that ran alone, until the next
    earlier  \* the logins answered before each login began

observedVars == <<vars, shut, alone, settled, earlier>>

ObservedTypeOK ==
    /\ TypeOK
    /\ shut \subseteq Requests
    /\ alone \subseteq Requests
    /\ settled \subseteq (DOMAIN users) \X EmploymentStatuses
    /\ earlier \in [Requests -> SUBSET Requests]

\* The account a request is made for.
Concerns(r, i) ==
    IF input[r].op = "login" THEN SameEmail(users[i].email, Email(r))
    ELSE input[r].op # "register" /\ input[r].claim # NoClaim /\ input[r].claim.id = i

Updating(r, i) == pc[r] \in WriteSection /\ input[r].target = i

\* A worker who is not enabled, and whom nobody is enabling or completing.
AccountShut(i) ==
    /\ Phase(i) # "enabled"
    /\ \A r \in Requests :
          /\ ~ (Updating(r, i) /\ input[r].status = "ON_DUTY")
          /\ ~ (pc[r] = "register_profile" /\ who[r].id = i)

ShutOut(r) == \E i \in DOMAIN users : Concerns(r, i) /\ AccountShut(i)

Overlapped(r) == \E q \in Requests \ {r} : Updating(q, input[r].target)

\* A login its client got the answer to.
LoggedIn(q) == pc[q] = "ok" /\ input[q].op = "login"

ObservedInit ==
    /\ Init
    /\ shut = {}
    /\ alone = {}
    /\ settled = {}
    /\ earlier = [r \in Requests |-> {}]

\* What the history remembers of a step from what held before and after it.
Observe ==
    /\ shut' = {r \in Requests :
                  \/ r \in shut /\ ~ InFlight(r)
                  \/ r \in shut /\ ShutOut(r)'
                  \/ pc[r] = "idle" /\ pc'[r] # "idle" /\ ShutOut(r)'}
    /\ alone' = {r \in Requests :
                   /\ pc'[r] \in WriteSection
                   /\ pc[r] \in WriteSection => r \in alone
                   /\ ~ Overlapped(r)'}
    /\ settled' = {p \in settled : \A r \in Requests : ~ Updating(r, p[1])'}
                  \cup {<<input[r].target, input[r].status>> :
                          r \in {q \in alone : pc'[q] = "ok"}}
    /\ earlier' = [r \in Requests |->
                      IF pc[r] = "idle" /\ input'[r] # NoInput /\ input'[r].op = "login"
                      THEN {q \in Requests : LoggedIn(q)} ELSE earlier[r]]

ObservedSpec == ObservedInit /\ [][Next /\ Observe]_observedVars

-----------------------------------------------------------------------------

Refused == {"invalid", "unauthenticated", "forbidden", "not_found", "failed"}

\* A worker who is disabled, or has no profile, all the while a login or a call
\* of theirs is under way is turned away, although both are decided from two
\* tables read one after the other while updates write them one after the
\* other, possibly died half way, and left them apart.
DisabledStaysOut ==
    \A r \in shut : pc[r] \in Refused \cup
        {"login_lookup", "login_profile", "login_reject", "auth_user", "auth_profile"}

\* An update nobody overlapped takes effect in both tables, and stays until
\* somebody updates that worker again: no stale SELECT of an earlier session,
\* no login or registration undoes it.
LastUpdateWins ==
    \A p \in settled :
        /\ profiles[p[1]] = p[2]
        /\ users[p[1]].status = "ACTIVE" <=> p[2] = "ON_DUTY"

\* login takes the clock a round trip before it writes last_login_at, compares
\* nothing and may die once it has written.  Even so, once a login is answered
\* its account shows that login or one that was not over when it began: only
\* logins that overlap, and clocks that differ, make last_login_at go back.
LastLoginCurrent ==
    \A q \in Requests : LoggedIn(q) =>
        /\ users[who[q].id].lastLogin # NoRequest
        /\ users[who[q].id].lastLogin \notin earlier[q]
=============================================================================
