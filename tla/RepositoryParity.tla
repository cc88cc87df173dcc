--------------------------- MODULE RepositoryParity ---------------------------
(***************************************************************************)
(* What tests against the in-memory repository say about the service over  *)
(* SQL: two deployments get the same calls, one after another.  Over SQL a *)
(* call makes its round trips, alone; in memory it is one step.  They part *)
(* where the schema has the last word: dictionaries have no column widths, *)
(* and their keys no collation.  Transports is the specification that      *)
(* takes these steps; a coroutine that dies (Abort) is no part of the      *)
(* comparison, one whose values overflow is.                               *)
(***************************************************************************)
EXTENDS MemoryService

VARIABLES
    memory,   \* the dictionaries of the in-memory deployment
    seeded,   \* how many of the Seeds its start has gone through
    reply     \* what it answered

parityVars == <<vars, memory, seeded, reply>>

ParityInit ==
    /\ Init
    /\ DOMAIN profiles = SeededWorkers     \* every start over SQL ran to its end
    /\ memory = EmptyMemory
    /\ seeded = 0
    /\ reply = [r \in Requests |-> "none"]

\* A dictionary is seeded before the servers are built.
SeedMemory ==
    /\ seeded < Len(Seeds)
    /\ seeded' = seeded + 1
    /\ memory' = SeedUser(memory, Seeds[seeded + 1])
    /\ UNCHANGED <<vars, reply>>

Alone == \A r \in Requests : ~ InFlight(r)
Quiet == seeded = Len(Seeds) /\ Alone

BeginBoth(r, a) ==
    /\ Quiet
    /\ Begin(r, a)
    /\ LET answer == ServiceCall(memory, r, a) IN
          /\ memory' = answer.memory
          /\ reply' = [reply EXCEPT ![r] = answer.out]
    /\ UNCHANGED seeded

\* Over SQL alone, a value is too wide for its column.
OverflowOverSql(r) == Overflow(r) /\ UNCHANGED <<memory, seeded, reply>>

-----------------------------------------------------------------------------
(* Where the schema of the database has nothing to say.                    *)

Fits(a) == /\ NormalizeEmail(a.address) \notin WideEmails
           /\ a.name # "wide" /\ a.agent # "wide"

Given == {r \in Requests : pc[r] # "idle"}

\* The e-mails of the seeds and of the calls made.
InUse == ({Seeds[k].email : k \in 1..Len(Seeds)} \cup {Email(r) : r \in Given}) \ {NoEmail}

\* What the calls so far sent fits the columns, and the collation tells their
\* e-mails apart.
Ordinary ==
    /\ \A r \in Given : Fits(input[r])
    /\ \A e, f \in InUse : SameEmail(e, f) => e = f

-----------------------------------------------------------------------------

\* Calls that do not overlap get the same answers from both deployments, after
\* any calls before them.  A test that passes in memory fails over SQL only for
\* a value beyond its column or an e-mail the collation equates with another:
\* the first of these and all that follows it, nothing else.
SameAnswers == Ordinary => \A r \in Requests : pc[r] \in Final => reply[r] = pc[r]

\* And they leave the same rows: accounts with the same ids, profiles, statuses,
\* last logins, and the same audit log.
SameRows ==
    Ordinary /\ Quiet =>
        /\ users = memory.users
        /\ profiles = memory.profiles
        /\ nextId = memory.seq + 1
        /\ audit = memory.logs

\* Dictionaries that agree with each other.
Sound(m) ==
    /\ DOMAIN m.byEmail = {m.users[i].email : i \in DOMAIN m.users}
    /\ \A i \in DOMAIN m.users : m.byEmail[m.users[i].email] = i
    /\ \A i \in DOMAIN m.users : m.users[i].role = "WORKER" =>
          /\ Profiled(m, i)
          /\ m.users[i].status = "ACTIVE" <=> m.profiles[i] = "ON_DUTY"

\* What concurrent calls over SQL may break never breaks in memory: the index by
\* e-mail is the exact inverse of the users, every worker has a profile, and its
\* two statuses agree.
MemorySound == Sound(memory)

-----------------------------------------------------------------------------
(* Why they hold: over SQL a call that runs alone is, from each of its     *)
(* round trips on, what is left of the same call in memory.                *)

Index(rows) ==
    [e \in {rows[i].email : i \in DOMAIN rows} |->
        CHOOSE i \in DOMAIN rows : rows[i].email = e]

Dictionaries(u, b, p, l, n) ==
    [users |-> u, byEmail |-> b, profiles |-> p, logs |-> l, seq |-> n]

\* The dictionaries that hold what the tables hold now.
Image == Dictionaries(users, Index(users), profiles, audit, nextId - 1)

\* What request r would still do in memory m, if m answered the round trips from
\* label on: a is the call it makes and i the account it holds.
Remaining(m, label, r, a, i) ==
    CASE label = "register_lookup"  -> RegisterCall(m, a)
      [] label = "register_insert"  ->
            Reply(Enrol(m, NormalizeEmail(a.address), Digest[a.password], a.role), "ok")
      [] label = "register_profile" -> Reply(AddProfile(m, i), "ok")
      [] label = "login_lookup"     -> LoginCall(m, r, a)
      [] label = "login_profile"    -> LoginKnown(m, r, i)
      [] label = "login_touch"      -> LogIn(m, r, i)
      [] label = "login_success"    -> Reply(AddLog(m, r, i, "LOGIN_SUCCESS"), "ok")
      [] label = "login_reject"     -> Refuse(m, r, i)
      [] label = "auth_user"        -> AuthenticatedCall(m, r, a)
      [] label = "auth_profile"     -> IF OnDuty(m, i) THEN AdmittedCall(m, r, a)
                                       ELSE Reply(m, "unauthenticated")
      [] label = "logout_audit"     -> Reply(AddLog(m, r, i, "LOGOUT"), "ok")
      [] label = "update_target"    -> UpdateCall(m, a.target, a.status)
      [] label = "profile_select"   -> IF Profiled(m, a.target)
                                       THEN Switch(m, a.target, a.status)
                                       ELSE Reply(m, "not_found")
      [] label = "profile_commit"   -> Switch(m, a.target, a.status)
      [] label \in {"user_select", "user_commit"} ->
            Reply(SetUserStatus(m, a.target, NextUserStatus(a.status)), "ok")
      [] label \in {"login_reload", "me_user", "me_profile"} -> Reply(m, "ok")
      [] OTHER                      -> Reply(m, label)

Left(r) == Remaining(Image, pc[r], r, input[r], who[r].id)

\* What a call that runs alone has found out still holds.
Undisturbed(r) ==
    /\ pc[r] = "register_insert" => GetUserByEmail(Email(r)) = {}
    /\ pc[r] = "register_profile" => ~ ProfileExists(who[r].id)
    /\ pc[r] = "login_lookup" => Email(r) # NoEmail
    /\ pc[r] = "auth_user" => input[r].claim # NoClaim
    /\ pc[r] = "auth_profile" => who[r].id = input[r].claim.id
    /\ pc[r] = "profile_commit" => seen[r] = profiles[input[r].target]
    /\ pc[r] = "user_commit" => seen[r] = users[input[r].target].status

SeededUsers(n) ==
    [i \in 1..n |-> NewUser(Seeds[i].email, Seeds[i].password_hash, Seeds[i].role)]

\* The dictionaries after the first n seeds.
SeededTo(n) ==
    Dictionaries(SeededUsers(n), Index(SeededUsers(n)),
                 [i \in SeededWorkers \cap 1..n |-> "ON_DUTY"],
                 [r \in Requests |-> <<>>], n)

ParityInv ==
    /\ seeded \in 0..Len(Seeds)
    /\ seeded < Len(Seeds) => Alone /\ memory = SeededTo(seeded) /\ Image = SeededTo(Len(Seeds))
    /\ \A i \in DOMAIN users : users[i].email \in InUse
    /\ \A q, r \in Requests : InFlight(q) /\ InFlight(r) => q = r
    /\ SameAnswers
    /\ Ordinary /\ Quiet => memory = Image
    /\ Ordinary => \A r \in Requests : InFlight(r) =>
          /\ Left(r) = Reply(memory, reply[r])
          /\ Undisturbed(r)
=============================================================================
