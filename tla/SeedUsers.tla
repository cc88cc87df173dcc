------------------------------- MODULE SeedUsers -------------------------------
(***************************************************************************)
(* hsp_user_service.bootstrap.seed_users, run by build_container each time *)
(* a replica of the service starts, before it serves.  Replicas start      *)
(* together over one database, and may die at any point and be restarted.  *)
(***************************************************************************)
EXTENDS UserStore

CONSTANTS
    Replicas,
    MaxCrashes    \* bounds the crashes of a behaviour, not the restarts

ASSUME DeploymentAssumption == MaxCrashes \in Nat /\ Seeds # <<>>

VARIABLES
    stage,    \* what each replica is about to do
    at,       \* the seed it is at
    mine,     \* the id its last create_user returned
    crashes

seedVars == <<users, profiles, nextId, audit, stage, at, mine, crashes>>

Stages == {"down", "lookup", "insert", "profile", "serving"}

SeedTypeOK ==
    /\ StoreTypeOK
    /\ stage \in [Replicas -> Stages]
    /\ at \in [Replicas -> 1..Len(Seeds)]
    /\ mine \in [Replicas -> Nat]
    /\ crashes \in 0..MaxCrashes

SeedInit ==
    /\ users = <<>> /\ profiles = <<>> /\ nextId = 1
    /\ audit = [r \in Requests |-> <<>>]
    /\ stage = [p \in Replicas |-> "down"]
    /\ at = [p \in Replicas |-> 1]
    /\ mine = [p \in Replicas |-> NoUser]
    /\ crashes = 0

Seed(p) == Seeds[at[p]]
Go(p, to) == stage' = [stage EXCEPT ![p] = to]

NextSeedStuck(p) ==   \* variant: the loop does not advance
    at' = at /\ Go(p, IF at[p] < Len(Seeds) THEN "lookup" ELSE "serving")

NextSeedFurther(p) ==   \* variant: one turn too many
    IF at[p] <= Len(Seeds)
    THEN at' = [at EXCEPT ![p] = @ + 1] /\ Go(p, "lookup")
    ELSE at' = at /\ Go(p, "serving")

\* The next turn of the for loop, or its end.
NextSeed(p) ==
    IF at[p] < Len(Seeds)
    THEN at' = [at EXCEPT ![p] = @ + 1] /\ Go(p, "lookup")
    ELSE at' = at /\ Go(p, "serving")

Start(p) ==
    /\ stage[p] = "down"
    /\ Go(p, "lookup")
    /\ at' = [at EXCEPT ![p] = 1]
    /\ mine' = [mine EXCEPT ![p] = NoUser]
    /\ UNCHANGED <<storeVars, crashes>>

SeedPresent(p) == GetUserByEmail(Seed(p).email) # {}

LookupBreak(p) ==   \* variant: break instead of continue
    /\ stage[p] = "lookup"
    /\ at' = at /\ Go(p, IF SeedPresent(p) THEN "serving" ELSE "insert")
    /\ UNCHANGED <<storeVars, mine, crashes>>

Lookup(p) ==
    /\ stage[p] = "lookup"
    /\ IF SeedPresent(p) THEN NextSeed(p) ELSE at' = at /\ Go(p, "insert")
    /\ UNCHANGED <<storeVars, mine, crashes>>

InsertSeed(p) ==
    /\ stage[p] = "insert"
    /\ CreateUser(Seed(p).email, Seed(p).password_hash, Seed(p).role)
    /\ mine' = [mine EXCEPT ![p] = nextId]
    /\ IF Seed(p).role = "WORKER" THEN at' = at /\ Go(p, "profile") ELSE NextSeed(p)
    /\ UNCHANGED crashes

\* Another replica was faster: nobody catches the ConflictError, so this start
\* of the replica fails.
InsertConflict(p) ==
    /\ stage[p] = "insert"
    /\ DuplicateUser(Seed(p).email)
    /\ Go(p, "down")
    /\ UNCHANGED <<at, mine, crashes>>

InsertProfile(p) ==
    /\ stage[p] = "profile"
    /\ CreateWorkerProfile(mine[p])
    /\ NextSeed(p)
    /\ UNCHANGED <<mine, crashes>>

Crash(p) ==
    /\ crashes < MaxCrashes
    /\ stage[p] # "down"
    /\ Go(p, "down")
    /\ crashes' = crashes + 1
    /\ UNCHANGED <<storeVars, at, mine>>

Run(p) == Lookup(p) \/ InsertSeed(p) \/ InsertConflict(p) \/ InsertProfile(p)

AllServing == (\A p \in Replicas : stage[p] = "serving") /\ UNCHANGED seedVars

SeedNext == \/ \E p \in Replicas : Start(p) \/ Run(p) \/ Crash(p)
            \/ AllServing

\* The event loop resumes a start whose round trip has returned; nothing in
\* the repository restarts a replica that is down.
SeedSpec == SeedInit /\ [][SeedNext]_seedVars
                     /\ \A p \in Replicas : WF_seedVars(Run(p))

-----------------------------------------------------------------------------

\* No replica serves before every default account exists, with the role and
\* the password the seed gives it, whoever created it and whatever crashed.
ServesAfterSeeding ==
    \A p \in Replicas : stage[p] = "serving" =>
        \A k \in 1..Len(Seeds) : \E i \in DOMAIN users :
            /\ users[i].email = Seeds[k].email
            /\ users[i].password_hash = Seeds[k].password_hash
            /\ users[i].role = Seeds[k].role

\* Replica p is up, and no account is there yet that it is still to come to.
Ahead(p) ==
    /\ stage[p] # "down"
    /\ \A k \in at[p]..Len(Seeds) :
          \/ GetUserByEmail(Seeds[k].email) = {}
          \/ k = at[p] /\ stage[p] \in {"profile", "serving"}

\* Unless one crashes, from the first account on some replica is ahead of all: its
\* start runs into nobody's account, whichever starts of the others fail.
SomeReplicaAhead == crashes = 0 /\ users # <<>> => \E p \in Replicas : Ahead(p)

\* Replicas that start together make each other's starts fail, but never all of
\* them: unless one crashes, a replica that started means that one will serve.
SomeReplicaServes ==
    (\E p \in Replicas : stage[p] # "down")
    ~> (crashes > 0 \/ \E p \in Replicas : stage[p] = "serving")

\* "seed_default_users creates loginable accounts"
\* (tests/unit/test_seed_users.py:10).  Once every replica serves, each default
\* worker has the profile a login needs.  A start that died between the two
\* inserts leaves one without, and `continue` skips it in every later start.
SeedsLoginable ==
    (\A p \in Replicas : stage[p] = "serving")
    => \A i \in DOMAIN users : users[i].role = "WORKER" => ProfileExists(i)
=============================================================================
