--------------------------- MODULE SeedUsers_proofs ---------------------------
(***************************************************************************)
(* Whatever replicas start, race, crash and start again, for any list of   *)
(* seeds: a replica that serves has every default account, and every step  *)
(* of the seeding is a step of AccountLifecycle or none.                   *)
(***************************************************************************)
EXTENDS SeedUsers, SequenceTheorems, TLAPS

Turns == 1..Len(Seeds)

\* Seed k is in the users table, as it was written.
Present(k) == \E i \in DOMAIN users :
                 /\ users[i].email = Seeds[k].email
                 /\ users[i].password_hash = Seeds[k].password_hash
                 /\ users[i].role = Seeds[k].role

\* The table holds seeds and nothing else, each of them once.
OnlySeeds ==
    /\ UniqueEmail
    /\ ProfilesBelongToWorkers
    /\ \A i \in DOMAIN users :
          /\ users[i].status = "ACTIVE"
          /\ \E k \in Turns : /\ users[i].email = Seeds[k].email
                              /\ users[i].password_hash = Seeds[k].password_hash
                              /\ users[i].role = Seeds[k].role
    /\ \A i \in DOMAIN profiles : profiles[i] = "ON_DUTY"

\* A replica has been through the seeds before the one it is at.
Progress(p) ==
    /\ stage[p] # "down" => \A k \in 1..(at[p] - 1) : Present(k)
    /\ stage[p] = "profile" => /\ Present(at[p]) /\ mine[p] \in DOMAIN users
                               /\ users[mine[p]].role = "WORKER"
    /\ stage[p] = "serving" => \A k \in Turns : Present(k)

SeedInv == SeedTypeOK /\ OnlySeeds /\ \A p \in Replicas : Progress(p)

\* The rows of the users table are kept as they are.
TableGrows ==
    /\ DOMAIN users \subseteq DOMAIN users'
    /\ \A i \in DOMAIN users : users'[i] = users[i]

\* Seeds is a list of one or more rows, whose e-mails the database tells apart.
LEMMA SeedFacts ==
    /\ Len(Seeds) \in Nat \ {0}
    /\ \A k \in Turns : Seeds[k] \in [email: Emails, password_hash: Digests, role: Roles]
    /\ \A j, k \in Turns : SameEmail(Seeds[j].email, Seeds[k].email) => j = k
<1>1. Len(Seeds) \in Nat
  BY SeedAssumption
<1>2. \A k \in Turns :
         Seeds[k] \in [email: Emails \ WideEmails, password_hash: Digests, role: Roles]
  BY SeedAssumption, ElementOfSeq DEF Turns
<1>3. Len(Seeds) # 0
  BY SeedAssumption, DeploymentAssumption, EmptySeq
<1> QED
  BY <1>1, <1>2, <1>3, SeedAssumption DEF Turns, SameEmail

\* An empty database has no rows to be wrong.
LEMMA SeedInitInv == SeedInit => SeedInv
<1> SUFFICES ASSUME SeedInit PROVE SeedInv
  OBVIOUS
<1>1. DOMAIN users = {} /\ DOMAIN profiles = {}
  BY DEF SeedInit
<1>2. \A r \in Requests : audit[r] \in Seq(AuditRow)
  BY EmptySeq DEF SeedInit
<1>3. users \in [{} -> UserRow] /\ profiles \in [{} -> EmploymentStatuses]
  BY <1>1, EmptySeq DEF SeedInit
<1>4. SeedTypeOK
  BY <1>1, <1>2, <1>3, SeedFacts, DeploymentAssumption
  DEF SeedInit, SeedTypeOK, StoreTypeOK, Stages, NoUser
<1> QED
  BY <1>1, <1>4 DEF SeedInv, OnlySeeds, Progress, SeedInit, UniqueEmail, ProfilesBelongToWorkers

\* Everything a replica went through stays as long as the users table only grows.
LEMMA ProgressStays ==
  ASSUME TableGrows, NEW p \in Replicas, Progress(p), SeedTypeOK,
         stage'[p] = stage[p], at'[p] = at[p], mine'[p] = mine[p]
  PROVE  Progress(p)'
<1>1. \A k \in Turns : Present(k) => Present(k)'
  BY DEF TableGrows, Present
<1>2. \A k \in 1..(at[p] - 1) : k \in Turns
  BY DEF SeedTypeOK, Turns
<1> QED
  BY <1>1, <1>2 DEF Progress, TableGrows, SeedTypeOK, Turns

\* A step of replica p keeps the invariant if it keeps the tables sound and
\* leaves p where it may say it is.
LEMMA ReplicaStepKeeps ==
  ASSUME SeedInv, NEW p \in Replicas, SeedTypeOK', OnlySeeds', TableGrows, Progress(p)',
         \A q \in Replicas \ {p} : stage'[q] = stage[q] /\ at'[q] = at[q] /\ mine'[q] = mine[q]
  PROVE  SeedInv'
<1>1. ASSUME NEW q \in Replicas PROVE Progress(q)'
  BY ProgressStays DEF SeedInv
<1> QED
  BY <1>1 DEF SeedInv

\* The next turn of the loop, or its end, claims no more than what is there.
LEMMA NextSeedProgress ==
  ASSUME NEW p \in Replicas, SeedTypeOK, NextSeed(p), NEW here, here = at[p],
         \A k \in 1..(here - 1) : Present(k)', Present(here)'
  PROVE  /\ stage' \in [Replicas -> Stages] /\ at' \in [Replicas -> Turns]
         /\ \A q \in Replicas \ {p} : stage'[q] = stage[q] /\ at'[q] = at[q]
         /\ Progress(p)'
<1>1. at[p] \in Turns /\ Len(Seeds) \in Nat \ {0}
  BY SeedFacts DEF SeedTypeOK, Turns
<1>2. \A k \in 1..at[p] : Present(k)'
  BY <1>1 DEF Turns
<1>3. CASE at[p] < Len(Seeds)
  <2>1. at' = [at EXCEPT ![p] = @ + 1] /\ stage' = [stage EXCEPT ![p] = "lookup"]
    BY <1>3 DEF NextSeed, Go
  <2>2. at'[p] = at[p] + 1 /\ stage'[p] = "lookup" /\ at[p] + 1 \in Turns
    BY <1>1, <1>3, <2>1 DEF SeedTypeOK, Turns
  <2>3. Progress(p)'
    BY <1>1, <1>2, <2>2 DEF Progress, Turns
  <2> QED
    BY <2>1, <2>2, <2>3 DEF SeedTypeOK, Stages, Turns
<1>4. CASE ~ (at[p] < Len(Seeds))
  <2>1. at' = at /\ stage' = [stage EXCEPT ![p] = "serving"]
    BY <1>4 DEF NextSeed, Go
  <2>2. at[p] = Len(Seeds) /\ stage'[p] = "serving" /\ at'[p] = at[p]
    BY <1>1, <1>4, <2>1 DEF SeedTypeOK, Turns
  <2>3. Progress(p)'
    BY <1>1, <1>2, <2>2 DEF Progress, Turns
  <2> QED
    BY <2>1, <2>3 DEF SeedTypeOK, Stages, Turns
<1> QED
  BY <1>3, <1>4

\* A replica that found its seed there, or is told to look it up, moves on.
LEMMA LookupKeeps ==
  ASSUME SeedInv, NEW p \in Replicas, Lookup(p)
  PROVE  SeedInv'
<1>1. /\ SeedTypeOK /\ OnlySeeds /\ Progress(p) /\ stage[p] = "lookup"
      /\ at[p] \in Turns /\ Len(Seeds) \in Nat
      /\ UNCHANGED <<users, profiles, nextId, audit, mine, crashes>>
  BY SeedFacts DEF SeedInv, Lookup, storeVars, SeedTypeOK, Turns
<1>2. OnlySeeds' /\ StoreTypeOK' /\ TableGrows
  BY <1>1 DEF OnlySeeds, SeedTypeOK, StoreTypeOK, TableGrows, UniqueEmail, ProfilesBelongToWorkers
<1>3. CASE SeedPresent(p)
  <2>1. Present(at[p])
    <3>1. PICK i \in DOMAIN users : SameEmail(users[i].email, Seeds[at[p]].email)
      BY <1>3 DEF SeedPresent, GetUserByEmail, Seed
    <3>2. PICK k \in Turns : /\ users[i].email = Seeds[k].email
                             /\ users[i].password_hash = Seeds[k].password_hash
                             /\ users[i].role = Seeds[k].role
      BY <1>1 DEF OnlySeeds
    <3>3. k = at[p]
      BY <1>1, <3>1, <3>2, SeedFacts
    <3> QED
      BY <3>2, <3>3 DEF Present
  <2>2. \A k \in 1..at[p] : Present(k)'
    BY <1>1, <2>1 DEF Progress, Present, Turns
  <2>3. /\ stage' \in [Replicas -> Stages] /\ at' \in [Replicas -> Turns]
        /\ \A q \in Replicas \ {p} : stage'[q] = stage[q] /\ at'[q] = at[q]
        /\ Progress(p)'
    <3>1. NextSeed(p)
      BY <1>3 DEF Lookup
    <3>2. PICK here : here = at[p]
      OBVIOUS
    <3>3. Present(here)' /\ \A k \in 1..(here - 1) : Present(k)'
      BY <1>1, <2>2, <3>2 DEF Turns
    <3> QED
      BY <1>1, <3>1, <3>2, <3>3, NextSeedProgress
  <2>4. SeedTypeOK'
    BY <1>1, <1>2, <2>3 DEF SeedTypeOK, Turns
  <2> QED
    BY <1>1, <1>2, <2>3, <2>4, ReplicaStepKeeps
<1>4. CASE ~ SeedPresent(p)
  <2>1. at' = at /\ stage' = [stage EXCEPT ![p] = "insert"]
    BY <1>4 DEF Lookup, Go
  <2>2. SeedTypeOK'
    BY <1>1, <1>2, <2>1 DEF SeedTypeOK, Stages
  <2>3. Progress(p)'
    BY <1>1, <2>1 DEF Progress, Present, SeedTypeOK
  <2>4. \A q \in Replicas \ {p} : stage'[q] = stage[q] /\ at'[q] = at[q] /\ mine'[q] = mine[q]
    BY <1>1, <2>1 DEF SeedTypeOK
  <2> QED
    BY <1>2, <2>2, <2>3, <2>4, ReplicaStepKeeps
<1> QED
  BY <1>3, <1>4

\* create_user of the seed a replica is at.
LEMMA InsertSeedKeeps ==
  ASSUME SeedInv, NEW p \in Replicas, InsertSeed(p)
  PROVE  SeedInv'
<1> DEFINE row == NewUser(Seed(p).email, Seed(p).password_hash, Seed(p).role)
<1>1. /\ SeedTypeOK /\ OnlySeeds /\ Progress(p) /\ stage[p] = "insert"
      /\ at[p] \in Turns /\ Len(Seeds) \in Nat
  BY SeedFacts DEF SeedInv, InsertSeed, SeedTypeOK, Turns
<1>2. /\ row \in UserRow /\ row.status = "ACTIVE" /\ row.email = Seeds[at[p]].email
      /\ row.password_hash = Seeds[at[p]].password_hash /\ row.role = Seeds[at[p]].role
  BY <1>1, SeedFacts DEF NewUser, UserRow, UserStatuses, Seed
<1>3. /\ nextId \in Nat \ {0} /\ nextId \notin DOMAIN users
      /\ users' = Insert(users, nextId, row) /\ nextId' = nextId + 1
      /\ profiles' = profiles /\ audit' = audit /\ crashes' = crashes
      /\ mine' = [mine EXCEPT ![p] = nextId]
      /\ \A i \in DOMAIN users : ~ SameEmail(users[i].email, row.email)
  BY <1>1, <1>2 DEF InsertSeed, CreateUser, EmailTaken, GetUserByEmail, SeedTypeOK, StoreTypeOK, Seed
<1> HIDE DEF row
<1>4. /\ DOMAIN users' = DOMAIN users \cup {nextId}
      /\ users'[nextId] = row
      /\ \A i \in DOMAIN users : users'[i] = users[i]
      /\ users' = [i \in DOMAIN users' |-> users'[i]]
  BY <1>3 DEF Insert
<1>5. TableGrows
  BY <1>4 DEF TableGrows
<1>6. StoreTypeOK'
  <2>1. DOMAIN users' \subseteq 1..(nextId' - 1) /\ nextId' \in Nat \ {0}
    BY <1>1, <1>3, <1>4 DEF SeedTypeOK, StoreTypeOK
  <2>2. users' \in [DOMAIN users' -> UserRow]
    BY <1>1, <1>2, <1>4 DEF SeedTypeOK, StoreTypeOK
  <2> QED
    BY <1>1, <1>3, <1>4, <2>1, <2>2 DEF SeedTypeOK, StoreTypeOK
<1>7. OnlySeeds'
  <2>1. UniqueEmail'
    BY <1>1, <1>2, <1>3, <1>4 DEF OnlySeeds, UniqueEmail, SameEmail
  <2>2. ProfilesBelongToWorkers'
    BY <1>1, <1>3, <1>4 DEF OnlySeeds, ProfilesBelongToWorkers, SeedTypeOK, StoreTypeOK
  <2>3. \A i \in DOMAIN users' :
          /\ users'[i].status = "ACTIVE"
          /\ \E k \in Turns : /\ users'[i].email = Seeds[k].email
                              /\ users'[i].password_hash = Seeds[k].password_hash
                              /\ users'[i].role = Seeds[k].role
    BY <1>1, <1>2, <1>4 DEF OnlySeeds
  <2> QED
    BY <1>1, <1>3, <2>1, <2>2, <2>3 DEF OnlySeeds
<1>8. PICK here : here = at[p]
  OBVIOUS
<1>9. Present(here)' /\ \A k \in 1..(here - 1) : Present(k)'
  <2>1. Present(here)'
    BY <1>2, <1>4, <1>8 DEF Present
  <2>2. \A k \in 1..(here - 1) : Present(k) => Present(k)'
    BY <1>4 DEF Present
  <2> QED
    BY <1>1, <1>8, <2>1, <2>2 DEF Progress
<1>10. /\ stage' \in [Replicas -> Stages] /\ at' \in [Replicas -> Turns] /\ Progress(p)'
       /\ \A q \in Replicas \ {p} : stage'[q] = stage[q] /\ at'[q] = at[q]
  <2>1. CASE Seed(p).role = "WORKER"
    <3>1. at' = at /\ stage' = [stage EXCEPT ![p] = "profile"]
      BY <2>1 DEF InsertSeed, Go
    <3>2. /\ stage'[p] = "profile" /\ at'[p] = here /\ mine'[p] = nextId
          /\ stage' \in [Replicas -> Stages] /\ at' \in [Replicas -> Turns]
      BY <1>1, <1>3, <1>8, <3>1 DEF SeedTypeOK, Stages, Turns
    <3>3. row.role = "WORKER"
      BY <1>2, <2>1 DEF Seed
    <3>4. Progress(p)'
      BY <1>4, <1>8, <1>9, <3>2, <3>3 DEF Progress, Present
    <3> QED
      BY <3>1, <3>2, <3>4
  <2>2. CASE Seed(p).role # "WORKER"
    <3>1. NextSeed(p)
      BY <2>2 DEF InsertSeed
    <3> QED
      BY <1>1, <1>8, <1>9, <3>1, NextSeedProgress
  <2> QED
    BY <2>1, <2>2
<1>11. SeedTypeOK'
  <2>1. mine' \in [Replicas -> Nat]
    BY <1>1, <1>3 DEF SeedTypeOK
  <2> QED
    BY <1>1, <1>3, <1>6, <1>10, <2>1 DEF SeedTypeOK, Turns
<1>12. \A q \in Replicas \ {p} : mine'[q] = mine[q]
  BY <1>1, <1>3 DEF SeedTypeOK
<1> QED
  BY <1>5, <1>7, <1>10, <1>11, <1>12, ReplicaStepKeeps

\* create_worker_profile of the worker a replica has just inserted.
LEMMA InsertProfileKeeps ==
  ASSUME SeedInv, NEW p \in Replicas, InsertProfile(p)
  PROVE  SeedInv'
<1>1. /\ SeedTypeOK /\ OnlySeeds /\ Progress(p) /\ stage[p] = "profile"
      /\ at[p] \in Turns /\ Len(Seeds) \in Nat
      /\ mine[p] \in DOMAIN users /\ users[mine[p]].role = "WORKER"
      /\ UNCHANGED <<users, nextId, audit, mine, crashes>>
  BY SeedFacts DEF SeedInv, Progress, InsertProfile, CreateWorkerProfile, SeedTypeOK, Turns
<1>2. /\ DOMAIN profiles \subseteq DOMAIN profiles'
      /\ DOMAIN profiles' \subseteq DOMAIN profiles \cup {mine[p]}
      /\ profiles' \in [DOMAIN profiles' -> EmploymentStatuses]
      /\ \A i \in DOMAIN profiles' : profiles'[i] = "ON_DUTY"
  BY <1>1 DEF InsertProfile, CreateWorkerProfile, Insert, ProfileExists, SeedTypeOK, StoreTypeOK,
              EmploymentStatuses, OnlySeeds
<1>3. StoreTypeOK' /\ TableGrows
  BY <1>1, <1>2 DEF SeedTypeOK, StoreTypeOK, TableGrows
<1>4. OnlySeeds'
  BY <1>1, <1>2 DEF OnlySeeds, UniqueEmail, ProfilesBelongToWorkers
<1>5. PICK here : here = at[p]
  OBVIOUS
<1>6. Present(here)' /\ \A k \in 1..(here - 1) : Present(k)'
  BY <1>1, <1>5 DEF Progress, Present
<1>7. /\ stage' \in [Replicas -> Stages] /\ at' \in [Replicas -> Turns] /\ Progress(p)'
      /\ \A q \in Replicas \ {p} : stage'[q] = stage[q] /\ at'[q] = at[q]
  BY <1>1, <1>5, <1>6, NextSeedProgress DEF InsertProfile
<1>8. SeedTypeOK'
  BY <1>1, <1>3, <1>7 DEF SeedTypeOK, Turns
<1> QED
  BY <1>1, <1>3, <1>4, <1>7, <1>8, ReplicaStepKeeps

\* A start that fails or dies, and one that begins, leave the tables alone.
LEMMA RestartKeeps ==
  ASSUME SeedInv, NEW p \in Replicas, Start(p) \/ InsertConflict(p) \/ Crash(p)
  PROVE  SeedInv'
<1>1. /\ SeedTypeOK /\ OnlySeeds /\ UNCHANGED <<users, profiles, audit>>
      /\ nextId' \in {nextId, nextId + 1}
      /\ 1 \in Turns /\ Len(Seeds) \in Nat
  BY SeedFacts DEF SeedInv, Start, InsertConflict, DuplicateUser, Crash, storeVars, Turns
<1>2. StoreTypeOK' /\ OnlySeeds' /\ TableGrows
  <2>1. nextId' \in Nat \ {0} /\ DOMAIN users \subseteq 1..(nextId' - 1)
    BY <1>1 DEF SeedTypeOK, StoreTypeOK
  <2> QED
    BY <1>1, <2>1 DEF SeedTypeOK, StoreTypeOK, OnlySeeds, TableGrows, UniqueEmail, ProfilesBelongToWorkers
<1>3. /\ stage' \in [Replicas -> Stages] /\ at' \in [Replicas -> Turns]
      /\ mine' \in [Replicas -> Nat] /\ crashes' \in 0..MaxCrashes
      /\ \A q \in Replicas \ {p} : stage'[q] = stage[q] /\ at'[q] = at[q] /\ mine'[q] = mine[q]
      /\ stage'[p] = "down" \/ (stage'[p] = "lookup" /\ at'[p] = 1)
  <2>1. CASE Start(p)
    BY <1>1, <2>1 DEF Start, Go, SeedTypeOK, Stages, NoUser, Turns
  <2>2. CASE InsertConflict(p)
    BY <1>1, <2>2 DEF InsertConflict, Go, SeedTypeOK, Stages, Turns
  <2>3. CASE Crash(p)
    BY <1>1, <2>3, DeploymentAssumption DEF Crash, Go, SeedTypeOK, Stages, Turns
  <2> QED
    BY <2>1, <2>2, <2>3
<1>4. Progress(p)'
  BY <1>3 DEF Progress
<1>5. SeedTypeOK'
  BY <1>2, <1>3 DEF SeedTypeOK, Turns
<1> QED
  BY <1>2, <1>3, <1>4, <1>5, ReplicaStepKeeps

\* No step breaks the invariant.
LEMMA SeedStepKeeps == SeedInv /\ [SeedNext]_seedVars => SeedInv'
<1> SUFFICES ASSUME SeedInv, [SeedNext]_seedVars PROVE SeedInv'
  OBVIOUS
<1>1. CASE UNCHANGED seedVars
  BY <1>1 DEF seedVars, SeedInv, SeedTypeOK, StoreTypeOK, OnlySeeds, Progress, Present,
              UniqueEmail, ProfilesBelongToWorkers
<1> QED
  BY <1>1, LookupKeeps, InsertSeedKeeps, InsertProfileKeeps, RestartKeeps
  DEF SeedNext, Run, AllServing

\* The tables hold seeds only, and every replica has what it went through.
THEOREM SeedInvariance == SeedSpec => []SeedInv
  BY SeedInitInv, SeedStepKeeps, PTL DEF SeedSpec

\* Tables and replicas keep their types.
THEOREM SeedTypeCorrect == SeedSpec => []SeedTypeOK
<1>1. SeedInv => SeedTypeOK
  BY DEF SeedInv
<1> QED
  BY <1>1, SeedInvariance, PTL

\* No replica serves before every default account is there as its seed says,
\* for any list of seeds, any number of replicas and any number of crashes.
THEOREM ServesWithSeeds == SeedSpec => []ServesAfterSeeding
<1>1. SeedInv => ServesAfterSeeding
  BY DEF SeedInv, Progress, Present, Turns, ServesAfterSeeding
<1> QED
  BY <1>1, SeedInvariance, PTL

-----------------------------------------------------------------------------
(* The replica that created an account last is ahead of all.               *)

\* The address of seed k has an account.
Taken(k) == GetUserByEmail(Seeds[k].email) # {}

\* An account that exists has those of all earlier seeds beside it.
InOrder == \A k \in Turns : Taken(k) => \A j \in 1..(k - 1) : Taken(j)

\* A replica that turns to its next seed, with no later one taken, is ahead.
LEMMA TurnsAhead ==
  ASSUME SeedTypeOK, NEW p \in Replicas, NextSeed(p),
         \A k \in (at[p] + 1)..Len(Seeds) : ~ Taken(k)'
  PROVE  Ahead(p)'
<1>1. at[p] \in Turns /\ Len(Seeds) \in Nat
  BY SeedFacts DEF SeedTypeOK, Turns
<1>2. CASE at[p] < Len(Seeds)
  <2>1. at'[p] = at[p] + 1 /\ stage'[p] = "lookup"
    BY <1>2 DEF NextSeed, Go, SeedTypeOK
  <2> QED
    BY <2>1 DEF Ahead, Taken
<1>3. CASE ~ (at[p] < Len(Seeds))
  <2>1. at'[p] = at[p] /\ stage'[p] = "serving" /\ at[p] = Len(Seeds)
    BY <1>1, <1>3 DEF NextSeed, Go, SeedTypeOK, Turns
  <2> QED
    BY <1>1, <2>1 DEF Ahead, Turns
<1> QED
  BY <1>2, <1>3

\* A replica that inserts its account is ahead from then on.
LEMMA InsertsAhead ==
  ASSUME SeedInv, InOrder, NEW p \in Replicas, InsertSeed(p)
  PROVE  InOrder' /\ Ahead(p)'
<1>1. /\ SeedTypeOK /\ at[p] \in Turns /\ Len(Seeds) \in Nat /\ nextId \notin DOMAIN users
      /\ ~ Taken(at[p])
      /\ users' = Insert(users, nextId,
                         NewUser(Seed(p).email, Seed(p).password_hash, Seed(p).role))
      /\ \A k \in 1..(at[p] - 1) : Taken(k)
  <2>1. /\ SeedTypeOK /\ stage[p] = "insert" /\ at[p] \in Turns /\ Progress(p)
        /\ CreateUser(Seed(p).email, Seed(p).password_hash, Seed(p).role)
    BY DEF SeedInv, InsertSeed, SeedTypeOK, Turns
  <2>2. \A k \in Turns : Present(k) => Taken(k)
    BY DEF Present, Taken, GetUserByEmail, SameEmail
  <2>3. \A k \in 1..(at[p] - 1) : k \in Turns /\ Present(k)
    BY <2>1, SeedFacts DEF Progress, Turns
  <2>4. /\ ~ Taken(at[p]) /\ nextId \notin DOMAIN users
        /\ users' = Insert(users, nextId,
                           NewUser(Seed(p).email, Seed(p).password_hash, Seed(p).role))
    BY <2>1 DEF CreateUser, EmailTaken, Taken, Seed, SeedTypeOK, StoreTypeOK
  <2> QED
    BY <2>1, <2>2, <2>3, <2>4, SeedFacts
<1>2. \A k \in Turns : Taken(k)' <=> Taken(k) \/ k = at[p]
  <2>1. /\ DOMAIN users' = DOMAIN users \cup {nextId}
        /\ \A i \in DOMAIN users : users'[i] = users[i]
        /\ users'[nextId].email = Seeds[at[p]].email
    BY <1>1 DEF Insert, NewUser, Seed
  <2>2. \A k \in Turns : SameEmail(Seeds[at[p]].email, Seeds[k].email) => k = at[p]
    BY <1>1, SeedFacts
  <2>3. SameEmail(Seeds[at[p]].email, Seeds[at[p]].email)
    BY DEF SameEmail
  <2> QED
    BY <1>1, <2>1, <2>2, <2>3 DEF Taken, GetUserByEmail
<1>3. \A k \in (at[p] + 1)..Len(Seeds) : k \in Turns /\ ~ Taken(k)'
  BY <1>1, <1>2 DEF InOrder, Turns
<1>4. InOrder'
  <2>1. ASSUME NEW k \in Turns, Taken(k)', NEW j \in 1..(k - 1)
        PROVE  Taken(j)'
    <3>1. j \in Turns
      BY <1>1 DEF Turns
    <3> QED
      BY <1>1, <1>2, <2>1, <3>1 DEF InOrder, Turns
  <2> QED
    BY <2>1 DEF InOrder
<1>5. CASE Seed(p).role = "WORKER"
  <2>1. stage'[p] = "profile" /\ at'[p] = at[p]
    BY <1>1, <1>5 DEF InsertSeed, Go, SeedTypeOK
  <2>2. \A k \in at[p]..Len(Seeds) : k = at[p] \/ k \in (at[p] + 1)..Len(Seeds)
    BY <1>1 DEF Turns
  <2>3. Ahead(p)'
    BY <1>3, <2>1, <2>2 DEF Ahead, Taken
  <2> QED
    BY <1>4, <2>3
<1>6. CASE Seed(p).role # "WORKER"
  <2>1. NextSeed(p)
    BY <1>6 DEF InsertSeed
  <2> QED
    BY <1>1, <1>3, <1>4, <2>1, TurnsAhead
<1> QED
  BY <1>5, <1>6

\* No other step than a crash takes a replica that is ahead from there.
LEMMA StaysAhead ==
  ASSUME SeedInv, NEW q \in Replicas, Ahead(q), NEW p \in Replicas,
         Start(p) \/ Lookup(p) \/ InsertConflict(p) \/ InsertProfile(p)
  PROVE  Ahead(q)'
<1>1. SeedTypeOK /\ users' = users /\ Len(Seeds) \in Nat
  BY SeedFacts DEF SeedInv, Start, Lookup, InsertConflict, DuplicateUser, InsertProfile,
     CreateWorkerProfile, storeVars
<1>2. CASE q # p
  <2>1. stage'[q] = stage[q] /\ at'[q] = at[q]
    BY <1>1, <1>2 DEF Start, Lookup, InsertConflict, InsertProfile, NextSeed, Go, SeedTypeOK
  <2> QED
    BY <1>1, <2>1 DEF Ahead, GetUserByEmail
<1>3. CASE q = p
  <2>1. at[p] \in at[p]..Len(Seeds) /\ at[p] \in Turns
    BY <1>1 DEF SeedTypeOK, Turns
  <2>2. CASE Lookup(p)
    <3>1. ~ SeedPresent(p)
      BY <1>3, <2>1, <2>2 DEF Lookup, Ahead, SeedPresent, Seed
    <3>2. stage'[p] = "insert" /\ at'[p] = at[p]
      BY <1>1, <2>2, <3>1 DEF Lookup, Go, SeedTypeOK
    <3>3. stage[p] = "lookup"
      BY <2>2 DEF Lookup
    <3> QED
      BY <1>1, <1>3, <3>2, <3>3 DEF Ahead, GetUserByEmail
  <2>3. CASE InsertProfile(p)
    <3>1. \A k \in (at[p] + 1)..Len(Seeds) : ~ Taken(k)'
      BY <1>1, <1>3, <2>1 DEF Ahead, Taken, GetUserByEmail, Turns
    <3> QED
      BY <1>1, <1>3, <2>3, <3>1, TurnsAhead DEF InsertProfile
  <2>4. ~ Start(p) /\ ~ InsertConflict(p)
    BY <1>3, <2>1 DEF Ahead, Start, InsertConflict, DuplicateUser, EmailTaken, Seed
  <2> QED
    BY <2>2, <2>3, <2>4
<1> QED
  BY <1>2, <1>3

\* Accounts come to exist in the order of the seeds, and some replica stays ahead.
LEMMA AheadKeeps ==
  ASSUME SeedInv, InOrder, SomeReplicaAhead, [SeedNext]_seedVars
  PROVE  InOrder' /\ SomeReplicaAhead'
<1>1. ASSUME NEW p \in Replicas, InsertSeed(p)
      PROVE  InOrder' /\ SomeReplicaAhead'
  BY <1>1, InsertsAhead DEF SomeReplicaAhead
<1>2. ASSUME users' = users
      PROVE  InOrder'
  BY <1>2 DEF InOrder, Taken, GetUserByEmail
<1>3. ASSUME NEW p \in Replicas, Start(p) \/ Lookup(p) \/ InsertConflict(p) \/ InsertProfile(p)
      PROVE  InOrder' /\ SomeReplicaAhead'
  <2>1. users' = users /\ crashes' = crashes
    BY <1>3 DEF Start, Lookup, InsertConflict, DuplicateUser, InsertProfile, CreateWorkerProfile,
       storeVars
  <2> QED
    BY <1>2, <1>3, <2>1, StaysAhead DEF SomeReplicaAhead
<1>4. ASSUME NEW p \in Replicas, Crash(p)
      PROVE  InOrder' /\ SomeReplicaAhead'
  <2>1. users' = users /\ crashes' # 0
    BY <1>4 DEF Crash, storeVars, SeedInv, SeedTypeOK
  <2> QED
    BY <1>2, <2>1 DEF SomeReplicaAhead
<1>5. CASE UNCHANGED seedVars
  BY <1>2, <1>5 DEF seedVars, SomeReplicaAhead, Ahead, GetUserByEmail
<1> QED
  BY <1>1, <1>3, <1>4, <1>5 DEF SeedNext, Run, AllServing

\* Unless one crashes, some start cannot fail any more once an account exists.
THEOREM SomeStartGoesOn == SeedSpec => []SomeReplicaAhead
<1>1. SeedInit => InOrder /\ SomeReplicaAhead
  BY DEF SeedInit, InOrder, Taken, GetUserByEmail, SomeReplicaAhead
<1>2. SeedInv /\ InOrder /\ SomeReplicaAhead /\ [SeedNext]_seedVars
        => InOrder' /\ SomeReplicaAhead'
  BY AheadKeeps
<1> QED
  BY <1>1, <1>2, SeedInvariance, PTL DEF SeedSpec

-----------------------------------------------------------------------------

\* Seeding implements the account lifecycle: it opens accounts and completes
\* workers, each once, whatever races and dies.
THEOREM SeedingImplementsLifecycle == SeedSpec => ImplementsLifecycle
<1>1. SeedInit => Lifecycle!Init
  BY DEF SeedInit, Lifecycle!Init, AccountsOf
<1>2. SeedInv /\ SeedInv' /\ [SeedNext]_seedVars => [Lifecycle!Next]_AccountsOf
  <2> SUFFICES ASSUME SeedInv, SeedInv', [SeedNext]_seedVars
               PROVE  Lifecycle!Next \/ AccountsOf' = AccountsOf
    OBVIOUS
  <2>1. CASE UNCHANGED <<users, profiles>>
    BY <2>1 DEF AccountsOf, Phase, ProfileExists
  <2>2. ASSUME NEW p \in Replicas, InsertSeed(p) PROVE Lifecycle!Next
    <3> PICK i : i = nextId
      OBVIOUS
    <3> DEFINE e == Seed(p).email
               role == Seed(p).role
    <3>1. /\ i \notin DOMAIN users /\ i \notin DOMAIN profiles
          /\ users' = Insert(users, i, NewUser(e, Seed(p).password_hash, role))
          /\ profiles' = profiles /\ \A j \in DOMAIN users : users[j].email # e
          /\ e \in Emails /\ role \in Roles
      <4>1. at[p] \in Turns /\ SeedTypeOK /\ CreateUser(e, Seed(p).password_hash, role)
        BY <2>2 DEF InsertSeed, SeedInv, SeedTypeOK, Turns
      <4>2. e \in Emails /\ role \in Roles
        BY <4>1, SeedFacts DEF Seed
      <4> HIDE DEF e, role
      <4>3. i \notin DOMAIN users /\ i \notin DOMAIN profiles
        BY <4>1 DEF SeedTypeOK, StoreTypeOK
      <4>4. \A j \in DOMAIN users : users[j].email # e
        BY <4>1 DEF CreateUser, EmailTaken, GetUserByEmail, SameEmail
      <4> QED
        BY <4>1, <4>2, <4>3, <4>4 DEF CreateUser
    <3> HIDE DEF e, role
    <3>2. /\ DOMAIN users' = DOMAIN users \cup {i}
          /\ \A j \in DOMAIN users : users'[j] = users[j]
          /\ users'[i] = NewUser(e, Seed(p).password_hash, role)
      BY <3>1 DEF Insert
    <3>3. /\ \A j \in DOMAIN users : Phase(j)' = Phase(j)
          /\ Phase(i)' = Lifecycle!FirstPhase(role)
      BY <3>1, <3>2 DEF Phase, ProfileExists, NewUser, Lifecycle!FirstPhase
    <3>4. Lifecycle!Open(i, e, role)
      BY <3>1, <3>2, <3>3 DEF Lifecycle!Open, Lifecycle!Account, AccountsOf, NewUser
    <3>5. i \in DOMAIN AccountsOf' /\ role \in {"WORKER"} \cup StaffRoles
      BY <3>1, <3>2 DEF AccountsOf, Roles, StaffRoles
    <3> QED
      BY <3>1, <3>4, <3>5 DEF Lifecycle!Next
  <2>3. ASSUME NEW p \in Replicas, InsertProfile(p) PROVE Lifecycle!Next \/ AccountsOf' = AccountsOf
    <3> PICK i : i = mine[p]
      OBVIOUS
    <3>1. /\ i \in DOMAIN users /\ users[i].role = "WORKER" /\ users[i].status = "ACTIVE"
          /\ users' = users
      BY <2>3 DEF SeedInv, Progress, OnlySeeds, InsertProfile, CreateWorkerProfile
    <3>2. CASE ProfileExists(i)
      BY <2>1, <2>3, <3>1, <3>2 DEF InsertProfile, CreateWorkerProfile
    <3>3. CASE ~ ProfileExists(i)
      <4>1. profiles' = Insert(profiles, i, "ON_DUTY")
        BY <2>3, <3>3 DEF InsertProfile, CreateWorkerProfile
      <4>2. Phase(i) = "pending" /\ Phase(i)' = "enabled"
            /\ \A j \in DOMAIN users \ {i} : Phase(j)' = Phase(j)
        BY <3>1, <3>3, <4>1 DEF Phase, ProfileExists, Insert
      <4>3. AccountsOf' = [AccountsOf EXCEPT ![i].phase = "enabled"]
        BY <3>1, <4>2 DEF AccountsOf
      <4>4. Lifecycle!Complete(i) /\ i \in DOMAIN AccountsOf
        BY <3>1, <4>2, <4>3 DEF Lifecycle!Complete, Lifecycle!SetPhase, AccountsOf
      <4> QED
        BY <4>4 DEF Lifecycle!Next
    <3> QED
      BY <3>2, <3>3
  <2> QED
    BY <2>1, <2>2, <2>3
    DEF SeedNext, Start, Run, Crash, Lookup, InsertConflict, DuplicateUser, AllServing, storeVars, seedVars
<1> QED
  BY <1>1, <1>2, SeedInvariance, PTL DEF SeedSpec, ImplementsLifecycle, Lifecycle!Spec
=============================================================================
