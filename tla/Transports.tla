------------------------------ MODULE Transports ------------------------------
(***************************************************************************)
(* The two entrances of the service: FastAPI routes with their schemas,    *)
(* bearer tokens and exception handlers, and gRPC handlers with protobuf   *)
(* enums, the gateway's metadata and status codes.  A call is made to two   *)
(* more deployments than those of RepositoryParity: to one over HTTP, to   *)
(* the other over gRPC.  Both keep their users in memory, so that a call   *)
(* is one step.                                                            *)
(***************************************************************************)
EXTENDS RepositoryParity

CONSTANTS
    MissizedAddresses, \* addresses of less than 3 or more than 255 characters
    LongPasswords,     \* passwords of more than 128 characters
    EmptyPassword,
    Clients            \* where calls come from: [host, peer]

\* bcrypt tells the empty password from those of accounts, the seeds' included.
ASSUME PasswordSizeAssumption ==
    /\ MissizedAddresses \subseteq Addresses
    /\ LongPasswords \subseteq Passwords \ WeakPasswords
    /\ EmptyPassword \in WeakPasswords
    /\ \A p \in Passwords \ WeakPasswords : Digest[p] # Digest[EmptyPassword]
    /\ \A k \in 1..Len(Seeds) : Seeds[k].password_hash # Digest[EmptyPassword]

VARIABLES
    web,   \* the dictionaries of the deployment called over HTTP
    rpc,   \* those of the deployment called over gRPC
    calls  \* the calls made: what was meant and what each entrance answered

transportVars == <<parityVars, web, rpc, calls>>

NotShown == 0   \* an answer that shows no user

\* The account an answer of the service is about.
Subject(m, a) ==
    CASE a.op = "register" -> m.seq
      [] a.op = "login"    -> CHOOSE i \in ByEmail(m, NormalizeEmail(a.address)) : TRUE
      [] a.op = "me"       -> a.claim.id
      [] a.op = "update"   -> a.target
      [] OTHER             -> NotShown

-----------------------------------------------------------------------------
(* HTTP.  200 stands for the 201 of a registration too.                     *)

HttpCode == [ok |-> 200, invalid |-> 400, unauthenticated |-> 401,
             forbidden |-> 403, not_found |-> 404, conflict |-> 409]
Unprocessable == 422

LongNames == {"padded", "wide"}   \* more than 128 characters before they are stripped

SchemaRefuses(a) ==
    \/ a.op = "register" /\ \/ a.address \in MissizedAddresses
                            \/ a.password \in WeakPasswords \cup LongPasswords
                            \/ a.role \notin Roles
                            \/ a.name \in LongNames
    \/ a.op = "login" /\ \/ a.address \in MissizedAddresses
                         \/ a.password \in LongPasswords \cup {EmptyPassword}
    \/ a.op = "update" /\ (a.target < 1 \/ a.status \notin EmploymentStatuses)

UserResponse(m, i) ==
    IF i = NotShown THEN <<>>
    ELSE <<[id |-> i, email |-> m.users[i].email, role |-> m.users[i].role,
            status |-> m.users[i].status,
            profile |-> IF Profiled(m, i) THEN <<m.profiles[i]>> ELSE <<>>]>>

\* The route's dependencies, identity and roles, run before its body is checked.
HttpCall(m, r, a) ==
    LET guarded == ServiceCall(m, r, [a EXCEPT !.op = "guard"])
        refused == IF a.op = "update" /\ guarded.out # "ok"
                   THEN HttpCode[guarded.out] ELSE Unprocessable
        result == ServiceCall(m, r, a) IN
    IF SchemaRefuses(a) THEN [memory |-> m, code |-> refused, user |-> <<>>]
    ELSE [memory |-> result.memory, code |-> HttpCode[result.out],
          user |-> IF result.out # "ok" THEN <<>>
                   ELSE UserResponse(result.memory, Subject(result.memory, a))]

-----------------------------------------------------------------------------
(* gRPC.  On the wire an enum is a number, zero its UNSPECIFIED.           *)

WireRole == [UNSPECIFIED |-> 0, WORKER |-> 1, CUSTOMER_SERVICE |-> 2, OWNER |-> 3]
WireStatus == [UNSPECIFIED |-> 0, ACTIVE |-> 1, DISABLED |-> 2]
WireEmployment == [UNSPECIFIED |-> 0, ON_DUTY |-> 1, DISABLED |-> 2]

ToDomainUserRole(n) ==
    CASE n = 1 -> "WORKER" [] n = 2 -> "CUSTOMER_SERVICE" [] n = 3 -> "OWNER"
      [] OTHER -> "UNSPECIFIED"

ToDomainUserStatusNumber(n) ==   \* variant: the other enum's numbers
    CASE n = 2 -> "ON_DUTY" [] n = 1 -> "DISABLED" [] OTHER -> "UNSPECIFIED"
ToDomainEmploymentStatus(n) ==
    CASE n = 1 -> "ON_DUTY" [] n = 2 -> "DISABLED" [] OTHER -> "UNSPECIFIED"

ToGrpcBareUser(m, i) ==   \* variant: worker_profile is not copied
    IF i = NotShown THEN <<>>
    ELSE <<[id |-> i, email |-> m.users[i].email,
            role |-> WireRole[m.users[i].role],
            status |-> WireStatus[m.users[i].status], profile |-> <<>>]>>

ToGrpcUser(m, i) ==
    IF i = NotShown THEN <<>>
    ELSE <<[id |-> i, email |-> m.users[i].email,
            role |-> WireRole[m.users[i].role],
            status |-> WireStatus[m.users[i].status],
            profile |-> IF Profiled(m, i) THEN <<WireEmployment[m.profiles[i]]>> ELSE <<>>]>>

\* Metadata is what arrives under x-user-id and under x-user-role, in order.
\* A role is spelled as a word, in any case, after any number of USER_ROLE_.
Spelled(word, prefixes) == [word |-> word, prefixes |-> prefixes]
Digits(n) == [digits |-> TRUE, number |-> n]
NotDigits == [digits |-> FALSE, number |-> 0]

ParseBareRole(s) ==   \* variant: USER_ROLE_ is not removed
    IF s.prefixes = 0 /\ s.word \in Roles THEN s.word ELSE "UNSPECIFIED"
ParseGatewayRole(s) ==
    IF s.prefixes \in {0, 1} /\ s.word \in Roles THEN s.word ELSE "UNSPECIFIED"

AuthenticateFromContext(metadata) ==
    IF /\ metadata.ids # <<>> /\ metadata.roles # <<>>
       /\ Head(metadata.ids).digits
       /\ ParseGatewayRole(Head(metadata.roles)) # "UNSPECIFIED"
    THEN [id |-> Head(metadata.ids).number,
          role |-> ParseGatewayRole(Head(metadata.roles))]
    ELSE NoClaim

\* A peer is the pieces between its colons; "[" stands for what splitting
\* ipv6:[::1]:51234 leaves second.
ParsePeerIp(peer) ==
    IF Len(peer) < 2 THEN "None" ELSE IF peer[2] = "[" THEN "" ELSE peer[2]

GrpcCode == [ok |-> "OK", invalid |-> "INVALID_ARGUMENT", not_found |-> "NOT_FOUND",
             conflict |-> "ALREADY_EXISTS", unauthenticated |-> "UNAUTHENTICATED",
             forbidden |-> "PERMISSION_DENIED"]

\* What a handler makes of a call and of the metadata it came with.
Received(a, metadata) ==
    [a EXCEPT !.role = ToDomainUserRole(WireRole[@]),
              !.status = ToDomainEmploymentStatus(WireEmployment[@]),
              !.claim = AuthenticateFromContext(metadata)]

GrpcCall(m, r, a, metadata) ==
    LET received == Received(a, metadata)
        result == ServiceCall(m, r, received) IN
    [memory |-> result.memory, code |-> GrpcCode[result.out],
     user |-> IF result.out # "ok" THEN <<>>
              ELSE ToGrpcUser(result.memory, Subject(result.memory, received))]

-----------------------------------------------------------------------------

\* What the gateway forwards of a caller it identified, and of one it did not.
GatewayMetadata(claim) ==
    IF claim # NoClaim
    THEN {[ids |-> <<Digits(claim.id)>>, roles |-> <<Spelled(claim.role, p)>>] : p \in {0, 1}}
    ELSE {[ids |-> <<>>, roles |-> <<>>],
          [ids |-> <<Digits(1)>>, roles |-> <<>>],
          [ids |-> <<>>, roles |-> <<Spelled("OWNER", 0)>>],
          [ids |-> <<NotDigits>>, roles |-> <<Spelled("OWNER", 0)>>],
          [ids |-> <<Digits(1)>>, roles |-> <<Spelled("OWNER", 2)>>],
          [ids |-> <<Digits(1)>>, roles |-> <<Spelled("NOBODY", 0)>>]}

Made == {r \in Requests : calls[r] # <<>>}

TransportInit ==
    /\ ParityInit
    /\ web = EmptyMemory /\ rpc = EmptyMemory
    /\ calls = [r \in Requests |-> <<>>]

SeedAll ==
    /\ SeedMemory
    /\ web' = SeedUser(web, Seeds[seeded + 1])
    /\ rpc' = SeedUser(rpc, Seeds[seeded + 1])
    /\ UNCHANGED calls

Serve(r, a, client, metadata) ==
    LET http == HttpCall(web, r, a)
        grpc == GrpcCall(rpc, r, a, metadata) IN
    /\ BeginBoth(r, a)
    /\ web' = http.memory
    /\ rpc' = grpc.memory
    /\ calls' = [calls EXCEPT ![r] =
          <<[httpCode |-> http.code, httpUser |-> http.user, httpIp |-> client.host,
             grpcCode |-> grpc.code, grpcUser |-> grpc.user,
             grpcIp |-> ParsePeerIp(client.peer)]>>]

TransportNext ==
    \/ SeedAll
    \/ \E r \in Requests, a \in Inputs, client \in Clients :
          \E metadata \in GatewayMetadata(a.claim) : Serve(r, a, client, metadata)
    \/ \E r \in Requests : Advance(r) /\ UNCHANGED <<memory, seeded, reply, web, rpc, calls>>
    \/ \E r \in Requests : OverflowOverSql(r) /\ UNCHANGED <<web, rpc, calls>>
    \/ AllAnswered /\ UNCHANGED <<memory, seeded, reply, web, rpc, calls>>

TransportSpec == TransportInit /\ [][TransportNext]_transportVars

-----------------------------------------------------------------------------

\* A call the HTTP schema refuses for the length of an e-mail, a password or a
\* display name, which nothing else bounds: gRPC lets it through.
BeyondLengths(a) ==
    /\ a.op \in {"register", "login"} /\ NormalizeEmail(a.address) # NoEmail
    /\ \/ a.address \in MissizedAddresses
       \/ a.password \in LongPasswords
       \/ a.op = "register" /\ a.name \in LongNames

Comparable == \A r \in Made : ~ BeyondLengths(input[r])

CodesAgree(httpCode, grpcCode) ==
    IF httpCode = Unprocessable THEN grpcCode # "OK"
    ELSE \E out \in DOMAIN HttpCode : httpCode = HttpCode[out] /\ grpcCode = GrpcCode[out]

\* Until a call is beyond those lengths (e-mail, password, display name), both
\* entrances answer every call alike, after any calls before it: the same kind
\* of success or refusal.  What else the HTTP schema alone turns away, gRPC
\* refuses too.
AnswersAgree ==
    Comparable => \A r \in Made : CodesAgree(calls[r][1].httpCode, calls[r][1].grpcCode)

\* The same calls leave the same accounts, profiles, last logins and audit rows
\* behind whichever way they came in; only an empty password, which the HTTP
\* schema turns away, is logged by gRPC alone.
SameRecords ==
    Comparable =>
        /\ web.users = rpc.users
        /\ web.profiles = rpc.profiles
        /\ \A r \in Made : calls[r][1].httpCode # Unprocessable =>
               web.logs[r] = rpc.logs[r]

OnTheWire(user) ==
    [user EXCEPT !.role = WireRole[@], !.status = WireStatus[@],
                 !.profile = IF @ = <<>> THEN <<>> ELSE <<WireEmployment[Head(@)]>>]

SameUser(httpUser, grpcUser) ==
    /\ Len(httpUser) = Len(grpcUser)
    /\ \A k \in 1..Len(httpUser) : grpcUser[k] = OnTheWire(httpUser[k])

\* The user a gRPC client decodes is the user an HTTP client is shown, with its
\* role, its two statuses and, for a worker only, its profile.
SameUserShown ==
    Comparable => \A r \in Made : SameUser(calls[r][1].httpUser, calls[r][1].grpcUser)

-----------------------------------------------------------------------------
(* Why they hold: gRPC decodes what was meant, and a call that HTTP alone   *)
(* turns away changes nothing but its own audit rows.                      *)

\* Dictionaries as the calls leave them.
WellFormed(m) ==
    /\ m = Dictionaries(m.users, Index(m.users), m.profiles, m.logs, m.seq)
    /\ m.seq \in Nat
    /\ m.users \in [DOMAIN m.users -> UserRow] /\ DOMAIN m.users \subseteq 1..m.seq
    /\ m.profiles \in [DOMAIN m.profiles -> EmploymentStatuses]
    /\ m.logs \in [Requests -> Seq(AuditRow)]
    /\ Sound(m)
    /\ \A i \in DOMAIN m.users : m.users[i].password_hash # Digest[EmptyPassword]

\* The calls the HTTP schema turned away.
Turned == {r \in Made : calls[r][1].httpCode = Unprocessable}

\* The same dictionaries, without the audit rows of some requests.
Without(m, rs) == [m EXCEPT !.logs = [r \in Requests |-> IF r \in rs THEN <<>> ELSE @[r]]]

Total(f) == f = [r \in Requests |-> f[r]]

TransportInv ==
    /\ Total(reply) /\ Total(calls)
    /\ \A r \in Requests : r \in Made <=> pc[r] # "idle"
    /\ \A r \in Requests \ Made : memory.logs[r] = <<>>
    /\ seeded < Len(Seeds) => Made = {} /\ web = memory
    /\ WellFormed(memory)
    /\ rpc = memory
    /\ Comparable => web = Without(memory, Turned)
    /\ AnswersAgree
    /\ SameUserShown

-----------------------------------------------------------------------------
(* What the texts say and the code refutes.                                *)

\* transport/grpc/service.py:231 gives ipv4 and ipv6 peers as what _parse_peer_ip
\* reads: the audit row of a gRPC call carries the address its client has.
PeerAddressLogged ==
    \A r \in Made : rpc.logs[r] # <<>> => calls[r][1].grpcIp = calls[r][1].httpIp
===============================================================================
