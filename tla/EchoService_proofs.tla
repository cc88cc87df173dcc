-------------------------- MODULE EchoService_proofs --------------------------
(***************************************************************************)
(* What the echo service answers and keeps, for any number of calls,       *)
(* processes, stores and restarts: EchoInv is inductive, and with it every *)
(* step is a step of WriteOnceStore or none.                               *)
(***************************************************************************)
EXTENDS EchoService, TLAPS

Outcomes == {"ok", "failed", "rejected", "invalid", "not_found"}
EchoSteps == UnderWay \cup Outcomes \cup {"idle"}

\* A call that may have written: its message passed the schema and strip().
Creating(c) ==
    /\ sent[c].op = "create" /\ sent[c].at \in Processes
    /\ sent[c].source \in Sources /\ Stripped[sent[c].message] \in Texts

\* A call for an echo that its creator was told of, or for none.
Getting(c) ==
    /\ sent[c].op = "get" /\ sent[c].at \in Processes
    /\ step[c] = "ok" => sent[c].id \in Calls
    /\ sent[c].id \in Calls => step[sent[c].id] = "ok" /\ sent[sent[c].id].op = "create"

StoresOK ==
    /\ DOMAIN store = Places
    /\ \A s \in Places : /\ DOMAIN store[s] \subseteq Calls
                         /\ store[s] = [c \in DOMAIN store[s] |-> store[s][c]]

CallsOK ==
    /\ step \in [Calls -> EchoSteps]
    /\ DOMAIN sent = Calls /\ DOMAIN got = Calls
    /\ sent = [c \in Calls |-> sent[c]] /\ got = [c \in Calls |-> got[c]]
    /\ \A c \in Calls :
          /\ step[c] \in {"insert", "refresh"} => Creating(c)
          /\ step[c] = "select" => sent[c].op = "get"
          /\ step[c] = "ok" => sent[c].op \in {"create", "get"}
          /\ sent[c].op = "create" => sent[c].at \in Processes
          /\ sent[c].op = "get" => Getting(c)

\* What a creator was told of, or is about to be told of, is still kept.
PromisesKept ==
    /\ promised \subseteq Calls
    /\ \A c \in promised : step[c] = "ok" /\ sent[c].op = "create"
                           /\ c \in DOMAIN store[Home(c)]
    /\ \A c \in Calls : step[c] = "refresh" => c \in DOMAIN store[Home(c)]

EchoInv == StoresOK /\ CallsOK /\ PromisesKept /\ EchoesFaithful /\ EchoesFound

USE DEF Outcomes, UnderWay, EchoSteps

\* Before the first call nothing is kept and nothing promised.
LEMMA EchoInitInv == EchoInit => EchoInv
  BY DEF EchoInit, EchoInv, StoresOK, CallsOK, PromisesKept, EchoesFaithful, EchoesFound,
         Unsent, Creating, Getting

\* create_echo, up to its INSERT: the schema and strip() decide.
LEMMA BeginCreateKeeps ==
  ASSUME EchoInv, NEW c \in Calls, NEW p \in Processes, NEW source \in Sources,
         NEW m \in Messages, BeginCreate(c, source, m, p)
  PROVE  EchoInv'
<1> USE DEF EchoInv
<1>1. /\ step[c] = "idle" /\ step' = [step EXCEPT ![c] = CheckMessage(source, m)]
      /\ CheckMessage(source, m) \in {"rejected", "invalid", "insert"}
      /\ CheckMessage(source, m) = "insert" => Stripped[m] \in Texts
  BY EchoAssumption DEF BeginCreate, Move, CheckMessage
<1>2. /\ sent' = [sent EXCEPT ![c] = [op |-> "create", source |-> source, message |-> m, at |-> p]]
      /\ UNCHANGED <<store, got, promised>>
  BY DEF BeginCreate
<1>3. /\ \A d \in Calls \ {c} : step'[d] = step[d] /\ sent'[d] = sent[d]
      /\ step'[c] = CheckMessage(source, m)
      /\ sent'[c] = [op |-> "create", source |-> source, message |-> m, at |-> p]
      /\ \A d \in Calls : step[d] # "idle" => d # c
  BY <1>1, <1>2 DEF CallsOK
<1>4. \A d \in Calls : sent[d].op = "get" /\ d # c => (sent[d].id # c \/ c \notin Calls)
  BY <1>1 DEF CallsOK, Getting
<1>5. StoresOK'
  BY <1>2 DEF StoresOK
<1>6. CallsOK'
  <2>1. /\ step' \in [Calls -> EchoSteps] /\ DOMAIN sent' = Calls /\ DOMAIN got' = Calls
        /\ sent' = [d \in Calls |-> sent'[d]] /\ got' = [d \in Calls |-> got'[d]]
    BY <1>1, <1>2 DEF CallsOK
  <2>2. \A d \in Calls \ {c} : Getting(d) => Getting(d)'
    BY <1>1, <1>3 DEF Getting
  <2>3. \A d \in Calls \ {c} : Creating(d) => Creating(d)'
    BY <1>3 DEF Creating
  <2>4. step'[c] = "insert" => Creating(c)'
    BY <1>1, <1>3 DEF Creating
  <2> QED
    BY <1>1, <1>3, <2>1, <2>2, <2>3, <2>4 DEF CallsOK
<1>7. PromisesKept'
  BY <1>1, <1>2, <1>3 DEF PromisesKept, Home
<1>8. EchoesFaithful'
  <2>1. \A s \in Places : \A d \in DOMAIN store'[s] : d # c /\ d \in Calls
    BY <1>1, <1>2 DEF EchoesFaithful, StoresOK
  <2>2. ASSUME NEW d \in Calls, step'[d] = "ok"
        PROVE  got'[d] = Sent(IF sent[d].op = "get" THEN sent[d].id ELSE d)' /\ d # c
    <3>1. d # c /\ got[d] = Sent(IF sent[d].op = "get" THEN sent[d].id ELSE d)
      BY <1>1, <1>3, <2>2 DEF EchoesFaithful
    <3>2. sent[d].op = "get" => sent[d].id \in Calls \ {c}
      BY <1>1, <1>3, <1>4, <2>2 DEF CallsOK, Getting
    <3> QED
      BY <1>2, <1>3, <3>1, <3>2 DEF Sent
  <2> QED
    BY <1>2, <1>3, <2>1, <2>2 DEF EchoesFaithful, Home, Sent
<1>9. EchoesFound'
  BY <1>1, <1>2, <1>3, <1>4 DEF EchoesFound, PromisesKept, Home, CallsOK, Getting
<1> QED
  BY <1>5, <1>6, <1>7, <1>8, <1>9

\* get_echo, up to its SELECT, under an id the client was answered with.
LEMMA BeginGetKeeps ==
  ASSUME EchoInv, NEW c \in Calls, NEW p \in Processes,
         NEW i \in Calls \cup {NoId, BlankId}, BeginGet(c, i, p)
  PROVE  EchoInv'
<1> USE DEF EchoInv
<1> DEFINE to == IF i = BlankId THEN "invalid" ELSE "select"
<1>1. /\ step[c] = "idle" /\ step' = [step EXCEPT ![c] = to]
      /\ to \in {"invalid", "select"}
      /\ i \in Calls => step[i] = "ok" /\ sent[i].op = "create"
  BY DEF BeginGet, Move
<1>2. /\ sent' = [sent EXCEPT ![c] = [op |-> "get", id |-> i, at |-> p]]
      /\ UNCHANGED <<store, got, promised>>
  BY DEF BeginGet
<1> HIDE DEF to
<1>3. /\ \A d \in Calls \ {c} : step'[d] = step[d] /\ sent'[d] = sent[d]
      /\ step'[c] = to
      /\ sent'[c] = [op |-> "get", id |-> i, at |-> p]
  BY <1>1, <1>2 DEF CallsOK
<1>4. \A d \in Calls : sent[d].op = "get" => sent[d].id # c
  BY <1>1 DEF CallsOK, Getting
<1>5. StoresOK'
  BY <1>2 DEF StoresOK
<1>6. CallsOK'
  <2>1. /\ step' \in [Calls -> EchoSteps] /\ DOMAIN sent' = Calls /\ DOMAIN got' = Calls
        /\ sent' = [d \in Calls |-> sent'[d]] /\ got' = [d \in Calls |-> got'[d]]
    BY <1>1, <1>2 DEF CallsOK
  <2>2. \A d \in Calls \ {c} : Getting(d) => Getting(d)'
    BY <1>1, <1>3 DEF Getting
  <2>3. \A d \in Calls \ {c} : Creating(d) => Creating(d)'
    BY <1>3 DEF Creating
  <2>4. Getting(c)'
    <3>1. i \in Calls => i # c
      BY <1>1
    <3> QED
      BY <1>1, <1>3, <3>1 DEF Getting
  <2> QED
    BY <1>1, <1>3, <2>1, <2>2, <2>3, <2>4 DEF CallsOK
<1>7. PromisesKept'
  BY <1>1, <1>2, <1>3 DEF PromisesKept, Home
<1>8. EchoesFaithful'
  <2>1. \A s \in Places : \A d \in DOMAIN store'[s] : d # c /\ d \in Calls
    BY <1>1, <1>2 DEF EchoesFaithful, StoresOK
  <2>2. ASSUME NEW d \in Calls, step'[d] = "ok"
        PROVE  got'[d] = Sent(IF sent[d].op = "get" THEN sent[d].id ELSE d)' /\ d # c
    <3>1. d # c /\ got[d] = Sent(IF sent[d].op = "get" THEN sent[d].id ELSE d)
      BY <1>1, <1>3, <2>2 DEF EchoesFaithful
    <3>2. sent[d].op = "get" => sent[d].id \in Calls \ {c}
      BY <1>1, <1>3, <1>4, <2>2 DEF CallsOK, Getting
    <3> QED
      BY <1>2, <1>3, <3>1, <3>2 DEF Sent
  <2> QED
    BY <1>2, <1>3, <2>1, <2>2 DEF EchoesFaithful, Home, Sent
<1>9. EchoesFound'
  BY <1>1, <1>2, <1>3, <1>4 DEF EchoesFound, PromisesKept, Home, CallsOK, Getting
<1> QED
  BY <1>5, <1>6, <1>7, <1>8, <1>9

\* From here on no step changes what was sent: a call moves on from where it stands.
Moves(c, from, to) ==
    /\ step[c] = from /\ from # "ok" /\ step' = [step EXCEPT ![c] = to]
    /\ UNCHANGED sent

\* A call that moves on disturbs no other: nobody can name the id it is under
\* before it is answered.
LEMMA MoveKeepsCalls ==
  ASSUME CallsOK, NEW c \in Calls, NEW from \in {"insert", "refresh", "select"},
         NEW to \in {"refresh", "ok", "failed", "not_found"},
         Moves(c, from, to), to = "refresh" => from = "insert",
         to = "ok" /\ sent[c].op = "get" => sent[c].id \in Calls,
         to = "ok" => from # "insert",
         DOMAIN got' = Calls, got' = [d \in Calls |-> got'[d]]
  PROVE  /\ CallsOK'
         /\ step'[c] = to /\ \A d \in Calls \ {c} : step'[d] = step[d]
         /\ \A d \in Calls : sent[d].op = "get" => sent[d].id # c
<1>1. step'[c] = to /\ \A d \in Calls \ {c} : step'[d] = step[d]
  BY DEF Moves, CallsOK
<1>2. \A d \in Calls : sent[d].op = "get" => sent[d].id # c
  BY DEF CallsOK, Getting, Moves
<1>3. \A d \in Calls : Creating(d) => Creating(d)'
  BY DEF Creating, Moves
<1>4. \A d \in Calls : sent[d].op = "get" /\ Getting(d) => Getting(d)'
  BY <1>1, <1>2 DEF Getting, Moves
<1>5. step' \in [Calls -> EchoSteps] /\ sent' = sent
  BY DEF CallsOK, Moves
<1>6. to = "ok" => sent[c].op \in {"create", "get"}
  BY DEF CallsOK, Moves, Creating
<1>7. \A d \in Calls : /\ step'[d] \in {"insert", "refresh"} => Creating(d)'
                       /\ step'[d] = "select" => sent'[d].op = "get"
                       /\ step'[d] = "ok" => sent'[d].op \in {"create", "get"}
  BY <1>1, <1>3, <1>5, <1>6 DEF CallsOK, Moves
<1> QED
  BY <1>1, <1>2, <1>4, <1>5, <1>7 DEF CallsOK

\* A call that ends without an answer leaves the stores and the answers alone.
LEMMA EndKeeps ==
  ASSUME EchoInv, NEW c \in Calls, NEW from \in UnderWay, NEW to \in {"failed", "not_found"},
         Moves(c, from, to), UNCHANGED <<store, got, promised>>,
         to = "not_found" => sent[c].op = "get" /\ ~ Found(c)
  PROVE  EchoInv'
<1> USE DEF EchoInv
<1>1. /\ CallsOK' /\ step'[c] = to /\ \A d \in Calls \ {c} : step'[d] = step[d]
      /\ \A d \in Calls : sent[d].op = "get" => sent[d].id # c
      /\ sent' = sent /\ step[c] = from
  <2>1. DOMAIN got' = Calls /\ got' = [d \in Calls |-> got'[d]]
    BY DEF CallsOK
  <2> QED
    BY <2>1, MoveKeepsCalls DEF Moves
<1>2. StoresOK'
  BY DEF StoresOK
<1>3. PromisesKept'
  BY <1>1 DEF PromisesKept, Home
<1>4. EchoesFaithful'
  <2>1. \A s \in Places : \A d \in DOMAIN store[s] :
           d \in Calls /\ step'[d] \in {"refresh", "ok", "failed"}
    BY <1>1 DEF EchoesFaithful, StoresOK
  <2> QED
    BY <1>1, <2>1 DEF EchoesFaithful, Home, Sent
<1>5. EchoesFound'
  BY <1>1 DEF EchoesFound, PromisesKept, Home, Found
<1> QED
  BY <1>1, <1>2, <1>3, <1>4, <1>5

\* create commits one record, under the id of the call.
LEMMA CreateKeeps ==
  ASSUME EchoInv, NEW c \in Calls, Create(c)
  PROVE  EchoInv' /\ Creating(c) /\ Home(c) \in Places
<1> USE DEF EchoInv
<1>1. Moves(c, "insert", "refresh") /\ UNCHANGED <<got, promised>>
  BY DEF Create, Move, Moves
<1>2. /\ CallsOK' /\ step'[c] = "refresh" /\ \A d \in Calls \ {c} : step'[d] = step[d]
      /\ sent' = sent /\ step[c] = "insert"
  <2>1. DOMAIN got' = Calls /\ got' = [d \in Calls |-> got'[d]]
    BY <1>1 DEF CallsOK
  <2> QED
    BY <1>1, <2>1, MoveKeepsCalls DEF Moves
<1>3. Creating(c) /\ Home(c) \in Places
  BY <1>2 DEF CallsOK, Creating, Home, Places
<1>4. /\ DOMAIN store' = Places
      /\ \A s \in Places \ {Home(c)} : store'[s] = store[s]
      /\ DOMAIN store'[Home(c)] = DOMAIN store[Home(c)] \cup {c}
      /\ store'[Home(c)][c] = NewRecord(c)
      /\ \A d \in DOMAIN store[Home(c)] \ {c} : store'[Home(c)][d] = store[Home(c)][d]
      /\ store'[Home(c)] = [d \in DOMAIN store'[Home(c)] |-> store'[Home(c)][d]]
  BY <1>3 DEF Create, Put, StoresOK
<1>5. StoresOK'
  BY <1>4 DEF StoresOK
<1>6. \A s \in Places : c \notin DOMAIN store[s]
  BY <1>2 DEF EchoesFaithful
<1>7. PromisesKept'
  <2>1. \A d \in Calls : sent[d].op = "create" => Home(d) \in Places
    BY DEF CallsOK, Home, Places
  <2>2. \A d \in Calls : (sent[d].op = "create" /\ d \in DOMAIN store[Home(d)])
                          => d \in DOMAIN store'[Home(d)]
    BY <1>4, <2>1
  <2>3. \A d \in Calls \ {c} : step[d] = "refresh" => sent[d].op = "create"
    BY DEF CallsOK, Creating
  <2>4. c \notin promised /\ c \in DOMAIN store'[Home(c)]
    BY <1>2, <1>4 DEF PromisesKept
  <2> QED
    BY <1>1, <1>2, <2>2, <2>3, <2>4 DEF PromisesKept, Home
<1>8. EchoesFaithful'
  <2>1. NewRecord(c) = Sent(c) /\ Sent(c) \in Record
    BY <1>3 DEF NewRecord, Sent, Record, Creating
  <2>2. ASSUME NEW s \in Places, NEW d \in DOMAIN store'[s]
        PROVE  /\ sent'[d].op = "create" /\ s = Home(d)'
               /\ step'[d] \in {"refresh", "ok", "failed"}
               /\ store'[s][d] = Sent(d)' /\ store'[s][d] \in Record
    <3>1. CASE s = Home(c) /\ d = c
      BY <1>2, <1>3, <1>4, <2>1, <3>1 DEF Creating, Home, Sent
    <3>2. CASE d # c
      <4>1. d \in DOMAIN store[s] /\ store'[s][d] = store[s][d] /\ d \in Calls
        BY <1>4, <3>2 DEF StoresOK
      <4> QED
        BY <1>2, <3>2, <4>1 DEF EchoesFaithful, Home, Sent
    <3> QED
      BY <1>4, <1>6, <3>1, <3>2
  <2> QED
    BY <1>1, <1>2, <2>2 DEF EchoesFaithful, Sent
<1>9. EchoesFound'
  BY <1>1, <1>2 DEF EchoesFound, Home
<1> QED
  BY <1>2, <1>3, <1>5, <1>7, <1>8, <1>9

\* The SELECT after the commit finds the record, and the creator is told.
LEMMA RefreshKeeps ==
  ASSUME EchoInv, NEW c \in Calls, Refresh(c)
  PROVE  EchoInv'
<1> USE DEF EchoInv
<1>1. step[c] = "refresh"
  BY DEF Refresh, Move
<1>2. c \in DOMAIN store[Home(c)] /\ Creating(c) /\ Home(c) \in Places
  BY <1>1 DEF PromisesKept, CallsOK, Creating, Home, Places
<1>3. /\ Moves(c, "refresh", "ok") /\ store' = store
      /\ got' = [got EXCEPT ![c] = store[Home(c)][c]]
      /\ promised' = promised \cup {c}
  <2>1. {r \in {c} : r \in DOMAIN store[Home(c)]} = {c}
    BY <1>2
  <2> QED
    BY <1>1, <2>1 DEF Refresh, Move, Moves
<1>4. /\ CallsOK' /\ step'[c] = "ok" /\ \A d \in Calls \ {c} : step'[d] = step[d]
      /\ \A d \in Calls : sent[d].op = "get" => sent[d].id # c
      /\ sent' = sent
  <2>1. DOMAIN got' = Calls /\ got' = [d \in Calls |-> got'[d]]
    BY <1>3 DEF CallsOK
  <2> QED
    BY <1>2, <1>3, <2>1, MoveKeepsCalls DEF Moves, Creating
<1>5. StoresOK'
  BY <1>3 DEF StoresOK
<1>6. PromisesKept'
  BY <1>2, <1>3, <1>4 DEF PromisesKept, Home, Creating
<1>7. EchoesFaithful'
  <2>1. store[Home(c)][c] = Sent(c)
    BY <1>2 DEF EchoesFaithful
  <2>2. got'[c] = Sent(c) /\ \A d \in Calls \ {c} : got'[d] = got[d]
    BY <1>3, <2>1 DEF CallsOK
  <2>3. sent[c].op # "get"
    BY <1>2 DEF Creating
  <2>4. ASSUME NEW d \in Calls, step'[d] = "ok"
        PROVE  got'[d] = Sent(IF sent[d].op = "get" THEN sent[d].id ELSE d)'
    BY <1>4, <2>2, <2>3, <2>4 DEF EchoesFaithful, Sent
  <2>5. \A s \in Places : \A d \in DOMAIN store[s] :
           d \in Calls /\ step'[d] \in {"refresh", "ok", "failed"}
    BY <1>4 DEF EchoesFaithful, StoresOK
  <2>6. ASSUME NEW s \in Places, NEW d \in DOMAIN store'[s]
        PROVE  /\ sent'[d].op = "create" /\ s = Home(d)'
               /\ step'[d] \in {"refresh", "ok", "failed"}
               /\ store'[s][d] = Sent(d)' /\ store'[s][d] \in Record
    <3>1. store' = store /\ sent' = sent
      BY <1>3, <1>4
    <3>2. /\ sent[d].op = "create" /\ s = Home(d)
          /\ store[s][d] = Sent(d) /\ store[s][d] \in Record
      BY <3>1, <2>6 DEF EchoesFaithful
    <3> QED
      BY <2>5, <2>6, <3>1, <3>2 DEF Home, Sent
  <2> QED
    BY <2>4, <2>6 DEF EchoesFaithful
<1>8. EchoesFound'
  BY <1>3, <1>4 DEF EchoesFound, Home
<1> QED
  BY <1>4, <1>5, <1>6, <1>7, <1>8

\* get_by_id answers what the store has, and NotFoundError only if it has nothing.
LEMMA GetByIdKeeps ==
  ASSUME EchoInv, NEW c \in Calls, GetById(c)
  PROVE  EchoInv'
<1> USE DEF EchoInv
<1>1. step[c] = "select" /\ sent[c].op = "get" /\ Getting(c) /\ Home(c) \in Places
  BY DEF GetById, Move, CallsOK, Getting, Home, Places
<1>2. CASE ~ Found(c)
  BY <1>1, <1>2, EndKeeps DEF GetById, Move, Moves
<1>3. CASE Found(c)
  <2> DEFINE i == sent[c].id
  <2>1. /\ Moves(c, "select", "ok") /\ UNCHANGED <<store, promised>>
        /\ got' = [got EXCEPT ![c] = store[Home(c)][i]]
    BY <1>3 DEF GetById, Move, Moves
  <2>2. i \in Calls /\ i \in DOMAIN store[Home(c)]
    BY <1>1, <1>3 DEF Found, StoresOK
  <2>3. /\ CallsOK' /\ step'[c] = "ok" /\ \A d \in Calls \ {c} : step'[d] = step[d]
        /\ sent' = sent
    <3>1. DOMAIN got' = Calls /\ got' = [d \in Calls |-> got'[d]]
      BY <2>1 DEF CallsOK
    <3> QED
      BY <2>1, <2>2, <3>1, MoveKeepsCalls DEF Moves
  <2>4. StoresOK'
    BY <2>1 DEF StoresOK
  <2>5. PromisesKept'
    BY <1>1, <2>1, <2>3 DEF PromisesKept, Home
  <2>6. EchoesFaithful'
    <3>1. got'[c] = Sent(i) /\ \A d \in Calls \ {c} : got'[d] = got[d]
      BY <1>1, <2>1, <2>2 DEF EchoesFaithful, CallsOK
    <3>2. ASSUME NEW d \in Calls, step'[d] = "ok"
          PROVE  got'[d] = Sent(IF sent[d].op = "get" THEN sent[d].id ELSE d)'
      BY <1>1, <2>3, <3>1, <3>2 DEF EchoesFaithful, Sent
    <3>3. \A s \in Places : \A d \in DOMAIN store[s] :
             d \in Calls /\ step'[d] \in {"refresh", "ok", "failed"}
      BY <2>3 DEF EchoesFaithful, StoresOK
    <3> QED
      BY <2>1, <2>3, <3>2, <3>3 DEF EchoesFaithful, Home, Sent
  <2>7. EchoesFound'
    BY <2>1, <2>3 DEF EchoesFound, Home
  <2> QED
    BY <2>3, <2>4, <2>5, <2>6, <2>7
<1> QED
  BY <1>2, <1>3

\* A restart ends the calls of one process, and clears the dictionary it has
\* if it is not over the database.
LEMMA RestartKeeps ==
  ASSUME EchoInv, NEW p \in Processes, Restart(p)
  PROVE  EchoInv'
<1> USE DEF EchoInv
<1>1. /\ step' \in [Calls -> EchoSteps] /\ sent' = sent /\ got' = got
      /\ \A c \in Calls : step'[c] = IF step[c] \in UnderWay /\ sent[c].at = p
                                     THEN "failed" ELSE step[c]
  BY DEF Restart, CallsOK
<1>2. CallsOK'
  <2>1. \A c \in Calls : Creating(c) => Creating(c)'
    BY <1>1 DEF Creating
  <2>2. \A c \in Calls : Getting(c) => Getting(c)'
    BY <1>1 DEF Getting
  <2> QED
    BY <1>1, <2>1, <2>2 DEF CallsOK
<1>3. \A c \in Calls : sent[c].op = "create" => Home(c) \in Places
  BY DEF CallsOK, Home, Places
<1>4. CASE p \in Durable
  <2>1. UNCHANGED <<store, promised>>
    BY <1>4 DEF Restart
  <2>2. StoresOK'
    BY <2>1 DEF StoresOK
  <2>3. PromisesKept'
    BY <1>1, <2>1 DEF PromisesKept, Home
  <2>4. EchoesFaithful'
    <3>1. \A s \in Places : \A d \in DOMAIN store[s] :
             d \in Calls /\ step'[d] \in {"refresh", "ok", "failed"}
      BY <1>1 DEF EchoesFaithful, StoresOK
    <3> QED
      BY <1>1, <2>1, <3>1 DEF EchoesFaithful, Home, Sent
  <2>5. EchoesFound'
    BY <1>1, <2>1 DEF EchoesFound, Home
  <2> QED
    BY <1>2, <2>2, <2>3, <2>4, <2>5
<1>5. CASE p \notin Durable
  <2>1. /\ store' = [store EXCEPT ![p] = [i \in {} |-> Nothing]]
        /\ promised' = {c \in promised : sent[c].at # p}
    BY <1>5 DEF Restart
  <2>2. p \in Places /\ \A c \in Calls : sent[c].op = "create" => (Home(c) = p <=> sent[c].at = p)
    BY <1>5, EchoAssumption DEF Places, Place, Home, CallsOK
  <2>3. /\ DOMAIN store' = Places /\ DOMAIN store'[p] = {}
        /\ store'[p] = [d \in DOMAIN store'[p] |-> store'[p][d]]
        /\ \A s \in Places \ {p} : store'[s] = store[s]
    BY <2>1, <2>2 DEF StoresOK
  <2>4. StoresOK'
    BY <2>3 DEF StoresOK
  <2>5. PromisesKept'
    <3>1. \A d \in Calls : (sent[d].op = "create" /\ sent[d].at # p /\ d \in DOMAIN store[Home(d)])
                            => d \in DOMAIN store'[Home(d)]
      BY <1>3, <2>2, <2>3
    <3>2. \A d \in Calls : step'[d] = "refresh" =>
             step[d] = "refresh" /\ sent[d].op = "create" /\ sent[d].at # p
      BY <1>1 DEF CallsOK, Creating
    <3>3. \A d \in promised' : d \in promised /\ d \in Calls /\ sent[d].at # p /\ step'[d] = "ok"
      BY <1>1, <2>1 DEF PromisesKept
    <3> QED
      BY <1>1, <3>1, <3>2, <3>3 DEF PromisesKept, Home
  <2>6. EchoesFaithful'
    <3>1. \A s \in Places : \A d \in DOMAIN store'[s] :
             /\ d \in DOMAIN store[s] /\ store'[s][d] = store[s][d]
             /\ d \in Calls /\ step'[d] \in {"refresh", "ok", "failed"}
      BY <1>1, <2>3 DEF EchoesFaithful, StoresOK
    <3> QED
      BY <1>1, <3>1 DEF EchoesFaithful, Home, Sent
  <2>7. EchoesFound'
    BY <1>1, <2>1 DEF EchoesFound, Home
  <2> QED
    BY <1>2, <2>4, <2>5, <2>6, <2>7
<1> QED
  BY <1>4, <1>5

\* No step breaks the invariant.
LEMMA EchoStepKeeps == EchoInv /\ [EchoNext]_echoVars => EchoInv'
<1> SUFFICES ASSUME EchoInv, [EchoNext]_echoVars PROVE EchoInv'
  OBVIOUS
<1>1. CASE UNCHANGED echoVars
  <2> USE <1>1 DEF echoVars, EchoInv
  <2>1. StoresOK' /\ CallsOK'
    BY DEF StoresOK, CallsOK, Creating, Getting
  <2>2. PromisesKept' /\ EchoesFaithful' /\ EchoesFound'
    BY DEF PromisesKept, EchoesFaithful, EchoesFound, Home, Sent
  <2> QED
    BY <2>1, <2>2
<1>2. ASSUME NEW c \in Calls, CreateFails(c) \/ Die(c)
      PROVE  EchoInv'
  <2>1. step[c] \in UnderWay /\ Moves(c, step[c], "failed") /\ UNCHANGED <<store, got, promised>>
    BY <1>2 DEF CreateFails, Die, Move, Moves
  <2> QED
    BY <2>1, EndKeeps
<1> QED
  BY <1>1, <1>2, BeginCreateKeeps, BeginGetKeeps, CreateKeeps, RefreshKeeps, GetByIdKeeps,
     RestartKeeps DEF EchoNext, EchoOver

\* EchoInv holds in every state of the service.
THEOREM EchoInvariance == EchoSpec => []EchoInv
  BY EchoInitInv, EchoStepKeeps, PTL DEF EchoSpec

\* An echo its creator was told of is found wherever it is kept.
THEOREM PromisedEchoesFound == EchoSpec => []EchoesFound
<1>1. EchoInv => EchoesFound
  BY DEF EchoInv
<1> QED
  BY <1>1, EchoInvariance, PTL

\* What is stored and what is answered is what was sent, stripped.
THEOREM EchoesAsSent == EchoSpec => []EchoesFaithful
<1>1. EchoInv => EchoesFaithful
  BY DEF EchoInv
<1> QED
  BY <1>1, EchoInvariance, PTL

\* The service implements the write-once store: a record is written under an id
\* no store has, none is changed, and a store forgets all or nothing.
THEOREM EchoesWrittenOnce == EchoSpec => WritesOnce
<1>1. EchoInit => Promise!Init
  BY DEF EchoInit, Promise!Init, Promise!Empty
<1>2. EchoInv /\ [EchoNext]_echoVars => [Promise!Next]_store
  <2> SUFFICES ASSUME EchoInv, [EchoNext]_echoVars PROVE Promise!Next \/ UNCHANGED store
    OBVIOUS
  <2>1. ASSUME NEW c \in Calls, Create(c) PROVE Promise!Next
    <3>1. /\ Home(c) \in Places /\ NewRecord(c) \in Record
          /\ \A s \in Places : c \notin DOMAIN store[s]
      BY <2>1, CreateKeeps DEF Creating, NewRecord, Record, EchoInv, EchoesFaithful, Create, Move
    <3>2. store' = [store EXCEPT ![Home(c)] = Put(@, c, NewRecord(c))]
      BY <2>1 DEF Create
    <3>3. c \in DOMAIN store'[Home(c)]
      BY <3>1, <3>2 DEF Put, EchoInv, StoresOK
    <3>4. Promise!Write(Home(c), c, NewRecord(c))
      BY <3>1, <3>2 DEF Promise!Write, Promise!Fresh, Put
    <3> QED
      BY <3>1, <3>3, <3>4 DEF Promise!Next
  <2>2. ASSUME NEW p \in Processes, Restart(p) PROVE Promise!Next \/ UNCHANGED store
    <3>1. CASE p \notin Durable
      <4>1. p \in Places /\ p \in Processes \ Durable
        BY <3>1 DEF Places, Place
      <4>2. Promise!Forget(p)
        BY <2>2, <3>1, <4>1 DEF Restart, Promise!Forget, Promise!Empty
      <4> QED
        BY <4>1, <4>2 DEF Promise!Next
    <3>2. CASE p \in Durable
      BY <2>2, <3>2 DEF Restart
    <3> QED
      BY <3>1, <3>2
  <2>3. CASE UNCHANGED echoVars
    BY <2>3 DEF echoVars
  <2> QED
    BY <2>1, <2>2, <2>3
    DEF EchoNext, BeginCreate, BeginGet, CreateFails, Refresh, GetById, Die, EchoOver, echoVars
<1> QED
  BY <1>1, <1>2, EchoInvariance, PTL DEF EchoSpec, WritesOnce, Promise!Spec
=============================================================================
