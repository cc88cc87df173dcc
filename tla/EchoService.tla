----------------------------- MODULE EchoService -----------------------------
(***************************************************************************)
(* hsp_user_service.service.EchoService behind both transports, over       *)
(* either repository: create_echo and get_echo, called on processes that   *)
(* are each over the shared database or have a dictionary of their own,    *)
(* and that are restarted.                                                 *)
(*                                                                         *)
(* An id is a fresh uuid4: a record's id is the call that created it.      *)
(* Over SQL create commits, then selects the row again; a call may die at  *)
(* any round trip.                                                         *)
(***************************************************************************)
EXTENDS Naturals, FiniteSets

CONSTANTS
    Calls, Processes, Database,
    Durable,        \* the processes over the database; the others keep a dictionary
    Messages,       \* what a client may send
    Stripped,       \* Messages -> Texts \cup {NoText}: str.strip()
    Texts, NoText,  \* NoText is the empty string
    Unschematic,    \* the messages CreateEchoRequest refuses: none, or over 2048 long
    Oversized,      \* the texts the message column does not hold
    NoId,           \* an id nothing is recorded under
    BlankId,        \* an id that is empty once stripped
    MaxRestarts     \* bounds the restarts of a behaviour

ASSUME EchoAssumption ==
    /\ Durable \subseteq Processes /\ Database \notin Processes /\ MaxRestarts \in Nat
    /\ Stripped \in [Messages -> Texts \cup {NoText}] /\ NoText \notin Texts
    /\ {NoId, BlankId} \cap Calls = {}

VARIABLES
    store,     \* for each place records are kept in: id -> record
    step,      \* where each call stands
    sent,      \* what its client sent, and where to
    got,       \* the record it is answered with
    promised,  \* history: the creates answered, save by a dictionary that is gone
    restarts

echoVars == <<store, step, sent, got, promised, restarts>>

Sources == {"HTTP", "GRPC"}
Record == [message: Texts, source: Sources]
Nothing == [message |-> NoText, source |-> "HTTP"]
Unsent == [op |-> "none"]

\* One database, or a dictionary in each process.
Place(p) == IF p \in Durable THEN Database ELSE p
Places == {Place(p) : p \in Processes}
Home(c) == Place(sent[c].at)

EchoInit ==
    /\ store = [s \in Places |-> [i \in {} |-> Nothing]]
    /\ step = [c \in Calls |-> "idle"]
    /\ sent = [c \in Calls |-> Unsent]
    /\ got = [c \in Calls |-> Nothing]
    /\ promised = {}
    /\ restarts = 0

Move(c, from, to) == step[c] = from /\ step' = [step EXCEPT ![c] = to]

-----------------------------------------------------------------------------

UncheckedMessage(source, m) ==   \* variant: only the schema is checked
    IF source = "HTTP" /\ m \in Unschematic THEN "rejected" ELSE "insert"

CheckMessage(source, m) ==
    IF source = "HTTP" /\ m \in Unschematic THEN "rejected"
    ELSE IF Stripped[m] = NoText THEN "invalid" ELSE "insert"

BeginCreate(c, source, m, p) ==
    /\ Move(c, "idle", CheckMessage(source, m))
    /\ sent' = [sent EXCEPT ![c] = [op |-> "create", source |-> source, message |-> m, at |-> p]]
    /\ UNCHANGED <<store, got, promised, restarts>>

HttpRecord(c) ==   \* variant: the transport is forgotten
    [message |-> Stripped[sent[c].message], source |-> "HTTP"]
NewRecord(c) == [message |-> Stripped[sent[c].message], source |-> sent[c].source]

PutAlone(records, i, record) == [j \in {i} |-> record]   \* variant: the rest is lost
Put(records, i, record) ==
    [j \in DOMAIN records \cup {i} |-> IF j = i THEN record ELSE records[j]]

TooLarge(c) == Home(c) = Database /\ NewRecord(c).message \in Oversized

Create(c) ==
    /\ Move(c, "insert", "refresh")
    /\ ~ TooLarge(c)
    /\ store' = [store EXCEPT ![Home(c)] = Put(@, c, NewRecord(c))]
    /\ UNCHANGED <<sent, got, promised, restarts>>

CreateFails(c) ==
    /\ Move(c, "insert", "failed")
    /\ TooLarge(c)
    /\ UNCHANGED <<store, sent, got, promised, restarts>>

\* The row is read again, and would be missed; in memory it is still at hand.
Refresh(c) ==
    LET row == {r \in {c} : r \in DOMAIN store[Home(c)]} IN
    /\ Move(c, "refresh", IF row # {} THEN "ok" ELSE "failed")
    /\ got' = IF row # {} THEN [got EXCEPT ![c] = store[Home(c)][c]] ELSE got
    /\ promised' = promised \cup row
    /\ UNCHANGED <<store, sent, restarts>>

-----------------------------------------------------------------------------

\* A client knows the ids it was answered with, and makes others up in vain.

BeginGet(c, i, p) ==
    /\ i \in Calls => step[i] = "ok" /\ sent[i].op = "create"
    /\ Move(c, "idle", IF i = BlankId THEN "invalid" ELSE "select")
    /\ sent' = [sent EXCEPT ![c] = [op |-> "get", id |-> i, at |-> p]]
    /\ UNCHANGED <<store, got, promised, restarts>>

FoundLocally(c) ==   \* variant: only what this process created
    /\ sent[c].id \in DOMAIN store[Home(c)]
    /\ sent[sent[c].id].at = sent[c].at
Found(c) == sent[c].id \in DOMAIN store[Home(c)]

GetById(c) ==
    /\ Move(c, "select", IF Found(c) THEN "ok" ELSE "not_found")
    /\ got' = IF Found(c) THEN [got EXCEPT ![c] = store[Home(c)][sent[c].id]] ELSE got
    /\ UNCHANGED <<store, sent, promised, restarts>>

-----------------------------------------------------------------------------

UnderWay == {"insert", "refresh", "select"}

Die(c) ==
    /\ step[c] \in UnderWay
    /\ step' = [step EXCEPT ![c] = "failed"]
    /\ UNCHANGED <<store, sent, got, promised, restarts>>

Restart(p) ==
    /\ restarts < MaxRestarts
    /\ restarts' = restarts + 1
    /\ step' = [c \in Calls |-> IF step[c] \in UnderWay /\ sent[c].at = p THEN "failed" ELSE step[c]]
    /\ IF p \in Durable THEN UNCHANGED <<store, promised>>
       ELSE /\ store' = [store EXCEPT ![p] = [i \in {} |-> Nothing]]
            /\ promised' = {c \in promised : sent[c].at # p}
    /\ UNCHANGED <<sent, got>>

EchoOver == (\A c \in Calls : step[c] \notin UnderWay \cup {"idle"}) /\ UNCHANGED echoVars

EchoNext ==
    \/ \E c \in Calls :
          \/ \E p \in Processes :
                \/ \E source \in Sources, m \in Messages : BeginCreate(c, source, m, p)
                \/ \E i \in Calls \cup {NoId, BlankId} : BeginGet(c, i, p)
          \/ Create(c) \/ CreateFails(c) \/ Refresh(c) \/ GetById(c) \/ Die(c)
    \/ \E p \in Processes : Restart(p)
    \/ EchoOver

EchoSpec == EchoInit /\ [][EchoNext]_echoVars

-----------------------------------------------------------------------------

\* An echo its creator was told of is there for every later get that looks where
\* it is kept, on any process, whatever died or restarted meanwhile; only a
\* dictionary goes with its process.
EchoesFound ==
    \A g \in Calls :
        (/\ sent[g].op = "get" /\ sent[g].id \in promised
         /\ Home(g) = Home(sent[g].id)) => step[g] # "not_found"

Sent(c) == [message |-> Stripped[sent[c].message], source |-> sent[c].source]

\* Whoever is answered with a record, its creator or a later reader, sees the
\* stripped text that was sent and the transport it came by; a message that was
\* refused, or that strips to nothing, is never recorded.
EchoesFaithful ==
    /\ \A s \in Places : \A c \in DOMAIN store[s] :
          /\ sent[c].op = "create" /\ s = Home(c)
          /\ step[c] \in {"refresh", "ok", "failed"}
          /\ store[s][c] = Sent(c) /\ store[s][c] \in Record
    /\ \A c \in Calls : step[c] = "ok" =>
          got[c] = Sent(IF sent[c].op = "get" THEN sent[c].id ELSE c)

Promise == INSTANCE WriteOnceStore WITH
    Stores <- Places, Volatile <- Processes \ Durable,
    Records <- Record, kept <- store

\* Every step of every call, wherever it dies, writes one record under a fresh id
\* or nothing, and no step changes one; only a restart forgets a dictionary.
WritesOnce == Promise!Spec
=============================================================================
