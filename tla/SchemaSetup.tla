----------------------------- MODULE SchemaSetup -----------------------------
(***************************************************************************)
(* init_db, the first thing build_container does with a database:          *)
(* Base.metadata.create_all asks for every table of orm.py whether it      *)
(* exists, then creates those that did not, in the order of their foreign  *)
(* keys.  Nothing locks the schema between the two, MySQL commits each     *)
(* CREATE TABLE by itself, and replicas start together over one database:  *)
(* a table that exists by then makes the start fail.                       *)
(***************************************************************************)
EXTENDS Naturals, FiniteSets

CONSTANTS
    Replicas,
    Tables,       \* how many tables there are; they are created in this order
    MaxCrashes    \* bounds the crashes of a behaviour, not the restarts

ASSUME SchemaAssumption == Tables \in Nat \ {0} /\ MaxCrashes \in Nat

VARIABLES
    schema,    \* the tables that exist
    phase,     \* what each replica is about to do
    cursor,    \* the table it is at
    missing,   \* the tables it has found missing
    crashes

schemaVars == <<schema, phase, cursor, missing, crashes>>

AllTables == 1..Tables

SchemaInit ==
    /\ schema = {}
    /\ phase = [p \in Replicas |-> "down"]
    /\ cursor = [p \in Replicas |-> 1]
    /\ missing = [p \in Replicas |-> {}]
    /\ crashes = 0

\* Replica p turns to the next table, or to what follows the last one.
Turn(p, here, next) ==
    IF cursor[p] < Tables
    THEN /\ cursor' = [cursor EXCEPT ![p] = @ + 1]
         /\ phase' = [phase EXCEPT ![p] = here]
    ELSE /\ cursor' = [cursor EXCEPT ![p] = 1]
         /\ phase' = [phase EXCEPT ![p] = next]

StartUp(p) ==
    /\ phase[p] = "down"
    /\ phase' = [phase EXCEPT ![p] = "check"]
    /\ cursor' = [cursor EXCEPT ![p] = 1]
    /\ missing' = [missing EXCEPT ![p] = {}]
    /\ UNCHANGED <<schema, crashes>>

CheckTable(p) ==
    /\ phase[p] = "check"
    /\ missing' = [missing EXCEPT ![p] = @ \cup ({cursor[p]} \ schema)]
    /\ Turn(p, "check", "create")
    /\ UNCHANGED <<schema, crashes>>

MustCreate(p) == cursor[p] \in missing[p]

SkipTable(p) ==
    /\ phase[p] = "create"
    /\ ~ MustCreate(p)
    /\ Turn(p, "create", "ready")
    /\ UNCHANGED <<schema, missing, crashes>>

CreateUnordered(p) ==   \* variant: any missing table next
    /\ phase[p] = "create"
    /\ \E t \in missing[p] \ schema :
          /\ schema' = schema \cup {t}
          /\ missing' = [missing EXCEPT ![p] = @ \ {t}]
    /\ UNCHANGED <<phase, cursor, crashes>>

CreateTable(p) ==
    /\ phase[p] = "create"
    /\ MustCreate(p)
    /\ cursor[p] \notin schema
    /\ schema' = schema \cup {cursor[p]}
    /\ Turn(p, "create", "ready")
    /\ UNCHANGED <<missing, crashes>>

IgnoreExisting(p) ==   \* variant: a table that exists ends the loop quietly
    /\ phase[p] = "create"
    /\ MustCreate(p)
    /\ cursor[p] \in schema
    /\ phase' = [phase EXCEPT ![p] = "ready"]
    /\ UNCHANGED <<schema, cursor, missing, crashes>>

TableExists(p) ==
    /\ phase[p] = "create"
    /\ MustCreate(p)
    /\ cursor[p] \in schema
    /\ phase' = [phase EXCEPT ![p] = "down"]
    /\ UNCHANGED <<schema, cursor, missing, crashes>>

SchemaCrash(p) ==
    /\ crashes < MaxCrashes
    /\ phase[p] # "down"
    /\ phase' = [phase EXCEPT ![p] = "down"]
    /\ crashes' = crashes + 1
    /\ UNCHANGED <<schema, cursor, missing>>

InitDb(p) == CheckTable(p) \/ SkipTable(p) \/ CreateTable(p) \/ TableExists(p)

AllReady == (\A p \in Replicas : phase[p] = "ready") /\ UNCHANGED schemaVars

SchemaNext == \/ \E p \in Replicas : StartUp(p) \/ InitDb(p) \/ SchemaCrash(p)
              \/ AllReady

\* The event loop resumes a start whose round trip has returned; nothing in
\* the repository restarts a replica that is down.
SchemaSpec == SchemaInit /\ [][SchemaNext]_schemaVars
                         /\ \A p \in Replicas : WF_schemaVars(InitDb(p))

-----------------------------------------------------------------------------

\* No replica goes on to seed and serve over a database that lacks a table,
\* whichever replica created which and whatever crashed: a table found to exist
\* is never looked at again, one found missing may be somebody else's by now.
ReadyOverWholeSchema == \A p \in Replicas : phase[p] = "ready" => schema = AllTables

\* Replica p is through, or no table is there yet that it is still to come to.
Ahead(p) ==
    \/ phase[p] = "ready"
    \/ phase[p] = "create" /\ \A t \in cursor[p]..Tables : t \notin schema

\* Unless one crashes, from the first table on some replica is ahead of all: its
\* start runs into nobody's table, whichever starts of the others fail.
SomeReplicaAhead == crashes = 0 /\ schema # {} => \E p \in Replicas : Ahead(p)

\* Replicas that start together make each other's starts fail, but not all of
\* them: unless one crashes, a replica that started means that one gets through.
SomeReplicaReady ==
    (\E p \in Replicas : phase[p] # "down")
    ~> (crashes > 0 \/ \E p \in Replicas : phase[p] = "ready")

-----------------------------------------------------------------------------

\* What a replica knows: a table it has passed exists, or it will create it.
Passed(p) == IF phase[p] = "check" THEN 1..(cursor[p] - 1) ELSE AllTables
ToDo(p) == IF phase[p] = "check" THEN missing[p]
           ELSE missing[p] \cap (cursor[p]..Tables)

SchemaInv ==
    /\ schema \subseteq AllTables
    /\ phase \in [Replicas -> {"down", "check", "create", "ready"}]
    /\ cursor \in [Replicas -> AllTables]
    /\ missing \in [Replicas -> SUBSET AllTables]
    /\ crashes \in 0..MaxCrashes
    /\ \A p \in Replicas : phase[p] \in {"check", "create"} => Passed(p) \subseteq schema \cup ToDo(p)
    /\ ReadyOverWholeSchema
=============================================================================
