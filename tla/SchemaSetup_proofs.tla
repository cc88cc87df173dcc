-------------------------- MODULE SchemaSetup_proofs --------------------------
(***************************************************************************)
(* However many replicas start over one database, and wherever they crash, *)
(* none goes on before every table exists: SchemaInv is inductive.         *)
(***************************************************************************)
EXTENDS SchemaSetup, TLAPS

USE SchemaAssumption DEF AllTables

\* An empty database, with every replica down.
LEMMA SchemaInitInv == SchemaInit => SchemaInv
  BY DEF SchemaInit, SchemaInv, ReadyOverWholeSchema

\* A replica that turns from a table it need not create any more, or has just
\* created, still knows of every table that it exists or is its to create.
LEMMA TurnKeeps ==
  ASSUME SchemaInv, NEW p \in Replicas, phase[p] = "create",
         Turn(p, "create", "ready"), UNCHANGED <<missing, crashes>>,
         schema \subseteq schema', schema' \subseteq AllTables,
         cursor[p] \in missing[p] => cursor[p] \in schema'
  PROVE  SchemaInv'
<1> USE DEF SchemaInv, Turn
<1>1. /\ phase' \in [Replicas -> {"down", "check", "create", "ready"}]
      /\ cursor' \in [Replicas -> AllTables]
  <2>1. CASE cursor[p] < Tables
    BY <2>1
  <2>2. CASE ~ (cursor[p] < Tables)
    BY <2>2
  <2> QED
    BY <2>1, <2>2
<1>2. AllTables \subseteq schema' \cup (missing[p] \cap ((cursor[p] + 1)..Tables))
  BY DEF Passed, ToDo
<1>3. ASSUME NEW q \in Replicas, phase'[q] \in {"check", "create"}
      PROVE  Passed(q)' \subseteq schema' \cup ToDo(q)'
  <2>1. CASE q = p
    <3>1. cursor[p] < Tables /\ phase'[p] = "create" /\ cursor'[p] = cursor[p] + 1
      BY <1>3, <2>1
    <3> QED
      BY <1>2, <2>1, <3>1 DEF Passed, ToDo
  <2>2. CASE q # p
    <3>1. phase'[q] = phase[q] /\ cursor'[q] = cursor[q]
      BY <2>2
    <3> QED
      BY <1>3, <3>1 DEF Passed, ToDo
  <2> QED
    BY <2>1, <2>2
<1>4. ASSUME NEW q \in Replicas, phase'[q] = "ready"
      PROVE  schema' = AllTables
  <2>1. CASE q = p
    <3>1. cursor[p] \in AllTables /\ ~ (cursor[p] < Tables)
      BY <1>4, <2>1
    <3>2. AllTables \subseteq schema'
      BY <1>2, <3>1
    <3> QED
      BY <3>2
  <2>2. CASE q # p
    <3>1. phase[q] = "ready"
      BY <1>4, <2>2
    <3> QED
      BY <3>1 DEF ReadyOverWholeSchema
  <2> QED
    BY <2>1, <2>2
<1> QED
  BY <1>1, <1>3, <1>4 DEF ReadyOverWholeSchema

\* No step of any replica makes another one wrong about a table.
LEMMA SchemaNextKeeps ==
  ASSUME SchemaInv, SchemaNext
  PROVE  SchemaInv'
<1>1. ASSUME NEW p \in Replicas, StartUp(p)
      PROVE  SchemaInv'
  BY <1>1 DEF StartUp, SchemaInv, Passed, ToDo, ReadyOverWholeSchema
<1>2. ASSUME NEW p \in Replicas, CheckTable(p)
      PROVE  SchemaInv'
  <2>1. CASE cursor[p] < Tables
    BY <1>2, <2>1 DEF CheckTable, Turn, SchemaInv, Passed, ToDo, ReadyOverWholeSchema
  <2>2. CASE ~ (cursor[p] < Tables)
    BY <1>2, <2>2 DEF CheckTable, Turn, SchemaInv, Passed, ToDo, ReadyOverWholeSchema
  <2> QED
    BY <2>1, <2>2
<1>3. ASSUME NEW p \in Replicas, SkipTable(p)
      PROVE  SchemaInv'
  BY <1>3, TurnKeeps DEF SkipTable, MustCreate, SchemaInv
<1>4. ASSUME NEW p \in Replicas, CreateTable(p)
      PROVE  SchemaInv'
  <2>1. schema \subseteq schema' /\ schema' \subseteq AllTables /\ cursor[p] \in schema'
    BY <1>4 DEF CreateTable, SchemaInv
  <2> QED
    BY <1>4, <2>1, TurnKeeps DEF CreateTable
<1>5. ASSUME NEW p \in Replicas, TableExists(p)
      PROVE  SchemaInv'
  BY <1>5 DEF TableExists, SchemaInv, Passed, ToDo, ReadyOverWholeSchema
<1>6. ASSUME NEW p \in Replicas, SchemaCrash(p)
      PROVE  SchemaInv'
  BY <1>6 DEF SchemaCrash, SchemaInv, Passed, ToDo, ReadyOverWholeSchema
<1>7. CASE AllReady
  BY <1>7 DEF AllReady, schemaVars, SchemaInv, Passed, ToDo, ReadyOverWholeSchema
<1> QED
  BY <1>1, <1>2, <1>3, <1>4, <1>5, <1>6, <1>7 DEF SchemaNext, InitDb

\* What a replica knows of the tables it has passed stays true, for any number of
\* replicas, tables and crashes.
THEOREM SchemaInvariance == SchemaSpec => []SchemaInv
<1>1. SchemaInv /\ [SchemaNext]_schemaVars => SchemaInv'
  <2>1. ASSUME SchemaInv, UNCHANGED schemaVars
        PROVE  SchemaInv'
    BY <2>1 DEF schemaVars, SchemaInv, Passed, ToDo, ReadyOverWholeSchema
  <2> QED
    BY <2>1, SchemaNextKeeps
<1> QED
  BY <1>1, SchemaInitInv, PTL DEF SchemaSpec

\* No replica seeds and serves over a database that lacks a table.
THEOREM SchemaComplete == SchemaSpec => []ReadyOverWholeSchema
<1>1. SchemaInv => ReadyOverWholeSchema
  BY DEF SchemaInv
<1> QED
  BY <1>1, SchemaInvariance, PTL

-----------------------------------------------------------------------------
(* The replica that created a table last is ahead of all.                  *)

\* A table that exists has all those before it.
InOrder == \A t \in schema : 1..t \subseteq schema

\* Tables come to exist in their order, and some replica stays ahead.
LEMMA AheadKeeps ==
  ASSUME SchemaInv, InOrder, SomeReplicaAhead, [SchemaNext]_schemaVars
  PROVE  InOrder' /\ SomeReplicaAhead'
<1> USE DEF SchemaInv
<1>1. ASSUME NEW p \in Replicas, CreateTable(p)
      PROVE  InOrder' /\ SomeReplicaAhead'
  <2>1. /\ schema' = schema \cup {cursor[p]} /\ cursor[p] \notin schema
        /\ cursor[p] \in AllTables /\ phase[p] = "create"
    BY <1>1 DEF CreateTable
  <2>2. 1..(cursor[p] - 1) \subseteq schema
    BY <2>1 DEF Passed, ToDo
  <2>3. \A t \in cursor[p]..Tables : t \notin schema
    BY <2>1 DEF InOrder
  <2>4. Ahead(p)'
    <3>1. CASE cursor[p] < Tables
      BY <1>1, <2>1, <2>3, <3>1 DEF CreateTable, Turn, Ahead
    <3>2. CASE ~ (cursor[p] < Tables)
      BY <1>1, <2>1, <3>2 DEF CreateTable, Turn, Ahead
    <3> QED
      BY <3>1, <3>2
  <2> QED
    BY <2>1, <2>2, <2>4 DEF InOrder, SomeReplicaAhead
<1>2. ASSUME NEW p \in Replicas, StartUp(p) \/ CheckTable(p) \/ SkipTable(p) \/ TableExists(p)
      PROVE  InOrder' /\ SomeReplicaAhead'
  <2>1. schema' = schema /\ crashes' = crashes
    BY <1>2 DEF StartUp, CheckTable, SkipTable, TableExists
  <2>2. ASSUME NEW q \in Replicas, Ahead(q)
        PROVE  Ahead(q)'
    <3>1. CASE q # p
      <4>1. phase'[q] = phase[q] /\ cursor'[q] = cursor[q]
        BY <1>2, <3>1 DEF StartUp, CheckTable, SkipTable, TableExists, Turn
      <4> QED
        BY <2>1, <2>2, <4>1 DEF Ahead
    <3>2. CASE q = p
      <4>1. phase[p] = "create" /\ \A t \in cursor[p]..Tables : t \notin schema
        BY <1>2, <2>2, <3>2 DEF StartUp, CheckTable, SkipTable, TableExists, Ahead
      <4>2. cursor[p] \notin schema /\ cursor[p] \in missing[p]
        BY <4>1 DEF Passed, ToDo
      <4> QED
        BY <1>2, <4>1, <4>2 DEF StartUp, CheckTable, SkipTable, TableExists, MustCreate
    <3> QED
      BY <3>1, <3>2
  <2> QED
    BY <2>1, <2>2 DEF InOrder, SomeReplicaAhead
<1>3. ASSUME NEW p \in Replicas, SchemaCrash(p)
      PROVE  InOrder' /\ SomeReplicaAhead'
  BY <1>3 DEF SchemaCrash, InOrder, SomeReplicaAhead
<1>4. CASE UNCHANGED schemaVars
  BY <1>4 DEF schemaVars, InOrder, SomeReplicaAhead, Ahead
<1> QED
  BY <1>1, <1>2, <1>3, <1>4 DEF SchemaNext, InitDb, AllReady

\* Unless one crashes, some start cannot fail any more once a table exists.
THEOREM SomeStartGoesOn == SchemaSpec => []SomeReplicaAhead
<1>1. SchemaInit => InOrder /\ SomeReplicaAhead
  BY DEF SchemaInit, InOrder, SomeReplicaAhead
<1>2. SchemaInv /\ InOrder /\ SomeReplicaAhead /\ [SchemaNext]_schemaVars
        => InOrder' /\ SomeReplicaAhead'
  BY AheadKeeps
<1> QED
  BY <1>1, <1>2, SchemaInvariance, PTL DEF SchemaSpec
=============================================================================
