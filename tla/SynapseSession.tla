---------------------------- MODULE SynapseSession ----------------------------
(***************************************************************************)
(* A connection of build_synapse_engine and what makes it read-only. The   *)
(* listeners of engine.py run once for each new connection; what their     *)
(* statement means is the driver's and the database's business (external): *)
(* SQLite keeps query_only for the connection, while psycopg opens a       *)
(* transaction before the first statement, PostgreSQL applies SET SESSION  *)
(* CHARACTERISTICS to the transactions that follow and takes it back when  *)
(* the transaction it was part of is rolled back, and SQLAlchemy's pool    *)
(* rolls back whenever a connection is returned.                           *)
(***************************************************************************)
CONSTANTS Backends   \* "postgresql", "sqlite"

VARIABLES
  backend,
  connection,   \* "none", "new", "ready", "used" by a repository, "pooled"
  transaction,  \* mode of the open transaction, or "none"
  default,      \* mode of the transactions to come
  committed,    \* the default that a rollback restores
  queried       \* history: modes in which queries ran

vars == <<backend, connection, transaction, default, committed, queried>>

Init ==
  /\ backend \in Backends
  /\ connection = "none" /\ transaction = "none"
  /\ default = "read write" /\ committed = "read write"
  /\ queried = {}

(* The mode in which a statement runs: the first one opens a transaction.  *)
ModeNow == IF transaction = "none" THEN default ELSE transaction

Connect ==
  /\ connection = "none"
  /\ connection' = "new"
  /\ transaction' = "none"
  /\ default' = "read write" /\ committed' = "read write"
  /\ UNCHANGED <<backend, queried>>

(* _enable_query_only *)
EnableQueryOnly ==
  /\ connection = "new" /\ backend = "sqlite"
  /\ connection' = "ready"
  /\ default' = "read only" /\ committed' = "read only"
  /\ UNCHANGED <<backend, transaction, queried>>

(* _set_readonly; nothing commits afterwards. *)
SetReadonly ==
  /\ connection = "new" /\ backend = "postgresql"
  /\ connection' = "ready"
  /\ transaction' = ModeNow
  /\ default' = "read only"
  /\ UNCHANGED <<backend, committed, queried>>

(* engine.connect(); pool_pre_ping replaces a pooled connection that died. *)
CheckOut ==
  /\ connection \in {"ready", "pooled"}
  /\ \/ connection' = "used"
     \/ connection = "pooled" /\ connection' = "none"
  /\ UNCHANGED <<backend, transaction, default, committed, queried>>

(* A query of SynapseEventRepository, or ping_database. *)
Query ==
  /\ connection = "used"
  /\ transaction' = ModeNow
  /\ queried' = queried \cup {ModeNow}
  /\ UNCHANGED <<backend, connection, default, committed>>

(* The with block ends, and the pool rolls back.                           *)
CheckIn ==
  /\ connection = "used"
  /\ connection' = "pooled"
  /\ transaction' = "none"
  /\ default' = committed
  /\ UNCHANGED <<backend, committed, queried>>

Next == Connect \/ EnableQueryOnly \/ SetReadonly \/ CheckOut \/ Query \/ CheckIn

Spec == Init /\ [][Next]_vars

-----------------------------------------------------------------------------
(* docs/architecture.md:90, "Open read-only Synapse DB connection": every  *)
(* query runs in a transaction in which the database refuses to write.     *)
QueriesAreReadOnly == queried \subseteq {"read only"}
===============================================================================
