------------------------------- MODULE DbOpen -------------------------------
(***************************************************************************)
(* Opening the package database (Database::open and migrate): processes    *)
(* that start at once each read the version of the schema and bring it up  *)
(* to the version they support, table by table; no transaction spans the   *)
(* steps, so that a process may also die between them.                     *)
(***************************************************************************)
EXTENDS Naturals

CONSTANTS
    Openers,     \* processes
    Supports,    \* [Openers -> the SCHEMA_VERSION of the program]
    TablesOf     \* [1..n -> the tables the migration to a version creates]

ASSUME DbOpenAssumption ==
    /\ Supports \in [Openers -> DOMAIN TablesOf]
    /\ \A v \in DOMAIN TablesOf : v \in Nat \ {0} /\ 1..v \subseteq DOMAIN TablesOf

VARIABLES
    tables,      \* tables of the database file
    userVersion, \* PRAGMA user_version
    openers      \* [Openers -> [at, next]], next the version being migrated to

dbOpenVars == <<tables, userVersion, openers>>

SchemaVersions == {0} \cup DOMAIN TablesOf
AllTables == UNION {TablesOf[v] : v \in DOMAIN TablesOf}
Closed == [at |-> "closed", next |-> 0]

DbOpenTypeOK ==
    /\ tables \subseteq AllTables
    /\ userVersion \in SchemaVersions
    /\ openers \in [Openers -> [at : {"closed", "tables", "version", "open", "refused"},
                                next : SchemaVersions]]

DbOpenInit ==
    /\ tables = {} /\ userVersion = 0
    /\ openers = [p \in Openers |-> Closed]

Migrated(p, v) ==
    openers' = [openers EXCEPT ![p] = IF v = Supports[p] THEN [at |-> "open", next |-> 0]
                                      ELSE [at |-> "tables", next |-> v + 1]]

\* A plausible bug: the version is set before the tables are created.
VersionFirst(p) ==
    /\ openers[p].at = "closed"
    /\ userVersion < Supports[p]
    /\ userVersion' = Supports[p]
    /\ openers' = [openers EXCEPT ![p] = [at |-> "tables", next |-> Supports[p]]]
    /\ UNCHANGED tables

\* migrate: a newer schema is refused, the own one needs nothing.
ReadVersion(p) ==
    /\ openers[p].at = "closed"
    /\ IF userVersion > Supports[p]
       THEN openers' = [openers EXCEPT ![p].at = "refused"]
       ELSE Migrated(p, userVersion)
    /\ UNCHANGED <<tables, userVersion>>

\* migrate_to_v1: CREATE TABLE IF NOT EXISTS, one after the other.
CreateTable(p) ==
    /\ openers[p].at = "tables"
    /\ LET missing == TablesOf[openers[p].next] \ tables
       IN IF missing = {} THEN /\ openers' = [openers EXCEPT ![p].at = "version"]
                               /\ UNCHANGED tables
          ELSE /\ \E t \in missing : tables' = tables \cup {t}
               /\ UNCHANGED openers
    /\ UNCHANGED userVersion

\* set_schema_version, then the next migration.
SetVersion(p) ==
    /\ openers[p].at = "version"
    /\ userVersion' = openers[p].next
    /\ Migrated(p, openers[p].next)
    /\ UNCHANGED tables

\* The process ends, by itself or by a crash or an error of SQLite.
CloseDb(p) ==
    /\ openers[p].at # "closed"
    /\ openers' = [openers EXCEPT ![p] = Closed]
    /\ UNCHANGED <<tables, userVersion>>

DbOpenNext == \E p \in Openers : ReadVersion(p) \/ CreateTable(p) \/ SetVersion(p) \/ CloseDb(p)

DbOpenSpec == DbOpenInit /\ [][DbOpenNext]_dbOpenVars

-----------------------------------------------------------------------------
(* Properties.                                                             *)

TablesUpTo(v) == UNION {TablesOf[w] : w \in {x \in DOMAIN TablesOf : x <= v}}

\* Database::open: a database that is open has the tables of the program's version, and
\* its version never promises a table it has not, whoever migrates at the same time or
\* died in the middle of it.
OpenDatabasesAreWhole ==
    /\ TablesUpTo(userVersion) \subseteq tables
    /\ \A p \in Openers : openers[p].at = "open" => TablesUpTo(Supports[p]) \subseteq tables
=============================================================================
