------------------------------ MODULE Database ------------------------------
(***************************************************************************)
(* What requests share in the database: the indexes of a table, and the    *)
(* definition of its columns.  An index is a name and a list of columns.   *)
(***************************************************************************)
EXTENDS Naturals, Sequences, FiniteSets

CONSTANTS
    Request,          \* the requests that can be in flight
    None,             \* Python's None
    Settings,         \* the deployments to look at
    Column,           \* the columns of the table
    IndexName,        \* the names an index can have
    OwnIndexes,       \* the indexes the schema was created with
    MigratedIndexes,  \* the indexes a migration may add
    MaxAlterations    \* bound: how often the DBA migrates the schema

(***************************************************************************)
(* A deployment: the engine, INDEX_VALIDATION=executed, how many handlers  *)
(* run at a time (a campaign sends one request after the other), whether   *)
(* the process and single statements may fail on the way, and whether      *)
(* anybody migrates or invalidates the schema.                             *)
(***************************************************************************)
Setting == [engine : {"mysql", "postgres"}, executed : BOOLEAN,
            capacity : Nat \ {0}, faults : BOOLEAN,
            operator : BOOLEAN]

Index == [name : IndexName, cols : Seq(Column)]

ASSUME IndexAssumption ==
    /\ IsFiniteSet(Request) /\ MaxAlterations \in Nat
    /\ OwnIndexes \subseteq Index /\ MigratedIndexes \subseteq Index
    /\ Settings \subseteq Setting

VARIABLES
    indexes,  \* the indexes committed, so visible to every session
    columns,  \* how often the columns were altered
    setting

dbVars == <<indexes, columns, setting>>

(* schema_fingerprint: the names of the indexes; the columns are not in it. *)
Fingerprint == {i.name : i \in indexes}

DatabaseInit ==
    /\ indexes = OwnIndexes /\ columns = 0
    /\ setting \in Settings

(* A migration: a column changes, and with it perhaps the indexes. *)
Migrate ==
    /\ columns < MaxAlterations
    /\ columns' = columns + 1
    /\ indexes' \in {indexes, indexes \cup MigratedIndexes}
    /\ UNCHANGED setting
=============================================================================
