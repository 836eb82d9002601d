----------------------------- MODULE Migration -----------------------------
(***************************************************************************)
(* Opening an evidence database of an earlier version:                     *)
(* Store::from_connection and Store::migrate of src/store.rs with the SQL  *)
(* of migrations/.  Most migrations are CREATE ... IF NOT EXISTS; the one  *)
(* that is not, 0012, rebuilds the table edges through edges_0012.         *)
(*                                                                         *)
(* migrate opens no transaction, so every statement commits on its own:    *)
(* a process may die between any two, and another process may be migrating *)
(* the same file, or already be writing to it.  The module follows the     *)
(* statements that touch the edges; the others are repeatable.             *)
(***************************************************************************)
EXTENDS Naturals, FiniteSets

CONSTANTS
  Openers,   \* processes that open the file: windows, the command line
  Edges,     \* relationships somebody recorded
  MayCrash   \* may a process die between two statements?

ASSUME MayCrashAssumption == MayCrash \in BOOLEAN

VARIABLES
  version,   \* PRAGMA user_version
  tables,    \* which of edges and edges_0012 exist
  rows,      \* the rows of each; empty where the table does not exist
  guards,    \* do edges' triggers and its index on pending rows exist (0006, 0008)?
  indexed,   \* do idx_edges_target and idx_edges_unique_claim exist?
  authored,  \* every relationship committed so far
  pc         \* where each process is in from_connection

migrationVars == <<version, tables, rows, guards, indexed, authored, pc>>

SchemaVersion == 12
Tables == {"edges", "edges_0012"}

\* The statements of migrate, in order, between the reading of the version and
\* its stamp: 0001, 0001 and 0003, 0006 and 0008, then 0012.
Statements == {"tables", "indexes", "guards",
               "create", "copy", "drop", "rename", "index", "stamp"}
Points == Statements \cup {"closed", "check", "open", "failed"}

After(s) ==
  CASE s = "tables" -> "indexes"
    [] s = "indexes" -> "guards"
    [] s = "guards" -> "create"
    [] s = "create" -> "copy"
    [] s = "copy" -> "drop"
    [] s = "drop" -> "rename"
    [] s = "rename" -> "index"
    [] s = "index" -> "stamp"
    [] s = "stamp" -> "open"

\* A new file, or one of an earlier version with whatever it holds.
MigrationInit ==
  /\ \/ version = 0 /\ tables = {} /\ authored = {} /\ guards = FALSE /\ indexed = FALSE
     \/ /\ version \in {0, SchemaVersion - 1}
        /\ tables = {"edges"}
        /\ authored \in SUBSET Edges
        /\ guards = TRUE
        /\ indexed = TRUE
  /\ rows = [t \in Tables |-> IF t = "edges" THEN authored ELSE {}]
  /\ pc = [p \in Openers |-> "closed"]

Goto(p, s) == pc' = [pc EXCEPT ![p] = s]

----------------------------------------------------------------------------
(* from_connection                                                         *)

Open(p) ==
  /\ pc[p] = "closed"
  /\ Goto(p, "check")
  /\ UNCHANGED <<version, tables, rows, guards, indexed, authored>>

ReadVersion(p) ==
  /\ pc[p] = "check"
  /\ Goto(p, IF version < SchemaVersion THEN "tables" ELSE "open")
  /\ UNCHANGED <<version, tables, rows, guards, indexed, authored>>

\* What SQLite requires of the schema before it runs a statement.
MayRun(s) ==
  CASE s \in {"indexes", "guards", "drop"} -> "edges" \in tables
    [] s = "create" -> "edges_0012" \notin tables
    [] s = "copy" -> tables = Tables
    [] s = "rename" -> tables = {"edges_0012"}
    [] s = "index" -> "edges" \in tables /\ ~ indexed
    [] OTHER -> TRUE

\* CREATE TABLE IF NOT EXISTS edges
CreateEdges ==
  /\ tables' = tables \cup {"edges"}
  /\ UNCHANGED <<version, rows, guards, indexed>>

CreateIndexes == indexed' = TRUE /\ UNCHANGED <<version, tables, rows, guards>>
CreateGuards == guards' = TRUE /\ UNCHANGED <<version, tables, rows, indexed>>
CreateScratch ==
  /\ tables' = tables \cup {"edges_0012"}
  /\ UNCHANGED <<version, rows, guards, indexed>>

\* Mutant: the rebuild copies nothing.
CopyNothing == UNCHANGED <<version, tables, rows, guards, indexed>>

\* INSERT INTO edges_0012 SELECT ... FROM edges
CopyRows ==
  /\ rows' = [rows EXCEPT !["edges_0012"] = @ \cup rows["edges"]]
  /\ UNCHANGED <<version, tables, guards, indexed>>

\* A table's indexes and triggers go with it.
DropEdges ==
  /\ tables' = tables \ {"edges"}
  /\ rows' = [rows EXCEPT !["edges"] = {}]
  /\ guards' = FALSE
  /\ indexed' = FALSE
  /\ UNCHANGED version

RenameScratch ==
  /\ tables' = {"edges"}
  /\ rows' = [t \in Tables |-> IF t = "edges" THEN rows["edges_0012"] ELSE {}]
  /\ UNCHANGED <<version, guards, indexed>>

Stamp == version' = SchemaVersion /\ UNCHANGED <<tables, rows, guards, indexed>>

Effect(s) ==
  \/ s = "tables" /\ CreateEdges
  \/ s \in {"indexes", "index"} /\ CreateIndexes
  \/ s = "guards" /\ CreateGuards
  \/ s = "create" /\ CreateScratch
  \/ s = "copy" /\ CopyRows
  \/ s = "drop" /\ DropEdges
  \/ s = "rename" /\ RenameScratch
  \/ s = "stamp" /\ Stamp

Run(p) ==
  /\ pc[p] \in Statements
  /\ MayRun(pc[p])
  /\ Effect(pc[p])
  /\ Goto(p, After(pc[p]))
  /\ UNCHANGED authored

\* The first statement that fails ends the open with an error.
Refused(p) ==
  /\ pc[p] \in Statements
  /\ ~ MayRun(pc[p])
  /\ Goto(p, "failed")
  /\ UNCHANGED <<version, tables, rows, guards, indexed, authored>>

----------------------------------------------------------------------------

\* A window that has the file open records a relationship.
WriteEdge(p, e) ==
  /\ pc[p] = "open"
  /\ "edges" \in tables
  /\ e \notin authored
  /\ rows' = [rows EXCEPT !["edges"] = @ \cup {e}]
  /\ authored' = authored \cup {e}
  /\ UNCHANGED <<version, tables, guards, indexed, pc>>

Close(p) ==
  /\ pc[p] \in {"open", "failed"}
  /\ Goto(p, "closed")
  /\ UNCHANGED <<version, tables, rows, guards, indexed, authored>>

Crash(p) ==
  /\ MayCrash
  /\ pc[p] \in Statements \cup {"check"}
  /\ Goto(p, "closed")
  /\ UNCHANGED <<version, tables, rows, guards, indexed, authored>>

MigrationNext ==
  \E p \in Openers :
    \/ Open(p) \/ ReadVersion(p) \/ Run(p) \/ Refused(p)
    \/ \E e \in Edges : WriteEdge(p, e)
    \/ Close(p) \/ Crash(p)

MigrationSpec == MigrationInit /\ [][MigrationNext]_migrationVars

----------------------------------------------------------------------------
(* Properties.                                                             *)

SchemaTypeOK ==
  /\ version \in {0, SchemaVersion - 1, SchemaVersion}
  /\ tables \subseteq Tables
  /\ rows \in [Tables -> SUBSET Edges]
  /\ guards \in BOOLEAN
  /\ indexed \in BOOLEAN
  /\ authored \subseteq Edges
  /\ pc \in [Openers -> Points]

\* A window that has opened the file reads every relationship ever recorded in
\* it from the table edges: no half-done rebuild is ever served, however often
\* opening it was cut short.
OpenSeesEverything ==
  \A p \in Openers :
    pc[p] = "open" => "edges" \in tables /\ rows["edges"] = authored

\* Cut short at any statement, the rebuild keeps every relationship in one of
\* the two tables.
NothingLost == authored \subseteq rows["edges"] \cup rows["edges_0012"]

\* Only a scratch table that a rebuild cut short has left behind makes an open
\* fail: at every other point it may have been cut short, and from an empty
\* file, all the statements may run again.
OnlyLeftoversFail ==
  \A p \in Openers : pc[p] = "failed" => "edges_0012" \in tables

\* "Each one is additive and re-runnable, so this is safe to execute against a
\* database at any earlier version": no open fails.  It does not hold, see
\* OnlyLeftoversFail.
OpenNeverFails == \A p \in Openers : pc[p] # "failed"

\* "Cases do not share records": the triggers that refuse an edge into another
\* case are there whenever a window has the file open.  It does not hold: the
\* rebuild drops them and no migration after it creates them again.
GuardsHold == \A p \in Openers : pc[p] = "open" => guards
=============================================================================
