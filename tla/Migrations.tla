----------------------------- MODULE Migrations -----------------------------
(***************************************************************************)
(* store.Open: the migrations not yet recorded are applied in the order of *)
(* their names, each statement of a file and then the record of the file   *)
(* in a commit of its own.  The process may die between any two of them    *)
(* and starts again from the top.                                          *)
(***************************************************************************)
EXTENDS Naturals, Sequences, SequencesExt

CONSTANTS
  Files,       \* the migrations, in order: sequences of the tables and indexes they create
  MaxStarts    \* bound: starts of the process

ASSUME FilesAssumption ==
  Files \in Seq(Seq(UNION {ToSet(Files[i]) : i \in DOMAIN Files}))

VARIABLES
  schema,      \* what exists in the database
  recorded,    \* schema_migrations: numbers of files
  file, statement,   \* the migration at hand, its statements executed so far
  storeState,  \* "migrating", "open" or "failed"
  starts

migrationVars == <<schema, recorded, file, statement, storeState, starts>>

\* A new database, or one that an older version of the program left.
MigrationInit ==
  /\ \E installed \in 0..Len(Files) :
       /\ recorded = 1..installed
       /\ schema = UNION {ToSet(Files[i]) : i \in 1..installed}
  /\ file = 1 /\ statement = 0
  /\ storeState = "migrating" /\ starts = 1

Migrating == storeState = "migrating" /\ file <= Len(Files)

\* A recorded file is skipped.
SkipRecorded ==
  /\ Migrating /\ file \in recorded /\ statement = 0
  /\ file' = file + 1
  /\ UNCHANGED <<schema, recorded, statement, storeState, starts>>

\* CREATE ... IF NOT EXISTS: no error for what an interrupted start created.
\* Each statement of a file is committed by itself.
Execute ==
  /\ Migrating /\ file \notin recorded /\ statement < Len(Files[file])
  /\ schema' = schema \cup {Files[file][statement + 1]}
  /\ statement' = statement + 1
  /\ UNCHANGED <<recorded, file, storeState, starts>>

\* Mutation of Executed: the file is recorded before it is executed.
ExecutedNotYet == TRUE

Executed == statement = Len(Files[file])

RecordMigration ==
  /\ Migrating /\ file \notin recorded /\ Executed
  /\ recorded' = recorded \cup {file}
  /\ file' = file + 1 /\ statement' = 0
  /\ UNCHANGED <<schema, storeState, starts>>

Opened ==
  /\ storeState = "migrating" /\ file = Len(Files) + 1
  /\ storeState' = "open"
  /\ UNCHANGED <<schema, recorded, file, statement, starts>>

\* Any statement may fail: Open closes the database and returns the error.
MigrationFails ==
  /\ storeState = "migrating"
  /\ storeState' = "failed"
  /\ UNCHANGED <<schema, recorded, file, statement, starts>>

\* A crash, or a new start after a failed one or a shutdown.
StartAgain ==
  /\ starts < MaxStarts
  /\ starts' = starts + 1
  /\ file' = 1 /\ statement' = 0
  /\ storeState' = "migrating"
  /\ UNCHANGED <<schema, recorded>>

MigrationNext ==
  SkipRecorded \/ Execute \/ RecordMigration \/ Opened \/ MigrationFails \/ StartAgain

MigrationSpec == MigrationInit /\ [][MigrationNext]_migrationVars

-----------------------------------------------------------------------------
MigrationTypeOK ==
  /\ schema \subseteq UNION {ToSet(Files[i]) : i \in DOMAIN Files}
  /\ recorded \subseteq DOMAIN Files
  /\ file \in 1..(Len(Files) + 1)
  /\ storeState \in {"migrating", "open", "failed"}

\* Wherever earlier starts broke off, an open store has every table and index
\* of every migration, and no file is recorded whose statements did not all
\* take effect.
OpenHasSchema ==
  /\ \A i \in recorded : ToSet(Files[i]) \subseteq schema
  /\ storeState = "open" => \A i \in DOMAIN Files : ToSet(Files[i]) \subseteq schema
=============================================================================
