------------------------------ MODULE Migrate ------------------------------
(***************************************************************************)
(* db.Open and db.Migrate: what every process does before anything else.   *)
(* The statements of Migrate are executed one by one, each a transaction   *)
(* of its own, on whatever an older build, an interrupted start or another *)
(* process left in the file.                                               *)
(***************************************************************************)
EXTENDS Naturals, Sequences

CONSTANTS
  Procs,       \* the processes on the database file
  OldSchemas   \* what the file may hold when this build first opens it

VARIABLES
  schema,    \* the tables, columns and indexes there are
  legacy,    \* some row has a date_utc in the format of old builds
  stage      \* stage[p]: Down, the number of its next statement, Up, Failed

migrateVars == <<schema, legacy, stage>>

Nothing == "nothing"   \* what a statement makes, or needs, that makes or needs nothing

Create(name)        == [kind |-> "create", name |-> name, on |-> Nothing]
Index(name, on)     == [kind |-> "create", name |-> name, on |-> on]
Column(name, table) == [kind |-> "column", name |-> name, on |-> table]

Tables ==
  << Create("mail_entries"), Create("mail_attachments"), Create("sync_state"),
     Create("mail_content_fts"), Create("mail_content"),
     Index("idx_mail_date", "mail_entries"),
     Index("idx_mail_account_folder", "mail_entries"),
     Index("idx_mail_sender", "mail_entries"),
     Index("idx_mail_account_uid_folder", "mail_entries") >>

ColumnMigrations ==
  << Column("uid_validity", "sync_state"),
     Column("is_read", "mail_entries"),    Column("is_replied", "mail_entries"),
     Column("message_id", "mail_entries"), Column("in_reply_to", "mail_entries") >>

ColumnIndexes ==
  << Index("idx_mail_message_id", "message_id"),
     Index("idx_mail_in_reply_to", "in_reply_to") >>

DateUpdate == [kind |-> "dates", name |-> Nothing, on |-> "mail_entries"]

\* Mutant: every index next to its table.
IndexesFirst == Tables \o ColumnIndexes \o ColumnMigrations \o <<DateUpdate>>

Statements == Tables \o ColumnMigrations \o ColumnIndexes \o <<DateUpdate>>

Down   == 0
Up     == Len(Statements) + 1
Failed == Len(Statements) + 2

NamesOf(ss) == {ss[i].name : i \in 1..Len(ss)} \ {Nothing}

Complete == NamesOf(Tables \o ColumnMigrations \o ColumnIndexes)

ASSUME SchemaAssumption ==
  \A s \in OldSchemas : s = {} \/ (NamesOf(Tables) \subseteq s /\ s \subseteq Complete)

MigrateInit ==
  /\ schema \in OldSchemas
  /\ legacy \in {FALSE, schema # {}}
  /\ stage = [p \in Procs |-> Down]

Migrating(p) == stage[p] \in 1..Len(Statements)

\* Statement s is an error: its table or column is missing.
Refused(s) == s.on # Nothing /\ s.on \notin schema

\* Mutant: a column that is there already is taken for a migrated file.
NextStageReturning(s, i) == IF s.kind = "column" /\ s.name \in schema THEN Up ELSE i + 1

\* A duplicate column is not an error.
NextStage(s, i) == i + 1

\* The process starts, and opens the file.
Start(p) ==
  /\ stage[p] = Down
  /\ stage' = [stage EXCEPT ![p] = 1]
  /\ UNCHANGED <<schema, legacy>>

\* Migrate executes its next statement, and after the last the process is up.
MigrateStep(p) ==
  /\ Migrating(p)
  /\ LET i == stage[p]
         s == Statements[i]
         n == NextStage(s, i)
     IN  /\ ~ Refused(s)
         /\ schema' = schema \cup ({s.name} \ {Nothing})
         /\ legacy' = (legacy /\ s.kind # "dates")
         /\ stage' = [stage EXCEPT ![p] = n]

\* The schema refuses a statement: the process ends, and will so at every start.
MigrateRefused(p) ==
  /\ Migrating(p)
  /\ Refused(Statements[stage[p]])
  /\ stage' = [stage EXCEPT ![p] = Failed]
  /\ UNCHANGED <<schema, legacy>>

\* The process ends, or is stopped, wherever it is; what it executed stays.
Stop(p) ==
  /\ stage[p] \notin {Down, Failed}
  /\ stage' = [stage EXCEPT ![p] = Down]
  /\ UNCHANGED <<schema, legacy>>

-----------------------------------------------------------------------------
MigrateTypeOK ==
  /\ schema \subseteq Complete
  /\ legacy \in BOOLEAN
  /\ stage \in [Procs -> Down..Failed]

\* A process works only on a complete schema, whose dates can be compared: a start
\* takes up what any older build, any interrupted start and any process beside it
\* left (Migrate).
UpMeansMigrated ==
  \A p \in Procs : stage[p] = Up => schema = Complete /\ ~ legacy

\* No file is so that a process can never start on it again.
StartsAgain == \A p \in Procs : stage[p] # Failed
=============================================================================
