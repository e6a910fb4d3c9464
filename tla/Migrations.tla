------------------------------ MODULE Migrations ------------------------------
(***************************************************************************)
(* The migrate loop of internal/db/db.go, run at every start before        *)
(* anything else touches the database.  Each migration is looked up in     *)
(* schema_migrations and, if it is not there, its body and its record are  *)
(* written in one transaction.  The process may stop between any two       *)
(* statements; what was not committed is then gone.                        *)
(*                                                                         *)
(* A body cannot be applied twice: its CREATE TABLEs would fail, and with  *)
(* them every later start.                                                 *)
(***************************************************************************)
EXTENDS Naturals

CONSTANT Count  \* the number of embedded migrations, in the order of their names

ASSUME MigrationsAssumption == Count \in Nat

VARIABLES schema,    \* the migrations whose tables are in the database
          recorded,  \* table schema_migrations
          tx,        \* what the open transaction has written
          step       \* where the loop stands

migrationVars == <<schema, recorded, tx, step>>

Numbers == 1..Count

NoTx == [bodies |-> {}, records |-> {}]

NotMigrating == [pc |-> "stopped", at |-> 0]

\* The transaction is rolled back, by the code or by the crash.
RollBack == tx' = NoTx /\ step' = NotMigrating

MigrationsInit ==
  /\ schema = {}
  /\ recorded = {}
  /\ tx = NoTx
  /\ step = NotMigrating

\* CREATE TABLE IF NOT EXISTS schema_migrations.
BeginMigrating ==
  /\ step.pc = "stopped"
  /\ step' = [pc |-> "check", at |-> 1]
  /\ UNCHANGED <<schema, recorded, tx>>

\* SELECT COUNT(1) ... WHERE version = ?
CheckRecorded ==
  /\ step.pc = "check"
  /\ \/ /\ step.at \notin Numbers
        /\ step' = [step EXCEPT !.pc = "done"]
     \/ /\ step.at \in Numbers \cap recorded
        /\ step' = [step EXCEPT !.at = @ + 1]
     \/ /\ step.at \in Numbers \ recorded
        /\ step' = [step EXCEPT !.pc = "body"]
  /\ UNCHANGED <<schema, recorded, tx>>

\* Variant: the body is executed on the connection, not in the transaction.
ExecBodyAtOnce ==
  /\ step.pc = "body"
  /\ IF step.at \in schema
       THEN RollBack /\ UNCHANGED schema
       ELSE /\ schema' = schema \cup {step.at}
            /\ step' = [step EXCEPT !.pc = "record"]
            /\ UNCHANGED tx
  /\ UNCHANGED recorded

\* BeginTx and Exec of the body, which fails on a table that exists.
ExecBody ==
  /\ step.pc = "body"
  /\ IF step.at \in schema
       THEN RollBack
       ELSE /\ tx' = [NoTx EXCEPT !.bodies = {step.at}]
            /\ step' = [step EXCEPT !.pc = "record"]
  /\ UNCHANGED <<schema, recorded>>

\* INSERT INTO schema_migrations, whose key is the migration's name.
RecordVersion ==
  /\ step.pc = "record"
  /\ IF step.at \in recorded
       THEN RollBack
       ELSE /\ tx' = [tx EXCEPT !.records = {step.at}]
            /\ step' = [step EXCEPT !.pc = "commit"]
  /\ UNCHANGED <<schema, recorded>>

Commit ==
  /\ step.pc = "commit"
  /\ schema' = schema \cup tx.bodies
  /\ recorded' = recorded \cup tx.records
  /\ tx' = NoTx
  /\ step' = [pc |-> "check", at |-> step.at + 1]

\* A statement fails, migrate returns the error and main exits; or the
\* process is killed.
CutShort ==
  /\ step.pc # "stopped"
  /\ RollBack
  /\ UNCHANGED <<schema, recorded>>

Advance == CheckRecorded \/ ExecBody \/ RecordVersion \/ Commit

MigrationsNext == BeginMigrating \/ Advance \/ CutShort

MigrationsSpec == MigrationsInit /\ [][MigrationsNext]_migrationVars

-----------------------------------------------------------------------------
(* Properties.                                                             *)

MigrationsTypeOK ==
  /\ schema \subseteq Numbers
  /\ recorded \subseteq Numbers
  /\ tx \in [bodies : SUBSET Numbers, records : SUBSET Numbers]
  /\ step \in [pc : {"stopped", "check", "body", "record", "commit", "done"},
               at : 0..(Count + 1)]

\* Wherever the process stops, the record says exactly what the database has,
\* and that is an initial part of the migrations: no start finds a table
\* already there, and none applies a migration before an earlier one
\* (db.go:101-116).
RecordMatchesSchema ==
  /\ recorded = schema
  /\ \A m \in schema : 1..m \subseteq schema

=============================================================================
