--------------------------- MODULE MigrationsProofs ---------------------------
(***************************************************************************)
(* Proofs about Migrations, for every number of migrations.                *)
(*                                                                         *)
(* RecordMatchesSchema is not inductive: it says nothing of a transaction  *)
(* that is about to be committed.  MigrationsInv adds where the loop       *)
(* stands: everything before step.at is applied, and the transaction holds *)
(* the body and the record of step.at, which is not applied, or nothing.   *)
(***************************************************************************)
EXTENDS Migrations, TLAPS

\* What the open transaction holds at each statement.
TxInv ==
  /\ step.pc = "record" => tx = [bodies |-> {step.at}, records |-> {}]
  /\ step.pc = "commit" => tx = [bodies |-> {step.at}, records |-> {step.at}]
  /\ step.pc \notin {"record", "commit"} => tx = NoTx

\* How far the loop has come.
LoopInv ==
  /\ step.pc # "stopped" => /\ step.at # 0
                            /\ 1..(step.at - 1) \subseteq schema
  /\ step.pc \in {"body", "record", "commit"} =>
       step.at \in Numbers /\ step.at \notin schema
  /\ step.pc = "done" => schema = Numbers

MigrationsInv == MigrationsTypeOK /\ RecordMatchesSchema /\ TxInv /\ LoopInv

LEMMA MigrationsInvInit == MigrationsInit => MigrationsInv
  BY MigrationsAssumption
  DEF MigrationsInit, MigrationsInv, MigrationsTypeOK, RecordMatchesSchema,
      TxInv, LoopInv, NoTx, NotMigrating, Numbers

LEMMA BeginMigratingKeeps == MigrationsInv /\ BeginMigrating => MigrationsInv'
  BY MigrationsAssumption
  DEF BeginMigrating, MigrationsInv, MigrationsTypeOK, RecordMatchesSchema,
      TxInv, LoopInv, NoTx, Numbers

LEMMA CheckRecordedKeeps == MigrationsInv /\ CheckRecorded => MigrationsInv'
<1> SUFFICES ASSUME MigrationsInv, CheckRecorded PROVE MigrationsInv'
  OBVIOUS
<1> USE MigrationsAssumption
<1> DEFINE at == step.at
<1>1. /\ step.pc = "check" /\ at \in 1..(Count + 1)
      /\ step = [pc |-> step.pc, at |-> at]
      /\ 1..(at - 1) \subseteq schema
      /\ tx = NoTx
      /\ UNCHANGED <<schema, recorded, tx>>
  BY DEF CheckRecorded, MigrationsInv, MigrationsTypeOK, TxInv, LoopInv
<1>2. CASE at \notin Numbers
  <2>1. step' = [step EXCEPT !.pc = "done"]
    BY <1>2 DEF CheckRecorded
  <2>2. at - 1 = Count
    BY <1>1, <1>2 DEF Numbers
  <2>3. schema \subseteq Numbers /\ Numbers \subseteq schema
    BY <1>1, <2>2 DEF MigrationsInv, MigrationsTypeOK, Numbers
  <2> QED
    BY <1>1, <2>1, <2>3
    DEF MigrationsInv, MigrationsTypeOK, RecordMatchesSchema, TxInv, LoopInv,
        NoTx, Numbers
<1>3. CASE at \in Numbers /\ at \in recorded
  <2>1. step' = [step EXCEPT !.at = @ + 1]
    BY <1>3 DEF CheckRecorded
  <2> QED
    BY <1>1, <1>3, <2>1
    DEF MigrationsInv, MigrationsTypeOK, RecordMatchesSchema, TxInv, LoopInv,
        NoTx, Numbers
<1>4. CASE at \in Numbers /\ at \notin recorded
  <2>1. step' = [step EXCEPT !.pc = "body"]
    BY <1>4 DEF CheckRecorded
  <2> QED
    BY <1>1, <1>4, <2>1
    DEF MigrationsInv, MigrationsTypeOK, RecordMatchesSchema, TxInv, LoopInv,
        NoTx, Numbers
<1> QED
  BY <1>2, <1>3, <1>4

LEMMA ExecBodyKeeps == MigrationsInv /\ ExecBody => MigrationsInv'
  BY MigrationsAssumption
  DEF ExecBody, RollBack, NotMigrating, MigrationsInv, MigrationsTypeOK,
      RecordMatchesSchema, TxInv, LoopInv, NoTx, Numbers

LEMMA RecordVersionKeeps == MigrationsInv /\ RecordVersion => MigrationsInv'
  BY MigrationsAssumption
  DEF RecordVersion, RollBack, NotMigrating, MigrationsInv, MigrationsTypeOK,
      RecordMatchesSchema, TxInv, LoopInv, NoTx, Numbers

LEMMA CommitKeeps == MigrationsInv /\ Commit => MigrationsInv'
<1> SUFFICES ASSUME MigrationsInv, Commit PROVE MigrationsInv'
  OBVIOUS
<1> USE MigrationsAssumption
<1>1. /\ step.at \in Numbers
      /\ 1..(step.at - 1) \subseteq schema
      /\ recorded = schema /\ schema \subseteq Numbers
      /\ schema' = schema \cup {step.at}
      /\ recorded' = recorded \cup {step.at}
      /\ tx' = NoTx
      /\ step' = [pc |-> "check", at |-> step.at + 1]
  BY DEF Commit, MigrationsInv, MigrationsTypeOK, RecordMatchesSchema, TxInv,
         LoopInv
<1>2. \A m \in schema' : 1..m \subseteq schema'
  <2>1. 1..step.at \subseteq schema'
    BY <1>1 DEF Numbers
  <2> QED
    BY <1>1, <2>1 DEF MigrationsInv, RecordMatchesSchema
<1>3. step'.at # 0 /\ 1..(step'.at - 1) \subseteq schema'
  BY <1>1 DEF Numbers
<1>4. MigrationsTypeOK'
  <2>1. schema' \subseteq Numbers /\ recorded' \subseteq Numbers
    BY <1>1
  <2>2. tx' \in [bodies : SUBSET Numbers, records : SUBSET Numbers]
    BY <1>1 DEF NoTx
  <2>3. step.at + 1 \in 0..(Count + 1)
    BY <1>1 DEF Numbers
  <2> QED
    BY <1>1, <2>1, <2>2, <2>3 DEF MigrationsTypeOK
<1> QED
  BY <1>1, <1>2, <1>3, <1>4
  DEF MigrationsInv, MigrationsTypeOK, RecordMatchesSchema, TxInv, LoopInv,
      NoTx, Numbers

LEMMA CutShortKeeps == MigrationsInv /\ CutShort => MigrationsInv'
  BY MigrationsAssumption
  DEF CutShort, RollBack, NotMigrating, MigrationsInv, MigrationsTypeOK,
      RecordMatchesSchema, TxInv, LoopInv, NoTx, Numbers

LEMMA MigrationsInvStep ==
  MigrationsInv /\ [MigrationsNext]_migrationVars => MigrationsInv'
<1>1. MigrationsInv /\ UNCHANGED migrationVars => MigrationsInv'
  BY DEF migrationVars, MigrationsInv, MigrationsTypeOK, RecordMatchesSchema,
         TxInv, LoopInv
<1> QED
  BY <1>1, BeginMigratingKeeps, CheckRecordedKeeps, ExecBodyKeeps,
     RecordVersionKeeps, CommitKeeps, CutShortKeeps
  DEF MigrationsNext, Advance

\* The record of the migrations is right wherever the loop is stopped: what is
\* recorded is what the database has (db.go:101-116).
THEOREM RecordAlwaysMatches == MigrationsSpec => []RecordMatchesSchema
<1>1. MigrationsSpec => []MigrationsInv
  BY MigrationsInvInit, MigrationsInvStep, PTL DEF MigrationsSpec
<1>2. MigrationsInv => RecordMatchesSchema
  BY DEF MigrationsInv
<1> QED
  BY <1>1, <1>2, PTL

\* No start finds a table that is already there: neither the body nor the
\* record of a migration is ever refused by the database.
THEOREM NothingIsAppliedTwice ==
  MigrationsSpec =>
    [][/\ step.pc = "body" => step.at \notin schema
       /\ step.pc = "record" => step.at \notin recorded]_migrationVars
<1>1. MigrationsSpec => []MigrationsInv
  BY MigrationsInvInit, MigrationsInvStep, PTL DEF MigrationsSpec
<1>2. MigrationsInv => /\ step.pc = "body" => step.at \notin schema
                       /\ step.pc = "record" => step.at \notin recorded
  BY DEF MigrationsInv, LoopInv, RecordMatchesSchema
<1> QED
  BY <1>1, <1>2, PTL

=============================================================================
