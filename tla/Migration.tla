----------------------------- MODULE Migration -----------------------------
(***************************************************************************)
(* Opening a store and migrating it (src/store/mod.rs, prepare_store in    *)
(* src/main.rs), by processes that share one database file.  The version   *)
(* is read first; then one transaction applies the SQL and sets the        *)
(* version, and another process may come between the two.  There is one    *)
(* migration: up creates the table, down drops it, and neither asks        *)
(* whether the table is there.                                             *)
(***************************************************************************)
EXTENDS Integers, Sequences

CONSTANTS
  Procs,     \* the processes
  Keys,      \* what names a row
  Plans,     \* per process: the versions it may be told to go to, in order
  FileFails, \* TRUE if a migration may fail for a reason of its own
  NoTable    \* the table "store" is not there

ASSUME MigrationAssumption ==
  /\ \A p \in Procs : Plans[p] \subseteq Seq(Nat)
  /\ FileFails \in BOOLEAN
  /\ \A rows \in SUBSET Keys : rows # NoTable

VARIABLES
  version,   \* user_version of the file
  table,     \* the rows of the table "store", or NoTable
  stage,     \* per process: how far it is
  plan,      \* per process: --run-migrations, "store migrate", or both
  done,      \* per process: how many of these it did
  seen,      \* per process: the version it read last
  reverted   \* history, per process: the table was dropped since it read

fileVars == <<version, table>>
procVars == <<stage, plan, done, seen>>
migrationVars == <<version, table, stage, plan, done, seen, reverted>>

Stages == {"absent", "opened", "migrating", "running", "failed"}

\* The migrations of the directory "migrations".
Latest == 1

MigrationInit ==
  /\ version = 0
  /\ table = NoTable
  /\ stage = [p \in Procs |-> "absent"]
  /\ plan = [p \in Procs |-> <<>>]
  /\ done = [p \in Procs |-> 0]
  /\ seen = [p \in Procs |-> 0]
  /\ reverted = [p \in Procs |-> FALSE]

Reach(p, s) == stage' = [stage EXCEPT ![p] = s]

\* A process starts, and opens the file.
Open(p) ==
  /\ stage[p] = "absent"
  /\ Reach(p, "opened")
  /\ \E todo \in Plans[p] : plan' = [plan EXCEPT ![p] = todo]
  /\ UNCHANGED <<fileVars, done, seen, reverted>>

\* migrate() reads the version, with no transaction open.
ReadVersion(p) ==
  /\ stage[p] = "opened"
  /\ done[p] < Len(plan[p])
  /\ Reach(p, "migrating")
  /\ seen' = [seen EXCEPT ![p] = version]
  /\ reverted' = [reverted EXCEPT ![p] = FALSE]
  /\ UNCHANGED <<fileVars, plan, done>>

Target(p) == plan[p][done[p] + 1]

\* Nothing is to be done for the version that was read.
Settled(p) == seen[p] = Target(p)

\* Mutant: nobody asks whether there is such a version.
RefusedLess(p) ==
  \/ seen[p] < Target(p) /\ table # NoTable
  \/ seen[p] > Target(p) /\ table = NoTable

\* The SQL fails, as another process was faster, or there is no such version.
Refused(p) ==
  \/ Target(p) > Latest
  \/ seen[p] < Target(p) /\ table # NoTable
  \/ seen[p] > Target(p) /\ table = NoTable

\* Mutant: the SQL replaces a table that is there already.
MigrateOver(p) ==
  /\ stage[p] = "migrating"
  /\ Target(p) <= Latest
  /\ IF Settled(p) THEN UNCHANGED <<fileVars, reverted>>
     ELSE /\ version' = Target(p)
          /\ table' = IF Target(p) > seen[p] THEN {} ELSE NoTable
          /\ reverted' =
               [q \in Procs |->
                  reverted[q] \/ (plan[q] # <<>> /\ table' = NoTable)]
  /\ done' = [done EXCEPT ![p] = @ + 1]
  /\ seen' = [seen EXCEPT ![p] = 0]
  /\ Reach(p, "opened")
  /\ UNCHANGED plan

\* One transaction applies the SQL and sets the version.
Migrate(p) ==
  /\ stage[p] = "migrating"
  /\ ~Refused(p)
  /\ IF Settled(p) THEN UNCHANGED <<fileVars, reverted>>
     ELSE /\ version' = Target(p)
          /\ table' = IF Target(p) > seen[p] THEN {} ELSE NoTable
          /\ reverted' =
               [q \in Procs |->
                  reverted[q] \/ (plan[q] # <<>> /\ table' = NoTable)]
  /\ done' = [done EXCEPT ![p] = @ + 1]
  /\ seen' = [seen EXCEPT ![p] = 0]
  /\ Reach(p, "opened")
  /\ UNCHANGED plan

\* Mutant: what the SQL did before it failed is not rolled back.
MigrationFailsHalfway(p) ==
  /\ stage[p] = "migrating"
  /\ Refused(p) \/ FileFails
  /\ table' = IF Target(p) > seen[p] THEN {} ELSE table
  /\ Reach(p, "failed")
  /\ UNCHANGED <<version, plan, done, seen, reverted>>

\* The transaction is rolled back, and the process ends with an error.
MigrationFails(p) ==
  /\ stage[p] = "migrating"
  /\ Refused(p) \/ FileFails
  /\ Reach(p, "failed")
  /\ UNCHANGED <<fileVars, plan, done, seen, reverted>>

\* Mutant: the command does not wait for --run-migrations.
RunAtOnce(p) ==
  /\ stage[p] = "opened"
  /\ done' = [done EXCEPT ![p] = Len(plan[p])]
  /\ Reach(p, "running")
  /\ UNCHANGED <<fileVars, plan, seen, reverted>>

\* The store is ready, and the command itself begins.
Run(p) ==
  /\ stage[p] = "opened"
  /\ done[p] = Len(plan[p])
  /\ Reach(p, "running")
  /\ UNCHANGED <<fileVars, plan, done, seen, reverted>>

\* The calls of a command change the rows, if there is a table to change.
Write(p) ==
  /\ stage[p] = "running"
  /\ table # NoTable
  /\ \E rows \in SUBSET Keys : table' = rows
  /\ UNCHANGED <<version, procVars, reverted>>

\* A process ends or dies, at any point; an open transaction is forgotten.
Leave(p) ==
  /\ stage[p] # "absent"
  /\ Reach(p, "absent")
  /\ plan' = [plan EXCEPT ![p] = <<>>]
  /\ done' = [done EXCEPT ![p] = 0]
  /\ seen' = [seen EXCEPT ![p] = 0]
  /\ reverted' = [reverted EXCEPT ![p] = FALSE]
  /\ UNCHANGED fileVars

Prepare(p) ==
  ReadVersion(p) \/ Migrate(p) \/ MigrationFails(p) \/ Run(p)

MigrationNext ==
  \E p \in Procs : Open(p) \/ Prepare(p) \/ Write(p) \/ Leave(p)

MigrationSpec == MigrationInit /\ [][MigrationNext]_migrationVars
-----------------------------------------------------------------------------
\* Every variable has its type.
MigrationTypeOK ==
  /\ version \in 0..Latest
  /\ table = NoTable \/ table \in SUBSET Keys
  /\ stage \in [Procs -> Stages]
  /\ plan \in [Procs -> Seq(Nat)]
  /\ done \in [Procs -> Nat]
  /\ \A p \in Procs : done[p] <= Len(plan[p])
  /\ \A p \in Procs : stage[p] = "absent" => done[p] = 0
  /\ \A p \in Procs :
       stage[p] \in {"migrating", "failed"} => done[p] < Len(plan[p])
  /\ seen \in [Procs -> 0..Latest]
  /\ reverted \in [Procs -> BOOLEAN]

\* The version of the file says whether the table is there, whatever
\* processes migrate at once, fail or die.
VersionTellsTable == version = 0 <=> table = NoTable

\* A migration that is not a step back keeps all rows of a table that is
\* there, be it that another process created it since the version was read.
RowsKept ==
  [][\A p \in Procs :
       /\ stage[p] = "migrating" /\ stage'[p] # "migrating"
       /\ table # NoTable /\ Target(p) >= Latest
       => table' = table]_migrationVars

\* The last thing that p did was to migrate to the latest version.
Migrated(p) ==
  /\ stage[p] \in {"opened", "running"}
  /\ done[p] > 0 /\ plan[p][done[p]] >= Latest

\* What a process did, and what it read, holds until the table is dropped.
MigratedLasts ==
  \A p \in Procs : ~reverted[p] =>
    /\ Migrated(p) => table # NoTable
    /\ stage[p] = "migrating" /\ seen[p] > 0 => table # NoTable

\* The inductive invariant.
MigrationInv == MigrationTypeOK /\ VersionTellsTable /\ MigratedLasts

\* A migration to the version that was read is over with the reading: it has
\* nothing to do, whatever becomes of the file before it returns.
Over(p) == stage[p] \in {"migrating", "failed"} /\ Settled(p)

SeenStage == [p \in Procs |->
                IF stage[p] = "migrating" THEN "opened" ELSE stage[p]]
SeenDone == [p \in Procs |-> IF Over(p) THEN done[p] + 1 ELSE done[p]]

Atomic == INSTANCE AtomicMigration WITH stage <- SeenStage, done <- SeenDone

\* Although the version is read outside of the transaction that changes it, a
\* migration that succeeds is atomic, and one that fails leaves no trace: the
\* race of two processes can only make one of them fail.
MigrationsAtomic == Atomic!Spec
=============================================================================
