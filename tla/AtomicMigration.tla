-------------------------- MODULE AtomicMigration --------------------------
(***************************************************************************)
(* What migrating promises to the processes that share a file: a migration *)
(* that succeeds takes effect in one step, as if the version had been read *)
(* in the transaction that changes it, and one that fails has no effect.   *)
(* This is the reading of the documentation of Store::migrate              *)
(* (src/store/mod.rs) that Migration.tla is shown to implement.            *)
(***************************************************************************)
EXTENDS Integers, Sequences

CONSTANTS
  Procs,    \* the processes
  Keys,     \* what names a row
  Plans,    \* per process: the versions it may be told to go to, in order
  NoTable   \* the table is not there

VARIABLES
  version,  \* the version of the file
  table,    \* the rows of the table, or NoTable
  stage,    \* per process: how far it is
  plan,     \* per process: the versions it was told to go to
  done      \* per process: how many of them it went to

vars == <<version, table, stage, plan, done>>

Latest == 1

Init ==
  /\ version = 0
  /\ table = NoTable
  /\ stage = [p \in Procs |-> "absent"]
  /\ plan = [p \in Procs |-> <<>>]
  /\ done = [p \in Procs |-> 0]

Reach(p, s) == stage' = [stage EXCEPT ![p] = s]

Open(p) ==
  /\ stage[p] = "absent"
  /\ Reach(p, "opened")
  /\ \E todo \in Plans[p] : plan' = [plan EXCEPT ![p] = todo]
  /\ UNCHANGED <<version, table, done>>

\* The table that a migration of version v to version w makes of t.
Migrated(t, v, w) == IF w > v THEN {} ELSE IF w < v THEN NoTable ELSE t

\* The next migration of p, on the version that the file has now.
Migrate(p) ==
  /\ stage[p] = "opened"
  /\ done[p] < Len(plan[p])
  /\ version' = plan[p][done[p] + 1]
  /\ version' \in 0..Latest
  /\ table' = Migrated(table, version, version')
  /\ done' = [done EXCEPT ![p] = @ + 1]
  /\ UNCHANGED <<stage, plan>>

\* A process may be told of a failure after it asked for a migration.
Fail(p) ==
  /\ stage[p] = "opened"
  /\ plan[p] # <<>>
  /\ Reach(p, "failed")
  /\ UNCHANGED <<version, table, plan, done>>

Run(p) ==
  /\ stage[p] = "opened"
  /\ done[p] = Len(plan[p])
  /\ Reach(p, "running")
  /\ UNCHANGED <<version, table, plan, done>>

Write(p) ==
  /\ stage[p] = "running"
  /\ table # NoTable
  /\ \E rows \in SUBSET Keys : table' = rows
  /\ UNCHANGED <<version, stage, plan, done>>

Leave(p) ==
  /\ stage[p] # "absent"
  /\ Reach(p, "absent")
  /\ plan' = [plan EXCEPT ![p] = <<>>]
  /\ done' = [done EXCEPT ![p] = 0]
  /\ UNCHANGED <<version, table>>

Next ==
  \E p \in Procs :
    Open(p) \/ Migrate(p) \/ Fail(p) \/ Run(p) \/ Write(p) \/ Leave(p)

Spec == Init /\ [][Next]_vars
=============================================================================
