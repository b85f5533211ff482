-------------------------- MODULE Migration_proofs --------------------------
(***************************************************************************)
(* Proofs about Migration: for any processes and any versions they are     *)
(* told to go to, the version of the file tells whether the table is there *)
(* and what was migrated stays so until the table is dropped.              *)
(***************************************************************************)
EXTENDS Migration, SequenceTheorems, TLAPS

\* The invariant holds of a file that nobody has opened.
LEMMA MigrationInitInv == MigrationInit => MigrationInv
BY MigrationAssumption
   DEF MigrationInit, MigrationInv, MigrationTypeOK, VersionTellsTable,
       MigratedLasts, Migrated, Stages, Latest

\* What a migration goes to is one of the versions of the plan.
LEMMA TargetType ==
  ASSUME MigrationTypeOK, NEW p \in Procs, stage[p] = "migrating"
  PROVE  /\ Target(p) \in Nat /\ plan[p] \in Seq(Nat)
         /\ done[p] + 1 \in 1..Len(plan[p])
<1>1. plan[p] \in Seq(Nat) /\ done[p] \in Nat /\ done[p] < Len(plan[p])
  BY DEF MigrationTypeOK
<1>2. done[p] + 1 \in 1..Len(plan[p])
  BY <1>1
<1> QED
  BY <1>1, <1>2, ElementOfSeq DEF Target

\* A migration that succeeds preserves the invariant.
LEMMA MigrateInv ==
  ASSUME MigrationInv, NEW p \in Procs, Migrate(p)
  PROVE  MigrationInv'
<1> USE DEF MigrationInv
<1>1. /\ Target(p) \in 0..Latest /\ done[p] \in Nat /\ seen[p] \in 0..Latest
      /\ done[p] + 1 <= Len(plan[p])
  BY TargetType DEF Migrate, Refused, Latest, MigrationTypeOK
<1>2. CASE Settled(p)
  <2>1. UNCHANGED <<version, table, reverted, plan>>
    BY <1>2 DEF Migrate, fileVars
  <2>2. MigrationTypeOK'
    BY <1>1, <2>1 DEF Migrate, Reach, MigrationTypeOK, Stages, Latest
  <2>3. MigratedLasts'
    <3> SUFFICES ASSUME NEW q \in Procs, ~reverted'[q]
                 PROVE  /\ Migrated(q)' => table' # NoTable
                        /\ stage'[q] = "migrating" /\ seen'[q] > 0
                             => table' # NoTable
      BY DEF MigratedLasts
    <3>1. CASE q # p
      <4>1. /\ stage'[q] = stage[q] /\ done'[q] = done[q]
            /\ seen'[q] = seen[q]
        BY <3>1 DEF Migrate, Reach, MigrationTypeOK
      <4> QED
        BY <2>1, <4>1 DEF MigratedLasts, Migrated
    <3>2. CASE q = p
      <4>1. stage'[p] = "opened" /\ done'[p] = done[p] + 1
        BY DEF Migrate, Reach, MigrationTypeOK
      <4>2. Migrated(p)' => seen[p] >= Latest
        BY <1>2, <2>1, <4>1 DEF Migrated, Settled, Target, Latest
      <4>3. stage[p] = "migrating"
        BY DEF Migrate
      <4> QED
        BY <1>1, <2>1, <3>2, <4>1, <4>2, <4>3 DEF MigratedLasts, Latest
    <3> QED
      BY <3>1, <3>2
  <2> QED
    BY <2>1, <2>2, <2>3 DEF VersionTellsTable
<1>3. CASE ~Settled(p)
  <2>1. /\ version' = Target(p)
        /\ table' = IF Target(p) > seen[p] THEN {} ELSE NoTable
        /\ reverted' =
             [q \in Procs |->
                reverted[q] \/ (plan[q] # <<>> /\ table' = NoTable)]
        /\ UNCHANGED plan
    BY <1>3 DEF Migrate
  <2>2. table' # NoTable <=> Target(p) > seen[p]
    BY <2>1, MigrationAssumption
  <2>3. \/ Target(p) = 1 /\ seen[p] = 0
        \/ Target(p) = 0 /\ seen[p] = 1
    BY <1>1, <1>3 DEF Settled, Latest
  <2>4. MigrationTypeOK'
    BY <1>1, <2>1 DEF Migrate, Reach, MigrationTypeOK, Stages, Latest
  <2>5. VersionTellsTable'
    BY <2>1, <2>2, <2>3 DEF VersionTellsTable
  <2>6. MigratedLasts'
    <3> SUFFICES ASSUME NEW q \in Procs, ~reverted'[q], table' = NoTable
                 PROVE  ~Migrated(q)' /\ ~(stage'[q] = "migrating")
      BY DEF MigratedLasts
    <3>0. reverted'[q] = (reverted[q] \/ (plan[q] # <<>> /\ table' = NoTable))
      BY <2>1, Zenon
    <3>1. plan[q] = <<>> /\ Len(plan[q]) = 0
      <4>1. plan[q] = <<>>
        BY <3>0, Zenon
      <4> QED
        BY <4>1
    <3>2. done'[q] <= Len(plan[q])
      BY <2>1, <2>4 DEF MigrationTypeOK
    <3>3. /\ done'[q] \in Nat
          /\ stage'[q] = "migrating" => done'[q] < Len(plan[q])
      BY <2>1, <2>4 DEF MigrationTypeOK
    <3> QED
      BY <3>1, <3>2, <3>3 DEF Migrated
  <2> QED
    BY <2>4, <2>5, <2>6
<1> QED
  BY <1>2, <1>3

\* Every step of the processes preserves the invariant.
LEMMA MigrationStepInv ==
  ASSUME MigrationInv, [MigrationNext]_migrationVars
  PROVE  MigrationInv'
<1> USE MigrationAssumption
    DEF MigrationInv, MigrationTypeOK, VersionTellsTable, MigratedLasts,
        Migrated, Stages, Latest, Reach, fileVars, procVars
<1>1. ASSUME NEW p \in Procs, Open(p)
      PROVE  MigrationInv'
  BY <1>1 DEF Open
<1>2. ASSUME NEW p \in Procs, ReadVersion(p)
      PROVE  MigrationInv'
  BY <1>2 DEF ReadVersion
<1>3. ASSUME NEW p \in Procs, MigrationFails(p)
      PROVE  MigrationInv'
  BY <1>3 DEF MigrationFails
<1>4. ASSUME NEW p \in Procs, Run(p)
      PROVE  MigrationInv'
  BY <1>4 DEF Run
<1>5. ASSUME NEW p \in Procs, Write(p)
      PROVE  MigrationInv'
  BY <1>5 DEF Write
<1>6. ASSUME NEW p \in Procs, Leave(p)
      PROVE  MigrationInv'
  BY <1>6 DEF Leave
<1>7. CASE UNCHANGED migrationVars
  BY <1>7 DEF migrationVars
<1> QED
  BY <1>1, <1>2, <1>3, <1>4, <1>5, <1>6, <1>7, MigrateInv
     DEF MigrationNext, Prepare

\* A migration to the latest version keeps the rows of a table that is there.
LEMMA MigrationKeepsRows ==
  ASSUME MigrationInv, [MigrationNext]_migrationVars,
         NEW p \in Procs, stage[p] = "migrating", stage'[p] # "migrating",
         table # NoTable, Target(p) >= Latest
  PROVE  table' = table
<1>1. /\ stage \in [Procs -> Stages]
      /\ Target(p) \in Nat /\ seen[p] \in 0..Latest
  BY TargetType DEF MigrationInv, MigrationTypeOK
<1>2. \/ Migrate(p) \/ MigrationFails(p) \/ Leave(p)
  BY <1>1 DEF MigrationNext, migrationVars, Prepare, Open, ReadVersion,
              Migrate, MigrationFails, Run, Write, Leave, Reach, procVars
<1>3. CASE Migrate(p)
  <2>1. ~(seen[p] < Target(p)) /\ ~(Target(p) > Latest)
    BY <1>3 DEF Migrate, Refused
  <2>2. Settled(p)
    BY <1>1, <2>1 DEF Settled, Latest
  <2> QED
    BY <1>3, <2>2 DEF Migrate, fileVars
<1>4. CASE MigrationFails(p) \/ Leave(p)
  BY <1>4 DEF MigrationFails, Leave, fileVars
<1> QED
  BY <1>2, <1>3, <1>4

\* The invariant of the processes that migrate one file holds in every
\* reachable state.
THEOREM MigrationInvariance == MigrationSpec => []MigrationInv
<1> QED
  BY MigrationInitInv, MigrationStepInv, PTL DEF MigrationSpec
-----------------------------------------------------------------------------
\* A file that nobody has opened is the start of both specifications.
LEMMA AtomicInit == MigrationInit => Atomic!Init
BY DEF MigrationInit, Atomic!Init, SeenStage, SeenDone, Over

\* What a step leaves to all other processes, in the terms of the mapping.
LEMMA OthersSeen ==
  ASSUME NEW p \in Procs,
         \A q \in Procs \ {p} :
           UNCHANGED <<stage[q], plan[q], done[q], seen[q]>>,
         NEW s, NEW d,
         SeenStage'[p] = s, SeenDone'[p] = d
  PROVE  /\ SeenStage' = [SeenStage EXCEPT ![p] = s]
         /\ SeenDone' = [SeenDone EXCEPT ![p] = d]
<1>1. \A q \in Procs \ {p} :
        SeenStage'[q] = SeenStage[q] /\ SeenDone'[q] = SeenDone[q]
  BY DEF SeenStage, SeenDone, Over, Settled, Target
<1> QED
  BY <1>1 DEF SeenStage, SeenDone

\* To read the version that the file is to have is the whole migration; to
\* read another one is not yet a step.
LEMMA ReadVersionAtomic ==
  ASSUME MigrationInv, NEW p \in Procs, ReadVersion(p)
  PROVE  Atomic!Migrate(p) \/ UNCHANGED Atomic!vars
<1> USE DEF MigrationInv, MigrationTypeOK
<1>1. /\ stage[p] = "opened" /\ done[p] < Len(plan[p])
      /\ stage'[p] = "migrating" /\ seen'[p] = version
      /\ UNCHANGED <<version, table, plan, done>>
      /\ \A q \in Procs \ {p} :
           UNCHANGED <<stage[q], plan[q], done[q], seen[q]>>
  BY DEF ReadVersion, Reach, fileVars
<1>2. /\ SeenStage[p] = "opened" /\ SeenStage'[p] = "opened"
      /\ SeenDone[p] = done[p]
  BY <1>1 DEF SeenStage, SeenDone, Over
<1>3. Target(p)' = plan[p][done[p] + 1]
  BY <1>1 DEF Target
<1>4. CASE version = plan[p][done[p] + 1]
  <2>1. SeenDone'[p] = done[p] + 1
    BY <1>1, <1>3, <1>4 DEF SeenDone, Over, Settled
  <2>2. /\ SeenStage' = [SeenStage EXCEPT ![p] = "opened"]
        /\ SeenDone' = [SeenDone EXCEPT ![p] = done[p] + 1]
    BY <1>1, <1>2, <2>1, OthersSeen
  <2>3. SeenStage' = SeenStage /\ SeenDone' = [SeenDone EXCEPT ![p] = @ + 1]
    BY <1>2, <2>2 DEF SeenStage, SeenDone
  <2>4. table' = Atomic!Migrated(table, version, version')
    BY <1>1 DEF Atomic!Migrated
  <2> QED
    BY <1>1, <1>2, <1>4, <2>3, <2>4
       DEF Atomic!Migrate, Latest, Atomic!Latest
<1>5. CASE version # plan[p][done[p] + 1]
  <2>1. SeenDone'[p] = done[p]
    BY <1>1, <1>3, <1>5 DEF SeenDone, Over, Settled
  <2>2. /\ SeenStage' = [SeenStage EXCEPT ![p] = "opened"]
        /\ SeenDone' = [SeenDone EXCEPT ![p] = done[p]]
    BY <1>1, <1>2, <2>1, OthersSeen
  <2>3. SeenStage' = SeenStage /\ SeenDone' = SeenDone
    BY <1>2, <2>2 DEF SeenStage, SeenDone
  <2> QED
    BY <1>1, <2>3 DEF Atomic!vars
<1> QED
  BY <1>4, <1>5

\* The transaction of a migration that has something to do finds the version
\* that was read, or the SQL does not fit the table.
LEMMA MigrateAtomic ==
  ASSUME MigrationInv, NEW p \in Procs, Migrate(p)
  PROVE  Atomic!Migrate(p) \/ UNCHANGED Atomic!vars
<1> USE DEF MigrationInv, MigrationTypeOK
<1>1. /\ stage[p] = "migrating" /\ ~Refused(p) /\ UNCHANGED plan
      /\ stage'[p] = "opened" /\ done'[p] = done[p] + 1
      /\ \A q \in Procs \ {p} :
           UNCHANGED <<stage[q], plan[q], done[q], seen[q]>>
  BY DEF Migrate, Reach
<1>2. /\ Target(p) \in 0..Latest /\ seen[p] \in 0..Latest
      /\ done[p] \in Nat /\ done[p] < Len(plan[p])
      /\ Target(p) = plan[p][done[p] + 1]
  BY <1>1, TargetType DEF Refused, Target, Latest
<1>3. /\ SeenStage[p] = "opened" /\ SeenStage'[p] = "opened"
      /\ SeenDone'[p] = done[p] + 1
  BY <1>1 DEF SeenStage, SeenDone, Over
<1>4. /\ SeenStage' = [SeenStage EXCEPT ![p] = "opened"]
      /\ SeenDone' = [SeenDone EXCEPT ![p] = done[p] + 1]
  BY <1>1, <1>3, OthersSeen
<1>5. SeenStage' = SeenStage
  BY <1>3, <1>4 DEF SeenStage
<1>6. CASE Settled(p)
  <2>1. SeenDone[p] = done[p] + 1
    BY <1>1, <1>6 DEF SeenDone, Over
  <2>2. SeenDone' = SeenDone
    BY <1>4, <2>1 DEF SeenDone
  <2>3. UNCHANGED <<version, table>>
    BY <1>6 DEF Migrate, fileVars
  <2> QED
    BY <1>1, <1>5, <2>2, <2>3 DEF Atomic!vars
<1>7. CASE ~Settled(p)
  <2>1. SeenDone[p] = done[p]
    BY <1>7 DEF SeenDone, Over
  <2>2. SeenDone' = [SeenDone EXCEPT ![p] = @ + 1]
    BY <1>4, <2>1 DEF SeenDone
  <2>3. /\ version' = Target(p)
        /\ table' = IF Target(p) > seen[p] THEN {} ELSE NoTable
    BY <1>7 DEF Migrate
  <2>4. version = seen[p]
    <3>1. \/ seen[p] = 0 /\ Target(p) = 1 /\ table = NoTable
          \/ seen[p] = 1 /\ Target(p) = 0 /\ table # NoTable
      BY <1>1, <1>2, <1>7 DEF Refused, Settled, Latest
    <3> QED
      BY <3>1 DEF VersionTellsTable, Latest
  <2>5. table' = Atomic!Migrated(table, version, version')
    BY <1>2, <1>7, <2>3, <2>4 DEF Atomic!Migrated, Settled, Latest
  <2> QED
    BY <1>1, <1>2, <1>3, <1>5, <2>1, <2>2, <2>3, <2>5
       DEF Atomic!Migrate, Latest, Atomic!Latest
<1> QED
  BY <1>6, <1>7

\* Every other step is the same in both.
LEMMA OtherStepsAtomic ==
  ASSUME MigrationInv, NEW p \in Procs
  PROVE  /\ Open(p) => Atomic!Open(p)
         /\ MigrationFails(p) => Atomic!Fail(p)
         /\ Run(p) => Atomic!Run(p)
         /\ Write(p) => Atomic!Write(p)
         /\ Leave(p) => Atomic!Leave(p)
<1> USE DEF MigrationInv, MigrationTypeOK
<1>1. ASSUME Open(p)
      PROVE  Atomic!Open(p)
  <2>1. /\ stage[p] = "absent" /\ stage'[p] = "opened"
        /\ UNCHANGED <<version, table, done, seen>>
        /\ \A q \in Procs \ {p} :
             UNCHANGED <<stage[q], plan[q], done[q], seen[q]>>
    BY <1>1 DEF Open, Reach, fileVars
  <2>2. /\ SeenStage[p] = "absent" /\ SeenStage'[p] = "opened"
        /\ SeenDone[p] = done[p] /\ SeenDone'[p] = done[p]
    BY <2>1 DEF SeenStage, SeenDone, Over
  <2>3. /\ SeenStage' = [SeenStage EXCEPT ![p] = "opened"]
        /\ SeenDone' = [SeenDone EXCEPT ![p] = done[p]]
    BY <2>1, <2>2, OthersSeen
  <2>4. SeenDone' = SeenDone
    BY <2>2, <2>3 DEF SeenDone
  <2> QED
    BY <1>1, <2>1, <2>2, <2>3, <2>4 DEF Open, Atomic!Open, Atomic!Reach
<1>2. ASSUME MigrationFails(p)
      PROVE  Atomic!Fail(p)
  <2>1. /\ stage[p] = "migrating" /\ stage'[p] = "failed"
        /\ UNCHANGED <<version, table, plan, done, seen>>
        /\ \A q \in Procs \ {p} :
             UNCHANGED <<stage[q], plan[q], done[q], seen[q]>>
    BY <1>2 DEF MigrationFails, Reach, fileVars
  <2>2. /\ SeenStage[p] = "opened" /\ SeenStage'[p] = "failed"
        /\ SeenDone'[p] = SeenDone[p]
    BY <2>1 DEF SeenStage, SeenDone, Over, Settled, Target
  <2>3. /\ SeenStage' = [SeenStage EXCEPT ![p] = "failed"]
        /\ SeenDone' = [SeenDone EXCEPT ![p] = SeenDone[p]]
    BY <2>1, <2>2, OthersSeen
  <2>4. SeenDone' = SeenDone
    BY <2>3 DEF SeenDone
  <2>5. plan[p] # <<>>
    <3>1. done[p] \in Nat /\ done[p] < Len(plan[p])
      BY <2>1
    <3> QED
      BY <3>1
  <2> QED
    BY <2>1, <2>2, <2>3, <2>4, <2>5 DEF Atomic!Fail, Atomic!Reach
<1>3. ASSUME Run(p)
      PROVE  Atomic!Run(p)
  <2>1. /\ stage[p] = "opened" /\ stage'[p] = "running"
        /\ done[p] = Len(plan[p])
        /\ UNCHANGED <<version, table, plan, done, seen>>
        /\ \A q \in Procs \ {p} :
             UNCHANGED <<stage[q], plan[q], done[q], seen[q]>>
    BY <1>3 DEF Run, Reach, fileVars
  <2>2. /\ SeenStage[p] = "opened" /\ SeenStage'[p] = "running"
        /\ SeenDone[p] = done[p] /\ SeenDone'[p] = done[p]
    BY <2>1 DEF SeenStage, SeenDone, Over
  <2>3. /\ SeenStage' = [SeenStage EXCEPT ![p] = "running"]
        /\ SeenDone' = [SeenDone EXCEPT ![p] = done[p]]
    BY <2>1, <2>2, OthersSeen
  <2>4. SeenDone' = SeenDone
    BY <2>2, <2>3 DEF SeenDone
  <2> QED
    BY <2>1, <2>2, <2>3, <2>4 DEF Atomic!Run, Atomic!Reach
<1>4. ASSUME Write(p)
      PROVE  Atomic!Write(p)
  <2>1. UNCHANGED <<SeenStage, SeenDone>>
    BY <1>4 DEF Write, procVars, SeenStage, SeenDone, Over, Settled, Target
  <2> QED
    BY <1>4, <2>1 DEF Write, Atomic!Write, procVars, SeenStage
<1>5. ASSUME Leave(p)
      PROVE  Atomic!Leave(p)
  <2>1. /\ stage[p] # "absent" /\ stage'[p] = "absent" /\ done'[p] = 0
        /\ UNCHANGED <<version, table>>
        /\ \A q \in Procs \ {p} :
             UNCHANGED <<stage[q], plan[q], done[q], seen[q]>>
    BY <1>5 DEF Leave, Reach, fileVars
  <2>2. /\ SeenStage[p] # "absent" /\ SeenStage'[p] = "absent"
        /\ SeenDone'[p] = 0
    BY <2>1 DEF SeenStage, SeenDone, Over
  <2>3. /\ SeenStage' = [SeenStage EXCEPT ![p] = "absent"]
        /\ SeenDone' = [SeenDone EXCEPT ![p] = 0]
    BY <2>1, <2>2, OthersSeen
  <2> QED
    BY <1>5, <2>1, <2>2, <2>3 DEF Leave, Atomic!Leave, Atomic!Reach
<1> QED
  BY <1>1, <1>2, <1>3, <1>4, <1>5

\* Every step is one of the atomic migrations, or changes nothing of them.
LEMMA MigrationStepAtomic ==
  ASSUME MigrationInv, [MigrationNext]_migrationVars
  PROVE  [Atomic!Next]_(Atomic!vars)
<1>1. CASE UNCHANGED migrationVars
  BY <1>1 DEF migrationVars, Atomic!vars, SeenStage, SeenDone, Over,
              Settled, Target
<1>2. ASSUME NEW p \in Procs, Open(p) \/ Prepare(p) \/ Write(p) \/ Leave(p)
      PROVE  Atomic!Next \/ UNCHANGED Atomic!vars
  BY <1>2, ReadVersionAtomic, MigrateAtomic, OtherStepsAtomic
     DEF Prepare, Atomic!Next
<1> QED
  BY <1>1, <1>2 DEF MigrationNext

\* Any number of processes that migrate one file do so one after the other:
\* the version that is read outside of the transaction does no harm.
THEOREM MigrationIsAtomic == MigrationSpec => MigrationsAtomic
<1> QED
  BY AtomicInit, MigrationStepAtomic, MigrationInvariance, PTL
     DEF MigrationSpec, MigrationsAtomic, Atomic!Spec
=============================================================================
