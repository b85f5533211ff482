---------------------------- MODULE System_proofs ----------------------------
(***************************************************************************)
(* Proofs about System.  Each of its steps is a step of the migrations, of *)
(* the server and of the commands, or changes nothing of them, so that the *)
(* invariants of the parts hold of the whole; what relates the parts is    *)
(* proved here.                                                            *)
(***************************************************************************)
EXTENDS System, Migration_proofs, Server_proofs

\* The invariant of the commands holds before a command begins.
LEMMA CommandsInitInv == CommandsInit => CommandsInv
BY DEF CommandsInit, CommandsInv, CommandsTypeOK, ExitTells, JobsTell,
       FailureExplained, FileCommands, Ended, Checked, Panicked, Active

\* Every step of a command preserves its invariant.
LEMMA CommandsStepInv ==
  ASSUME CommandsInv, [CommandsNext]_commandVars
  PROVE  CommandsInv'
<1> USE DEF CommandsInv, CommandsTypeOK, ExitTells, JobsTell,
            FailureExplained, FileCommands, Ended, Checked, Panicked, Active,
            Bad
<1>1. ASSUME NEW f \in Files, Start(f)
      PROVE  CommandsInv'
  BY <1>1 DEF Start
<1>2. ASSUME NEW f \in Files, NEW o \in Outcomes(command), Finish(f, o)
      PROVE  CommandsInv'
  BY <1>2 DEF Finish, Outcomes
<1>3. CASE Exit
  <2>1. /\ command \in FileCommands /\ exit = "none" /\ Active = {}
        /\ UNCHANGED <<command, job>>
        /\ Bad \cup Panicked # {} \/ \A f \in Files : job[f] \in Ended
    BY <1>3 DEF Exit, AllEnded
  <2>2. CASE Panicked # {} /\ exit' = "panic" /\ UNCHANGED told
    BY <2>1, <2>2
  <2>3. CASE Panicked = {} /\ Bad = {} /\ exit' = "success" /\ UNCHANGED told
    BY <2>1, <2>3
  <2>4. ASSUME NEW f \in Bad, Panicked = {}, exit' = "failure",
               told' = (told \/ job[f] \notin Handled)
        PROVE  CommandsInv'
    <3>1. CASE job[f] \notin Handled
      <4>1. told' = TRUE
        BY <2>4, <3>1
      <4> QED
        BY <2>1, <2>4, <4>1
    <3>2. CASE job[f] \in Handled
      <4>1. told' = told
        BY <2>4, <3>2
      <4> QED
        BY <2>1, <2>4, <3>2, <4>1 DEF Handled
    <3> QED
      BY <3>1, <3>2
  <2> QED
    BY <1>3, <2>2, <2>3, <2>4 DEF Exit
<1>4. ASSUME NEW r \in {"success", "failure"}, StoreCommand(r)
      PROVE  CommandsInv'
  BY <1>4 DEF StoreCommand
<1>5. CASE PrepareFails
  BY <1>5 DEF PrepareFails
<1>6. CASE Again
  BY <1>6 DEF Again
<1>7. ASSUME NEW f \in Files, Stall(f)
      PROVE  CommandsInv'
  BY <1>7 DEF Stall
<1>8. CASE UNCHANGED commandVars
  BY <1>8 DEF commandVars
<1> QED
  BY <1>1, <1>2, <1>3, <1>4, <1>5, <1>6, <1>7, <1>8 DEF CommandsNext

\* Every step is one of the processes that migrate, or none of them moves.
LEMMA MigrationSimulated ==
  ASSUME [Next]_vars
  PROVE  [MigrationNext]_migrationVars
BY SystemAssumption
   DEF Next, vars, MigrationNext, Opening, Preparing, Using, Clients,
       Accepting, Handling, Locking, Hanging, Serving, Starting, Ending,
       Stalling, Calling, Exiting, MainLeaves

\* Every step is one of the server, or the server does not move.
LEMMA ServerSimulated ==
  ASSUME [Next]_vars
  PROVE  [ServerNext]_serverVars
BY DEF Next, vars, ServerNext, Opening, Preparing, Using, Clients,
       Accepting, Handling, Locking, Hanging, Serving, Failing, Starting,
       Ending, Stalling, Calling, Exiting, MainLeaves

\* Every step is one of the command of Main, or the command does not move.
LEMMA CommandsSimulated ==
  ASSUME [Next]_vars
  PROVE  [CommandsNext]_commandVars
BY DEF Next, vars, CommandsNext, Opening, Preparing, Using, Clients,
       Accepting, Handling, Locking, Hanging, Serving, Starting, Ending,
       Stalling, Calling, Exiting, MainLeaves

\* What the processes did, and the failures, stay as they are where a step
\* moves only the server or only the command.
LEMMA MigratedStays ==
  ASSUME UNCHANGED migrationVars
  PROVE  /\ Migrated(Main)' = Migrated(Main)
         /\ Begun' = Begun /\ reverted' = reverted /\ table' = table
BY DEF migrationVars, Migrated, Begun

\* While Main runs, nothing changes what it did, and what was dropped for it
\* stays dropped.
LEMMA MigratedLastsWhileBegun ==
  ASSUME SystemInv, NEW p \in Procs, Begun,
         Opening(p) \/ Preparing(p) \/ Using(p)
  PROVE  /\ Begun' /\ Migrated(Main)' = Migrated(Main)
         /\ reverted[Main] => reverted'[Main]
<1> USE SystemAssumption
    DEF SystemInv, MigrationInv, MigrationTypeOK, Begun, Migrated, Reach,
        procVars, fileVars
<1>1. CASE Open(p)
  BY <1>1 DEF Open
<1>2. CASE ReadVersion(p)
  BY <1>2 DEF ReadVersion
<1>3. CASE Migrate(p)
  <2>1. /\ stage' = [stage EXCEPT ![p] = "opened"] /\ p # Main
        /\ done' = [done EXCEPT ![p] = @ + 1] /\ UNCHANGED plan
    BY <1>3 DEF Migrate
  <2>2. reverted[Main] => reverted'[Main]
    <3>1. CASE Settled(p)
      BY <1>3, <3>1 DEF Migrate
    <3>2. CASE ~Settled(p)
      <4>1. reverted'[Main] = (reverted[Main]
                                 \/ (plan[Main] # <<>> /\ table' = NoTable))
        BY <1>3, <3>2, Zenon DEF Migrate
      <4> QED
        BY <4>1
    <3> QED
      BY <3>1, <3>2
  <2> QED
    BY <2>1, <2>2
<1>4. CASE MigrationFails(p)
  BY <1>4 DEF MigrationFails
<1>5. CASE Run(p)
  BY <1>5 DEF Run
<1>6. CASE Write(p)
  BY <1>6 DEF Write
<1>7. CASE p # Main /\ Leave(p)
  BY <1>7 DEF Leave
<1> QED
  BY <1>1, <1>2, <1>3, <1>4, <1>5, <1>6, <1>7
     DEF Opening, Preparing, Using, Prepare

\* A call or a job that fails for want of a table does so when the table is
\* not there, which what Main migrated excludes until it is dropped.
LEMMA NoTableTells ==
  ASSUME SystemInv, Begun, table = NoTable
  PROVE  Migrated(Main) => reverted[Main]
BY SystemAssumption DEF SystemInv, MigrationInv, MigratedLasts

\* The steps of the server preserve what its failures tell.
LEMMA ServingTells ==
  ASSUME SystemInv, NEW q \in Requests,
         \/ Clients(q) \/ Accepting(q) \/ Handling(q) \/ Locking(q)
         \/ Hanging(q)
  PROVE  LostTells'
<1> USE DEF SystemInv, ServerInv, ServerTypeOK, LostTells
<1>1. UNCHANGED <<migrationVars, commandVars>>
  BY DEF Clients, Accepting, Handling, Locking, Hanging, Serving
<1>2. UNCHANGED <<command, job>>
  BY <1>1 DEF commandVars
<1>3. ASSUME NEW r \in Requests, lost'[r] = "table"
      PROVE  command = "serve" /\ Begun /\ (Migrated(Main) => reverted[Main])
  <2>1. CASE lost[r] = "table"
    BY <2>1
  <2>2. CASE lost[r] # "table"
    <3>1. /\ command = "serve" /\ Begun
          /\ \E why \in {"table", "other"} :
               /\ why = "table" <=> table = NoTable
               /\ lost' = [lost EXCEPT ![q] = why]
      BY <1>3, <2>2
         DEF Clients, Accepting, Handling, Locking, Hanging, Serving, Failing,
             Arrive, Accept, SetResponse, LockStore, StoreReturns, StoreFails,
             Return, Raise, Panic, Hang, Forget
    <3>2. table = NoTable
      BY <1>3, <2>2, <3>1
    <3> QED
      BY <3>1, <3>2, NoTableTells
  <2> QED
    BY <2>1, <2>2
<1> QED
  BY <1>1, <1>2, <1>3, MigratedStays

\* The steps of the jobs preserve what their failures tell.
LEMMA RunningTells ==
  ASSUME SystemInv, NEW f \in Files,
         Starting(f) \/ Ending(f) \/ Stalling(f)
  PROVE  LostTells'
<1> USE DEF SystemInv, CommandsInv, CommandsTypeOK, LostTells
<1>1. UNCHANGED <<migrationVars, serverVars, command>>
  BY DEF Starting, Ending, Stalling, Start, Finish, Stall
<1>2. UNCHANGED lost
  BY <1>1 DEF serverVars
<1>3. /\ Begun
      /\ \E o \in Ended \cup {"running", "hung"} :
           /\ job' = [job EXCEPT ![f] = o]
           /\ o = "table" => table = NoTable
  BY DEF Starting, Ending, Stalling, Start, Finish, Stall, Outcomes, Ended,
         Checked
<1>4. ASSUME NEW g \in Files, job'[g] = "table"
      PROVE  Migrated(Main) => reverted[Main]
  <2>1. job[g] = "table" \/ table = NoTable
    BY <1>3, <1>4
  <2> QED
    BY <1>3, <2>1, NoTableTells
<1> QED
  BY <1>1, <1>2, <1>3, <1>4, MigratedStays

\* The steps of the processes, the end of the command and that of Main
\* preserve what the failures tell.
LEMMA ProcessTells ==
  ASSUME SystemInv,
         \/ \E p \in Procs : Opening(p) \/ Preparing(p) \/ Using(p)
         \/ Calling \/ Exiting \/ MainLeaves
  PROVE  LostTells'
<1> USE DEF SystemInv, LostTells
<1>1. ASSUME NEW p \in Procs, Opening(p) \/ Preparing(p) \/ Using(p)
      PROVE  LostTells'
  <2>1. UNCHANGED <<lost, job, command>>
    BY <1>1 DEF Opening, Preparing, Using, serverVars, commandVars
  <2>2. CASE Begun
    BY <1>1, <2>1, <2>2, MigratedLastsWhileBegun
  <2>3. CASE ~Begun
    BY <2>1, <2>3
  <2> QED
    BY <2>2, <2>3
<1>2. CASE Calling \/ Exiting
  <2>1. UNCHANGED <<migrationVars, lost, job, command>>
    BY <1>2
       DEF Calling, Exiting, Exit, StoreCommand, PrepareFails, serverVars
  <2> QED
    BY <2>1, MigratedStays
<1>3. CASE MainLeaves
  <2>1. \A f \in Files : job'[f] = "queued"
    BY <1>3 DEF MainLeaves, Again
  <2>2. \A q \in Requests : lost'[q] # "table"
    <3>1. CASE command = "serve"
      BY <1>3, <3>1 DEF MainLeaves, Die
    <3>2. CASE command # "serve"
      BY <1>3, <3>2 DEF MainLeaves, serverVars
    <3> QED
      BY <3>1, <3>2
  <2> QED
    BY <2>1, <2>2
<1> QED
  BY <1>1, <1>2, <1>3

\* The invariant of the system holds at the start.
LEMMA SystemInitInv == Init => SystemInv
<1> SUFFICES ASSUME Init
             PROVE  SystemInv
  OBVIOUS
<1>1. MigrationInv /\ ServerInv /\ CommandsInv
  BY MigrationInitInv, ServerInitInv, CommandsInitInv DEF Init
<1>2. LostTells
  BY DEF Init, ServerInit, CommandsInit, LostTells
<1> QED
  BY <1>1, <1>2 DEF SystemInv

\* Every step of the system preserves it.
LEMMA SystemStepInv ==
  ASSUME SystemInv, [Next]_vars
  PROVE  SystemInv'
<1>1. MigrationInv'
  BY MigrationSimulated, MigrationStepInv DEF SystemInv
<1>2. ServerInv'
  BY ServerSimulated, ServerStepInv DEF SystemInv
<1>3. CommandsInv'
  BY CommandsSimulated, CommandsStepInv DEF SystemInv
<1>4. LostTells'
  <2>1. CASE UNCHANGED vars
    <3>1. UNCHANGED <<migrationVars, lost, job, command>>
      BY <2>1 DEF vars, serverVars, commandVars
    <3> QED
      BY <3>1, MigratedStays DEF SystemInv, LostTells
  <2> QED
    BY <2>1, ServingTells, RunningTells, ProcessTells DEF Next
<1> QED
  BY <1>1, <1>2, <1>3, <1>4 DEF SystemInv

\* The invariant holds in every reachable state, for any processes, plans,
\* requests, workers, scripts and files.
THEOREM SystemInvariance == Spec => []SystemInv
<1> QED
  BY SystemInitInv, SystemStepInv, PTL DEF Spec

\* Every variable of the system has its type.
THEOREM SystemTypes == Spec => []TypeOK
<1>1. SystemInv => TypeOK
  BY DEF SystemInv, MigrationInv, ServerInv, CommandsInv, TypeOK
<1> QED
  BY <1>1, SystemInvariance, PTL

\* However many processes migrate at once, fail or die between the reading
\* of the version and the transaction, the version tells whether there is a
\* table.
THEOREM VersionConsistent == Spec => []VersionTellsTable
<1>1. SystemInv => VersionTellsTable
  BY DEF SystemInv, MigrationInv
<1> QED
  BY <1>1, SystemInvariance, PTL

\* A migration to the latest version loses no row, also if it was decided on
\* a version that is no longer that of the file.
THEOREM MigrationsKeepRows == Spec => RowsKept
<1>1. SystemInv /\ [Next]_vars
        => [\A p \in Procs :
              /\ stage[p] = "migrating" /\ stage'[p] # "migrating"
              /\ table # NoTable /\ Target(p) >= Latest
              => table' = table]_migrationVars
  BY MigrationSimulated, MigrationKeepsRows DEF SystemInv
<1> QED
  BY <1>1, SystemInvariance, PTL DEF Spec, RowsKept

\* What Main migrated serves every request and file of it, until another
\* process drops the table.
THEOREM MigrationServes == Spec => []MigratedServes
<1>1. SystemInv => MigratedServes
  BY DEF SystemInv, LostTells, MigratedServes
<1> QED
  BY <1>1, SystemInvariance, PTL

\* The mutex of the store is held by a handler inside a store call, and by
\* no other, whatever errors and panics unwind the handlers.
THEOREM MutexGivenBack == Spec => []HolderStores
<1>1. SystemInv => HolderStores
  BY DEF SystemInv, ServerInv
<1> QED
  BY <1>1, SystemInvariance, PTL

\* Each request is answered with what its own script said.
THEOREM AnswersOwn == Spec => []AnswerAsAsked
<1>1. SystemInv => AnswerAsAsked
  BY DEF SystemInv, ServerInv
<1> QED
  BY <1>1, SystemInvariance, PTL

\* The status of a command is that of all its files.
THEOREM ExitHonest == Spec => []ExitTells
<1>1. SystemInv => ExitTells
  BY DEF SystemInv, CommandsInv
<1> QED
  BY <1>1, SystemInvariance, PTL

\* A command that fails says why, unless a script of it does not compile.
THEOREM FailuresExplained == Spec => []FailureExplained
<1>1. SystemInv => FailureExplained
  BY DEF SystemInv, CommandsInv
<1> QED
  BY <1>1, SystemInvariance, PTL

\* The migrations of Main and of the processes beside it are atomic, whatever
\* requests, jobs and deaths come in between the reading of a version and the
\* transaction that changes it.
THEOREM SystemMigratesAtomically == Spec => MigrationsAtomic
<1>1. Init => MigrationInit
  BY DEF Init
<1>2. [Next]_vars => [MigrationNext]_migrationVars
  BY MigrationSimulated
<1> QED
  BY <1>1, <1>2, MigrationIsAtomic, PTL DEF Spec, MigrationSpec

\* What is proved of the migrations, of a server and of the commands alone
\* holds of a process of lmb beside others.
THEOREM PartsRun == Spec => MigrationSpec /\ ServerSpec /\ CommandsSpec
<1>1. Init => MigrationInit /\ ServerInit /\ CommandsInit
  BY DEF Init
<1>2. [Next]_vars => /\ [MigrationNext]_migrationVars
                     /\ [ServerNext]_serverVars
                     /\ [CommandsNext]_commandVars
  BY MigrationSimulated, ServerSimulated, CommandsSimulated
<1> QED
  BY <1>1, <1>2, PTL DEF Spec, MigrationSpec, ServerSpec, CommandsSpec
=============================================================================
