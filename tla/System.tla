------------------------------- MODULE System -------------------------------
(***************************************************************************)
(* A process of lmb, Main, from its start to its end (try_main in          *)
(* src/main.rs, serve_file in src/serve.rs), next to other processes that  *)
(* open, migrate and use the same database file.  Main opens and migrates  *)
(* the store before it begins its command: it serves requests, runs its    *)
(* files or makes one call of the store.                                   *)
(***************************************************************************)
EXTENDS Migration, Server, Commands

CONSTANTS
  Main  \* the process that is looked at

ASSUME SystemAssumption == Main \in Procs

vars == <<migrationVars, serverVars, commandVars>>

Init == MigrationInit /\ ServerInit /\ CommandsInit

\* A process is started; check alone needs no store.
Opening(p) ==
  /\ Open(p)
  /\ p = Main /\ command = "check" => plan'[p] = <<>>
  /\ UNCHANGED <<serverVars, commandVars>>

Preparing(p) ==
  /\ p = Main => exit = "none"
  /\ Prepare(p)
  /\ UNCHANGED <<serverVars, commandVars>>

\* The calls of the store that succeed, and the ends of other processes.
Using(p) ==
  /\ Write(p) \/ (p # Main /\ Leave(p))
  /\ UNCHANGED <<serverVars, commandVars>>

\* Main has done what comes before its command.
Begun == stage[Main] = "running"

\* A call of the store succeeds if there is a table; what it changes in the
\* rows is a step of the processes above.
Serving(step) ==
  /\ command = "serve" /\ Begun
  /\ step
  /\ UNCHANGED <<migrationVars, commandVars>>

\* Clients send requests and forget them; they only reach a server.
Clients(q) ==
  /\ command = "serve"
  /\ (Arrive(q) /\ Begun) \/ Forget(q)
  /\ UNCHANGED <<migrationVars, commandVars>>

\* Without a table every call of the store fails; with it, there are other
\* reasons to fail.
Failing(q) ==
  \E why \in {"table", "other"} :
    (why = "table" <=> table = NoTable) /\ StoreFails(q, why)

Handling(q) ==
  Serving(\/ SetResponse(q)
          \/ (StoreReturns(q) /\ table # NoTable) \/ Failing(q)
          \/ Return(q) \/ Raise(q) \/ Panic(q))

Hanging(q) == Serving(Hang(q))
Accepting(q) == Serving(Accept(q))
Locking(q) == Serving(LockStore(q))

\* Jobs start, and end or never do.
Starting(f) == Begun /\ Start(f) /\ UNCHANGED <<migrationVars, serverVars>>

Ending(f) ==
  /\ \E o \in Outcomes(command) :
       (o = "table" => table = NoTable) /\ Finish(f, o)
  /\ UNCHANGED <<migrationVars, serverVars>>

Stalling(f) == Stall(f) /\ UNCHANGED <<migrationVars, serverVars>>

\* A store command makes its call, once its value has been read.
Calling ==
  /\ Begun
  /\ \E r \in {"success", "failure"} : StoreCommand(r)
  /\ UNCHANGED <<migrationVars, serverVars>>

\* The address of a server is bound, or not, after the store is prepared.
Binding ==
  command = "serve" /\ stage[Main] = "opened" /\ done[Main] = Len(plan[Main])

Exiting ==
  /\ \/ Begun /\ Exit
     \/ (stage[Main] = "failed" \/ Binding) /\ PrepareFails
  /\ UNCHANGED <<migrationVars, serverVars>>

\* Main is over or dies, and may be started once more.
MainLeaves ==
  /\ Leave(Main)
  /\ IF command = "serve" THEN Die ELSE UNCHANGED serverVars
  /\ Again

Next ==
  \/ \E p \in Procs : Opening(p) \/ Preparing(p) \/ Using(p)
  \/ \E q \in Requests :
       \/ Clients(q) \/ Accepting(q) \/ Handling(q) \/ Locking(q)
       \/ Hanging(q)
  \/ \E f \in Files : Starting(f) \/ Ending(f) \/ Stalling(f)
  \/ Calling \/ Exiting
  \/ MainLeaves

Spec == Init /\ [][Next]_vars

(***************************************************************************)
(* A process that runs makes its steps: it prepares the store, it hands    *)
(* the mutex on, and every handler and job makes the next step of its own  *)
(* script, which may be to hang, at its end or inside an update.           *)
(* The workers take the requests that wait, in their order, as long as     *)
(* every handler gives its worker back.  One that never does may keep the  *)
(* worker that was to wait for the sockets, for all workers, and then none *)
(* of them, busy or idle, is promised to take another request.             *)
(* Nothing is said of clients, of the other processes, of the death of     *)
(* Main, and of the input from which a store command reads a value.        *)
(***************************************************************************)
Fairness ==
  /\ WF_vars(Preparing(Main))
  /\ \A q \in Requests :
       /\ SF_vars(Accepting(q) /\ \A r \in Requests : at[r] # "hung")
       /\ SF_vars(Locking(q))
       /\ WF_vars(Handling(q) \/ Hanging(q))
  /\ \A f \in Files :
       /\ WF_vars(Starting(f))
       /\ WF_vars(Ending(f) \/ Stalling(f))
  /\ WF_vars(Exiting)

FairSpec == Spec /\ Fairness
-----------------------------------------------------------------------------
\* Every variable has its type.
TypeOK == MigrationTypeOK /\ ServerTypeOK /\ CommandsTypeOK

\* If Main was started with --run-migrations and went through with it, no
\* request and no file of it ever fails for want of the table, whatever the
\* processes beside it migrate, unless one of them drops the table.
MigratedServes ==
  Migrated(Main) /\ ~reverted[Main] =>
    /\ \A q \in Requests : at[q] = "answered" => lost[q] # "table"
    /\ \A f \in Files : job[f] # "table"

\* What MigratedServes rests on: calls and jobs are made by a process that
\* runs, and its plan holds until it ends.
LostTells ==
  /\ \A q \in Requests : lost[q] = "table" =>
       command = "serve" /\ Begun /\ (Migrated(Main) => reverted[Main])
  /\ \A f \in Files : job[f] # "queued" => Begun
  /\ \A f \in Files : job[f] = "table" => (Migrated(Main) => reverted[Main])

\* The inductive invariant.
SystemInv == MigrationInv /\ ServerInv /\ CommandsInv /\ LostTells

\* A command that runs files comes to its end, whatever fails, panics or
\* stays undone in it, unless a job never ends or its process dies.
CommandEnds ==
  command \in FileCommands /\ stage[Main] # "absent"
    ~> \/ exit # "none"
       \/ stage[Main] = "absent"
       \/ \E f \in Files : job[f] = "hung"
=============================================================================
