------------------------------ MODULE Commands ------------------------------
(***************************************************************************)
(* The commands of lmb that serve nobody (src/main.rs): check and          *)
(* evaluate run a job per file on the rayon pool (check.rs and eval.rs),   *)
(* the store commands make one call.  What a user sees of them is the      *)
(* status of the process and what it says on the standard error.           *)
(***************************************************************************)
CONSTANTS
  Files  \* the files of the command line

VARIABLES
  command,  \* the command of the command line
  job,      \* per file: where its job is, or how it ended
  exit,     \* how the process ended
  told      \* something was written on the standard error

commandVars == <<command, job, exit, told>>

FileCommands == {"check", "evaluate"}

\* A file that cannot be read, or what the check of its syntax finds, is an
\* error that carries its own text.
Checked == {"ok", "error"}

\* How a job can end: "compile" for a script the compiler refuses, "runtime"
\* for a Lua error or the timeout, "table" for a store that was never
\* migrated, "panicked" for a native function or the report of an error, and
\* "error" for all else: Checked, other errors of native functions, among
\* them an error or a timeout inside the function of an update, which comes
\* out as the error of a callback, and a result that cannot be written.
Ended == Checked \cup {"compile", "runtime", "table", "panicked"}
Outcomes(c) ==
  CASE c = "check" -> Checked
    [] c = "evaluate" -> Ended
    [] OTHER -> {}

\* Mutant: a job that has written a report is not an error any more.
BadUnlessReported ==
  {f \in Files : job[f] \in Ended \ {"ok", "panicked", "runtime"}}

\* The files whose jobs are errors of try_for_each.
Bad == {f \in Files : job[f] \in Ended \ {"ok", "panicked"}}
Panicked == {f \in Files : job[f] = "panicked"}
Active == {f \in Files : job[f] \in {"running", "hung"}}

CommandsInit ==
  /\ command \in FileCommands \cup {"store", "serve"}
  /\ job = [f \in Files |-> "queued"]
  /\ exit = "none"
  /\ told = FALSE

\* A worker takes a file.  try_for_each hands out none after an error.
Start(f) ==
  /\ command \in FileCommands
  /\ exit = "none"
  /\ job[f] = "queued"
  /\ Bad = {}
  /\ job' = [job EXCEPT ![f] = "running"]
  /\ UNCHANGED <<command, exit, told>>

\* The job ends.  A report of a runtime error, and that of a panic, is
\* written at once.
Finish(f, outcome) ==
  /\ job[f] = "running"
  /\ outcome \in Outcomes(command)
  /\ job' = [job EXCEPT ![f] = outcome]
  /\ told' = (told \/ outcome \in {"runtime", "panicked"})
  /\ UNCHANGED <<command, exit>>

\* The job never ends: the text of its script comes from a standard input
\* that stays open, its script is in a native call that never returns, uses
\* the store inside an update or catches its timeout, or it waits for the
\* mutex of such a job.
Stall(f) ==
  /\ job[f] = "running"
  /\ job' = [job EXCEPT ![f] = "hung"]
  /\ UNCHANGED <<command, exit, told>>

\* Mutant: the command waits for the files that were never handed out.
AllEndedEvery == \A f \in Files : job[f] \in Ended

\* No job is left, and none will begin: after an error none is handed out,
\* and a panic takes with it the files that were to follow on its worker.
AllEnded ==
  /\ Active = {}
  /\ \/ Bad \cup Panicked # {}
     \/ \A f \in Files : job[f] \in Ended

\* Mutant: main takes every error that has to do with Lua as told.
HandledAny == {"compile", "runtime", "table"}

\* The errors that main takes as told.
Handled == {"compile", "runtime"}

\* try_for_each passes a panic on, or gives one of the errors, any of them,
\* to main, which writes it unless it is taken as told.
Exit ==
  /\ command \in FileCommands
  /\ exit = "none"
  /\ AllEnded
  /\ \/ Panicked # {} /\ exit' = "panic" /\ UNCHANGED told
     \/ Panicked = {} /\ Bad = {} /\ exit' = "success" /\ UNCHANGED told
     \/ \E f \in Bad :
          /\ Panicked = {}
          /\ exit' = "failure"
          /\ told' = (told \/ job[f] \notin Handled)
  /\ UNCHANGED <<command, job>>

\* A store command makes its call, which fails without a table.
StoreCommand(result) ==
  /\ command = "store"
  /\ exit = "none"
  /\ exit' = result
  /\ told' = (told \/ result = "failure")
  /\ UNCHANGED <<command, job>>

\* The store cannot be opened or migrated, or the address of a server not
\* be bound: nothing is run.
PrepareFails ==
  /\ command # "check"
  /\ exit = "none"
  /\ \A f \in Files : job[f] = "queued"
  /\ exit' = "failure"
  /\ told' = TRUE
  /\ UNCHANGED <<command, job>>

\* The process is over, and the command is given again.
Again ==
  /\ job' = [f \in Files |-> "queued"]
  /\ exit' = "none"
  /\ told' = FALSE
  /\ UNCHANGED command

CommandsNext ==
  \/ \E f \in Files :
       \/ Start(f) \/ Stall(f)
       \/ \E o \in Outcomes(command) : Finish(f, o)
  \/ Exit
  \/ \E r \in {"success", "failure"} : StoreCommand(r)
  \/ PrepareFails \/ Again

CommandsSpec == CommandsInit /\ [][CommandsNext]_commandVars
-----------------------------------------------------------------------------
\* Every variable has its type.
CommandsTypeOK ==
  /\ command \in FileCommands \cup {"store", "serve"}
  /\ job \in [Files -> Ended \cup {"queued", "running", "hung"}]
  /\ exit \in {"none", "success", "failure", "panic"}
  /\ told \in BOOLEAN

\* The status is that of all files: success means that each of them was
\* handed out and ended well, and a panic is never taken for a failure.
ExitTells ==
  command \in FileCommands =>
    /\ exit = "success" => \A f \in Files : job[f] = "ok"
    /\ exit = "panic" <=> exit # "none" /\ Panicked # {}

\* A command that fails says why, whichever of its errors is passed on;
\* unless a script does not compile.
FailureExplained ==
  /\ exit \in {"failure", "panic"}
  /\ \A f \in Files : job[f] # "compile"
  => told

\* "the following errors are handled, do nothing" (main): where main writes
\* nothing the error has been written before, as a failing command must.
Reported == exit = "failure" => told

\* Of the jobs that ended, and before the end: what the above rest on.
JobsTell ==
  /\ \A f \in Files : job[f] \in {"runtime", "panicked"} => told
  /\ exit # "none" /\ command \in FileCommands => Active = {}

CommandsInv ==
  CommandsTypeOK /\ ExitTells /\ FailureExplained /\ JobsTell
=============================================================================
