------------------------------ MODULE Schedule ------------------------------
(***************************************************************************)
(* The command "lmb schedule" (src/main.rs) with the loop it runs for      *)
(* each script (Evaluation::schedule, src/eval.rs).  Every script is a     *)
(* job of the rayon pool and keeps its worker for as long as it loops.     *)
(* It is taken to be a leaf of its own of rayon's parallel iterator, as it *)
(* is if the scripts are few.  Of many, rayon gives one leaf several, of   *)
(* which the next starts when the loop before it ends, and is dropped when *)
(* that panics.  Each loop makes the same steps then.                      *)
(*                                                                         *)
(* The cron expression is due every Period instants.  Only the position of *)
(* the wall clock inside a period matters to the loop, so the model keeps  *)
(* that position, and the clock needs no upper bound.  A cron expression   *)
(* that names its years comes to an end.                                   *)
(***************************************************************************)
EXTENDS Integers, FiniteSets

CONSTANTS
  Files,       \* the scripts given with --file
  Workers,     \* the number of threads of the rayon pool
  Period,      \* instants from one due instant to the next
  Finite,      \* TRUE if some due instant is the last one
  Bail,        \* --bail: the number of errors that ends a job, 0 for never
  InitialRun,  \* --initial-run
  Broken,      \* the scripts that do not compile
  MaxLag,      \* bound: instants a thread may lose between two lines
  MaxSteps     \* bound: how often the wall clock is set back by one instant,
               \* never to before the last due instant

ASSUME ScheduleAssumption ==
  /\ IsFiniteSet(Files) /\ Broken \subseteq Files
  /\ Workers \in Nat \ {0} /\ Period \in Nat \ {0}
  /\ Bail \in Nat /\ InitialRun \in BOOLEAN /\ Finite \in BOOLEAN
  /\ MaxLag \in Nat /\ MaxSteps \in Nat

VARIABLES
  wall,     \* the wall clock: instants since the last due instant
  steps,    \* how often it was set back
  over,     \* the last due instant has passed
  pc,       \* per job: where it is
  since,    \* per job: wall-clock instants since it read "now"
  left,     \* per job: instants it still sleeps
  errors,   \* per job: error_count
  exit,     \* how the process ended
  \* History, read by no action:
  failed,   \* per job: the runs that failed, counted up to Bail + 1
  runs,     \* per job: the runs started since the last due instant
  planned,  \* per job: it read "now" after the last due instant
  ran       \* per job: it was run at all

vars == <<wall, steps, over, pc, since, left, errors, exit,
          failed, runs, planned, ran>>
clock == <<wall, steps, over>>
history == <<failed, runs, planned, ran>>

Active == {"looping", "planning", "sleeping", "running"}
ActiveJobs == {f \in Files : pc[f] \in Active}
Go(f, place) == pc' = [pc EXCEPT ![f] = place]

Init ==
  /\ wall = 0
  /\ steps = 0
  /\ over \in {FALSE, Finite}
  /\ pc = [f \in Files |-> "queued"]
  /\ since = [f \in Files |-> 0]
  /\ left = [f \in Files |-> 0]
  /\ errors = [f \in Files |-> 0]
  /\ exit = "none"
  /\ failed = [f \in Files |-> 0]
  /\ runs = [f \in Files |-> 0]
  /\ planned = [f \in Files |-> FALSE]
  /\ ran = [f \in Files |-> FALSE]

\* Mutant: one worker of the pool is not used.
StartReserved(f) ==
  /\ pc[f] = "queued"
  /\ Cardinality(ActiveJobs) + 1 < Workers
  /\ \A g \in Files : pc[g] # "broken"
  /\ Go(f, IF f \in Broken THEN "broken" ELSE "looping")
  /\ UNCHANGED <<clock, since, left, errors, exit, history>>

\* A worker takes the next script and compiles it.  After a first error
\* try_for_each hands out no further script.
Start(f) ==
  /\ pc[f] = "queued"
  /\ Cardinality(ActiveJobs) < Workers
  /\ \A g \in Files : pc[g] # "broken"
  /\ Go(f, IF f \in Broken THEN "broken" ELSE "looping")
  /\ UNCHANGED <<clock, since, left, errors, exit, history>>

\* let now = Utc::now()
ReadNow(f) ==
  /\ pc[f] = "looping"
  /\ Go(f, "planning")
  /\ since' = [since EXCEPT ![f] = 0]
  /\ planned' = [planned EXCEPT ![f] = TRUE]
  /\ UNCHANGED <<clock, left, errors, exit, failed, runs, ran>>

\* Mutants: a due instant that is now counts as the next one; the lag is
\* subtracted instead of added.
ElapsedInclusive(f) == (IF wall = 0 THEN 0 ELSE Period - wall) + since[f]
ElapsedSwapped(f) == Period - wall - since[f]

\* upcoming(Utc) reads the clock again and answers the first due instant
\* after it; the sleep is as long as that instant is from "now".
Elapsed(f) == Period - wall + since[f]

\* Mutant: a negative duration is not noticed.
PlanUnchecked(f) ==
  /\ pc[f] = "planning"
  /\ ~over
  /\ left' = [left EXCEPT ![f] = Elapsed(f)]
  /\ Go(f, "sleeping")
  /\ UNCHANGED <<clock, since, errors, exit, history>>

Plan(f) ==
  /\ pc[f] = "planning"
  /\ ~over
  /\ Elapsed(f) >= 0
  /\ left' = [left EXCEPT ![f] = Elapsed(f)]
  /\ Go(f, "sleeping")
  /\ UNCHANGED <<clock, since, errors, exit, history>>

\* A negative duration does not convert: expect() panics.
PlanPanics(f) ==
  /\ pc[f] = "planning"
  /\ ~over
  /\ Elapsed(f) < 0
  /\ Go(f, "panicked")
  /\ UNCHANGED <<clock, since, left, errors, exit, history>>

\* There is no due instant to come: the loop starts again, without a sleep.
PlanNothing(f) ==
  /\ pc[f] = "planning"
  /\ over
  /\ Go(f, "looping")
  /\ UNCHANGED <<clock, since, left, errors, exit, history>>

\* Mutant: the sleep is rounded down by one instant.
WakeEarly(f) ==
  /\ pc[f] = "sleeping"
  /\ left[f] <= 1
  /\ Go(f, "running")
  /\ runs' = [runs EXCEPT ![f] = @ + 1]
  /\ ran' = [ran EXCEPT ![f] = TRUE]
  /\ UNCHANGED <<clock, since, left, errors, exit, failed, planned>>

\* The sleep is over, and the script is evaluated.
Wake(f) ==
  /\ pc[f] = "sleeping"
  /\ left[f] = 0
  /\ Go(f, "running")
  /\ runs' = [runs EXCEPT ![f] = @ + 1]
  /\ ran' = [ran EXCEPT ![f] = TRUE]
  /\ UNCHANGED <<clock, since, left, errors, exit, failed, planned>>

\* Mutant: only consecutive errors are counted.
RunSucceedsResets(f) ==
  /\ pc[f] = "running"
  /\ Go(f, "looping")
  /\ errors' = [errors EXCEPT ![f] = 0]
  /\ UNCHANGED <<clock, since, left, exit, history>>

RunSucceeds(f) ==
  /\ pc[f] = "running"
  /\ Go(f, "looping")
  /\ UNCHANGED <<clock, since, left, errors, exit, history>>

\* Mutant: the threshold must be exceeded.
RunFailsLate(f) ==
  /\ pc[f] = "running"
  /\ errors' = IF Bail > 0 THEN [errors EXCEPT ![f] = @ + 1] ELSE errors
  /\ Go(f, IF Bail > 0 /\ errors'[f] > Bail THEN "bailed" ELSE "looping")
  /\ failed' = [failed EXCEPT ![f] = IF @ > Bail THEN @ ELSE @ + 1]
  /\ UNCHANGED <<clock, since, left, exit, runs, planned, ran>>

\* Errors are counted, and the threshold checked, only with a threshold.
\* A success in between resets nothing.
RunFails(f) ==
  /\ pc[f] = "running"
  /\ errors' = IF Bail > 0 THEN [errors EXCEPT ![f] = @ + 1] ELSE errors
  /\ Go(f, IF Bail > 0 /\ errors'[f] = Bail THEN "bailed" ELSE "looping")
  /\ failed' = [failed EXCEPT ![f] = IF @ > Bail THEN @ ELSE @ + 1]
  /\ UNCHANGED <<clock, since, left, exit, runs, planned, ran>>

\* A panic inside the run, such as that of a native function given a key of
\* the wrong length, unwinds out of evaluate() and of the loop.
RunPanics(f) ==
  /\ pc[f] = "running"
  /\ Go(f, "panicked")
  /\ UNCHANGED <<clock, since, left, errors, exit, history>>

\* try_main returns when no job is left.  A panic is passed on by rayon, an
\* error of a script that does not compile by "?"; a job that bailed is Ok.
Exit ==
  /\ exit = "none"
  /\ ActiveJobs = {}
  /\ \/ \A f \in Files : pc[f] # "queued"
     \/ \E f \in Files : pc[f] = "broken"
  /\ exit' = IF \E f \in Files : pc[f] = "panicked" THEN "panic"
             ELSE IF \E f \in Files : pc[f] = "broken" THEN "failure"
             ELSE "success"
  /\ UNCHANGED <<clock, pc, since, left, errors, history>>

\* An instant passes, for both the wall clock and the sleepers.  If it is a
\* due instant, it may be the last one.
Tick ==
  /\ exit = "none"
  /\ \A f \in Files : pc[f] = "planning" => since[f] < MaxLag
  /\ wall' = IF wall + 1 = Period THEN 0 ELSE wall + 1
  /\ since' = [f \in Files |-> IF pc[f] = "planning" THEN since[f] + 1
                               ELSE since[f]]
  /\ left' = [f \in Files |-> IF left[f] > 0 THEN left[f] - 1 ELSE 0]
  /\ IF wall' = 0 /\ ~over
     THEN /\ over' \in {FALSE, Finite}
          /\ runs' = [f \in Files |-> 0]
          /\ planned' = [f \in Files |-> FALSE]
     ELSE UNCHANGED <<over, runs, planned>>
  /\ UNCHANGED <<steps, pc, errors, exit, failed, ran>>

\* The wall clock is set back by one instant; who sleeps sleeps as long.
StepBack ==
  /\ exit = "none"
  /\ ~over
  /\ steps < MaxSteps
  /\ steps' = steps + 1
  /\ wall' = IF wall = 0 THEN Period - 1 ELSE wall - 1
  /\ since' = [f \in Files |-> IF pc[f] = "planning" THEN since[f] - 1
                               ELSE since[f]]
  /\ UNCHANGED <<over, pc, left, errors, exit, history>>

Next ==
  \/ \E f \in Files :
       \/ Start(f) \/ ReadNow(f) \/ Plan(f) \/ PlanPanics(f) \/ PlanNothing(f)
       \/ Wake(f) \/ RunSucceeds(f) \/ RunFails(f) \/ RunPanics(f)
  \/ Exit \/ Tick \/ StepBack

Spec == Init /\ [][Next]_vars

(***************************************************************************)
(* Threads are scheduled, the scripts can be read to their end, and time   *)
(* passes.  The clock need never be set back.  Whether a run fails, panics *)
(* or ends at all is up to the script: a native function may wait for      *)
(* ever, and a timeout may be caught (Evaluation).                         *)
(***************************************************************************)
Fairness ==
  /\ \A f \in Files :
       /\ WF_vars(Start(f))
       /\ WF_vars(ReadNow(f))
       /\ WF_vars(Plan(f) \/ PlanPanics(f) \/ PlanNothing(f))
       /\ WF_vars(Wake(f))
  /\ WF_vars(Exit)
  /\ WF_vars(Tick)

FairSpec == Spec /\ Fairness
-----------------------------------------------------------------------------
\* Every variable has its type.
TypeOK ==
  /\ wall \in 0..(Period - 1)
  /\ steps \in 0..MaxSteps
  /\ over \in BOOLEAN
  /\ pc \in [Files -> Active \cup {"queued", "broken", "panicked", "bailed"}]
  /\ since \in [Files -> (0 - MaxSteps)..MaxLag]
  /\ left \in [Files -> 0..(Period + MaxLag)]
  /\ errors \in [Files -> 0..Bail]
  /\ exit \in {"none", "success", "failure", "panic"}
  /\ failed \in [Files -> 0..(Bail + 1)]
  /\ runs \in [Files -> Nat]
  /\ planned \in [Files -> BOOLEAN]
  /\ ran \in [Files -> BOOLEAN]

\* While the clock runs forward, a due instant starts a script at most once,
\* however long its runs take and however late its thread wakes; nor does the
\* last one start it again and again.
OncePerDueInstant == steps = 0 => \A f \in Files : runs[f] <= 1

\* While the clock runs forward, no run starts before it is due: a due
\* instant passed since the job looked for the next one.
NeverEarly ==
  [][\A f \in Files :
       steps = 0 /\ pc[f] = "sleeping" /\ pc'[f] = "running"
         => ~planned[f]]_vars

\* The loop ends by --bail after exactly that many failed runs, counted
\* over the whole life of the job, and never with --bail 0.
BailExact ==
  \A f \in Files : pc[f] = "bailed" <=> Bail > 0 /\ failed[f] >= Bail

\* The expect() of the loop fails only if the wall clock was set back: any
\* other panic that ends a job comes out of a run, however late the thread
\* read the clock for the second time.
PanicsOnlyIfSetBack ==
  [][\A f \in Files :
       pc[f] # "panicked" /\ pc'[f] = "panicked"
         => pc[f] = "running" \/ steps > 0]_vars

\* What the loop counts and measures: its error count is that of the failed
\* runs, and until the clock is set back a job never sleeps less than to the
\* end of the period it read "now" in.
ErrorsCounted ==
  \A f \in Files :
    /\ Bail > 0 => errors[f] = failed[f]
    /\ pc[f] = "bailed" <=> Bail > 0 /\ errors[f] = Bail

SleepsLongEnough ==
  \A f \in Files :
    /\ since[f] >= 0 - steps
    /\ over => ~(pc[f] = "sleeping" /\ planned[f])
    /\ steps = 0 =>
         /\ pc[f] = "sleeping" /\ planned[f] => left[f] >= Period - wall
         /\ pc[f] \in {"planning", "sleeping"} /\ runs[f] > 0 => planned[f]
         /\ runs[f] <= 1

IInv ==
  /\ TypeOK
  /\ ErrorsCounted
  /\ SleepsLongEnough

\* A script that waits for a worker or loops is run, until it bails, whatever
\* the others do and however late it wakes; unless the last due instant has
\* passed, or it waits for a worker while others loop in all of them, or a
\* script that does not compile ended the handing out.
KeepsRunning ==
  \A f \in Files :
    pc[f] \in {"queued", "looping"} ~>
      \/ pc[f] \in {"running", "bailed", "panicked", "broken"}
      \/ over
      \/ /\ pc[f] = "queued"
         /\ \/ Cardinality(ActiveJobs) >= Workers
            \/ \E g \in Files : pc[g] = "broken"

-----------------------------------------------------------------------------
\* "Run script immediately after it's scheduled" (ScheduleOptions): with
\* --initial-run no script sleeps before its first run.
InitialRunHonoured ==
  \A f \in Files : InitialRun /\ pc[f] = "sleeping" => ran[f]

\* "Fail after N retries" (ScheduleOptions): a process that ends because
\* its script failed N times does not report success.
BailFails ==
  exit = "success" => \A f \in Files : pc[f] # "bailed"

\* "Exit immediately upon N number of errors" (--bail): once a script failed
\* N times no script is run any more.
BailExits ==
  [][\A f, g \in Files :
       pc[f] = "bailed" => ~(pc[g] = "sleeping" /\ pc'[g] = "running")]_vars
=============================================================================
