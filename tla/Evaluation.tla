----------------------------- MODULE Evaluation -----------------------------
(***************************************************************************)
(* Evaluation::evaluate of src/eval.rs: scripts that run on threads of     *)
(* several processes, each in its own VM, with the timeout that the        *)
(* interrupt of the VM raises.  Luau asks the interrupt at every call,     *)
(* return and turn of a loop, and never elsewhere: neither while native    *)
(* code runs, so that a script that waits for the mutex of its store, or   *)
(* for a peer, cannot be stopped, nor where the code accesses a field, as  *)
(* get and put of the store are.  The store is reduced to who holds its    *)
(* mutex (see Store.tla).                                                  *)
(*                                                                         *)
(* A panic of a native function is one of the errors here: mlua carries it *)
(* through the Lua code, where pcall catches it like any other; uncaught,  *)
(* it unwinds out of evaluate.  Either way update is left and unlocks.     *)
(*                                                                         *)
(* A step of Lua code that only computes changes nothing here: a script    *)
(* that loops for ever just takes no other step.                           *)
(***************************************************************************)
EXTENDS Naturals

CONSTANTS
  Scripts,  \* the threads, each with the Evaluation it runs again and again
  Procs,    \* the processes, each with the one mutex of its store
  ProcOf,   \* the process of each script
  Timeout,  \* instants that an evaluation may last
  Catches,  \* scripts that may catch an error with pcall
  Nests,    \* scripts whose update function may wait: for the store itself,
            \* or in a native call
  Blocks,   \* scripts that may wait for ever in a native call (fetch, read)
  Nobody,   \* no script holds the mutex
  Removed   \* the VM has no interrupt

ASSUME EvaluationAssumption ==
  /\ ProcOf \in [Scripts -> Procs]
  /\ Timeout \in Nat
  /\ Catches \subseteq Scripts /\ Nests \subseteq Scripts
  /\ Blocks \subseteq Scripts
  /\ Nobody \notin Scripts /\ Removed \notin Nat

VARIABLES
  pc,     \* per script: where it is
  left,   \* per script: instants until its interrupt raises, or Removed
  mutex,  \* per process: the script that holds Store.conn
  age     \* history, per script: instants since its evaluation began

vars == <<pc, left, mutex, age>>

Init ==
  /\ pc = [s \in Scripts |-> "idle"]
  /\ left = [s \in Scripts |-> Removed]
  /\ mutex = [p \in Procs |-> Nobody]
  /\ age = [s \in Scripts |-> 0]

Go(s, place) == pc' = [pc EXCEPT ![s] = place]
Unlock(s) == mutex' = [mutex EXCEPT ![ProcOf[s]] = Nobody]

\* Lua code runs, of the script itself or of the function of an update.
InLua(s) == pc[s] \in {"script", "function"}

\* The interrupt lets the script go on to its next instruction.
MayGoOn(s) == left[s] # 0

\* Mutant: the interrupt is set when the VM has none.
EvaluateKeepsInterrupt(s) ==
  /\ pc[s] = "idle"
  /\ left' = [left EXCEPT ![s] = IF @ = Removed THEN Timeout + 1 ELSE @]
  /\ age' = [age EXCEPT ![s] = 0]
  /\ Go(s, "script")
  /\ UNCHANGED mutex

\* Mutant: the interrupt is not set.
EvaluateUnarmed(s) ==
  /\ pc[s] = "idle"
  /\ age' = [age EXCEPT ![s] = 0]
  /\ Go(s, "script")
  /\ UNCHANGED <<left, mutex>>

\* evaluate sets a new interrupt, with a start of its own, and calls the chunk.
Evaluate(s) ==
  /\ pc[s] = "idle"
  /\ left' = [left EXCEPT ![s] = Timeout + 1]
  /\ age' = [age EXCEPT ![s] = 0]
  /\ Go(s, "script")
  /\ UNCHANGED mutex

\* The chunk returned.
Finish(s) ==
  /\ pc[s] = "script"
  /\ MayGoOn(s)
  /\ Go(s, "idle")
  /\ UNCHANGED <<left, mutex, age>>

\* An error in the script itself: it catches it, or the evaluation fails.
ThrowInScript(s) ==
  \/ s \in Catches /\ Go(s, "script")
  \/ Go(s, "idle")

\* Mutant: an error that leaves the function of update keeps the mutex.
ThrowKeepsMutex(s) ==
  \/ /\ pc[s] = "script"
     /\ ThrowInScript(s)
     /\ UNCHANGED mutex
  \/ /\ pc[s] = "function"
     /\ ThrowInScript(s)
     /\ UNCHANGED mutex

\* An error where Lua code runs.  The function of an update may catch it;
\* else update rolls back and unlocks, and the error goes on in the script.
Throw(s) ==
  \/ /\ pc[s] = "script"
     /\ ThrowInScript(s)
     /\ UNCHANGED mutex
  \/ /\ pc[s] = "function"
     /\ \/ s \in Catches /\ UNCHANGED <<pc, mutex>>
        \/ ThrowInScript(s) /\ Unlock(s)

\* A runtime error of the script's own, which needs no call.
RaiseError(s) ==
  /\ InLua(s)
  /\ Throw(s)
  /\ UNCHANGED <<left, age>>

\* The interrupt finds the timeout exceeded: it removes itself and raises.
Interrupt(s) ==
  /\ InLua(s)
  /\ left[s] = 0
  /\ left' = [left EXCEPT ![s] = Removed]
  /\ Throw(s)
  /\ UNCHANGED age

\* m.store.k and m.store.k = v: a field is accessed, for which no interrupt
\* is asked; get and put lock the mutex.
AccessStore(s) ==
  /\ pc[s] = "script"
  /\ Go(s, "lockStatement")
  /\ UNCHANGED <<left, mutex, age>>

\* m.store:update(...): a call, which locks the mutex in its first line.
CallUpdate(s) ==
  /\ pc[s] = "script"
  /\ MayGoOn(s)
  /\ Go(s, "lockUpdate")
  /\ UNCHANGED <<left, mutex, age>>

\* The function of an update uses the store, by either of them, though its
\* own thread has the mutex.
CallNested(s) ==
  /\ pc[s] = "function"
  /\ s \in Nests
  /\ Go(s, "lockNested")
  /\ UNCHANGED <<left, mutex, age>>

\* Mutant: the mutex is taken from its holder.
LockIgnoresHolder(s) ==
  /\ pc[s] \in {"lockStatement", "lockUpdate", "lockNested"}
  /\ mutex' = [mutex EXCEPT ![ProcOf[s]] = s]
  /\ Go(s, IF pc[s] = "lockUpdate" THEN "function" ELSE "statement")
  /\ UNCHANGED <<left, age>>

\* lock() waits, without any limit, until the mutex is free.
Lock(s) ==
  /\ pc[s] \in {"lockStatement", "lockUpdate", "lockNested"}
  /\ mutex[ProcOf[s]] = Nobody
  /\ mutex' = [mutex EXCEPT ![ProcOf[s]] = s]
  /\ Go(s, IF pc[s] = "lockUpdate" THEN "function" ELSE "statement")
  /\ UNCHANGED <<left, age>>

\* get or put is done, or has failed.
StatementEnds(s) ==
  /\ pc[s] = "statement"
  /\ Unlock(s)
  /\ Go(s, "script") \/ ThrowInScript(s)
  /\ UNCHANGED <<left, age>>

\* The function returned: update writes and commits, or fails.
FunctionReturns(s) ==
  /\ pc[s] = "function"
  /\ MayGoOn(s)
  /\ Unlock(s)
  /\ Go(s, "script") \/ ThrowInScript(s)
  /\ UNCHANGED <<left, age>>

\* A native call that depends on someone else: fetch, io.read.  The function
\* of an update can make it too, and then has the mutex meanwhile.
CallNative(s) ==
  /\ \/ pc[s] = "script" /\ s \in Blocks /\ Go(s, "native")
     \/ pc[s] = "function" /\ s \in Nests /\ Go(s, "nativeInside")
  /\ MayGoOn(s)
  /\ UNCHANGED <<left, mutex, age>>

NativeReturns(s) ==
  /\ \/ /\ pc[s] = "native"
        /\ Go(s, "script") \/ ThrowInScript(s)
        /\ UNCHANGED mutex
     \/ /\ pc[s] = "nativeInside"
        /\ \/ Go(s, "function") /\ UNCHANGED mutex
           \/ ThrowInScript(s) /\ Unlock(s)
  /\ UNCHANGED <<left, age>>

\* An instant passes.  What lies beyond the timeout is not counted.
Tick ==
  /\ left' = [s \in Scripts |->
                IF left[s] \in {0, Removed} THEN left[s] ELSE left[s] - 1]
  /\ age' = [s \in Scripts |->
               IF age[s] > Timeout THEN age[s] ELSE age[s] + 1]
  /\ UNCHANGED <<pc, mutex>>

Next ==
  \/ \E s \in Scripts :
       \/ Evaluate(s) \/ Finish(s) \/ RaiseError(s) \/ Interrupt(s)
       \/ AccessStore(s) \/ CallUpdate(s) \/ CallNested(s) \/ Lock(s)
       \/ StatementEnds(s) \/ FunctionReturns(s)
       \/ CallNative(s) \/ NativeReturns(s)
  \/ Tick

Spec == Init /\ [][Next]_vars

(***************************************************************************)
(* Time passes, a statement of the store ends, and the mutex is handed     *)
(* over fairly.  A thread that runs Lua code, however often it stops to    *)
(* access the store, comes to a call, a return or the turn of a loop,      *)
(* where the interrupt is asked, for code without any of them is finite.   *)
(* No script need ever finish, fail or go on to another call, and no       *)
(* native call need return.                                                *)
(***************************************************************************)
Fairness ==
  /\ WF_vars(Tick)
  /\ \A s \in Scripts :
       /\ SF_vars(Interrupt(s))
       /\ SF_vars(Lock(s))
       /\ WF_vars(StatementEnds(s))

FairSpec == Spec /\ Fairness
-----------------------------------------------------------------------------
Locking == {"lockStatement", "lockUpdate"}
Holding == {"statement", "function", "lockNested", "nativeInside"}

\* Every variable has its type.
TypeOK ==
  /\ pc \in [Scripts -> Locking \cup Holding \cup {"idle", "script", "native"}]
  /\ left \in [Scripts -> 0..(Timeout + 1) \cup {Removed}]
  /\ mutex \in [Procs -> Scripts \cup {Nobody}]
  /\ age \in [Scripts -> 0..(Timeout + 1)]

\* However an evaluation ends, by its result, an error or the timeout in the
\* function of an update, it leaves the mutex of the store unlocked.
MutexReturned ==
  /\ \A s \in Scripts : pc[s] \in Holding <=> mutex[ProcOf[s]] = s
  /\ \A p \in Procs : mutex[p] # Nobody => ProcOf[mutex[p]] = p

\* Only a script that catches errors ever runs without its interrupt.
Armed ==
  \A s \in Scripts :
    pc[s] # "idle" /\ left[s] = Removed => s \in Catches

\* The interrupt of a running evaluation measures that evaluation.
OwnDeadline ==
  \A s \in Scripts :
    /\ pc[s] # "idle" /\ left[s] # Removed => age[s] + left[s] = Timeout + 1
    /\ pc[s] # "idle" /\ left[s] = Removed => age[s] = Timeout + 1

\* The inductive invariant.
IInv == TypeOK /\ MutexReturned /\ Armed /\ OwnDeadline

\* No evaluation is interrupted before its own timeout, whatever happened to
\* the evaluations of its VM before it.
NeverCutShort ==
  [][\A s \in Scripts :
       pc[s] # "idle" /\ left[s] # Removed /\ left'[s] = Removed
         => age[s] > Timeout]_vars

\* A script past its timeout that runs Lua code ends, or accesses a field of
\* the store; it neither begins nor commits an update, calls no native
\* function and goes nowhere else.
StopsWhenLate(s) ==
  InLua(s) /\ age[s] > Timeout /\ pc'[s] # pc[s]
    => pc'[s] \in {"idle", "lockStatement", "lockNested"}

\* Past its timeout a script does no more than that, wherever the timeout
\* finds it, unless it is one that catches the error.
EndsUnlessCaught == [][\A s \in Scripts \ Catches : StopsWhenLate(s)]_vars

\* Where each script is, seen from the mutex of its process: a call inside the
\* function of an update is still inside that update.
Use == [s \in Scripts |->
          IF pc[s] \in Locking THEN "waiting"
          ELSE IF pc[s] \in Holding THEN "inside" ELSE "out"]

Mutex == INSTANCE StoreMutex WITH Users <- Scripts, use <- Use

\* However errors and timeouts end its calls, a script uses the store the way
\* Store.tla has it: it waits for the mutex, and gives it back.
UsesMutex == Mutex!Spec

\* Every evaluation ends, though scripts loop for ever, if its own native
\* calls return and no script of its process, with the one mutex they share,
\* catches the timeout or waits inside an update.
EvaluationsEnd ==
  \A s \in Scripts \ Blocks :
    (\A u \in Catches \cup Nests : ProcOf[u] # ProcOf[s]) =>
      (pc[s] # "idle" ~> pc[s] = "idle")
-----------------------------------------------------------------------------
\* "Timeout in seconds" (--timeout): a script that runs Lua code past its
\* timeout does no more than end, or the access it was about to make.
TimeoutHonoured == [][\A s \in Scripts : StopsWhenLate(s)]_vars
=============================================================================
