-------------------------- MODULE Evaluation_proofs --------------------------
(***************************************************************************)
(* Theorems about Evaluation.  The parts of the invariant lean on each     *)
(* other: a script without its interrupt is past its timeout, for which    *)
(* OwnDeadline is needed, and has caught an error, for which Armed is.     *)
(***************************************************************************)
EXTENDS Evaluation, TLAPS

USE EvaluationAssumption DEF Locking, Holding

\* The initial state satisfies the invariant.
LEMMA InitInvariant == Init => IInv
  BY DEF Init, IInv, TypeOK, MutexReturned, Armed, OwnDeadline

\* An error leaves the other scripts and their mutexes alone, and moves its
\* script to a place that fits the mutex it then holds.
LEMMA ThrowKeeps ==
  ASSUME TypeOK, MutexReturned, NEW s \in Scripts, Throw(s)
  PROVE  /\ pc' \in [Scripts -> Locking \cup Holding
                                  \cup {"idle", "script", "native"}]
         /\ mutex' \in [Procs -> Scripts \cup {Nobody}]
         /\ MutexReturned'
         /\ pc'[s] # "idle" => s \in Catches
         /\ \A u \in Scripts \ {s} : pc'[u] = pc[u]
<1>1. CASE pc[s] = "script"
  BY <1>1 DEF Throw, ThrowInScript, Go, TypeOK, MutexReturned
<1>2. CASE pc[s] = "function" /\ UNCHANGED <<pc, mutex>> /\ s \in Catches
  BY <1>2 DEF TypeOK, MutexReturned
<1>3. CASE pc[s] = "function" /\ ThrowInScript(s) /\ Unlock(s)
  BY <1>3 DEF ThrowInScript, Go, Unlock, TypeOK, MutexReturned
<1> QED
  BY <1>1, <1>2, <1>3 DEF Throw

\* Every step preserves the invariant.
THEOREM Inductive == IInv /\ [Next]_vars => IInv'
<1> SUFFICES ASSUME IInv, [Next]_vars PROVE IInv'
  OBVIOUS
<1> USE DEF IInv
<1>1. ASSUME NEW s \in Scripts, Evaluate(s) PROVE IInv'
  BY <1>1 DEF Evaluate, Go, TypeOK, MutexReturned, Armed, OwnDeadline
<1>2. ASSUME NEW s \in Scripts, Finish(s) PROVE IInv'
  BY <1>2 DEF Finish, Go, TypeOK, MutexReturned, Armed, OwnDeadline
<1>3. ASSUME NEW s \in Scripts, RaiseError(s) PROVE IInv'
  <2>1. Throw(s) /\ UNCHANGED <<left, age>> /\ pc[s] # "idle"
    BY <1>3 DEF RaiseError, InLua
  <2> QED
    BY <2>1, ThrowKeeps DEF TypeOK, Armed, OwnDeadline
<1>4. ASSUME NEW s \in Scripts, Interrupt(s) PROVE IInv'
  <2>1. /\ Throw(s) /\ pc[s] # "idle" /\ left[s] = 0
        /\ left' = [left EXCEPT ![s] = Removed] /\ UNCHANGED age
    BY <1>4 DEF Interrupt, InLua
  <2>2. age[s] = Timeout + 1
    BY <2>1 DEF OwnDeadline, TypeOK
  <2> QED
    BY <2>1, <2>2, ThrowKeeps DEF TypeOK, Armed, OwnDeadline
<1>5. ASSUME NEW s \in Scripts, AccessStore(s) \/ CallUpdate(s) PROVE IInv'
  BY <1>5 DEF AccessStore, CallUpdate, Go,
       TypeOK, MutexReturned, Armed, OwnDeadline
<1>6. ASSUME NEW s \in Scripts, CallNested(s) PROVE IInv'
  BY <1>6 DEF CallNested, Go, TypeOK, MutexReturned, Armed, OwnDeadline
<1>7. ASSUME NEW s \in Scripts, Lock(s) PROVE IInv'
  BY <1>7 DEF Lock, Go, TypeOK, MutexReturned, Armed, OwnDeadline
<1>8. ASSUME NEW s \in Scripts, StatementEnds(s) PROVE IInv'
  BY <1>8 DEF StatementEnds, ThrowInScript, Go, Unlock,
       TypeOK, MutexReturned, Armed, OwnDeadline
<1>9. ASSUME NEW s \in Scripts, FunctionReturns(s) PROVE IInv'
  BY <1>9 DEF FunctionReturns, ThrowInScript, Go, Unlock,
       TypeOK, MutexReturned, Armed, OwnDeadline
<1>10. ASSUME NEW s \in Scripts, CallNative(s) PROVE IInv'
  BY <1>10 DEF CallNative, Go, TypeOK, MutexReturned, Armed, OwnDeadline
<1>11. ASSUME NEW s \in Scripts, NativeReturns(s) PROVE IInv'
  BY <1>11 DEF NativeReturns, ThrowInScript, Go, Unlock,
       TypeOK, MutexReturned, Armed, OwnDeadline
<1>12. CASE Tick
  BY <1>12 DEF Tick, TypeOK, MutexReturned, Armed, OwnDeadline
<1>13. CASE UNCHANGED vars
  BY <1>13 DEF vars, TypeOK, MutexReturned, Armed, OwnDeadline
<1> QED
  BY <1>1, <1>2, <1>3, <1>4, <1>5, <1>6, <1>7, <1>8, <1>9, <1>10, <1>11,
     <1>12, <1>13 DEF Next

\* The invariant holds in every reachable state.
THEOREM Invariance == Spec => []IInv
<1> QED
  BY InitInvariant, Inductive, PTL DEF Spec

\* However an evaluation ends, it leaves the mutex of the store unlocked.
THEOREM MutexAlwaysReturned == Spec => []MutexReturned
<1>1. IInv => MutexReturned
  BY DEF IInv
<1> QED
  BY <1>1, Invariance, PTL

\* No evaluation is interrupted before its own timeout: the interrupt that
\* removes itself was set by this evaluation.
THEOREM OwnTimeout == Spec => NeverCutShort
<1> DEFINE Late(s) ==
      pc[s] # "idle" /\ left[s] # Removed /\ left'[s] = Removed
        => age[s] > Timeout
<1>1. ASSUME IInv, [Next]_vars, NEW s \in Scripts PROVE Late(s)
  <2> SUFFICES ASSUME pc[s] # "idle", left[s] # Removed, left'[s] = Removed
               PROVE  age[s] > Timeout
    OBVIOUS
  <2>1. ASSUME NEW u \in Scripts, Interrupt(u) PROVE age[s] > Timeout
    BY <1>1, <2>1 DEF Interrupt, IInv, TypeOK, OwnDeadline
  <2>2. ASSUME NEW u \in Scripts, Evaluate(u) PROVE FALSE
    BY <1>1, <2>2 DEF Evaluate, IInv, TypeOK
  <2>3. ~Tick
    BY <1>1 DEF Tick, IInv, TypeOK
  <2>4. ASSUME UNCHANGED left PROVE FALSE
    BY <2>4
  <2> QED
    BY <1>1, <2>1, <2>2, <2>3, <2>4 DEF Next, Finish, RaiseError,
       AccessStore, CallUpdate, CallNested, Lock, StatementEnds,
       FunctionReturns, CallNative, NativeReturns, vars
<1>2. IInv /\ [Next]_vars => [\A s \in Scripts : Late(s)]_vars
  BY <1>1
<1> QED
  BY <1>2, Invariance, PTL DEF Spec, NeverCutShort

\* Past its timeout a script that runs Lua code, and catches no error, only
\* ends or accesses the store: its interrupt is still set, and has run out.
THEOREM EndsAfterTimeout == Spec => EndsUnlessCaught
<1>1. ASSUME IInv, [Next]_vars, NEW s \in Scripts \ Catches
      PROVE  StopsWhenLate(s)
  <2> SUFFICES ASSUME InLua(s), age[s] > Timeout, pc'[s] # pc[s]
               PROVE  pc'[s] \in {"idle", "lockStatement", "lockNested"}
    BY DEF StopsWhenLate
  <2>1. left[s] = 0
    BY <1>1 DEF IInv, TypeOK, Armed, OwnDeadline, InLua
  <2>2. CASE Interrupt(s) \/ RaiseError(s)
    BY <1>1, <2>2
       DEF Interrupt, RaiseError, Throw, ThrowInScript, Go, IInv, TypeOK
  <2>3. CASE AccessStore(s) \/ CallNested(s)
    BY <1>1, <2>3 DEF AccessStore, CallNested, Go, IInv, TypeOK
  <2>4. ASSUME NEW u \in Scripts \ {s}, NEW v, pc' = [pc EXCEPT ![u] = v]
        PROVE  FALSE
    BY <1>1, <2>4 DEF IInv, TypeOK
  <2>5. ASSUME NEW u \in Scripts \ {s}, Throw(u) PROVE FALSE
    BY <2>4, <2>5 DEF Throw, ThrowInScript, Go
  <2>6. ASSUME NEW u \in Scripts,
               \/ Evaluate(u) \/ Finish(u) \/ CallUpdate(u) \/ Lock(u)
               \/ StatementEnds(u) \/ FunctionReturns(u)
               \/ CallNative(u) \/ NativeReturns(u)
        PROVE  u # s
    BY <2>1, <2>6 DEF Evaluate, Finish, CallUpdate, Lock, StatementEnds,
       FunctionReturns, CallNative, NativeReturns, MayGoOn, InLua
  <2>7. ASSUME NEW u \in Scripts \ {s},
               \/ Evaluate(u) \/ Finish(u) \/ RaiseError(u)
               \/ AccessStore(u) \/ CallUpdate(u) \/ CallNested(u)
               \/ Lock(u) \/ StatementEnds(u) \/ FunctionReturns(u)
               \/ CallNative(u) \/ NativeReturns(u) \/ Interrupt(u)
        PROVE  FALSE
    BY <2>4, <2>5, <2>7 DEF Evaluate, Finish, RaiseError, AccessStore,
       CallUpdate, CallNested, Lock, StatementEnds, FunctionReturns,
       CallNative, NativeReturns, Interrupt, ThrowInScript, Go
  <2>8. ~Tick /\ ~UNCHANGED vars
    BY DEF Tick, vars
  <2> QED
    BY <1>1, <2>2, <2>3, <2>6, <2>7, <2>8 DEF Next
<1>2. IInv /\ [Next]_vars
        => [\A s \in Scripts \ Catches : StopsWhenLate(s)]_vars
  BY <1>1
<1> QED
  BY <1>2, Invariance, PTL DEF Spec, EndsUnlessCaught
-----------------------------------------------------------------------------
\* What a script that moves from one place to another does to the mutex.
LEMMA UseMoves ==
  ASSUME TypeOK, NEW s \in Scripts, NEW place,
         pc' = [pc EXCEPT ![s] = place]
  PROVE  Use' = [Use EXCEPT ![s] = IF place \in Locking THEN "waiting"
                                   ELSE IF place \in Holding THEN "inside"
                                   ELSE "out"]
BY DEF TypeOK, Use

\* A script that does not wait, and has no mutex, and comes to such a place.
LEMMA StaysOut ==
  ASSUME TypeOK, NEW s \in Scripts, pc[s] \in {"idle", "script", "native"},
         UNCHANGED mutex,
         \/ UNCHANGED pc
         \/ \E place \in {"idle", "script", "native"} :
              pc' = [pc EXCEPT ![s] = place]
  PROVE  UNCHANGED Mutex!vars
<1>1. UNCHANGED Use
  BY UseMoves DEF TypeOK, Use
<1> QED
  BY <1>1 DEF Mutex!vars

\* A script that has the mutex, gives it back and goes on elsewhere.
LEMMA LeavesMutex ==
  ASSUME TypeOK, MutexReturned, NEW s \in Scripts, pc[s] \in Holding,
         Unlock(s), NEW place \in {"idle", "script"},
         pc' = [pc EXCEPT ![s] = place]
  PROVE  Mutex!Leave(s)
<1>1. Use' = [Use EXCEPT ![s] = "out"]
  BY UseMoves
<1>2. Use[s] = "inside" /\ mutex[ProcOf[s]] = s
  BY DEF Use, MutexReturned
<1> QED
  BY <1>1, <1>2 DEF Mutex!Leave, Unlock

\* An error leaves the mutex, or changes nothing of it.
LEMMA ThrowUsesMutex ==
  ASSUME TypeOK, MutexReturned, NEW s \in Scripts, InLua(s), Throw(s)
  PROVE  Mutex!Leave(s) \/ UNCHANGED Mutex!vars
<1>1. CASE pc[s] = "script"
  BY <1>1, StaysOut DEF Throw, ThrowInScript, Go
<1>2. CASE pc[s] = "function" /\ UNCHANGED <<pc, mutex>>
  BY <1>2 DEF Use, Mutex!vars
<1>3. CASE pc[s] = "function" /\ ThrowInScript(s) /\ Unlock(s)
  BY <1>3, LeavesMutex DEF ThrowInScript, Go
<1> QED
  BY <1>1, <1>2, <1>3 DEF Throw, InLua

\* Every step is one of the users of the mutexes, or none of them moves.
LEMMA StepUsesMutex ==
  ASSUME IInv, [Next]_vars
  PROVE  [Mutex!Next]_(Mutex!vars)
<1> USE DEF IInv
<1>1. ASSUME NEW s \in Scripts,
             \/ Evaluate(s) \/ Finish(s)
             \/ pc[s] = "script" /\ CallNative(s)
             \/ pc[s] = "native" /\ NativeReturns(s)
      PROVE  UNCHANGED Mutex!vars
  BY <1>1, StaysOut
     DEF Evaluate, Finish, CallNative, NativeReturns, ThrowInScript, Go
<1>2. ASSUME NEW s \in Scripts, RaiseError(s) \/ Interrupt(s)
      PROVE  Mutex!Leave(s) \/ UNCHANGED Mutex!vars
  BY <1>2, ThrowUsesMutex DEF RaiseError, Interrupt
<1>3. ASSUME NEW s \in Scripts, AccessStore(s) \/ CallUpdate(s)
      PROVE  Mutex!Call(s)
  <2>1. Use' = [Use EXCEPT ![s] = "waiting"] /\ Use[s] = "out"
    BY <1>3, UseMoves DEF AccessStore, CallUpdate, Go, Use
  <2> QED
    BY <1>3, <2>1 DEF AccessStore, CallUpdate, Mutex!Call
<1>4. ASSUME NEW s \in Scripts, pc[s] \in Holding, UNCHANGED mutex,
             NEW place \in Holding, pc' = [pc EXCEPT ![s] = place]
      PROVE  UNCHANGED Mutex!vars
  <2>1. Use' = [Use EXCEPT ![s] = "inside"] /\ Use[s] = "inside"
    BY <1>4, UseMoves DEF Use
  <2>2. UNCHANGED Use
    BY <2>1 DEF Use
  <2> QED
    BY <1>4, <2>2 DEF Mutex!vars
<1>5. ASSUME NEW s \in Scripts, Lock(s)
      PROVE  Mutex!Enter(s)
  <2>1. pc[s] \in Locking
    BY <1>5 DEF Lock, MutexReturned
  <2>2. Use' = [Use EXCEPT ![s] = "inside"] /\ Use[s] = "waiting"
    BY <1>5, <2>1, UseMoves DEF Lock, Go, Use
  <2> QED
    BY <1>5, <2>2 DEF Lock, Mutex!Enter
<1>6. ASSUME NEW s \in Scripts, StatementEnds(s) \/ FunctionReturns(s)
      PROVE  Mutex!Leave(s)
  BY <1>6, LeavesMutex DEF StatementEnds, FunctionReturns, ThrowInScript, Go
<1>7. ASSUME NEW s \in Scripts,
             \/ CallNested(s)
             \/ pc[s] # "script" /\ CallNative(s)
      PROVE  UNCHANGED Mutex!vars
  BY <1>4, <1>7 DEF CallNested, CallNative, Go
<1>8. ASSUME NEW s \in Scripts, pc[s] # "native", NativeReturns(s)
      PROVE  Mutex!Leave(s) \/ UNCHANGED Mutex!vars
  BY <1>4, <1>8, LeavesMutex DEF NativeReturns, ThrowInScript, Go
<1>9. CASE Tick
  BY <1>9 DEF Tick, Use, Mutex!vars
<1>10. CASE UNCHANGED vars
  BY <1>10 DEF vars, Use, Mutex!vars
<1> QED
  BY <1>1, <1>2, <1>3, <1>5, <1>6, <1>7, <1>8, <1>9, <1>10
     DEF Next, Mutex!Next

\* Scripts use the store as its own model assumes of its threads, though they
\* are stopped by errors and timeouts wherever Lua code runs.
THEOREM EvaluationsUseMutex == Spec => UsesMutex
<1>1. Init => Mutex!Init
  BY DEF Init, Mutex!Init, Use
<1> QED
  BY <1>1, StepUsesMutex, Invariance, PTL DEF Spec, UsesMutex, Mutex!Spec

\* A script that uses the store inside the function of its update is lost for
\* ever, timeout or not, and the mutex of its process with it.
THEOREM NestedCallNeverReturns ==
  Spec => [][\A s \in Scripts :
               pc[s] = "lockNested"
                 => pc'[s] = pc[s] /\ mutex'[ProcOf[s]] = s]_vars
<1> DEFINE Lost(s) ==
      pc[s] = "lockNested" => pc'[s] = pc[s] /\ mutex'[ProcOf[s]] = s
<1>1. ASSUME IInv, [Next]_vars, NEW s \in Scripts
      PROVE  Lost(s)
  <2> SUFFICES ASSUME pc[s] = "lockNested"
               PROVE  pc'[s] = "lockNested"
    BY <1>1, Inductive DEF IInv, MutexReturned
  <2>1. mutex[ProcOf[s]] = s /\ s # Nobody
    BY <1>1 DEF IInv, MutexReturned
  <2>2. ASSUME NEW u \in Scripts,
               \/ Evaluate(u) \/ Finish(u) \/ RaiseError(u) \/ Interrupt(u)
               \/ AccessStore(u) \/ CallUpdate(u) \/ CallNested(u)
               \/ Lock(u) \/ StatementEnds(u) \/ FunctionReturns(u)
               \/ CallNative(u) \/ NativeReturns(u)
        PROVE  u # s
    BY <2>1, <2>2
       DEF Evaluate, Finish, RaiseError, Interrupt, AccessStore, CallUpdate,
           CallNested, Lock, StatementEnds, FunctionReturns, CallNative,
           NativeReturns, InLua
  <2>3. ASSUME NEW u \in Scripts \ {s}, NEW place,
               pc' = [pc EXCEPT ![u] = place]
        PROVE  pc'[s] = pc[s]
    BY <1>1, <2>3 DEF IInv, TypeOK
  <2>4. ASSUME NEW u \in Scripts \ {s}, Throw(u)
        PROVE  pc'[s] = pc[s]
    BY <2>3, <2>4 DEF Throw, ThrowInScript, Go
  <2>5. ASSUME Tick \/ UNCHANGED vars
        PROVE  pc'[s] = pc[s]
    BY <2>5 DEF Tick, vars
  <2> QED
    BY <1>1, <2>2, <2>3, <2>4, <2>5
       DEF Next, Evaluate, Finish, RaiseError, Interrupt, AccessStore,
           CallUpdate, CallNested, Lock, StatementEnds, FunctionReturns,
           CallNative, NativeReturns, ThrowInScript, Go
<1>2. IInv /\ [Next]_vars => [\A s \in Scripts : Lost(s)]_vars
  BY <1>1
<1> QED
  BY <1>2, Invariance, PTL DEF Spec
=============================================================================
