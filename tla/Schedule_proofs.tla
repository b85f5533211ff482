-------------------------- MODULE Schedule_proofs --------------------------
(***************************************************************************)
(* What the loop of "lmb schedule" guarantees for any number of scripts    *)
(* and workers, any period, any threshold and any clock.                   *)
(***************************************************************************)
EXTENDS Schedule, TLAPS

\* The loop's initial state satisfies the invariant.
LEMMA InitInvariant == Init => IInv
<1> SUFFICES ASSUME Init PROVE IInv
  OBVIOUS
<1>1. over \in BOOLEAN
  BY ScheduleAssumption DEF Init
<1>2. TypeOK
  <2>1. 0 \in 0..(Period - 1) /\ 0 \in 0..MaxSteps
    BY ScheduleAssumption
  <2>2. /\ 0 \in (0 - MaxSteps)..MaxLag /\ 0 \in 0..(Period + MaxLag)
        /\ 0 \in 0..Bail /\ 0 \in 0..(Bail + 1)
    BY ScheduleAssumption
  <2> QED
    BY <1>1, <2>1, <2>2 DEF Init, TypeOK, Active
<1>3. ErrorsCounted /\ SleepsLongEnough
  BY ScheduleAssumption DEF Init, ErrorsCounted, SleepsLongEnough
<1> QED
  BY <1>2, <1>3 DEF IInv

\* Every step of a job, the clock and the process preserves the invariant.
THEOREM Inductive == IInv /\ [Next]_vars => IInv'
<1> SUFFICES ASSUME IInv, [Next]_vars PROVE IInv'
  OBVIOUS
<1> USE ScheduleAssumption
    DEF IInv, TypeOK, ErrorsCounted, SleepsLongEnough, Active, Go, clock,
        history
<1>1. ASSUME NEW f \in Files, Start(f) PROVE IInv'
  BY <1>1 DEF Start
<1>2. ASSUME NEW f \in Files, ReadNow(f) PROVE IInv'
  BY <1>2 DEF ReadNow
<1>3. ASSUME NEW f \in Files, Plan(f) PROVE IInv'
  BY <1>3 DEF Plan, Elapsed
<1>4. ASSUME NEW f \in Files, PlanPanics(f) PROVE IInv'
  BY <1>4 DEF PlanPanics, Elapsed
<1>5. ASSUME NEW f \in Files, Wake(f) PROVE IInv'
  BY <1>5 DEF Wake
<1>6. ASSUME NEW f \in Files, RunSucceeds(f) PROVE IInv'
  BY <1>6 DEF RunSucceeds
<1>7. ASSUME NEW f \in Files, RunFails(f) PROVE IInv'
  BY <1>7 DEF RunFails
<1>8. CASE Exit
  BY <1>8 DEF Exit
<1>9. CASE Tick
  <2>1. wall' = IF wall + 1 = Period THEN 0 ELSE wall + 1
    BY <1>9 DEF Tick
  <2>2. UNCHANGED <<steps, pc, errors, exit, failed, ran>>
    BY <1>9 DEF Tick
  <2>3. ASSUME NEW f \in Files
        PROVE  /\ since'[f] \in (0 - MaxSteps)..MaxLag
               /\ since'[f] >= since[f]
               /\ left'[f] \in 0..(Period + MaxLag)
               /\ left'[f] >= left[f] - 1
    BY <1>9, <2>3 DEF Tick
  <2>4. /\ DOMAIN since' = Files /\ DOMAIN left' = Files
        /\ since' = [f \in Files |-> since'[f]]
        /\ left' = [f \in Files |-> left'[f]]
    BY <1>9 DEF Tick
  <2>5. CASE wall' = 0 /\ ~over
    <3>1. /\ over' \in BOOLEAN
          /\ runs' = [f \in Files |-> 0]
          /\ planned' = [f \in Files |-> FALSE]
      BY <1>9, <2>5 DEF Tick
    <3> QED
      BY <2>2, <2>3, <2>4, <2>5, <3>1
  <2>6. CASE wall' # 0 \/ over
    <3>1. /\ UNCHANGED <<over, runs, planned>>
          /\ over \/ wall' = wall + 1
      BY <1>9, <2>1, <2>6 DEF Tick
    <3>2. wall' \in 0..(Period - 1)
      BY <2>1
    <3>3. TypeOK'
      BY <2>2, <2>3, <2>4, <3>1, <3>2
    <3>4. SleepsLongEnough'
      BY <2>2, <2>3, <3>1
    <3>5. ErrorsCounted'
      BY <2>2
    <3> QED
      BY <3>3, <3>4, <3>5
  <2> QED
    BY <2>5, <2>6
<1>10. CASE StepBack
  BY <1>10 DEF StepBack
<1>11. ASSUME NEW f \in Files, PlanNothing(f) PROVE IInv'
  BY <1>11 DEF PlanNothing
<1>12. ASSUME NEW f \in Files, RunPanics(f) PROVE IInv'
  BY <1>12 DEF RunPanics
<1>13. CASE UNCHANGED vars
  BY <1>13 DEF vars
<1> QED
  BY <1>1, <1>2, <1>3, <1>4, <1>5, <1>6, <1>7, <1>8, <1>9, <1>10, <1>11,
     <1>12, <1>13 DEF Next

\* The error counts are those of the failed runs, and no job sleeps too
\* short, in every reachable state.
THEOREM Invariance == Spec => []IInv
<1> QED
  BY InitInvariant, Inductive, PTL DEF Spec

\* Every variable keeps its type: what a job sleeps, lags and counts stays
\* within the bounds that Period, MaxLag and Bail give.
THEOREM TypeCorrect == Spec => []TypeOK
<1>1. IInv => TypeOK
  BY DEF IInv
<1> QED
  BY <1>1, Invariance, PTL

\* As long as the clock runs forward a due instant starts a script once.
THEOREM RunsOnce == Spec => []OncePerDueInstant
<1>1. IInv => OncePerDueInstant
  BY DEF IInv, SleepsLongEnough, OncePerDueInstant
<1> QED
  BY <1>1, Invariance, PTL

\* As long as the clock runs forward no script starts before it is due.
THEOREM RunsWhenDue == Spec => NeverEarly
<1> DEFINE Due(f) ==
      steps = 0 /\ pc[f] = "sleeping" /\ pc'[f] = "running" => ~planned[f]
<1>1. ASSUME IInv, [Next]_vars, NEW f \in Files PROVE Due(f)
  <2> SUFFICES ASSUME steps = 0, pc[f] = "sleeping", pc'[f] = "running"
               PROVE  ~planned[f]
    OBVIOUS
  <2>1. Wake(f)
    BY <1>1 DEF Next, Start, ReadNow, Plan, PlanPanics, PlanNothing, Wake,
            RunSucceeds, RunFails, RunPanics, Exit, Tick, StepBack, vars, Go,
            IInv, TypeOK
  <2>2. left[f] = 0 /\ wall < Period
    BY <1>1, <2>1, ScheduleAssumption DEF Wake, IInv, TypeOK
  <2> QED
    BY <1>1, <2>2, ScheduleAssumption DEF IInv, TypeOK, SleepsLongEnough
<1>2. IInv /\ [Next]_vars => [\A f \in Files : Due(f)]_vars
  BY <1>1
<1> QED
  BY <1>2, Invariance, PTL DEF Spec, NeverEarly

\* A job ends by --bail after exactly that many failed runs, never by 0.
THEOREM BailsExactly == Spec => []BailExact
<1>1. IInv => BailExact
  BY ScheduleAssumption DEF IInv, TypeOK, ErrorsCounted, BailExact
<1> QED
  BY <1>1, Invariance, PTL

\* The expect() of the loop fails only after the wall clock was set back; a
\* job that panics without that was running its script.
THEOREM PanicNeedsSetBack == Spec => PanicsOnlyIfSetBack
<1> DEFINE Excused(f) ==
      pc[f] # "panicked" /\ pc'[f] = "panicked"
        => pc[f] = "running" \/ steps > 0
<1>1. ASSUME IInv, [Next]_vars, NEW f \in Files PROVE Excused(f)
  <2> SUFFICES ASSUME pc[f] # "panicked", pc'[f] = "panicked"
               PROVE  pc[f] = "running" \/ steps > 0
    OBVIOUS
  <2>1. RunPanics(f) \/ PlanPanics(f)
    BY <1>1 DEF Next, Start, ReadNow, Plan, PlanPanics, PlanNothing, Wake,
            RunSucceeds, RunFails, RunPanics, Exit, Tick, StepBack, vars, Go,
            IInv, TypeOK
  <2>2. CASE PlanPanics(f)
    <3>1. since[f] < 0
      BY <1>1, <2>2, ScheduleAssumption
         DEF PlanPanics, Elapsed, IInv, TypeOK
    <3> QED
      BY <1>1, <3>1, ScheduleAssumption DEF IInv, TypeOK, SleepsLongEnough
  <2> QED
    BY <2>1, <2>2 DEF RunPanics
<1>2. IInv /\ [Next]_vars => [\A f \in Files : Excused(f)]_vars
  BY <1>1
<1> QED
  BY <1>2, Invariance, PTL DEF Spec, PanicsOnlyIfSetBack
=============================================================================
