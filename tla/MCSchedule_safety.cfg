SPECIFICATION FairSpec
CONSTANTS
  f1 = f1
  f2 = f2
  f3 = f3
  Files = {f1, f2, f3}
  Workers = 2
  Period = 2
  Finite = TRUE
  Bail = 2
  InitialRun = TRUE
  Broken = {f3}
  MaxLag = 3
  MaxSteps = 2
CHECK_DEADLOCK FALSE
INVARIANTS
  TypeOK
  OncePerDueInstant
  BailExact
  IInv
PROPERTIES
  NeverEarly
  PanicsOnlyIfSetBack
  KeepsRunning
