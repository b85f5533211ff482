SPECIFICATION Spec
CONSTANTS
  f1 = f1
  f2 = f2
  f3 = f3
  Files = {f1}
  Workers = 1
  Period = 2
  Finite = FALSE
  Bail = 1
  InitialRun = TRUE
  Broken = {}
  MaxLag = 1
  MaxSteps = 0
CHECK_DEADLOCK FALSE
INVARIANT BailFails
