SPECIFICATION Spec
CONSTANTS
  main = main
  other = other
  q1 = q1
  q2 = q2
  f1 = f1
  f2 = f2
  k = k
  Procs = {main, other}
  Main = main
  Keys = {k}
  Plans <- SomePlans
  FileFails = FALSE
  NoTable = NoTable
  Requests = {q1}
  Workers = {2}
  Scripts <- SomeScripts
  Free = Free
  Files = {f1, f2}
INVARIANT Reported
