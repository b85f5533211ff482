SPECIFICATION FairSpec
CONSTANTS
  main = main
  other = other
  q1 = q1
  q2 = q2
  f1 = f1
  f2 = f2
  k = k
  Procs = {main, other}
  Main = main
  Keys = {k}
  Plans <- SomePlans
  FileFails = TRUE
  NoTable = NoTable
  Requests = {q1, q2}
  Workers = {1, 2}
  Scripts <- SomeScripts
  Free = Free
  Files = {f1, f2}
INVARIANTS
  TypeOK
  VersionTellsTable
  MigratedServes
  HolderStores
  AnswerAsAsked
  ExitTells
  FailureExplained
PROPERTIES
  RowsKept
  MigrationsAtomic
  Answered
  CommandEnds
