SPECIFICATION FairSpec
CONSTANTS
  p1 = p1
  p2 = p2
  s1 = s1
  s2 = s2
  s3 = s3
  Nobody = Nobody
  Removed = Removed
  Scripts = {s1, s2, s3}
  Procs = {p1, p2}
  ProcOf <- TwoProcesses
  Timeout = 2
  Catches = {s3}
  Nests = {s3}
  Blocks = {s2, s3}
INVARIANTS
  MutexReturned
  IInv
PROPERTIES
  NeverCutShort
  EndsUnlessCaught
  EvaluationsEnd
