SPECIFICATION Spec
CONSTANTS
  p1 = p1
  p2 = p2
  s1 = s1
  s2 = s2
  s3 = s3
  Nobody = Nobody
  Removed = Removed
  Scripts = {s1}
  Procs = {p1}
  ProcOf <- OneProcess
  Timeout = 1
  Catches = {s1}
  Nests = {}
  Blocks = {}
PROPERTY
  TimeoutHonoured
