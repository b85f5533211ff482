SPECIFICATION FairSpec
CONSTANTS
  c1 = c1
  c2 = c2
  t1 = t1
  t2 = t2
  t3 = t3
  alice = alice
  bob = bob
  Opening = 2
  Amounts = {1, 2}
  Null = Null
  Absent = Absent
  NoTable = NoTable
  Nobody = Nobody
  Names = {alice, bob}
  Values = {Null, 0, 1, 2}
  Threads = {t1, t2, t3}
  Conns = {c1, c2}
  ConnOf <- TwoProcesses
  Hanging = {t3}
  DiskFails = FALSE
  Workload <- Transfers
  Callback <- Move
INVARIANTS
  Conserved
PROPERTIES
  CallsReturn
  WriteLockReleased
