SPECIFICATION Spec
CONSTANTS
  c1 = c1
  c2 = c2
  t1 = t1
  t2 = t2
  t3 = t3
  alice = alice
  bob = bob
  Opening = 1
  Amounts = {1}
  Null = Null
  Absent = Absent
  NoTable = NoTable
  Nobody = Nobody
  Names = {alice, bob}
  Values = {Null, 1, 2}
  Threads = {t1, t2}
  Conns = {c1}
  ConnOf <- OneProcess
  Hanging = {}
  DiskFails = TRUE
  Workload <- OddUpdates
  Callback <- Rotate
PROPERTIES
  Implements
  NeverBusy
