SPECIFICATION FairSpec
CONSTANTS
  r1 = r1
  r2 = r2
  Readers = {r1, r2}
  Nobody = Nobody
  Streams <- SomeStreams
  Calls <- EveryCall
  Cap = 2
  SourceFails = TRUE
INVARIANTS
  TypeOK
  EachByteOnce
  LockOwned
  CharactersKept
PROPERTIES
  Implements
  ReadsEnd
