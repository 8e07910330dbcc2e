CONSTANTS
  Readers = {r1}
  Controllers = {c1}
  NoUser = NoUser
  Counts = {3}
  LostLimit = 1
  Faults = {"overtake"}
SPECIFICATION FairSpec
INVARIANTS TypeOK CopyIsStable ReadyIsWhole MarksAreTrue BufferFound
PROPERTIES ImplementsStatPool StatsKeepComing
