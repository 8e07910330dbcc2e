CONSTANTS
  Readers = {r1}
  Controllers = {c1}
  NoUser = NoUser
  Counts = {3, 4}
  LostLimit = 1
  Faults = {"nomem", "copy"}
SPECIFICATION Spec
INVARIANTS IspWritesOwned MarksAreTrue
PROPERTIES ImplementsStatPool
