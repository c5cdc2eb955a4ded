SPECIFICATION TransportsSpec
CONSTANTS
  Value = {v1, v2}
  NoValue = NoValue
  Capacity = 3
  BatchLimit = 3
  MaxSequence = 5
  Cyclic = cyclic
  Startup = startup
  SlotCount = 2
  IndexSpan = 2
  MaxFrames = 3
SYMMETRY Symmetry
INVARIANTS
  SlotsDisjoint
PROPERTIES
  SizeNeverUnderestimates
  FifoRefined
  BufferUntouched
  SentInOrder
CHECK_DEADLOCK FALSE
