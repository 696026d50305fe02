SPECIFICATION Spec
CONSTANTS
  Bytes = {0, 1}
  Zero = 0
  initial_size = 2
  kShrinkThreshold = 10
  ExSize = 2
  Chunks <- SmallChunks
  MaxUnread = 4
INVARIANTS
  TypeOK
  CapacityBounded
PROPERTIES
  BytesInOrder
  ExactBytes
