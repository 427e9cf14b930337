SPECIFICATION BufferSpec
CONSTANTS
  zero = zero
  one = one
  two = two
  Byte <- Bytes
  Zero = zero
  Chunks <- ChunkSet
  InitSize = 3
  MaxUnread = 7
INVARIANTS
  IndexesInRange
  ReadPartIsSmall
PROPERTIES
  GrowthIsProportional
  IsFifo
