\* A chunk holds the rest of a cut character and more text.
SPECIFICATION DeliverySpec
CONSTANTS
  Streams <- MCLost
  ChunkSizes <- MCLostChunks
INVARIANTS
  OutIsByteByByte
