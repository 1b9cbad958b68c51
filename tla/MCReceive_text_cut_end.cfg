\* A text ends within a character.
SPECIFICATION DeliverySpec
CONSTANTS
  Streams <- MCCutEnd
  ChunkSizes <- MCCutEndChunks
INVARIANTS
  NoCharacterOutlivesMessage
