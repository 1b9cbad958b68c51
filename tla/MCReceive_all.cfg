\* Binary messages, control frames, breaches of the protocol and texts whose characters
\* of several bytes end their frames in chunks of every size up to 7 bytes and of 16,
\* and the other texts byte by byte.
SPECIFICATION DeliverySpec
CONSTANTS
  Streams <- MCStreams
  ChunkSizes <- MCChunkSizes
INVARIANTS
  
  OutIsByteByByte
  MessagesAreWhole
  BufferIsOpenMessage
  TextPieceWhole
PROPERTIES
  CallbackReturns
