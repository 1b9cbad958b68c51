\* No allocation fails, no redirection interferes and no close is urgent: every accepted
\* frame is sent, in order, up to the close, and every close ends the connection.
SPECIFICATION FairSpec
CONSTANTS
  max_payload_size = 1
  BufferSizes = {4, 40}
  CtlLens = {0}
  PingLens = {0}
  CloseArgs <- MCCloseArgs
  PeerCodes = {1000}
  CallbackResults = {0, 1, 1000}
  Blocks <- MCBlocks
  Pieces <- MCPieces
  Infos <- MCInfos
  MallocMayFail = FALSE
  FollowRedirects = FALSE
  MaxFrames = 3
INVARIANTS
  CloseFrameOwed
  DataFramesFormMessages
PROPERTIES
  ImplementsOutbound
  ReceivedCloseEnds
  QueuedCloseIsSent
