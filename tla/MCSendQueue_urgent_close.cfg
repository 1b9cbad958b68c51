\* The urgent close is refused and marked as queued: the connection is never closed.
SPECIFICATION FairSpec
CONSTANTS
  max_payload_size = 1
  BufferSizes = {4, 40}
  CtlLens = {0}
  PingLens = {0}
  CloseArgs <- MCUrgentCloseArgs
  PeerCodes = {1000}
  CallbackResults = {0, 1, 1000}
  Blocks <- MCBlocks
  Pieces <- MCPieces
  Infos <- MCInfos
  MallocMayFail = FALSE
  FollowRedirects = FALSE
  MaxFrames = 2
CHECK_DEADLOCK FALSE
PROPERTY
  ReceivedCloseEnds
