\* Allocations fail at any time and redirections come and go; an urgent close
\* is among the calls.
SPECIFICATION Spec
CONSTANTS
  max_payload_size = 1
  BufferSizes = {4, 40}
  CtlLens = {0, 126}
  PingLens = {0}
  CloseArgs <- MCUrgentCloseArgs
  PeerCodes = {1000}
  CallbackResults = {0, 1, 1000}
  Blocks <- MCBlocks
  Pieces <- MCPieces
  Infos <- MCInfos
  MallocMayFail = TRUE
  FollowRedirects = TRUE
  MaxFrames = 2
INVARIANTS
  FillCountsHead
  FramesWholeOnWire
  NothingAfterClose
  NoLostWakeup
  EofOnlyWhenClosed
