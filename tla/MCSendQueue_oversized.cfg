\* A stream piece that does not fit in a data buffer ends the transfer.
SPECIFICATION Spec
CONSTANTS
  max_payload_size = 1
  BufferSizes = {4, 40}
  CtlLens = {0}
  PingLens = {0}
  CloseArgs <- MCCloseArgs
  PeerCodes = {1000}
  CallbackResults = {0, 1, 1000}
  Blocks <- MCBlocks
  Pieces <- MCOversizedPieces
  Infos <- MCInfos
  MallocMayFail = FALSE
  FollowRedirects = FALSE
  MaxFrames = 2
INVARIANT
  EofOnlyWhenClosed
