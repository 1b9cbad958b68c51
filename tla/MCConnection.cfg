\* A connection from the first response, which may be a redirection, to its end.
SPECIFICATION FairSpec
CONSTANTS
  Protocols = {chat}
  NULL = NULL
  MaxRedirects = 1
  max_payload_size = 1
  BufferSizes = {9}
  CtlLens = {}
  CloseArgs <- MCCloseArgs
  PeerCodes = {1000}
  CallbackResults = {0, 1}
  Blocks = {}
  Pieces <- MCPieces
  Infos <- MCInfos
  MallocMayFail = FALSE
  MaxFrames = 20
  Streams <- MCStreams
  ChunkSizes <- MCChunkSizes
  PingLens = {1, 2}
  ServerLines <- MCLines
  MaxCalls = 1
INVARIANTS
  PongsAnswerPings
  EofEndsBothDirections
PROPERTIES
  ImplementsSendQueue
  ImplementsConversation
  NothingSentToRedirector
  EndIsShutDown
  PingsAreAnswered
