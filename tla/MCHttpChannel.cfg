CONSTANTS
  Methods  = {"GET", "POST", "PUT", "CONNECT"}
  Tokens   = {"x", "y", "v", "w"}
  Bytes    = {"b", "c", "/", "/node/", "3"}
  MaxLength = 25
  Streams  <- MCStreams
  NodeUrls <- MCNodeUrls
  Scripts  <- MCScripts
  Garbled  <- MCGarbled
SPECIFICATION ClientSpec
CHECK_DEADLOCK FALSE
INVARIANT TypeOK
INVARIANT MessagesAreFramed
INVARIANT CloseIsAnnounced
INVARIANT MessagesAsSent
INVARIANT HandledWhenComplete
INVARIANT GarbledIsRefused
PROPERTY EveryRequestAnswered
