CONSTANTS
  HeaderSize = 2
  DefaultSize = 3
  Sizes <- Payloads
  MaxMsgs = 3
  SocketSize = 9
  RecvFrom = TRUE
SPECIFICATION FairSpec
INVARIANTS TransportSound NothingLostOrReordered ClosedAfterLast
PROPERTIES QuietAfterClosed MessageArrives
\* The peer has sent all it sends and closed, or the transport is freed.
CHECK_DEADLOCK FALSE
