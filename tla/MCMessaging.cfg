SPECIFICATION Spec
CONSTANTS
  AskedFields <- MCFields
  MaxFields = 3
  MaxRefs = 2
  NDIRECT_TYPE = 2
  Descriptors <- MCDescriptors
  Values <- MCValues
  Clients = {c1}
  Names = {n1, n2}
  Owners = {o1}
  NoOwner = none
  Cleared = none
  MaxTrackers = 2
  MaxChanges = 3
  Subscribers = {c1}
  AnyName = ""
  HandlerNames <- MCHandlerNames
  Requests <- MCBusRequests
  MaxHandlers = 3
  MaxSignals = 1
  Peers = {u1, u2}
  Name = w
  MaxEvents = 5
  MaxFollows = 2
INVARIANTS
  MessagesAreSound
  StructuresArrive
  NamesAreKnown
  HandlersAreReached
  
\* Messages, structures, signals and changes of owner are bounded.
CHECK_DEADLOCK FALSE
