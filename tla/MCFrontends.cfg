SPECIFICATION Spec
CONSTANTS
  BufSize = 6
  MaxArgs = 3
  MaxFile = 6
  Existing = {"here", "broken"}
  Loadable = {"here"}
  FileLines = 4
  Instances = {"p", "s", "i"}
  MaxLoads = 3
  PluginDescrs <- MCDescrs
  ArgLists <- MCArgLists
  DgramPeers = {p, q}
  MaxDgrams = 3
  MaxCalls = 3
  Streams = {"c"}
  Datagram = "u"
  Peers = {"p", "q"}
  TypedLines <- ConsoleLines
  MaxLines = 4
  Messages <- BusMessages
  Structures <- BusStructures
  Known <- MCKnown
  Foreign <- BusForeign
INVARIANTS
  
  
  PluginsAreSound
  DatagramsAreHeard
  ConsolesAreSound
  
CHECK_DEADLOCK FALSE
