SPECIFICATION Spec
CONSTANTS
  Data = {d1, d2, d3, d4}
  NoData = none
  Bits = 2
  MaxUse = 3
  MaxBucket = 2
  MaxAdd = 5
  SeqKeys = {1, 2, 3, 4, 5}
  SeqAlloc = 2
  HashKeys = {k1, k2, k3}
  HashData = {a}
  MaxEntries = 8
  Primes <- MCPrimes
  Spread = {0, 1}
  ColumnNames <- MCColumns
  Callbacks = {f, g}
  MaxTriggers = 2
  MaxCommits = 1
  MaxChanges = 2
  TableNames = {n, m}
  MaxTables = 4
  Rows = {r1, r2, r3}
  Keys = {q1, q2}
  Vals = {v1, v2}
  NoRow = NoRow
  NoVal = NoVal
  Freed = Freed
  TxDepthMax = 3
  MaxLog = 3
  Careless = {}
SYMMETRY StoreSymmetry
INVARIANTS
  HandlesReachTables
  
  TriggersSeeTheirChanges
  HandlesKeepTheirData
  SequenceIsSorted
  HashIsSound
  RowsSound
PROPERTY ImplementsKeyValueTx
CHECK_DEADLOCK FALSE
