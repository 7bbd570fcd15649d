SPECIFICATION Spec
CONSTANTS
  n1 = n1
  c1 = c1
  c2 = c2
  p1 = p1
  p2 = p2
  r1 = r1
  NodeId = {n1}
  Content = {c1}
  Port = {}
  Route = {r1}
  NoRoute = r1
  Name = {untitled, named}
  NoName = untitled
  WireLimit = 0
  MadeLimit = 0
  NoSheet = NoSheet
  Sheets <- MCSheets
  Files <- MCFiles
  MaxHistory = 2
  MaxNesting = 2
INVARIANTS TypeOK HistoryBounded SavePointValid
PROPERTIES AbortRestores OneUndoStep ImplementsHistory
