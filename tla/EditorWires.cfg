SPECIFICATION Spec
CONSTANTS
  n1 = n1
  c1 = c1
  c2 = c2
  p1 = p1
  p2 = p2
  r1 = r1
  NodeId = {n1}
  Content = {c1, c2}
  Port = {p1, p2}
  Route = {r1}
  NoRoute = r1
  Name = {untitled}
  NoName = untitled
  WireLimit = 2
  MadeLimit = 1
  NoSheet = NoSheet
  Sheets <- NoSheets
  Files <- MCWiredFiles
  MaxHistory = 2
  MaxNesting = 1
VIEW WireView
INVARIANTS DrawnWiresFresh IndicesFresh
