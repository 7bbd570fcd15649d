SPECIFICATION Spec
CONSTANTS
  a = a
  u = u
  out = out
  in = in
  flag = flag
  v = v
  Nodes <- MCNodes
  Ports <- MCPorts
  Bus = {u}
  Resizable = {a}
  Controls <- MCControls
  BusPort = v
  Files <- MCFiles
  Grid = 1
  MaxPoints = 1
  WireLimit = 3
  MaxEdits = 1
  MaxHistory = 1
INVARIANTS SceneShowsDocument WiresFit
PROPERTIES ReconnectKeepsOthers
