SPECIFICATION Spec
CONSTANTS
  a = a
  b = b
  x = x
  y = y
  outer = outer
  inner = inner
  NodeId = {a, b}
  Content = {x, y}
  BlueprintId = {outer, inner}
  Library <- MCLibrary
  Files <- MCFiles
  NewNodes <- MCNewNodes
  Depth = 2
  MaxHistory = 1
  MaxWindows = 4
INVARIANTS SceneShowsScope NoOrphans ModeFollowsSimulation
CHECK_DEADLOCK FALSE
