SPECIFICATION Spec
CONSTANTS
  NodeId = {"v", "s", "e"}
  Missing = Missing
  Kind <- MCKind
  Disk <- MCDisk
  Trees <- MCTrees
  MaxEdits = 1
  MaxDialogs = 1
  MaxOpen = 2
  MaxIds = 2
  MaxHistory = 1
INVARIANTS NothingOutlivesItsDocument TabsAreOpen
PROPERTIES SavesWhatIsAsked
CHECK_DEADLOCK FALSE
