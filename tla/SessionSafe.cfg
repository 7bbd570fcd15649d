SPECIFICATION SessionSpec
CONSTANTS
  Document = {d1, d2, d3}
  MayFail = TRUE
  MaxBuilds = 5
SYMMETRY Symmetry
INVARIANTS SessionTypeOK NoDangling CountIsExact ConnectedIsRegistered
