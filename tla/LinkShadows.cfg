SPECIFICATION Spec
CONSTANTS
  p1 = p1  p2 = p2  v1 = v1  v2 = v2
  Provider = {p1}
  Variable = {v1, v2}
  Mappings <- InAndOuts
  Category <- AllLocal
  Tier <- AllSlow
  Epsilon <- CoarseAndFine
  Value = {0, 2, 4}
  StartValue = {0}
  One = 2
  FloatBits <- Bits
  DefaultEpsilon = 1
  EpochLimit = 4
  StaleGap = 2
  MediumPeriod = 2
  SlowPeriod = 2
  FullSyncInterval = 2
  MaxDeltaVars = 6
  Lossy = {"DeltaRead"}
  BusLimit = 2
  MaxStarts = 3
VIEW NoGhost
INVARIANTS InputShadowsAgree OutputShadowsAgree
