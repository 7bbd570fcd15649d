SPECIFICATION FairSpec
CONSTANTS
  p1 = p1  p2 = p2  v1 = v1  v2 = v2
  Provider = {p1, p2}
  Variable = {v1}
  Mappings <- AnInput
  Category <- AllLocal
  Tier <- AllSlow
  Epsilon <- Coarse
  Value = {0, 1}
  StartValue = {0}
  One = 2
  FloatBits <- Bits
  DefaultEpsilon = 1
  EpochLimit = 4
  StaleGap = 2
  MediumPeriod = 2
  SlowPeriod = 2
  FullSyncInterval = 3
  MaxDeltaVars = 2
  Lossy = {"RegisterNames", "DeltaUpdate", "FullSync"}
  BusLimit = 2
  MaxStarts = 2
PROPERTIES InputsConverge
