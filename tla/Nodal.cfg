SPECIFICATION Spec
CONSTANTS
  Circuits <- MCCircuits
  Lag = 4
INVARIANTS PlansAgree
PROPERTIES NetsObeyTheirLaws MetersReadTheirBranch ChainsComeToRest
