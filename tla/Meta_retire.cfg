CONSTANTS
  Node <- ThreeNodes
  MaxId = 4
  NONE = NONE
  CreateTarget = 2
  AlterTargets = {1, 3}
  MaxDdl = 2
  MaxFault = 1
  Faults = {"META"}

SPECIFICATION ServeSpec

PROPERTY RetiredLeftRaft
