CONSTANTS
  Node <- ThreeNodes
  MaxId = 4
  NONE = NONE
  CreateTarget = 2
  AlterTargets = {0, 1, 3}
  MaxDdl = 3
  MaxFault = 1
  Faults = {"SAVE", "META", "DELAY", "SLOW", "CUT", "DIE", "FAULT"}

SPECIFICATION MCSpec

PROPERTIES
  IdsNeverReused
  RetireKeepsTarget
  ReadyMembersVote
  
  CleansUp
