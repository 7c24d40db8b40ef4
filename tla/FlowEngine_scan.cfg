SPECIFICATION Spec
CONSTANTS
  Conditions <- EveryCondition
  MaxEdges = 2
  Flows <- SmallFlows
  Events <- EveryEvent
  NewIds = {"c"}
  NewTypes = {"end"}
  NewConditions = {"default", "silence_timeout"}
  MaxSteps = 3
INVARIANTS
  FirstMatchWins
  EditorStaysValid
  
CHECK_DEADLOCK FALSE
