SPECIFICATION FairSpec
CONSTANTS
  promo = promo
  support = support
  Flows = {promo, support}
  NoFlow = NoFlow
  Calls <- AllCalls
  Connections = {"originate", "redirect"}
  Strict = {"originate"}
  Cap = 3
  MaxInbox = 2
  RedisMayFail = TRUE
  MaxRestarts = 1
INVARIANTS
  TypeOK
  
  
  FlowIsTheExecutions
  EventsOfFinalExecution
PROPERTIES
  
  NobodyWaitsForEver
