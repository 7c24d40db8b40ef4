SPECIFICATION Spec
CONSTANTS
  flow_def  <- SupportFlow
  Texts     <- Speech
  Digits    <- Keys
  Replies   <- AnyJson
  Stages    <- PipelineStages
  MaxEvents = 12
  MaxRuns   = 2
INVARIANTS
  TypeOK
  LogReplaysCall
  FramesMatchLog
  EndIsOrderly
  PromptOfCurrentNode
PROPERTIES
  NothingAfterTheEnd
  WalksTheFlow
