SPECIFICATION FairSpec
CONSTANTS
  flow_def  <- LookupFlow
  Texts     <- Speech
  Digits    <- Keys
  Replies   <- Objects
  Stages    <- PipelineStages
  MaxEvents = 5
  MaxRuns   = 2
PROPERTIES
  
  FramesAreHandled
