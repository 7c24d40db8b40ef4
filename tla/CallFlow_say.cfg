SPECIFICATION FairSpec
CONSTANTS
  flow_def  <- SayFlow
  Texts     <- Speech
  Digits    <- Keys
  Replies   <- Objects
  Stages    <- PipelineStages
  MaxEvents = 8
  MaxRuns   = 2
PROPERTY SayFollowsDefault
