SPECIFICATION FairSpec
CONSTANTS
  Digits = {"5", "9"}
  Blank = "blank"
  MaxSent = 2
  MaxChunks = 2
  MaxFrames = 2
INVARIANTS
  
  AgentIsHeard
PROPERTIES
  HangupIsNoticed
