SPECIFICATION FairSpec
CONSTANTS
  WriteWords = 1
  ReadWords = 1
  Params = 1
  FrameMod = 3
  SequenceNumbers = {s1, s2}
  Payload = {p1}
  Stimuli = {"commit", "enable", "profile", "bad_write", "safety", "overrun", "valid", "invalid", "failed"}
  CommDeadline = TRUE
  CommandDeadline = FALSE
VIEW LiveState
INVARIANTS CompleteMeansFresh
PROPERTIES ImplementsFrameContract FrameEnds
