SPECIFICATION Spec
CONSTANTS
  WriteWords = 1
  ReadWords = 1
  Params = 1
  FrameMod = 1
  SequenceNumbers = {s1, s2}
  Payload = {p1}
  Stimuli = {"commit", "enable", "abort", "profile", "valid"}
  CommDeadline = FALSE
  CommandDeadline = FALSE
VIEW LiveState
PROPERTY FlushSuppressesTransmission
