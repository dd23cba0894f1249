SPECIFICATION Spec
CONSTANTS
  WriteWords = 1
  ReadWords = 1
  Params = 1
  FrameMod = 1
  SequenceNumbers = {s1, s2}
  Payload = {p1, p2}
  Stimuli = {"write", "commit", "enable", "abort", "profile", "failed"}
  CommDeadline = FALSE
  CommandDeadline = TRUE
VIEW LiveState
INVARIANT TransmissionIsolated
PROPERTY ImplementsFrameContract
