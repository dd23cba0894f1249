SPECIFICATION ControlSpec
CONSTANTS
  WriteWords = 1
  ReadWords = 1
  Params = 1
  FrameMod = 3
  SequenceMod = 2
  SequenceNumbers <- MCSequenceNumbers
  Payload = {p1}
  Stimuli = {"abort", "enable", "profile", "write", "commit", "valid"}
  CommDeadline = FALSE
  CommandDeadline = FALSE
  Calls = {"initialize", "submit", "read"}
  MaxPublications = 2
VIEW LiveControlState
INVARIANT ReadIsNeverMixed
