SPECIFICATION ControlFairSpec
CONSTANTS
  WriteWords = 1
  ReadWords = 1
  Params = 1
  FrameMod = 3
  SequenceMod = 3
  SequenceNumbers <- MCSequenceNumbers
  Payload = {p1, p2}
  Stimuli = {"abort", "enable", "profile", "write", "commit", "valid", "failed"}
  CommDeadline = FALSE
  CommandDeadline = FALSE
  Calls = {"initialize", "submit", "abort", "read"}
  MaxPublications = 2
VIEW LiveControlState
INVARIANTS NeverRefused CommitHoldsLastSubmission PromptReadIsExact
PROPERTIES FirstFrameFresh FlushSuppressesTransmission SubmissionGoesOut
