SPECIFICATION Spec
CONSTANTS
  Letters <- MCLetters
  OPEN = OPEN
  INVALID = INVALID
  stable_sample_count = 2
  release_sample_count = 2
  repeat_guard_ms = 2
  CounterMax = 3
  Capacity = 3
  Joints <- MCJoints
  Keyframes <- MCKeyframes
  Descriptors <- MCDescriptors
  Elapsed = {1, 3}
PROPERTIES AcceptedWasSteady RepeatNeedsRelease GuardSeparatesLetters SteadyLetterAccepted ImplementsFifo WaitingLetterPlayed
