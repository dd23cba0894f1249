SPECIFICATION Spec
CONSTANTS
  MaxBytes = 16
  MaxBurst = 2
  PageBeats = 3
  FrameMod = 3
  Latency = 1
  FrameLengths = {1, 4, 6}
  MiddleKeeps <- FullOrEmpty
  LastKeeps <- FullOrEmpty
  ControlWrites <- PortAndDriver
  ManualBytes = 13
  NoBeat = NoBeat
  NoFrame = NoFrame
  NoWrite = NoWrite
VIEW LivePath
INVARIANTS FramesAccounted

