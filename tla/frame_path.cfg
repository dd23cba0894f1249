SPECIFICATION Spec
CONSTANTS
  MaxBytes = 16
  MaxBurst = 2
  PageBeats = 3
  FrameMod = 3
  Latency = 1
  FrameLengths = {1, 4, 5}
  MiddleKeeps <- FullKeeps
  LastKeeps <- FullPartialEmpty
  ControlWrites <- PortAndDriver
  ManualBytes = 13
  NoBeat = NoBeat
  NoFrame = NoFrame
  NoWrite = NoWrite
VIEW LivePath
INVARIANTS WritesStayInBuffer FramesAccounted GoodFrameIsWhole ClassifiesItsFrame
PROPERTIES StreamGoesOn

