SPECIFICATION PlayerSpec
CONSTANTS
  Letters <- MCLetters
  Joints <- MCJoints
  Keyframes <- MCKeyframes
  Descriptors <- MCDescriptors
  calibration <- MCCalibration
  OPEN = OPEN
  INVALID = INVALID
INVARIANTS StaysInSegment RestsAtOpen CommandIsNearest
PROPERTIES StepsBackAtMostOne CompletesOnSchedule PhasesMoveTheirJoints
