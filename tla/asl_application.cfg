SPECIFICATION Spec
CONSTANTS
  Letters <- MCLetters
  OPEN = OPEN
  INVALID = INVALID
  Joints <- MCJoints
  Keyframes <- MCKeyframes
  Descriptors <- MCDescriptors
  QueueLength = 2
  Modulus = 3
INVARIANT BadFrameStops
PROPERTIES WireFollowsPlayer NoStepDropped TripStops MotionGoesOn
