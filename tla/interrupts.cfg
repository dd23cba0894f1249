SPECIFICATION Spec
VIEW LiveInterrupts
CONSTANTS
    NUM_SOURCES = 2
    EdgeSources <- PulseSource
    Levels = {0, 1, 2}
INVARIANTS
    NotClaimedTwice
    PulseIsKept
PROPERTIES
    ServedUnlessOvertaken
