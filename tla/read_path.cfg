SPECIFICATION Spec
CONSTANTS
    Slots = 4
    MaxBurst = 2
    Quitters <- DmaSlot
    ErrorsAnywhere = FALSE
INVARIANTS
    BurstHasOneReader
PROPERTIES
    AddressStaysUntilAccepted
    OvertakenOnce
    ReadersProgress
