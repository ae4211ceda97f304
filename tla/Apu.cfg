SPECIFICATION Spec
CONSTANTS
    LengthReload = 3
    MaxVolume = 3
    PeriodMax = 7
    PhaseMask = 3
    PeriodLow = 4
    MaxWrites <- MCMaxWrites
    MaxEnvelope = 5
    Channels <- MCChannels
    Nrx2Values <- MCNrx2Values
    Nr10Values <- MCNr10Values
    PeriodLows <- MCPeriodLows
    LengthBits <- MCLengthBits
    LengthLoads <- MCLengthLoads
INVARIANTS
    NoteEndsInTime
    EnvelopeKeepsPace
PROPERTY
    SweepNeverWraps
CHECK_DEADLOCK FALSE
