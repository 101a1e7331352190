SPECIFICATION FairSpec

CONSTANTS
    TLSEnabled = TRUE
    MonitoringEnabled = TRUE
    IntervalsSet = FALSE
    MaxInFlight = 2

INVARIANTS
    TypeOK
    NoNilHost

PROPERTIES
    StoppedEngineIsQuiet
    DroppedOnlyAtStart
    SignalEnds

\* A process that has ended takes no step.
CHECK_DEADLOCK FALSE
