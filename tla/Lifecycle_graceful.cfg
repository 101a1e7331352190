SPECIFICATION Spec

CONSTANTS
    TLSEnabled = FALSE
    MonitoringEnabled = TRUE
    IntervalsSet = TRUE
    MaxInFlight = 1

INVARIANTS
    GracefulShutdown

\* A process that has ended takes no step.
CHECK_DEADLOCK FALSE
