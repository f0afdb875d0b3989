\* Two turns of a thread, one stop, nothing fails: a turn stopped while its
\* dispatch is in flight.
SPECIFICATION Spec
CONSTANTS
    Turn <- MCTurn
    None = 0
    MaxStops = 1
    MaxFaults = 0
CHECK_DEADLOCK FALSE
INVARIANT AcknowledgedStopAborts
