\* Two turns of a thread, one stop of either, one fault of any kind: an eviction,
\* a yield or failed attempt, a lost answer, an abort that fails or is given up.
SPECIFICATION FairSpec
CONSTANTS
    Turn <- MCTurn
    None = 0
    MaxStops = 1
    MaxFaults = 1
CHECK_DEADLOCK FALSE
INVARIANTS RunnerTypeOK NoReplayAfterMark OneRunAtATime
PROPERTIES AbortSparesOthers EveryTurnEnds
