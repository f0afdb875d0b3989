\* Two occurrences, two heartbeats on the same one, one trouble of any kind.
SPECIFICATION Spec
CONSTANTS
    Occ <- MCOcc
    Heart = {h1, h2}
    Kinds = {"schedule", "once"}
    PauseAfter = 2
    MaxTrouble = 1
CHECK_DEADLOCK FALSE
CONSTRAINT MCTogether
SYMMETRY MCHearts
VIEW MCView
INVARIANTS RoutineTypeOK OneMessage EachFailureCountsOnce OnceNeverStranded
