SPECIFICATION Spec
CONSTANTS
    Workspace = {w1, w2}
    Mission = {m1, m2}
    Round <- Rounds
    Grace = 2
    MaxClock = 2
    Environment <- Environments
    None = None
SYMMETRY Symmetry
INVARIANTS TypeOK ListedInPlace ListedSurvives
CHECK_DEADLOCK FALSE
