SPECIFICATION FairSpec
CONSTANTS
    NumAnalysis = 1
    NumValidation = 2
    MaxRepair = 2
    Control = {"c1"}
    CtlAction <- StopActions
    Fault <- Restarts
INVARIANTS NoOrphanedTask RepairEditsBounded CompletionIsValidated
PROPERTIES RunEnds RequestAnswered
