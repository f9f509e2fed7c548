SPECIFICATION Spec
CONSTANTS
    NumAnalysis = 1
    NumValidation = 1
    MaxRepair = 1
    Control = {"c1"}
    CtlAction <- StopActions
    Fault <- NoFaults
PROPERTIES CancellationWins
