SPECIFICATION Spec
CONSTANTS
    NumAnalysis = 2
    NumValidation = 2
    MaxRepair = 1
    Control = {"c1"}
    CtlAction <- AllActions
    Fault <- CrashesAndFailures
INVARIANTS TypeOK CompletedRecordIsTerminal AtMostOneActive RepairLoopIsValidated
PROPERTIES StartsAfterDependencies
