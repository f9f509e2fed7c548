SPECIFICATION Spec
CONSTANTS
    File = {f1, f2}
    Folder <- Folders
    MaxAttempts = 2
    MaxOps = 2
    Environment <- Environments
SYMMETRY AnyFile
INVARIANTS TypeOK RollbackSparesEarlierWork
PROPERTIES ImplementsAtomic
CHECK_DEADLOCK FALSE
