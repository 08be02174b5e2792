SPECIFICATION Spec
CONSTANTS
    MaxCalls = 2
    MaxMessages = 1
    Paths <- EveryPath
    Workload <- EveryRequest
INVARIANTS
    TypeOK
    StatusAgrees
