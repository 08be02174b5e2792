SPECIFICATION Spec
CONSTANTS
    MaxCalls = 3
    MaxMessages = 1
    Paths <- OnePath
    Workload <- SubscribeAndSend
INVARIANT FailureMeansNotProcessed
