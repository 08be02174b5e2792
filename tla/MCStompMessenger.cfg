SPECIFICATION Spec
CONSTANTS
    MaxCalls = 3
    MaxMessages = 2
    Paths <- OnePath
    Workload <- SubscribeAndSend
INVARIANTS
    ReceiptCovers
    ConnectMeansSession
    MessagesConserved
    OneReceiptAtATime
PROPERTY OnlyTimeoutDropsSilently
VIEW ButStatus
