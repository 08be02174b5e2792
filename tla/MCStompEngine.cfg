SPECIFICATION Spec
CONSTANTS
    m1 = m1
    m2 = m2
    Messengers <- TwoMessengers
    MaxSockets = 3
    Timeouts <- BothTimeouts
    NoSocket = NoSocket
INVARIANTS
    TypeOK
    PoolWhileInUse
    NothingLeftOpen
    ConnectionUsable
PROPERTY FailedConnectKeeps
SYMMETRY MessengerSymmetry
VIEW ButStatus
CHECK_DEADLOCK FALSE
