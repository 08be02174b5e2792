SPECIFICATION Spec
CONSTANTS
    m1 = m1
    m2 = m2
    Messengers <- TwoMessengers
    MaxSockets = 3
    Timeouts <- BothTimeouts
    NoSocket = NoSocket
INVARIANT EngineStatusAgrees
CHECK_DEADLOCK FALSE
