SPECIFICATION Spec
CONSTANTS
    c = c
    d = d
    s = s
    t = t
    o = o
    q = q
    Nobody = Nobody
    Clients <- C
    EngineClients <- D
    Servers <- S
    EngineServers <- T
    Others <- O
    Casts <- BothCasts
INVARIANT ReplyIsRead
CHECK_DEADLOCK FALSE
