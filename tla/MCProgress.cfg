CONSTANTS
    Running = {"monitor", "bridge", "refresh", "supervisor"}
    ta = ta
    p1 = p1
    k1 = k1
    k2 = k2
    d1 = d1
    NoKey = NoKey
    NoOrder = NoOrder
    o1 = o1
    o2 = o2
    am = am
    NoVersion = NoVersion
    NoRow = NoRow
    NoToken = NoToken
    NoSlot = NoSlot
    NoTime = NoTime
    None = None
    Nothing = Nothing
    Slot = {ta}
    TradeSlot = {ta}
    StreamOf <- OneStreamOf
    HeartbeatStream = "PINGPONG"
    MaxAge = 1
    HardMaxEvents = 2
    HardMaxAge = 1
    MaxAttempts = 2
    HeartbeatTimeout = 2
    MaxRuntime = 4
    MaxEvents = 3
    Faults = {}
    MaxSeq = 1
    MaxTime = 4
    MaxConnections = 9
SPECIFICATION RunSpec
CHECK_DEADLOCK FALSE
PROPERTIES
    SilentMonitorEnds
    CallReturns
    
    LostMonitorReplaced
