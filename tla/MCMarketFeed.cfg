CONSTANTS
    Running = {"supervisor", "tracker", "monitor", "websocket", "http"}
    ta = ta
    qa = qa
    None = None
    Nothing = Nothing
    NoTime = NoTime
    SubscriptionGrace = 1
    HeartbeatTimeout = 1
    MinimumStableUptime = 2
    FlappingWindow = 1
    FlappingMaxShortEpochs = 1
    FlappingMinUptime = 1
    FlappingMinMarketEvents = 1
    QuoteGrace = 1
    QuoteStarvation = 1
    MaxQuoteAge = 2
    MaxEpochHistory = 1
    DayLength = 5
    Schedule <- DaySchedule
    Weekend = {}
    PollInterval = 1
    MaxRestartsInWindow = 1
    RestartWindow = 2
    RestartBackoff = 1
    MaxEpochs = 1
    MaxMarketEvents = 1
    MaxTime = 5
    MaxTicks = 0
    SinkFaults = {}
    SupervisorFaults = {"provider", "factory", "cancel"}
SPECIFICATION RunSpec
CHECK_DEADLOCK FALSE
INVARIANTS
    
    
    SmokeReportIsHonest
PROPERTIES
    OneMonitorWithinBudget
    
