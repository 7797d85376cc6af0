CONSTANTS
    Running = {"scheduler"}
    o1 = o1
    o2 = o2
    am = am
    pm = pm
    d1 = d1
    d2 = d2
    Owner = {o1}
    Slot = {am}
    SlotKey <- NightKeys
    SlotAt <- NightSlotAt
    DayLength = 4
    Schedule <- NightSchedule
    Weekend = {}
    Candidate <- NightCandidates
    Grace = 1
    Lease = 2
    MaxTime = 3
    MaxFaults = 1
    NoVersion = NoVersion
    NoRow = NoRow
    NoToken = NoToken
    NoSlot = NoSlot
    None = None
SPECIFICATION RunSpec
CHECK_DEADLOCK FALSE
INVARIANTS
    MissedAfterSession
