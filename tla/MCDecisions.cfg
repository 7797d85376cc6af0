CONSTANTS
    Running = {"scheduler", "pilot", "row"}
    o1 = o1
    o2 = o2
    am = am
    pm = pm
    d1 = d1
    d2 = d2
    Owner = {o1, o2}
    Slot = {am, pm}
    SlotKey <- DayKeys
    SlotAt <- DaySlotAt
    DayLength = 4
    Schedule <- DaySchedule
    Weekend = {}
    Candidate <- SchedulerCandidates
    Grace = 1
    Lease = 1
    MaxTime = 3
    MaxFaults = 1
    NoVersion = NoVersion
    NoRow = NoRow
    NoToken = NoToken
    NoSlot = NoSlot
    None = None
SPECIFICATION RunSpec
SYMMETRY Symmetry
CHECK_DEADLOCK FALSE
INVARIANTS
    RefreshKeepsItsSlots
    PunctualFollowsSlots
    StoredDecisionIsSound
PROPERTIES
    JournalOnlyMovesForward
