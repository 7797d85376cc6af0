CONSTANTS
    Running = {"fast loop"}
    p1 = p1
    p2 = p2
    k1 = k1
    k2 = k2
    d1 = d1
    d2 = d2
    theLoop = theLoop
    planA = planA
    planB = planB
    Proc = {p1, p2}
    Key = {k1, k2}
    Decision = {d1}
    DecisionOf <- OneDecision
    NoKey = NoKey
    NoOrder = NoOrder
    NoBundle = NoBundle
    NoPlan = NoPlan
    NoTime = NoTime
    None = None
SPECIFICATION RunSpec
CHECK_DEADLOCK FALSE
PROPERTIES
    DurableResultSettles
