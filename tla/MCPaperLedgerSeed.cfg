CONSTANTS
    Running = {"broker"}
    s1 = s1
    b1 = b1
    b2 = b2
    l1 = l1
    x1 = x1
    w1 = w1
    p1 = p1
    p2 = p2
    q1 = q1
    q2 = q2
    Proc = {p1, p2}
    Order = {b1, b2, l1, x1, w1}
    Symbol = {s1}
    IntentOf <- Intents
    Price = {1, 2}
    Fee = 1
    InitialCash = 6
    Seeders = {p1, p2}
    NoFill = NoFill
    NoAmount = NoAmount
    None = None
    Torn = Torn
SPECIFICATION RunSpec
CHECK_DEADLOCK FALSE
INVARIANTS
    LedgerExplainsCash
