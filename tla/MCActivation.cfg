CONSTANTS
    Running = {"precheck", "receipt", "candidate", "approval", "writers", "reader"}
    h1 = h1
    h2 = h2
    notHex = notHex
    w1 = w1
    w2 = w2
    q1 = q1
    None = None
SPECIFICATION RunSpec
CHECK_DEADLOCK FALSE
INVARIANTS
    
    
    
    AcceptedGoesBackToOneRun
PROPERTIES
    ArtifactFileIsHonest
