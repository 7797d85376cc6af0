CONSTANTS
    Running = {"intake", "killed", "handoff", "rounds", "redone rounds"}
    n1 = n1
    n2 = n2
    f1 = f1
    Scout = Scout
    Allocator = Allocator
    None = None
SPECIFICATION RunSpec
SYMMETRY Symmetry
CHECK_DEADLOCK FALSE
PROPERTIES
    SourcesAreAccountedFor
    
    
