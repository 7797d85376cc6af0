CONSTANTS
    Running = {"forward", "backtest", "killswitch", "triggers"}
    Fragment = Fragment
    None = None
SPECIFICATION RunSpec
CHECK_DEADLOCK FALSE
INVARIANTS
    BacktestIsSound
    KillSwitchIsOrderly

    
    
