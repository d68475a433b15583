CONSTANTS
    StLim = 5
    PollCount = 20
    Limits = {}
    Profiles = {}
    Traces = {}
    ErrLimits = {2}
    SignalAt = {}
    MaxSignals = 0
    MaxStmts = 30
SPECIFICATION Spec
CHECK_DEADLOCK FALSE
INVARIANTS TenMore
