CONSTANTS
    StLim = 5
    PollCount = 7
    Limits = {}
    Profiles = {}
    Traces = {}
    ErrLimits = {2}
    SignalAt = {"run"}
    MaxSignals = 1
    MaxStmts = 30
SPECIFICATION Spec
CHECK_DEADLOCK FALSE
INVARIANTS Enforced
