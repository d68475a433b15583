CONSTANTS
    StLim = 4
    PollCount = 3
    Limits <- AnyLimits
    Profiles = {0, 1}
    Traces = {TRUE, FALSE}
    ErrLimits = {2}
    SignalAt <- PCs
    MaxSignals = 1
    MaxStmts = 9
SPECIFICATION Spec
CHECK_DEADLOCK FALSE
INVARIANTS TypeOK ExactCount Overrun CountdownInv InterruptSeen
PROPERTIES NotPremature
