CONSTANTS
    s = s
    c = c
    e = e
    Simple = {s}
    Complex = {c}
    Exprs = {e}
    Vars = {"f", "x"}
    Null = ""
    Functions = {"f"}
    Params <- Parameters
    Locals <- LocalNames
    Programs <- All
SPECIFICATION Spec
CONSTRAINT NoFault
CHECK_DEADLOCK FALSE
INVARIANTS NotLost FailuresReturn InProgress
PROPERTY CallSpec
