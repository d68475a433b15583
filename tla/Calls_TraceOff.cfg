CONSTANTS
    s = s
    c = c
    e = e
    Simple = {s}
    Complex = {c}
    Exprs = {e}
    Vars = {"f", "x"}
    Null = ""
    Functions = {"f"}
    Params <- Parameters
    Locals <- LocalNames
    Programs <- TracingOnly
SPECIFICATION Spec
CONSTRAINT OnlyTrace
CHECK_DEADLOCK FALSE
INVARIANT TraceTrue
