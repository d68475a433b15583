CONSTANTS
    s = s
    c = c
    e = e
    Simple = {s}
    Complex = {c}
    Exprs = {e}
    Vars = {"f", "x"}
    Null = ""
    Functions = {"f"}
    Params <- Parameters
    Locals <- LocalNames
    Programs <- PlainOnly
SPECIFICATION Spec
CONSTRAINT OnlyUnconvertible
CHECK_DEADLOCK FALSE
INVARIANT StageTrue
