\* Two matches that start at different depths of the stack.
CONSTANTS
    Patterns <- PosPatterns
    Graph <- PosGraph
    Subjects <- PosSubjects
    PatternVars <- MCPatternVars
    VarNodes <- MCVarNodes
    StringVars <- MCStringVars
    NoAssign = {}
    Bases = {1, 7}
    MaxMatches = 2
    StackSize = 30
    Slack = 20
SPECIFICATION Spec
CHECK_DEADLOCK FALSE
PROPERTIES OnlyFirst
