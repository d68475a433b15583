\* Some 3,300 patterns with four strings, anchored and not.
CONSTANTS
    Patterns <- MCPatterns
    Graph <- MCGraph
    Subjects <- MCSubjects
    PatternVars <- MCPatternVars
    VarNodes <- MCVarNodes
    StringVars <- MCStringVars
    NoAssign = {"f"}
    Bases = {1}
    MaxMatches = 1
    StackSize = 60
    Slack = 20
SPECIFICATION FairSpec
CHECK_DEADLOCK FALSE
INVARIANTS Promise Nesting
PROPERTIES Ends
