CONSTANTS
    Roots = 2
    MaxFields = 2
    Ids = {1, 2, 3, 4}
    StatBytes = 2
    DynBytes = 10
    MemIncb = 2
    MaxGrowth = 1
    StatReqs = {2}
    MaxStatic = 4
    e_sts = 4
    e_srs = 2
    alfsf = 6
    gbsed = 4
    MaxDepth = 3
SPECIFICATION Spec
CHECK_DEADLOCK FALSE
INVARIANTS Layout Retries
PROPERTIES Compacts OverflowOnlyWhenFull StoreSpec
