CONSTANTS
    choose = choose
    repeat = repeat
    both = both
    s0 = s0
    s1 = s1
    s2 = s2
    s3 = s3
    None = None
    Nodes <- TreeNodes
    Kind <- TreeKind
    Children <- TreeChildren
    Path <- TreePath
    Workflows <- All
    MaxIter = 3
    MaxWork <- WorkOf
    MaxCrashes <- Crashes
SPECIFICATION Spec
CHECK_DEADLOCK FALSE
PROPERTY EffectsNotRepeated
