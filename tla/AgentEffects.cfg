CONSTANTS
    t1 = t1
    t2 = t2
    q1 = q1
    n1 = n1
    Calls = {t1, t2, q1, n1}
    Kind <- Kinds
    MaxCalls = 2
    MaxLoops = 3
    MaxAttempts = 2
    MaxCrashes = 2
    None = None
SPECIFICATION Spec
CHECK_DEADLOCK FALSE
INVARIANT EffectOnce
INVARIANT EffectsKnown
INVARIANT CostBounded
PROPERTY RunSettles
