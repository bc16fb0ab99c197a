CONSTANTS
    Checkpoints <- Every
    Answerers = {w1, w2}
    Restorer = restorer
    Refusals = {"responded", "running"}
    None = None
SPECIFICATION RestoredSpec
CHECK_DEADLOCK FALSE
INVARIANT NothingReplayed
INVARIANT RunOnce
INVARIANT NotStranded
PROPERTY RunEnds
