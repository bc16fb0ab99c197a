\* Two runs of one agent, in Task mode and in synchronous mode.
SPECIFICATION Spec
CONSTANT Modes = {"task", "sync"}
CONSTANT Turns = {t1, t2}
CONSTANT MaxLoops = 2
CONSTANT MaxCalls = 2
CONSTANT MaxCrashes = 1
CONSTANT MaxSystem = 1
CONSTANT MaxMessages = 3
CONSTANT KeepRecent = 2
CONSTANT HardLimit = 6
CONSTANT Capacity = 5
CONSTANT None = None
INVARIANT RequestPaired
INVARIANT NothingLost
PROPERTY ConversationFreed
\* The runs end.
CHECK_DEADLOCK FALSE
