\* The system prompt of an agent whose Memory has been compacted.
SPECIFICATION Spec
CONSTANT Modes = {"task"}
CONSTANT Turns = {t1, t2}
CONSTANT MaxLoops = 2
CONSTANT MaxCalls = 2
CONSTANT MaxCrashes = 1
CONSTANT MaxSystem = 1
CONSTANT MaxMessages = 3
CONSTANT KeepRecent = 2
CONSTANT HardLimit = 6
CONSTANT Capacity = 5
CONSTANT None = None
INVARIANT PromptPresent
\* The runs end.
CHECK_DEADLOCK FALSE
