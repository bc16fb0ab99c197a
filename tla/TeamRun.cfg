CONSTANTS
    N = 2
    Leader = 0
    Modes <- All
    Crashes <- MCCrashes
    MaxSteps = 2
    None = None
SPECIFICATION Spec
CHECK_DEADLOCK FALSE
INVARIANT AskedIsPending
INVARIANT RunAgainNever
INVARIANT InputIsPredecessors
INVARIANT SuccessIsComplete
INVARIANT QuestionStored
PROPERTY TeamSettles
