\* Two runs that ask, two callers that answer; the model may name a question.
SPECIFICATION Spec
CONSTANTS
    Askers = {a1, a2}
    MaxAsks = 1
    Ids = {i1, i2}
    ModelIds = {i1}
    Answerers = {w1, w2}
    Impatient = {w1}
    None = None
INVARIANT AnswerIsOwn
INVARIANT WaitingIsAnswerable
PROPERTY AcceptedIsTaken
PROPERTY CloseReleases
PROPERTY StopEndsWait
\* The runs and the calls end.
CHECK_DEADLOCK FALSE
