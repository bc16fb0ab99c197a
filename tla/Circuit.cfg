CONSTANTS
    c1 = c1
    Calls = {c1, c2}
    FailureThreshold <- MixedThreshold
    OpenDuration <- MixedDuration
    HalfOpenMax <- Ones
    MaxAttempts <- Twos
    FailureCap = 2
    OpenCap = 2
SPECIFICATION Spec
INVARIANT ProbesBounded
INVARIANT NoMixedText
PROPERTY OnlyExhaustionCounts
PROPERTY SlotFreed
