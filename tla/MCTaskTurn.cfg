CONSTANTS
    Turns = {t1, t2}
    Callers = {w1}
    Nobody = Nobody
    MaxEvents = 1
SPECIFICATION Spec
PROPERTY ContractKept
PROPERTY SinkOrder
PROPERTY StopEnds
CHECK_DEADLOCK FALSE
