CONSTANTS
    p1 = p1  p2 = p2  p3 = p3  p4 = p4
    NULL = NULL
    Proc = {p1, p2, p3, p4}
    prio <- PrioMixed
    MAX_PRIO = 2
    MAX_QUEUE_SIZE = 2
    NCPU = 1
SPECIFICATION Spec
INVARIANTS TypeOK QueuesExact BoundedOvertaking ExitJustified
PROPERTIES NoStarvation LoopAgrees
