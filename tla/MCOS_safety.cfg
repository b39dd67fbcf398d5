CONSTANTS
    c1 = c1  c2 = c2  c3 = c3
    CPU = {c1, c2, c3}
    ld = ld
    NULL = NULL
    num_processes = 4
    Proc = {1, 2, 3, 4}
    prio <- Prio4
    start_time <- Start4
    size <- Size4
    time_slot = 2
    MAX_PRIO = 2
    MAX_QUEUE_SIZE = 3
    TIME_MOD = 9
SPECIFICATION Spec
INVARIANTS TypeOK OnePlace WorkConserving CPUsSuffice CounterNotAhead FreshSlice
PROPERTIES Completion EndsWhenCounted
