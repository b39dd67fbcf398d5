CONSTANTS
    c1 = c1  c2 = c2  c3 = c3
    CPU = {c1, c2}
    ld = ld
    NULL = NULL
    num_processes = 2
    Proc = {1, 2}
    prio <- Prio2
    start_time <- Start2
    size <- Size2
    time_slot = 2
    MAX_PRIO = 2
    MAX_QUEUE_SIZE = 3
    TIME_MOD = 5
SPECIFICATION Spec
PROPERTIES Termination
