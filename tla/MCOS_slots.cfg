CONSTANTS
    c1 = c1  c2 = c2  c3 = c3
    CPU = {c1}
    ld = ld
    NULL = NULL
    num_processes = 2
    Proc = {1, 2}
    prio <- PrioSlot
    start_time <- Start2
    size <- SizeSlot
    time_slot = 3
    MAX_PRIO = 3
    MAX_QUEUE_SIZE = 3
    TIME_MOD = 5
SPECIFICATION Safety
INVARIANTS SlotsLimitSlice
