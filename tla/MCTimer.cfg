CONSTANTS
    N = 3
    TIME_MOD = 3
SPECIFICATION Spec
INVARIANTS TypeOK NoLostWakeup NoUseAfterFree
PROPERTIES TimeStable NextSlotReturns StopTimerReturns ImplementsBarrier
