SPECIFICATION Spec
CONSTANTS
    MAX_TASKS = 3
    NSPAWN = 2
    Syscalls <- EveryCall
    Lens = {8}
    SleepTicks = {2}
    ExitCodes = {7}
    Buffers <- UserBuffer
    Demos <- EveryDemo
INVARIANTS
    BlockedWaitsForSomething
