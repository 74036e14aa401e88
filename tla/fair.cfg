SPECIFICATION FairSpec
CONSTANTS
    MAX_TASKS = 4
    NSPAWN = 3
    Syscalls <- TimedCalls
    Lens = {8}
    SleepTicks = {2}
    ExitCodes = {7}
    Buffers <- UserBuffer
    Demos <- TimedDemo
PROPERTIES
    NobodyOvertakes
    NobodyOversleeps
    ReadyRuns
    SleeperWakes
