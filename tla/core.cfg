SPECIFICATION Spec
CONSTANTS
    MAX_TASKS = 3
    NSPAWN = 2
    Syscalls <- EveryCall
    Lens = {40}
    SleepTicks = {1}
    ExitCodes = {7}
    Buffers <- EveryBuffer
    Demos <- TimedDemo
INVARIANTS
    TypeOK
    RunningIsCurrent
    ReadyIsQueued
    ContextIsCurrent
    SleepsOnACondition
PROPERTIES
    OthersKeepTheirPlace
    MailboxSpec
