SPECIFICATION Spec
CONSTANTS
    MAX_TASKS = 4
    NSPAWN = 3
    Syscalls <- IpcCalls
    Lens = {0, 8}
    SleepTicks = {}
    ExitCodes = {7}
    Buffers <- UserBuffer
    Demos <- UntimedDemo
INVARIANTS
    ReadyIsQueued
    AtMostOneStale
    SleepsOnACondition
PROPERTIES
    MailboxSpec
