SPECIFICATION FairDemoSpec
CONSTANTS
    MAX_TASKS = 3
    NSPAWN = 2
    Syscalls = {"write", "yield", "send", "recv", "recvblk", "sendblk", "sleep", "exit", "wait"}
    Lens = {2, 5, 6, 7, 8, 9, 10, 12, 13, 17, 97}
    SleepTicks = {3}
    ExitCodes = {7, 8, 9, 10, 13, 17, 42}
    Buffers = {"user"}
    Demos = {TRUE, FALSE}
INVARIANTS
    PrintsAsDescribed
PROPERTIES
    CallsDoTheirWork
    
