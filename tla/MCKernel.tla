------------------------------ MODULE MCKernel ------------------------------
(* Small instances of Kernel for TLC. *)
EXTENDS Kernel

\* Every call, the blocking calls of message passing, and the calls that time bears on.
EveryCall   == AllSyscalls
IpcCalls    == {"sendblk", "recvblk"}
TimedCalls  == {"sleep", "yield", "wait", "recvblk"}

EveryBuffer == {"user", "kernel", "unmapped"}
UserBuffer  == {"user"}

EveryDemo   == BOOLEAN
TimedDemo   == {TRUE}
UntimedDemo == {FALSE}
=============================================================================
