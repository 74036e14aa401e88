----------------------------- MODULE UserRange -----------------------------
(***************************************************************************)
(* is_valid_user_range of src/arch/aarch64/user.rs over machine addresses: *)
(* the check that stands between a system call's buffer and the kernel's   *)
(* half of the address space.                                              *)
(***************************************************************************)
EXTENDS Integers

CONSTANTS
  TOP,            \* 2^64, the number of addresses
  KERNEL_BASE     \* 0xFFFF_0000_0000_0000

ASSUME RangeAssumption == TOP \in Nat /\ KERNEL_BASE \in 1 .. TOP - 1

Address == 0 .. TOP - 1

is_valid_wrapping(va, len) ==   \* mutant: wrapping_add
  va < KERNEL_BASE /\ (va + len) % TOP <= KERNEL_BASE

\* checked_add: None past the last address.
is_valid_user_range(va, len) ==
  /\ va < KERNEL_BASE
  /\ len # 0 => va + len < TOP /\ va + len <= KERNEL_BASE

\* The addresses that the copy loops of the system calls dereference.
Touched(va, len) == {(va + i) % TOP : i \in 0 .. len - 1}

\* What the check is for.
RangeExact(va, len) ==
  LET low == 0 .. KERNEL_BASE - 1
  IN  is_valid_user_range(va, len) <=> va \in low /\ Touched(va, len) \subseteq low
=============================================================================
