------------------------------ MODULE EventFd ------------------------------
(***************************************************************************)
(* src/sys/eventfd.rs over the kernel's eventfd(2): one 64-bit counter per *)
(* descriptor, opened by EventFd::new or with_options with initval 0.  The *)
(* descriptor polls readable exactly when the counter is positive.         *)
(***************************************************************************)
EXTENDS Naturals

CONSTANT MaxCount   \* largest counter value, 0xfffffffffffffffe in the kernel

ASSUME MaxCountAssumption == MaxCount \in Nat \ {0}

VARIABLE count      \* the kernel's counter

InitEventFd == count = 0

\* A write that would push the counter past its maximum is refused with
\* WouldBlock and changes nothing.
WriteFits(val) == count + val <= MaxCount
Write(val) == count' = IF WriteFits(val) THEN count + val ELSE count

\* A read returns the counter and resets it; on a zero counter it is refused
\* with WouldBlock.  The counter is zero afterwards in both cases.
Read == count' = 0

\* With EFD_SEMAPHORE a read takes one.
ReadOne == count' = IF count > 0 THEN count - 1 ELSE 0

PollsReadable == count > 0
=============================================================================
