----------------------------- MODULE MCWakeLock -----------------------------
(* WakeLock with two suspend locks and one idle lock of its clients.       *)
EXTENDS WakeLock

CONSTANTS
  MainLockC, UnknownC, LockA, LockB, LockI

MCLocks == {MainLockC, UnknownC, LockA, LockB, LockI}
MCSuspendLocks == {MainLockC, UnknownC, LockA, LockB}
MCTimeouts == 0 .. 2
=============================================================================
