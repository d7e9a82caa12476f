--------------------------- MODULE MCAndroidPower ---------------------------
(* The composed suspend path with one client lock and one handler.         *)
EXTENDS AndroidPower

CONSTANTS MainLockC, UnknownC, LockD, H1

MCLocks == {MainLockC, UnknownC, LockD}
MCHandlers == {H1}
MCLevel == [h \in MCHandlers |-> 100]
MCTimeouts == {1}
MCSleepStates == {"mem"}
=============================================================================
