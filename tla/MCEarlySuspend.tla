--------------------------- MODULE MCEarlySuspend ---------------------------
(* EarlySuspend with three handlers: two levels, one without resume hook.  *)
EXTENDS EarlySuspend, TLC

CONSTANTS H1, H2, H3

MCHandlers == {H1, H2, H3}
MCLevel == (H1 :> 50) @@ (H2 :> 100) @@ (H3 :> 100)
MCResumeHook == {H1, H2}
MCSleepStates == {"mem", "standby"}
=============================================================================
