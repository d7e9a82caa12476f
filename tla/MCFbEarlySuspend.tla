-------------------------- MODULE MCFbEarlySuspend --------------------------
(* FbEarlySuspend with the drawing process and up to two watchers.         *)
EXTENDS FbEarlySuspend
=============================================================================
