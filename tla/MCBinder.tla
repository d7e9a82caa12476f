------------------------------ MODULE MCBinder ------------------------------
(* Two processes: one with a single thread, one with two that share its work. *)
EXTENDS Binder, TLC

CONSTANTS C, S, c1, s1, s2

MCProcs == {C, S}
MCThreads == {c1, s1, s2}
MCProcOf == c1 :> C @@ s1 :> S @@ s2 :> S
ThreadSymmetry == Permutations({s1, s2})
=============================================================================
