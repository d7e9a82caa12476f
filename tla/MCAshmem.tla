------------------------------ MODULE MCAshmem ------------------------------
(* Ashmem with one area of two or three pages and one of a single page.    *)
(* Symmetry is sound here: nothing that is checked contains an eventuality.*)
EXTENDS Ashmem

CONSTANTS A1, A2

MCAreas == {A1, A2}
MCSizes == (A1 :> {2, 3}) @@ (A2 :> {1})
ThreadSymmetry == Permutations(Threads)
=============================================================================
