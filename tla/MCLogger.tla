------------------------------ MODULE MCLogger ------------------------------
(* Logger with a ring of eight cells.  Symmetry is sound here: nothing that *)
(* is checked contains an eventuality.                                     *)
EXTENDS Logger, TLC

WriterSymmetry == Permutations(Writers)
=============================================================================
