----------------------------- MODULE MCSession -----------------------------
(* A workflow body with one or two goroutines and one fork at most.         *)
EXTENDS Session, TLC

MCSymmetry == Permutations(Callers)
=============================================================================
