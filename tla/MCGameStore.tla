------------------------------ MODULE MCGameStore ------------------------------
(* Requests are alike. *)
EXTENDS GameStore, TLC

RequestSymmetry == Permutations(Requests)
================================================================================
