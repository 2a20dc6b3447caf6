----------------------------- MODULE GameContract -----------------------------
(***************************************************************************)
(* What a single-player game promises, whoever guesses how concurrently:   *)
(* one board, rows appended one at a time until a row is the target or the *)
(* board is full, and then never again.                                    *)
(***************************************************************************)
EXTENDS Integers, Sequences

CONSTANTS Words, MaxRows

VARIABLES target, board

NoWord == "no word"     \* the target before the game exists

Over == Len(board) >= MaxRows \/ \E i \in DOMAIN board : board[i] = target

Init == target = NoWord /\ board = <<>>

Deal == target = NoWord /\ target' \in Words /\ UNCHANGED board

Write ==
    /\ target # NoWord /\ ~Over
    /\ \E w \in Words : board' = Append(board, w)
    /\ UNCHANGED target

Next == Deal \/ Write

Spec == Init /\ [][Next]_<<target, board>>
================================================================================
