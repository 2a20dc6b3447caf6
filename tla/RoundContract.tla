----------------------------- MODULE RoundContract -----------------------------
(***************************************************************************)
(* What a room promises its players about a round, without saying how:     *)
(* README.md, "When the last player finishes, the round ends               *)
(* automatically" and "a 15-second grace period", and DECISIONS.md on the  *)
(* server as the source of truth.                                          *)
(*                                                                         *)
(*   - a round begins on empty boards, with everyone who is there;         *)
(*   - it goes on as long as somebody acts or has only just dropped, and   *)
(*     the last guess, the last to leave or the last drop to be final ends *)
(*     it: nobody is given up before the grace period is over;             *)
(*   - only somebody who acts writes on a board, on its own, one guess at  *)
(*     a time, and between rounds no board changes;                        *)
(*   - nobody acts in a round that is over.                                *)
(*                                                                         *)
(* Of a player it says no more than whether the round has to wait for it:  *)
(* hosts, clocks and the reasons for which a player is done are left open. *)
(* RoomStore implements this contract.                                     *)
(***************************************************************************)
EXTENDS Integers

CONSTANT Tokens

VARIABLES
    phase,      \* "none", "lobby", "playing" or "finished"
    seats,      \* who has joined
    board,      \* how many guesses each player has on the board, and the solvers
    acting,     \* the players who may guess
    dropped,    \* the players who dropped a moment ago and may still be back in time
    gone        \* the players who left, or whose grace period is over

vars == <<phase, seats, board, acting, dropped, gone>>

EmptyBoard == [count |-> [p \in Tokens |-> 0], solvers |-> {}]

Init ==
    /\ phase = "none"
    /\ seats = {}
    /\ board = EmptyBoard
    /\ acting = {} /\ dropped = {} /\ gone = {}

Present == seats \ (dropped \union gone)

\* What a step leaves of a round that is played: it is over when nobody acts and
\* nobody may still be back in time.
EndsWithLast ==
    phase' = IF phase # "playing" THEN phase
             ELSE IF acting' \union dropped' = {} THEN "finished" ELSE "playing"

\* A room opens, or somebody takes a seat in its lobby.
Sit(p) ==
    /\ p \in Tokens \ seats
    /\ phase \in {"none", "lobby"}
    /\ phase' = "lobby"
    /\ seats' = seats \union {p}
    /\ acting' = acting \union {p}
    /\ UNCHANGED <<board, dropped, gone>>

\* A round begins on empty boards, for everyone who is there.
Begin ==
    /\ phase \in {"lobby", "finished"}
    /\ phase' = "playing"
    /\ board' = EmptyBoard
    /\ acting' = Present
    /\ UNCHANGED <<seats, dropped, gone>>

\* One guess of p, who is done if it solved the word or ran out of guesses.
Guess(p) ==
    /\ phase = "playing"
    /\ p \in acting
    /\ \E solvers \in {board.solvers, board.solvers \union {p}} :
        board' = [count |-> [board.count EXCEPT ![p] = @ + 1], solvers |-> solvers]
    /\ acting' \in {acting, acting \ {p}}
    /\ board'.solvers # board.solvers => p \notin acting'
    /\ EndsWithLast
    /\ UNCHANGED <<seats, dropped, gone>>

\* The connection of p breaks: the round goes on waiting for it.
Drop(p) ==
    /\ p \in IF phase = "finished" THEN Present ELSE acting
    /\ acting' = acting \ {p}
    /\ dropped' = dropped \union {p}
    /\ UNCHANGED <<phase, seats, board, gone>>

\* The grace period of some who dropped is over, which by itself ends nothing.
GiveUp(late) ==
    /\ late \in SUBSET dropped
    /\ dropped' = dropped \ late
    /\ gone' = gone \union late
    /\ UNCHANGED <<phase, seats, board, acting>>

\* That somebody is gone is noticed.
Notice ==
    /\ phase = "playing"
    /\ EndsWithLast
    /\ UNCHANGED <<seats, board, acting, dropped, gone>>

\* p leaves, and nobody waits for it.
Leave(p) ==
    /\ p \in Present
    /\ acting' = acting \ {p}
    /\ gone' = gone \union {p}
    /\ EndsWithLast
    /\ UNCHANGED <<seats, board, dropped>>

\* p is back: it acts again, unless the round was over meanwhile.
Return(p) ==
    /\ p \in dropped \union gone
    /\ acting' = IF phase = "finished" THEN acting ELSE acting \union {p}
    /\ dropped' = dropped \ {p}
    /\ gone' = gone \ {p}
    /\ UNCHANGED <<phase, seats, board>>

\* The room is removed.
Close ==
    /\ phase # "none"
    /\ phase' = "none"
    /\ seats' = {}
    /\ board' = EmptyBoard
    /\ acting' = {} /\ dropped' = {} /\ gone' = {}

Next ==
    \/ \E p \in Tokens : Sit(p) \/ Guess(p) \/ Drop(p) \/ Leave(p) \/ Return(p)
    \/ \E late \in SUBSET dropped : GiveUp(late)
    \/ Begin
    \/ Notice
    \/ Close

Spec == Init /\ [][Next]_vars
================================================================================
