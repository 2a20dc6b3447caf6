------------------------------- MODULE RoundShown -------------------------------
(***************************************************************************)
(* The rounds of a room as one of its players is shown them: from which    *)
(* state of GetView to which other the store may take it, as long as the   *)
(* player does not leave.                                                  *)
(***************************************************************************)
EXTENDS Integers

CONSTANT MaxRows    \* RoomState.maxGuesses

\* round is startedAt, 0 in the lobby; done is a status of solved or out.
State(status, round, rows, done, host) ==
    [status |-> status, round |-> round, rows |-> rows, done |-> done, host |-> host]

\* Somebody starts the first or the next round.
MayBegin(s) == s.status \in {"lobby", "finished"}
Begun(s) == State("playing", s.round + 1, 0, FALSE, s.host)

\* This player's guess: the row, and maybe the end of the round.
MayGuess(s) == s.status = "playing" /\ ~s.done
Guessed(s) ==
    {t \in [status : {"playing", "finished"}, round : {s.round}, rows : {s.rows + 1},
            done : BOOLEAN, host : {s.host}] :
        t.status = "finished" \/ t.rows = MaxRows => t.done}

\* Others act, or time passes: a handover of the host, the end of the round.
Met(s) ==
    [status : IF s.status = "playing" THEN {"playing", "finished"} ELSE {s.status},
     round : {s.round}, rows : {s.rows}, done : {s.done}, host : BOOLEAN]
================================================================================
