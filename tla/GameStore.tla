------------------------------- MODULE GameStore -------------------------------
(***************************************************************************)
(* The single-player game: backend/internal/game/store.go and the handlers *)
(* of backend/internal/api/games.go, one game under concurrent requests.   *)
(*                                                                         *)
(* A guess is checked against the dictionary before Store.mu is taken, so  *)
(* other requests run between its check and its row.  A request is a slot  *)
(* of Requests: a tab may be closed, reloaded or open twice.  Words of     *)
(* five letters are model values; a malformed guess is answered at once    *)
(* and changes nothing.                                                    *)
(***************************************************************************)
EXTENDS Integers, Sequences

CONSTANTS
    Requests,   \* requests in flight
    Answers,    \* the words marked is_answer
    Others,     \* other words of the dictionary
    Unknown,    \* five letters the dictionary does not have
    MaxGuesses  \* Game.MaxGuesses (6 in createGame)

ASSUME MaxGuessesAssumption == MaxGuesses \in Nat \ {0}
ASSUME WordsAssumption == "no word" \notin Answers \union Others \union Unknown

VARIABLES
    status,     \* Game.Status, or "none" while the game is not in Store.games
    target,     \* Game.Target
    rows,       \* the words of Game.Guesses
    request     \* what each request is doing, and its answer

vars == <<status, target, rows, request>>

Dictionary == Answers \union Others
Words == Dictionary \union Unknown
NoWord == "no word"

Free == [pc |-> "free"]
Failure(code) == [pc |-> "answered", code |-> code]

Init ==
    /\ status = "none"
    /\ target = NoWord
    /\ rows = <<>>
    /\ request = [r \in Requests |-> Free]

--------------------------------------------------------------------------------
\* Mutant: the target of a game in play shows too.
snapshotShowing(s, t, b) == [status |-> s, rows |-> b, target |-> t]

\* The view of a game with status s, target t and rows b.
snapshotOf(s, t, b) ==
    [status |-> s, rows |-> b, target |-> IF s \in {"won", "lost"} THEN t ELSE NoWord]

Answer(s, t, b) == [pc |-> "answered", code |-> "ok", snap |-> snapshotOf(s, t, b)]

Goes(r, from, to) ==
    /\ request[r].pc = from
    /\ request' = [request EXCEPT ![r] = to]

\* Store.Create picks a target; without one the game is not stored.
Create ==
    /\ status = "none"
    /\ status' = "playing"
    /\ target' \in Answers
    /\ UNCHANGED <<rows, request>>

\* A guess w arrives.
Receive(r, w) ==
    /\ Goes(r, "free", [pc |-> "received", word |-> w])
    /\ UNCHANGED <<status, target, rows>>

\* Repository.IsValidGuess asks the database, which may fail.
IsValidGuess(r) ==
    /\ \/ /\ request[r].pc = "received" /\ request[r].word \in Dictionary
          /\ Goes(r, "received", [request[r] EXCEPT !.pc = "checked"])
       \/ /\ request[r].pc = "received" /\ request[r].word \in Unknown
          /\ Goes(r, "received", Failure("not_a_word"))
       \/ Goes(r, "received", Failure("internal_error"))
    /\ UNCHANGED <<status, target, rows>>

AllGreen(w) == w = target

\* Mutant: one row too many.
AfterRowLate(n, w) ==
    IF AllGreen(w) THEN "won" ELSE IF n > MaxGuesses THEN "lost" ELSE status

\* Mutant: a last row is lost before it is looked at.
AfterRowLost(n, w) ==
    IF n >= MaxGuesses THEN "lost" ELSE IF AllGreen(w) THEN "won" ELSE status

\* Game.Status when the n-th row is w.
AfterRow(n, w) ==
    IF AllGreen(w) THEN "won" ELSE IF n >= MaxGuesses THEN "lost" ELSE status

\* Mutant: the status is not looked at again under the lock.
SubmitUnguarded(r) ==
    /\ \/ /\ status = "none"
          /\ Goes(r, "checked", Failure("not_found"))
          /\ UNCHANGED <<status, rows>>
       \/ /\ status # "none"
          /\ request[r].pc = "checked"
          /\ Len(rows) <= MaxGuesses
          /\ rows' = Append(rows, request[r].word)
          /\ status' = AfterRow(Len(rows'), request[r].word)
          /\ Goes(r, "checked", Answer(status', target, rows'))
    /\ UNCHANGED target

\* Store.SubmitGuess under Store.mu.
SubmitGuess(r) ==
    /\ \/ /\ status = "none"
          /\ Goes(r, "checked", Failure("not_found"))
          /\ UNCHANGED <<status, rows>>
       \/ /\ status \in {"won", "lost"}
          /\ Goes(r, "checked", Failure("game_finished"))
          /\ UNCHANGED <<status, rows>>
       \/ /\ status = "playing"
          /\ request[r].pc = "checked"
          /\ rows' = Append(rows, request[r].word)
          /\ status' = AfterRow(Len(rows'), request[r].word)
          /\ Goes(r, "checked", Answer(status', target, rows'))
    /\ UNCHANGED target

\* Store.Get.
Get(r) ==
    /\ Goes(r, "free", IF status = "none" THEN Failure("not_found")
                       ELSE Answer(status, target, rows))
    /\ UNCHANGED <<status, target, rows>>

\* The client has read its answer, or never will.
Done(r) ==
    /\ Goes(r, "answered", Free)
    /\ UNCHANGED <<status, target, rows>>

Next ==
    \/ Create
    \/ \E r \in Requests :
        \/ \E w \in Words : Receive(r, w)
        \/ IsValidGuess(r) \/ SubmitGuess(r) \/ Get(r) \/ Done(r)

Spec == Init /\ [][Next]_vars

--------------------------------------------------------------------------------
Snaps == {request[r].snap : r \in {q \in Requests : request[q].pc = "answered"
                                                   /\ request[q].code = "ok"}}

TypeOK ==
    /\ status \in {"none", "playing", "won", "lost"}
    /\ target \in Answers \union {NoWord}
    /\ rows \in Seq(Dictionary)
    /\ Len(rows) <= MaxGuesses
    /\ \A r \in Requests : request[r].pc \in {"free", "received", "checked", "answered"}

\* The status tells the board: won exactly when the last row is the target, lost
\* exactly when the board is full of other rows, and nothing ever follows a
\* winning row, whichever requests were checked before the end (store.go:97-123).
StatusTellsBoard ==
    LET hits == {i \in DOMAIN rows : rows[i] = target}
    IN  /\ status = "won" <=> hits = {Len(rows)} /\ rows # <<>>
        /\ status = "lost" <=> hits = {} /\ Len(rows) = MaxGuesses
        /\ hits \subseteq {Len(rows)}

\* Answers that are still on their way disagree about nothing: each is a state
\* the board has been in, so a client that goes by the number of rows can order
\* them; and the target is only in an answer whose own rows end the game
\* (store.go:128-143).
AnswersAgree ==
    \A s \in Snaps :
        /\ s.rows = SubSeq(rows, 1, Len(s.rows))
        /\ s.target # NoWord =>
            s.rows = rows /\ s.target = target /\ status \in {"won", "lost"}

\* However the requests interleave, the board is written as one game.
Contract == INSTANCE GameContract WITH board <- rows, MaxRows <- MaxGuesses

KeepsGame == Contract!Spec
================================================================================
