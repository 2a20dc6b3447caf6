-------------------------------- MODULE PlayPage --------------------------------
(***************************************************************************)
(* frontend/src/app/play/page.tsx: one tab with the single-player page, and *)
(* as much of the server (GameStore has the rest) as it sees.  Of a game   *)
(* the number of its rows is kept and whether it is over.                  *)
(*                                                                         *)
(* The submission guard is that of components/Game.tsx, which is mounted   *)
(* anew for every gameId: a guess of an earlier board is not mine.         *)
(***************************************************************************)
EXTENDS Integers, FiniteSets

CONSTANTS
    Games,      \* the games the server may hand out, by their number
    MaxRows,    \* Game.MaxGuesses
    MaxAsked    \* bound of the model: requests under way at once

ASSUME PlayAssumption ==
    Games \subseteq Nat \ {0} /\ MaxRows \in Nat \ {0} /\ MaxAsked \in Nat

VARIABLES
    game,       \* the server's games
    play        \* the tab

playVars == <<game, play>>

NoGame == 0
Nothing == [id |-> NoGame, rows |-> 0, over |-> FALSE]
Snapshot(g) == [id |-> g, rows |-> game[g].rows, over |-> game[g].over]

Ask(kind, id) == [kind |-> kind, id |-> id, mine |-> TRUE, answer |-> "asked", state |-> Nothing]
PlayKinds == {"get", "create", "reset", "guess"}

\* A document is loaded with a game in its address, or without.
Opened(url) ==
    [url |-> url, shown |-> Nothing, loading |-> TRUE, submitting |-> FALSE, twice |-> FALSE,
     asked |-> {IF url = NoGame THEN Ask("create", NoGame) ELSE Ask("get", url)}]

PlayInit ==
    /\ game = [g \in Games |-> [is |-> "unused", rows |-> 0, over |-> FALSE]]
    /\ play = Opened(NoGame)

--------------------------------------------------------------------------------
(* The server.                                                             *)

\* The next game is created.
createGame(g) ==
    /\ game[g].is = "unused"
    /\ \A h \in Games : game[h].is = "unused" => g <= h
    /\ game' = [game EXCEPT ![g].is = "stored"]

\* A row is written: the last one, or one that solves it, ends the game.
submitGuess(g) ==
    /\ game[g].is = "stored" /\ ~game[g].over
    /\ \E solved \in BOOLEAN :
        game' = [game EXCEPT ![g].rows = @ + 1, ![g].over = solved \/ game[g].rows + 1 = MaxRows]

\* Another tab with the same address goes on with the game.
OtherTab(g) == submitGuess(g) /\ UNCHANGED play

\* The process ends, and all games with it.
Restart ==
    /\ \E g \in Games : game[g].is = "stored"
    /\ game' = [g \in Games |-> [game[g] EXCEPT !.is = IF @ = "stored" THEN "lost" ELSE @]]
    /\ UNCHANGED play

Replies(a, reply, g) ==
    play' = [play EXCEPT !.asked = (@ \ {a}) \union
                {[a EXCEPT !.answer = reply,
                           !.state = IF reply = "ok" THEN Snapshot(g)' ELSE Nothing]}]

\* The server answers request a, refuses it, or is not reached; an answer may
\* also get lost after its work is done.
Replied(a) ==
    /\ a.answer = "asked"
    /\ \/ UNCHANGED game /\ Replies(a, "failed", NoGame)
       \/ /\ a.kind = "get"
          /\ UNCHANGED game
          /\ Replies(a, IF game[a.id].is = "stored" THEN "ok" ELSE "not_found", a.id)
       \/ /\ a.kind \in {"create", "reset"}
          /\ \E g \in Games, reply \in {"ok", "failed"} : createGame(g) /\ Replies(a, reply, g)
       \/ /\ a.kind = "guess"
          /\ submitGuess(a.id)
          /\ \E reply \in {"ok", "failed"} : Replies(a, reply, a.id)

--------------------------------------------------------------------------------
(* The page.                                                               *)

\* setGameState: another gameId remounts the board.
Shows(q, state) ==
    IF state.id = q.shown.id THEN [q EXCEPT !.shown = state]
    ELSE [q EXCEPT !.shown = state, !.submitting = FALSE,
                   !.asked = {[a EXCEPT !.mine = FALSE] : a \in @}]

Names(q, state) == [q EXCEPT !.url = state.id]

Settle(a) == [play EXCEPT !.asked = @ \ {a}]
Comes(a, kind) == a.kind = kind /\ a.answer # "asked" /\ UNCHANGED game

\* init, when the game of the address has been asked for.
getAnswered(a) ==
    /\ Comes(a, "get")
    /\ play' = CASE a.answer = "ok" ->
                        [Shows(Names(Settle(a), a.state), a.state) EXCEPT !.loading = FALSE]
                 [] a.answer = "not_found" ->
                        [Settle(a) EXCEPT !.asked = @ \union {Ask("create", NoGame)}]
                 [] OTHER -> [Settle(a) EXCEPT !.loading = FALSE]

\* init, when a new one has.
createAnswered(a) ==
    /\ Comes(a, "create")
    /\ play' = IF a.answer = "ok"
               THEN [Shows(Names(Settle(a), a.state), a.state) EXCEPT !.loading = FALSE]
               ELSE [Settle(a) EXCEPT !.loading = FALSE]

\* resetGame: the address first, then the state.
resetAnswered(a) ==
    /\ Comes(a, "reset")
    /\ play' = IF a.answer = "ok" THEN Shows(Names(Settle(a), a.state), a.state) ELSE Settle(a)

\* handleSubmit: the state of the answer is shown, whatever is shown by now; a
\* failure is told to the board that submitted.
guessAnswered(a) ==
    /\ Comes(a, "guess")
    /\ LET q == [Settle(a) EXCEPT !.submitting = @ /\ ~a.mine]
       IN  play' = IF a.answer = "ok" THEN Shows(q, a.state) ELSE q

ShowsBoard == ~play.loading /\ play.shown # Nothing
MayAsk == Cardinality(play.asked) < MaxAsked

\* Mutant: the board does not look whether a guess is under way.
handleSubmitAgain ==
    /\ ShowsBoard /\ ~play.shown.over
    /\ MayAsk
    /\ play' = [play EXCEPT !.submitting = TRUE, !.asked = @ \union {Ask("guess", play.shown.id)}]
    /\ UNCHANGED game

\* A word is entered on the board that is shown.
handleSubmit ==
    /\ ShowsBoard /\ ~play.shown.over
    /\ ~play.submitting
    /\ MayAsk
    /\ play' = [play EXCEPT !.submitting = TRUE, !.asked = @ \union {Ask("guess", play.shown.id)}]
    /\ UNCHANGED game

Resets == {a \in play.asked : a.kind = "reset"}

\* Requests that are alike are told apart by a number.
AskAgain ==
    Ask("reset", CHOOSE n \in 0..MaxAsked : \A a \in Resets : a.id # n)

\* Mutant: a new game may be asked for at any time.
resetGameAnytime ==
    /\ ShowsBoard
    /\ MayAsk
    /\ play' = [play EXCEPT !.asked = @ \union {AskAgain},
                            !.twice = @ \/ Resets # {}]
    /\ UNCHANGED game

\* New Game is offered when the game is over, also while one is on its way.
resetGame ==
    /\ ShowsBoard /\ play.shown.over
    /\ MayAsk
    /\ play' = [play EXCEPT !.asked = @ \union {AskAgain},
                            !.twice = @ \/ Resets # {}]
    /\ UNCHANGED game

\* The page is reloaded.
Reload == play' = Opened(play.url) /\ UNCHANGED game

PlayNext ==
    \/ handleSubmit \/ resetGame \/ Reload \/ Restart
    \/ \E g \in Games : OtherTab(g)
    \/ \E a \in play.asked :
        Replied(a) \/ getAnswered(a) \/ createAnswered(a) \/ resetAnswered(a) \/ guessAnswered(a)

PlaySpec == PlayInit /\ [][PlayNext]_playVars

--------------------------------------------------------------------------------
\* The address names the game that is shown, so that a reload or a copy of it
\* comes back to this board: no late answer brings an old game back under the
\* address of a new one, unless New Game was pressed again before it had
\* answered (play/page.tsx:64-65, 80-82, 144).
UrlNamesGame == play.shown # Nothing /\ ~play.twice => play.url = play.shown.id

\* The rows of a board never become fewer while it is shown, although every
\* answer replaces the board and other tabs write the same game
\* (play/page.tsx:65; Game.tsx:264, 281).
BoardNeverShrinks ==
    [][play'.shown.id = play.shown.id => play'.shown.rows >= play.shown.rows \/ Reload]_playVars
================================================================================
