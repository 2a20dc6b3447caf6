--------------------------------- MODULE Board ---------------------------------
(***************************************************************************)
(* What one player sees and does in a room: components/Game.tsx (the typed *)
(* word, the guard of a submission, the flip of a tile) and the part of    *)
(* app/room/[code]/page.tsx that hosts it (rounds, the finish modal, the   *)
(* notice to a new host, the pending state of a guess).                    *)
(*                                                                         *)
(* The room is the numbered history of the states this player is shown,   *)
(* which follow each other as RoundShown says; RoomPage says how they come. *)
(* Of a row of tiles one column is followed: the others differ in their    *)
(* delays, which are times.  Scored colours are one, "scored": a row keeps *)
(* its colours.  The record b is the page, g its Game; what the effects of *)
(* a render do is part of the step that renders.  Nothing reads word: it   *)
(* says of the word that is typed which row of the board it is already, if *)
(* the server took it, and whether the answer to it was lost.              *)
(***************************************************************************)
EXTENDS RoundShown, Sequences

CONSTANTS
    Length,     \* RoomState.length
    MaxStates,  \* bound of the model: how many states are told apart
    MaxRounds   \* bound of the model: how many rounds are begun

ASSUME BoardAssumption ==
    Length \in Nat \ {0} /\ MaxRows \in Nat \ {0} /\ MaxStates \in Nat \ {0} /\ MaxRounds \in Nat

VARIABLES
    history,    \* what GetView gives this player, state by state
    b,          \* the page
    word        \* history: what has become of the typed word since it was submitted

vars == <<history, b, word>>

Rows == 1 .. MaxRows
Latest == Len(history)
Now == history[Latest]

--------------------------------------------------------------------------------
(* The room, on the server.                                                *)

Becomes(state) == Latest < MaxStates /\ history' = Append(history, state)

BeginsRound == MayBegin(Now) /\ Now.round < MaxRounds /\ Becomes(Begun(Now))

Guesses == MayGuess(Now) /\ \E state \in Guessed(Now) : Becomes(state)

OthersAct ==
    \/ \E state \in Met(Now) : Becomes(state)
    \/ ~Now.host /\ BeginsRound

--------------------------------------------------------------------------------
(* A tile.                                                                 *)

Tile(state) == [display |-> state, prev |-> state, flipping |-> "no", t1 |-> FALSE]

\* Mutant: a flip that was cancelled before it began is not made up for.
flipEffectOnce(tile, state, delayed) ==
    LET t == [tile EXCEPT !.t1 = FALSE, !.prev = state]
    IN  IF state # "scored" \/ tile.prev = state THEN t
        ELSE IF delayed THEN [t EXCEPT !.t1 = TRUE] ELSE [t EXCEPT !.display = state]

\* The flip effect and the renders it causes.  Its cleanup cancels the timer of
\* the run before, so that whichever dependency changes, t1 begins anew or not
\* at all.
flipEffect(tile, state, delayed) ==
    LET t == [tile EXCEPT !.t1 = FALSE, !.prev = state]
    IN  IF state # "scored" THEN t
        ELSE IF tile.prev # state /\ delayed THEN [t EXCEPT !.t1 = TRUE]
        ELSE IF tile.prev # state \/ tile.flipping = "no" THEN [t EXCEPT !.display = state]
        ELSE t

--------------------------------------------------------------------------------
(* The Game.                                                               *)

NoRow == 0
NoBoard == [round |-> 0]
HasBoard(q) == q.game # NoBoard

\* buildGrid, for the column that is followed: the state of row r.
buildGrid(g, s, r) ==
    IF r <= s.rows THEN "scored"
    ELSE IF r = s.rows + 1 /\ ~s.done /\ g.letters > 0 THEN "filled"
    ELSE "empty"

\* A Game is mounted for the round of state s.
NewBoard(s) ==
    [round |-> s.round, letters |-> 0, submitting |-> FALSE, justRevealed |-> NoRow,
     clears |-> 0, prevGuesses |-> s.rows,
     tile |-> [r \in Rows |-> Tile(IF r <= s.rows THEN "scored" ELSE "empty")]]

\* Mutant: without the layout effect.
layoutEffectNone(g, s) == [g EXCEPT !.prevGuesses = s.rows]

\* The layout effect: a row that comes while a guess is under way takes the typed
\* word with it.
layoutEffect(g, s) ==
    [g EXCEPT !.prevGuesses = s.rows,
              !.letters = IF s.rows > g.prevGuesses /\ g.submitting THEN 0 ELSE @]

\* g, as it was with state s, renders as h with state t: the effect of a tile runs
\* when its state or its delay is another.
renderBoard(g, s, h, t) ==
    LET n == layoutEffect(h, t)
        Same(r) == /\ buildGrid(g, s, r) = buildGrid(n, t, r)
                   /\ (g.justRevealed = r) = (n.justRevealed = r)
    IN  [n EXCEPT !.tile = [r \in Rows |->
            IF Same(r) THEN n.tile[r]
            ELSE flipEffect(n.tile[r], buildGrid(n, t, r), n.justRevealed = r)]]

--------------------------------------------------------------------------------
(* The page around it.                                                     *)

Call(kind) == [kind |-> kind, mine |-> TRUE, state |-> 0, is |-> "asked"]

Shown == history[b.shown]
myDone == Shown.done

\* The modal comes back when a round begins.
modalEffect(q, s) ==
    IF s.round # 0 /\ s.round # q.prevStartedAt
    THEN [q EXCEPT !.prevStartedAt = s.round, !.modalDismissed = FALSE] ELSE q

\* The notice to a new host.  Its timer is the effect's, so that the next state,
\* whatever it says, cancels it and the notice stays.
hostEffect(q, s) ==
    [q EXCEPT !.prevYouAreHost = s.host,
              !.promoted = @ \/ (~q.prevYouAreHost /\ s.host),
              !.promotedTimer = ~q.prevYouAreHost /\ s.host]

\* The page q, its Game last rendered as g, renders state v.
show(q, g, v) ==
    LET s == history[v]
        r == hostEffect(modalEffect([q EXCEPT !.shown = v], s), s)
    IN  IF s.status = "lobby" \/ ~HasBoard(q) \/ q.game.round # s.round
        THEN [r EXCEPT !.game = IF s.status = "lobby" THEN NoBoard ELSE NewBoard(s),
                       !.calls = {[c EXCEPT !.mine = FALSE] : c \in @}]
        ELSE [r EXCEPT !.game = renderBoard(g, history[q.shown], @, s)]

\* A step of the Game alone.
Plays(g) ==
    /\ b' = [b EXCEPT !.game = renderBoard(b.game, Shown, g, Shown)]
    /\ UNCHANGED history

\* A word that has not been taken.
Unplayed == [row |-> NoRow, lost |-> FALSE]

\* The page is opened in the lobby, or loaded again when a round is over.
Init ==
    /\ \E host, done \in BOOLEAN :
        history \in {<<State("lobby", 0, 0, FALSE, host)>>, <<State("finished", 1, 1, done, host)>>}
    /\ b = LET s == history[1]
           IN  [shown |-> 1, seen |-> 1, calls |-> {},
                game |-> IF s.status = "lobby" THEN NoBoard ELSE NewBoard(s),
                prevStartedAt |-> s.round, modalDismissed |-> FALSE,
                prevYouAreHost |-> s.host, promoted |-> FALSE, promotedTimer |-> FALSE]
    /\ word = Unplayed

--------------------------------------------------------------------------------
(* The player.                                                             *)

isInputDisabled == myDone \/ Shown.status = "finished"
MayPress == HasBoard(b) /\ ~isInputDisabled /\ ~b.game.submitting

handleLetter ==
    /\ MayPress /\ b.game.letters < Length
    /\ Plays([b.game EXCEPT !.letters = @ + 1])

handleBackspace ==
    /\ MayPress /\ b.game.letters > 0
    /\ Plays([b.game EXCEPT !.letters = @ - 1])

\* Enter, with a whole word; with less of it the row only shakes.
handleEnter ==
    /\ MayPress /\ b.game.letters = Length
    /\ LET g == [b.game EXCEPT !.submitting = TRUE, !.justRevealed = Shown.rows + 1]
       IN  b' = [b EXCEPT !.game = renderBoard(@, Shown, g, Shown),
                          !.calls = @ \union {Call("guess")}]
    /\ UNCHANGED history

Loading(kind) == \E c \in b.calls : c.kind = kind

\* Start Round in the lobby, Next Round on the board or in the modal; the button
\* of each is disabled while its own request is under way.
Asks(kind) ==
    /\ ~Loading(kind)
    /\ b' = [b EXCEPT !.calls = @ \union {Call(kind)}]
    /\ UNCHANGED history

handleStart == Shown.status = "lobby" /\ Shown.host /\ Asks("start")
handleNextRound == Shown.status = "finished" /\ Shown.host /\ Asks("next")

showModal == HasBoard(b) /\ ~b.modalDismissed /\ myDone

onDismiss == showModal /\ b' = [b EXCEPT !.modalDismissed = TRUE] /\ UNCHANGED history

--------------------------------------------------------------------------------
(* Requests, answers and messages.                                         *)

Replies(c, is) ==
    b' = [b EXCEPT !.calls = (@ \ {c}) \union {[c EXCEPT !.is = is, !.state = Len(history)']}]

\* The server does what it is asked for, or refuses; an answer may get lost.
Serve(c) ==
    /\ c.is = "asked"
    /\ \/ UNCHANGED history /\ Replies(c, "failed")
       \/ /\ \/ c.kind = "guess" /\ Guesses
             \/ c.kind \in {"start", "next"} /\ Now.host /\ BeginsRound
          /\ \E is \in {"ok", "lost"} : Replies(c, is)

Without(c) == [b EXCEPT !.calls = @ \ {c}]

roundAnswered(c) ==
    /\ c.kind \in {"start", "next"} /\ c.is # "asked"
    /\ b' = IF c.is = "ok" THEN show(Without(c), b.game, c.state) ELSE Without(c)
    /\ UNCHANGED history

\* Mutant: the answer leaves the typed word.
guessConfirmedKeeping(c) ==
    /\ c.kind = "guess" /\ c.is = "ok"
    /\ b' = LET q == Without(c)
            IN  show(IF c.mine THEN [q EXCEPT !.game.submitting = FALSE, !.game.clears = @ + 1]
                     ELSE q, b.game, c.state)
    /\ UNCHANGED history

\* The guess was taken: in one render the word goes and the pending state comes,
\* into whichever round is shown by now.
guessConfirmed(c) ==
    /\ c.kind = "guess" /\ c.is = "ok"
    /\ b' = LET q == Without(c)
            IN  show(IF c.mine THEN [q EXCEPT !.game.letters = 0, !.game.submitting = FALSE,
                                              !.game.clears = @ + 1]
                     ELSE q, b.game, c.state)
    /\ UNCHANGED history

\* It was not, or so it seems: the word stays for another try.
guessFailed(c) ==
    /\ c.kind = "guess" /\ c.is \in {"failed", "lost"}
    /\ b' = IF c.mine
            THEN [Without(c) EXCEPT !.game = renderBoard(@, Shown,
                        [b.game EXCEPT !.submitting = FALSE, !.justRevealed = NoRow], Shown)]
            ELSE Without(c)
    /\ UNCHANGED history

\* A message of the room's socket.
Receives(v) ==
    /\ v \in b.seen + 1 .. Latest
    /\ b' = show([b EXCEPT !.seen = v], b.game, v)
    /\ UNCHANGED history

--------------------------------------------------------------------------------
(* Timers and animations.                                                  *)

\* A reveal is over; the timer may be that of the row before.
revealEnds ==
    /\ HasBoard(b) /\ b.game.clears > 0
    /\ Plays([b.game EXCEPT !.clears = @ - 1, !.justRevealed = NoRow])

TileSteps(r, tile) ==
    /\ b' = [b EXCEPT !.game.tile[r] =
                flipEffect(tile, buildGrid(b.game, Shown, r), b.game.justRevealed = r)]
    /\ UNCHANGED history

t1Fires(r) ==
    /\ HasBoard(b) /\ b.game.tile[r].t1
    /\ TileSteps(r, [b.game.tile[r] EXCEPT !.flipping = "front", !.t1 = FALSE])

handleAnimationEnd(r) ==
    /\ HasBoard(b) /\ b.game.tile[r].flipping # "no"
    /\ TileSteps(r, IF b.game.tile[r].flipping = "front"
                    THEN [b.game.tile[r] EXCEPT !.display = buildGrid(b.game, Shown, r),
                                                !.flipping = "back"]
                    ELSE [b.game.tile[r] EXCEPT !.flipping = "no"])

promotedEnds ==
    /\ b.promotedTimer
    /\ b' = [b EXCEPT !.promoted = FALSE, !.promotedTimer = FALSE]
    /\ UNCHANGED history

--------------------------------------------------------------------------------
(* The typed word.                                                         *)

\* It is another word, or the same one submitted again.
Types == handleLetter \/ handleBackspace \/ handleEnter
Presses == handleStart \/ handleNextRound \/ onDismiss

\* The guess c of the board became the next row of the round the board is of.
Written(c) ==
    /\ c.kind = "guess" /\ c.mine
    /\ Now.round = b.game.round
    /\ history' # history
Served(c) == word' = IF Written(c) THEN [word EXCEPT !.row = Now.rows + 1] ELSE word

Failed(c) == word' = IF c.mine /\ c.is = "lost" THEN [word EXCEPT !.lost = TRUE] ELSE word

Timers ==
    \/ revealEnds \/ promotedEnds
    \/ \E r \in Rows : t1Fires(r) \/ handleAnimationEnd(r)

Next ==
    \/ Types /\ word' = Unplayed
    \/ Presses /\ UNCHANGED word
    \/ OthersAct /\ UNCHANGED <<b, word>>
    \/ \E c \in b.calls :
        \/ Serve(c) /\ Served(c)
        \/ guessFailed(c) /\ Failed(c)
        \/ (roundAnswered(c) \/ guessConfirmed(c)) /\ UNCHANGED word
    \/ (\E v \in 1 .. MaxStates : Receives(v)) /\ UNCHANGED word
    \/ Timers /\ UNCHANGED word

Spec == Init /\ [][Next]_vars

--------------------------------------------------------------------------------
\* A tile that is scored shows it, unless its flip is still to come or under way:
\* whichever of timers, broadcasts, answers and later submissions cuts a flip
\* short, no tile is left uncoloured (Game.tsx:124-158).
TileSettles ==
    HasBoard(b) => \A r \in Rows :
        LET tile == b.game.tile[r]
        IN  buildGrid(b.game, Shown, r) = "scored" /\ ~tile.t1 /\ tile.flipping = "no"
                => tile.display = "scored"

\* The word that is typed is a row of the board's round.
Played == HasBoard(b) /\ b.game.letters > 0 /\ word.row # NoRow

\* While the answer to a guess is awaited, its word is not typed below the row it has
\* become: when the broadcast of that row comes first, nothing is left of the word in
\* the next row (Game.tsx:234-242).
NoDuplicateRow == Played /\ b.game.submitting => Shown.rows < word.row

\* Once a guess was answered, a word that has become a row is typed no more, whichever
\* broadcasts and rounds came before the answer (Game.tsx:201-207, 293-297).  The one
\* exception is an answer that got lost: the catch keeps the word for another try, and
\* the row it already is shows above it (Game.tsx:300-306).
AnsweredWordGoes == Played /\ ~b.game.submitting => word.lost
================================================================================
