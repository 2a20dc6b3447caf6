------------------------------ MODULE BoardProofs ------------------------------
(***************************************************************************)
(* No tile is left uncoloured, for any number of rows, states and rounds.  *)
(* The flip effect by itself leaves a tile that is settled or has a flip    *)
(* ahead of it, so what is to be shown is that whenever the effect does not *)
(* run, neither the tile nor the colour it should have has changed: for a  *)
(* row of an earlier render, a later state, a late answer alike.           *)
(***************************************************************************)
EXTENDS Board, TLAPS

Colours == {"empty", "filled", "scored"}

StateType ==
    [status : {"lobby", "playing", "finished"}, round : Nat, rows : Nat,
     done : BOOLEAN, host : BOOLEAN]

TileType ==
    [display : Colours, prev : Colours, flipping : {"no", "front", "back"}, t1 : BOOLEAN]

GameType ==
    [round : Nat, letters : Nat, submitting : BOOLEAN, justRevealed : Nat, clears : Nat,
     prevGuesses : Nat, tile : [Rows -> TileType]]

CallType ==
    [kind : {"guess", "start", "next"}, mine : BOOLEAN, state : Nat,
     is : {"asked", "ok", "lost", "failed"}]

PageType ==
    [shown : Nat, seen : Nat, calls : SUBSET CallType, game : GameType \union {NoBoard},
     prevStartedAt : Nat, modalDismissed : BOOLEAN, prevYouAreHost : BOOLEAN,
     promoted : BOOLEAN, promotedTimer : BOOLEAN]

\* A tile with state colour is settled, or has a flip ahead.
TileOK(tile, colour) ==
    colour = "scored" /\ ~tile.t1 /\ tile.flipping = "no" => tile.display = "scored"

Settled(g, s) == \A r \in Rows : TileOK(g.tile[r], buildGrid(g, s, r))

\* An answer that is kept names a state of the room, and a guess is a board's own
\* only as long as there is a board.
CallOK(c, n, g) ==
    /\ c.is = "ok" => c.state \in 1 .. n
    /\ c.kind = "guess" /\ c.mine => g \in GameType

BoardInv ==
    /\ history \in Seq(StateType)
    /\ b \in PageType
    /\ b.shown \in 1 .. Latest
    /\ \A c \in b.calls : CallOK(c, Latest, b.game)
    /\ b.game \in GameType => Settled(b.game, Shown)

--------------------------------------------------------------------------------
(* Tiles and boards.                                                       *)

LEMMA Grid ==
    ASSUME NEW g, NEW s, NEW r
    PROVE  buildGrid(g, s, r) \in Colours
BY DEF buildGrid, Colours

\* Whatever the tile was before.
LEMMA FlipSettles ==
    ASSUME NEW tile \in TileType, NEW colour \in Colours, NEW delayed \in BOOLEAN
    PROVE  /\ flipEffect(tile, colour, delayed) \in TileType
           /\ TileOK(flipEffect(tile, colour, delayed), colour)
<1>. DEFINE t == [tile EXCEPT !.t1 = FALSE, !.prev = colour]
<1>1. /\ t \in TileType /\ ~t.t1 /\ t.flipping = tile.flipping
      /\ [t EXCEPT !.t1 = TRUE] \in TileType /\ [t EXCEPT !.t1 = TRUE].t1
      /\ [t EXCEPT !.display = colour] \in TileType
      /\ [t EXCEPT !.display = colour].display = colour
  BY DEF TileType
<1>2. flipEffect(tile, colour, delayed) =
        IF colour # "scored" THEN t
        ELSE IF tile.prev # colour /\ delayed THEN [t EXCEPT !.t1 = TRUE]
        ELSE IF tile.prev # colour \/ tile.flipping = "no" THEN [t EXCEPT !.display = colour]
        ELSE t
  BY DEF flipEffect
<1>. HIDE DEF t
<1>. QED BY <1>1, <1>2 DEF TileOK

LEMMA NoBoardIsNone == NoBoard \notin GameType
BY DEF NoBoard, GameType

LEMMA NewBoardSettled ==
    ASSUME NEW s \in StateType
    PROVE  NewBoard(s) \in GameType /\ Settled(NewBoard(s), s)
<1>. DEFINE Colour(r) == IF r <= s.rows THEN "scored" ELSE "empty"
<1>1. \A r \in Rows : Tile(Colour(r)) \in TileType
  BY DEF Tile, TileType, Colours
<1>2. NewBoard(s) = [round |-> s.round, letters |-> 0, submitting |-> FALSE,
                     justRevealed |-> NoRow, clears |-> 0, prevGuesses |-> s.rows,
                     tile |-> [r \in Rows |-> Tile(Colour(r))]]
  BY DEF NewBoard
<1>3. s.round \in Nat /\ s.rows \in Nat
  BY DEF StateType
<1>4. NewBoard(s) \in GameType
  BY <1>1, <1>2, <1>3 DEF GameType, NoRow
<1>5. ASSUME NEW r \in Rows, buildGrid(NewBoard(s), s, r) = "scored"
      PROVE  NewBoard(s).tile[r].display = "scored"
  <2>1. r <= s.rows
    BY <1>5 DEF buildGrid
  <2>. QED BY <1>2, <2>1 DEF Tile
<1>. QED BY <1>4, <1>5 DEF Settled, TileOK

\* A render: g is the board as it was rendered last, h what has become of it.
LEMMA RenderSettles ==
    ASSUME NEW g \in GameType, NEW s, Settled(g, s),
           NEW h \in GameType, NEW t \in StateType, h.tile = g.tile
    PROVE  /\ renderBoard(g, s, h, t) \in GameType
           /\ Settled(renderBoard(g, s, h, t), t)
<1>. DEFINE n == layoutEffect(h, t)
            Same(r) == /\ buildGrid(g, s, r) = buildGrid(n, t, r)
                       /\ (g.justRevealed = r) = (n.justRevealed = r)
            f == [r \in Rows |->
                    IF Same(r) THEN n.tile[r]
                    ELSE flipEffect(n.tile[r], buildGrid(n, t, r), n.justRevealed = r)]
            u == [n EXCEPT !.tile = f]
<1>1. renderBoard(g, s, h, t) = u
  BY DEF renderBoard
<1>2. n \in GameType /\ n.tile = g.tile
  BY DEF layoutEffect, GameType, StateType
<1>. HIDE DEF n
<1>3. ASSUME NEW r \in Rows
      PROVE  f[r] \in TileType /\ TileOK(f[r], buildGrid(n, t, r))
  <2>1. n.tile[r] \in TileType /\ n.tile[r] = g.tile[r]
    BY <1>2 DEF GameType
  <2>2. CASE Same(r)
    <3>1. f[r] = g.tile[r]
      BY <2>1, <2>2
    <3>. HIDE DEF f
    <3>. QED BY <2>1, <2>2, <3>1 DEF Settled
  <2>3. CASE ~Same(r)
    <3>1. f[r] = flipEffect(n.tile[r], buildGrid(n, t, r), n.justRevealed = r)
      BY <2>3
    <3>. HIDE DEF f
    <3>. QED BY <2>1, <3>1, FlipSettles, Grid
  <2>. QED BY <2>2, <2>3
<1>4. f = [r \in Rows |-> f[r]]
  OBVIOUS
<1>. HIDE DEF f
<1>5. u \in GameType /\ u.tile = f /\ u.letters = n.letters
  BY <1>2, <1>3, <1>4 DEF GameType
<1>6. \A r \in Rows : buildGrid(u, t, r) = buildGrid(n, t, r)
  BY <1>5 DEF buildGrid
<1>. HIDE DEF u
<1>. QED BY <1>1, <1>3, <1>5, <1>6 DEF Settled

--------------------------------------------------------------------------------
(* The page.                                                               *)

LEMMA EffectsKeepGame ==
    ASSUME NEW q \in PageType, NEW s \in StateType
    PROVE  /\ hostEffect(modalEffect(q, s), s) \in PageType
           /\ hostEffect(modalEffect(q, s), s).shown = q.shown
           /\ hostEffect(modalEffect(q, s), s).game = q.game
           /\ hostEffect(modalEffect(q, s), s).calls = q.calls
<1>. DEFINE m == modalEffect(q, s)
<1>1. m \in PageType /\ m.shown = q.shown /\ m.game = q.game /\ m.calls = q.calls
  BY DEF modalEffect, PageType, StateType
<1>. HIDE DEF m
<1>2. /\ hostEffect(m, s) \in PageType /\ hostEffect(m, s).shown = m.shown
      /\ hostEffect(m, s).game = m.game /\ hostEffect(m, s).calls = m.calls
  BY <1>1 DEF hostEffect, PageType, StateType
<1>. QED BY <1>1, <1>2 DEF m

\* The page q, with the board that was last rendered, renders state v: whether that
\* is newer than the state shown or older.
LEMMA ShowInv ==
    ASSUME BoardInv, UNCHANGED history, NEW v \in 1 .. Latest,
           NEW q \in PageType, q.shown = b.shown,
           q.game = b.game \/ (b.game \in GameType /\ q.game \in GameType /\ q.game.tile = b.game.tile),
           \A c \in q.calls : CallOK(c, Latest, q.game),
           b' = show(q, b.game, v)
    PROVE  BoardInv'
<1>. DEFINE s == history[v]
            r == hostEffect(modalEffect([q EXCEPT !.shown = v], s), s)
            New == s.status = "lobby" \/ ~HasBoard(q) \/ q.game.round # s.round
            fresh == IF s.status = "lobby" THEN NoBoard ELSE NewBoard(s)
            others == {[c EXCEPT !.mine = FALSE] : c \in r.calls}
<1>1. b' = IF New
           THEN [r EXCEPT !.game = fresh, !.calls = others]
           ELSE [r EXCEPT !.game = renderBoard(b.game, history[q.shown], r.game, s)]
  BY DEF show
<1>2. s \in StateType /\ v \in Nat
  BY DEF BoardInv, Latest
<1>3. [q EXCEPT !.shown = v] \in PageType /\ [q EXCEPT !.shown = v].shown = v
      /\ [q EXCEPT !.shown = v].game = q.game /\ [q EXCEPT !.shown = v].calls = q.calls
  BY <1>2 DEF PageType
<1>4. r \in PageType /\ r.shown = v /\ r.game = q.game /\ r.calls = q.calls
  BY <1>2, <1>3, EffectsKeepGame
<1>. HIDE DEF s, r
<1>5. CASE New
  <2>1. fresh \in GameType \union {NoBoard} /\ (fresh \in GameType => Settled(fresh, s))
    BY <1>2, NewBoardSettled, NoBoardIsNone
  <2>2. others \in SUBSET CallType /\ \A c \in others : CallOK(c, Latest, fresh)
    <3>1. ASSUME NEW c \in q.calls
          PROVE  [c EXCEPT !.mine = FALSE] \in CallType
                 /\ CallOK([c EXCEPT !.mine = FALSE], Latest, fresh)
      <4>1. c \in CallType /\ CallOK(c, Latest, q.game)
        BY DEF PageType
      <4>. QED BY <4>1 DEF CallType, CallOK
    <3>. QED BY <1>4, <3>1
  <2>. HIDE DEF fresh, others
  <2>3. b' \in PageType /\ b'.shown = v /\ b'.game = fresh /\ b'.calls = others
    BY <1>1, <1>4, <1>5, <2>1, <2>2 DEF PageType
  <2>. QED BY <2>1, <2>2, <2>3 DEF BoardInv, Shown, Latest, s
<1>6. CASE ~New
  <2>. DEFINE u == renderBoard(b.game, history[q.shown], r.game, s)
  <2>1. q.game \in GameType /\ b.game \in GameType /\ q.game.tile = b.game.tile
    BY <1>6 DEF HasBoard, PageType
  <2>2. u \in GameType /\ Settled(u, s)
    BY <1>2, <1>4, <2>1, RenderSettles DEF BoardInv, Shown
  <2>. HIDE DEF u
  <2>3. b' \in PageType /\ b'.shown = v /\ b'.game = u /\ b'.calls = q.calls
    BY <1>1, <1>4, <1>6, <2>2 DEF PageType, u
  <2>4. \A c \in q.calls : CallOK(c, Latest, u)
    BY <2>2 DEF CallOK
  <2>. QED BY <2>2, <2>3, <2>4 DEF BoardInv, Shown, Latest, s
<1>. QED BY <1>5, <1>6

\* The page renders the state it shows once more, with g for its board.
LEMMA PlaysInv ==
    ASSUME BoardInv, UNCHANGED history, b.game \in GameType,
           NEW g \in GameType, g.tile = b.game.tile,
           NEW calls \in SUBSET CallType, \A c \in calls : CallOK(c, Latest, b.game),
           b' = [b EXCEPT !.game = renderBoard(b.game, Shown, g, Shown), !.calls = calls]
    PROVE  BoardInv'
<1>. DEFINE u == renderBoard(b.game, Shown, g, Shown)
<1>1. Shown \in StateType /\ Settled(b.game, Shown)
  BY DEF BoardInv, Shown, Latest
<1>2. u \in GameType /\ Settled(u, Shown)
  BY <1>1, RenderSettles
<1>. HIDE DEF u
<1>3. b' \in PageType /\ b'.shown = b.shown /\ b'.game = u /\ b'.calls = calls
  BY <1>2 DEF BoardInv, PageType, u
<1>4. \A c \in calls : CallOK(c, Latest, u)
  BY <1>2 DEF CallOK
<1>. QED BY <1>2, <1>3, <1>4 DEF BoardInv, Shown, Latest

\* Everything but the board's tiles and the state shown changes.
LEMMA KeepsInv ==
    ASSUME BoardInv, UNCHANGED history, b' \in PageType, b'.shown = b.shown, b'.game = b.game,
           \A c \in b'.calls : CallOK(c, Latest, b.game)
    PROVE  BoardInv'
BY DEF BoardInv, Shown, Latest

\* The room gets another state.
LEMMA BecomesInv ==
    ASSUME BoardInv, NEW s \in StateType, Becomes(s), b' \in PageType, b'.shown = b.shown,
           b'.game = b.game, \A c \in b'.calls : CallOK(c, Latest + 1, b.game)
    PROVE  BoardInv'
<1>1. history' \in Seq(StateType) /\ Latest' = Latest + 1 /\ Latest \in Nat
      /\ \A v \in 1 .. Latest : history'[v] = history[v]
  BY DEF BoardInv, Becomes, Latest
<1>2. Shown' = Shown
  BY <1>1 DEF BoardInv, Shown
<1>. QED BY <1>1, <1>2 DEF BoardInv

--------------------------------------------------------------------------------
(* The steps.                                                              *)

LEMMA InitBoardInv ==
    ASSUME Init
    PROVE  BoardInv
<1>1. PICK host \in BOOLEAN, done \in BOOLEAN :
        history \in {<<State("lobby", 0, 0, FALSE, host)>>, <<State("finished", 1, 1, done, host)>>}
  BY DEF Init
<1>2. history[1] \in StateType /\ Latest = 1 /\ history \in Seq(StateType)
  <2>1. /\ State("lobby", 0, 0, FALSE, host) \in StateType
        /\ State("finished", 1, 1, done, host) \in StateType
    BY DEF State, StateType
  <2>2. PICK s \in StateType : history = <<s>>
    BY <1>1, <2>1
  <2>. QED BY <2>2 DEF Latest
<1>. DEFINE s == history[1]
            fresh == IF s.status = "lobby" THEN NoBoard ELSE NewBoard(s)
<1>3. b = [shown |-> 1, seen |-> 1, calls |-> {}, game |-> fresh, prevStartedAt |-> s.round,
           modalDismissed |-> FALSE, prevYouAreHost |-> s.host, promoted |-> FALSE,
           promotedTimer |-> FALSE]
  BY Zenon DEF Init
<1>. s \in StateType
  BY <1>2
<1>. HIDE DEF s
<1>4. fresh \in GameType \union {NoBoard} /\ (fresh \in GameType => Settled(fresh, s))
  BY NewBoardSettled, NoBoardIsNone
<1>. HIDE DEF fresh
<1>5. b \in PageType
  BY <1>3, <1>4 DEF PageType, StateType
<1>. QED BY <1>2, <1>3, <1>4, <1>5 DEF BoardInv, Shown, s

\* State t is of a later round than s, or of the same round with no fewer rows.
After(s, t) == s.round < t.round \/ (s.round = t.round /\ s.rows <= t.rows)

\* Whatever happens in the room is one more state.
LEMMA RoomBecomes ==
    ASSUME BoardInv, BeginsRound \/ Guesses \/ OthersAct
    PROVE  \E s \in StateType : Becomes(s) /\ After(Now, s)
<1>1. Now \in StateType
  BY DEF BoardInv, Now, Latest
<1>2. Begun(Now) \in StateType /\ After(Now, Begun(Now))
  BY <1>1 DEF Begun, State, StateType, After
<1>3. \A s \in Guessed(Now) : s \in StateType /\ After(Now, s)
  BY <1>1 DEF Guessed, StateType, After
<1>4. \A s \in Met(Now) : s \in StateType /\ After(Now, s)
  BY <1>1 DEF Met, StateType, After
<1>. QED BY <1>2, <1>3, <1>4 DEF BeginsRound, Guesses, OthersAct

LEMMA PlayerInv ==
    ASSUME BoardInv, Types \/ Presses
    PROVE  BoardInv'
<1>1. b \in PageType /\ \A c \in b.calls : CallOK(c, Latest, b.game)
  BY DEF BoardInv
<1>2. MayPress => b.game \in GameType
  BY <1>1 DEF MayPress, HasBoard, PageType
<1>3. Shown \in StateType
  BY DEF BoardInv, Shown, Latest
<1>4. b.calls \in SUBSET CallType
  BY <1>1 DEF PageType
<1>5. ASSUME NEW g \in GameType, g.tile = b.game.tile, b.game \in GameType, Plays(g)
      PROVE  BoardInv'
  <2>1. b' = [b EXCEPT !.game = renderBoard(b.game, Shown, g, Shown), !.calls = b.calls]
    BY <1>1, <1>5 DEF Plays, PageType
  <2>. QED BY <1>1, <1>4, <1>5, <2>1, PlaysInv DEF Plays
<1>6. CASE handleLetter
  <2>1. [b.game EXCEPT !.letters = @ + 1] \in GameType
        /\ [b.game EXCEPT !.letters = @ + 1].tile = b.game.tile
    BY <1>2, <1>6 DEF handleLetter, GameType
  <2>. QED BY <1>2, <1>5, <1>6, <2>1 DEF handleLetter
<1>7. CASE handleBackspace
  <2>1. [b.game EXCEPT !.letters = @ - 1] \in GameType
        /\ [b.game EXCEPT !.letters = @ - 1].tile = b.game.tile
    BY <1>2, <1>7 DEF handleBackspace, GameType
  <2>. QED BY <1>2, <1>5, <1>7, <2>1 DEF handleBackspace
<1>8. CASE handleEnter
  <2>. DEFINE g == [b.game EXCEPT !.submitting = TRUE, !.justRevealed = Shown.rows + 1]
              call == Call("guess")
              calls == b.calls \union {call}
  <2>1. g \in GameType /\ g.tile = b.game.tile
    <3>1. Shown.rows + 1 \in Nat /\ b.game \in GameType
      BY <1>2, <1>3, <1>8 DEF handleEnter, StateType
    <3>. QED BY <3>1 DEF GameType
  <2>2. call \in CallType /\ CallOK(call, Latest, b.game)
    BY <1>2, <1>3, <1>8 DEF handleEnter, Call, CallType, StateType, CallOK
  <2>3. b' = [b EXCEPT !.game = renderBoard(b.game, Shown, g, Shown), !.calls = calls]
    BY <1>1, <1>8 DEF handleEnter, PageType
  <2>4. calls \in SUBSET CallType /\ \A c \in calls : CallOK(c, Latest, b.game)
    BY <1>1, <1>4, <2>2
  <2>. HIDE DEF g, calls
  <2>. QED BY <1>2, <1>8, <2>1, <2>3, <2>4, PlaysInv DEF handleEnter
<1>9. ASSUME NEW kind \in {"start", "next"}, Asks(kind)
      PROVE  BoardInv'
  <2>1. Call(kind) \in CallType /\ CallOK(Call(kind), Latest, b.game)
    BY DEF Call, CallType, CallOK
  <2>2. b' \in PageType /\ b'.shown = b.shown /\ b'.game = b.game
        /\ b'.calls = b.calls \union {Call(kind)}
    BY <1>1, <1>9, <2>1 DEF Asks, PageType
  <2>. QED BY <1>1, <1>9, <2>1, <2>2, KeepsInv DEF Asks
<1>10. CASE onDismiss
  <2>1. b' \in PageType /\ b'.shown = b.shown /\ b'.game = b.game /\ b'.calls = b.calls
    BY <1>1, <1>10 DEF onDismiss, PageType
  <2>. QED BY <1>1, <1>10, <2>1, KeepsInv DEF onDismiss
<1>. QED BY <1>6, <1>7, <1>8, <1>9, <1>10 DEF Types, Presses, handleStart, handleNextRound

\* A request reaches the server.
LEMMA ServeInv ==
    ASSUME BoardInv, NEW c \in b.calls, Serve(c)
    PROVE  BoardInv'
<1>1. /\ b \in PageType /\ \A d \in b.calls : CallOK(d, Latest, b.game)
      /\ c \in CallType /\ b.calls \in SUBSET CallType /\ Latest \in Nat
  BY DEF BoardInv, PageType, Latest
<1>2. ASSUME NEW is \in {"ok", "lost", "failed"}, Replies(c, is), NEW n \in Nat, Latest' = n,
             n \in 1 .. n, n >= Latest
      PROVE  /\ b' \in PageType /\ b'.shown = b.shown /\ b'.game = b.game
             /\ \A d \in b'.calls : CallOK(d, n, b.game)
  <2>. DEFINE a == [c EXCEPT !.is = is, !.state = n]
              calls == (b.calls \ {c}) \union {a}
  <2>1. b' = [b EXCEPT !.calls = calls]
    BY <1>1, <1>2 DEF Replies, Latest, PageType
  <2>2. a \in CallType /\ CallOK(a, n, b.game)
    BY <1>1, <1>2 DEF CallType, CallOK
  <2>3. \A d \in b.calls : CallOK(d, n, b.game)
    BY <1>1, <1>2 DEF CallOK
  <2>. HIDE DEF a
  <2>4. calls \in SUBSET CallType /\ \A d \in calls : CallOK(d, n, b.game)
    BY <1>1, <2>2, <2>3
  <2>. HIDE DEF calls
  <2>. QED BY <1>1, <2>1, <2>4 DEF PageType
<1>3. CASE UNCHANGED history /\ Replies(c, "failed")
  <2>1. Latest' = Latest /\ Latest \in 1 .. Latest
    BY <1>1, <1>3 DEF Latest, BoardInv
  <2>. QED BY <1>1, <1>2, <1>3, <2>1, KeepsInv
<1>4. ASSUME NEW is \in {"ok", "lost"}, Replies(c, is), BeginsRound \/ Guesses
      PROVE  BoardInv'
  <2>1. PICK s \in StateType : Becomes(s)
    BY <1>4, RoomBecomes
  <2>2. Latest' = Latest + 1 /\ Latest + 1 \in 1 .. Latest + 1
    BY <1>1, <2>1 DEF Becomes, Latest, BoardInv
  <2>. QED BY <1>1, <1>2, <1>4, <2>1, <2>2, BecomesInv
<1>. QED BY <1>3, <1>4 DEF Serve

\* What Without leaves.
LEMMA WithoutKeeps ==
    ASSUME BoardInv, NEW c \in b.calls
    PROVE  /\ Without(c) \in PageType
           /\ Without(c).shown = b.shown /\ Without(c).game = b.game
           /\ Without(c).calls = b.calls \ {c}
           /\ \A d \in b.calls \ {c} : CallOK(d, Latest, b.game)
BY DEF BoardInv, Without, PageType

LEMMA AnswersInv ==
    ASSUME BoardInv, NEW c \in b.calls, roundAnswered(c) \/ guessConfirmed(c) \/ guessFailed(c)
    PROVE  BoardInv'
<1>. DEFINE q == Without(c)
<1>1. /\ q \in PageType /\ q.shown = b.shown /\ q.game = b.game /\ q.calls = b.calls \ {c}
      /\ \A d \in q.calls : CallOK(d, Latest, b.game)
  BY WithoutKeeps
<1>2. CallOK(c, Latest, b.game)
  BY DEF BoardInv
<1>3. CASE roundAnswered(c)
  <2>1. CASE c.is = "ok"
    <3>1. b' = show(q, b.game, c.state) /\ c.state \in 1 .. Latest /\ UNCHANGED history
      BY <1>2, <1>3, <2>1 DEF roundAnswered, CallOK
    <3>. HIDE DEF q
    <3>. QED BY <1>1, <3>1, ShowInv
  <2>2. CASE c.is # "ok"
    <3>1. b' = q /\ UNCHANGED history
      BY <1>3, <2>2 DEF roundAnswered
    <3>. HIDE DEF q
    <3>. QED BY <1>1, <3>1, KeepsInv
  <2>. QED BY <2>1, <2>2
<1>4. CASE guessConfirmed(c)
  <2>. DEFINE h == [b.game EXCEPT !.letters = 0, !.submitting = FALSE, !.clears = @ + 1]
              r == IF c.mine THEN [q EXCEPT !.game = h] ELSE q
  <2>1. b' = show(r, b.game, c.state) /\ c.state \in 1 .. Latest /\ UNCHANGED history
    <3>1. [q EXCEPT !.game.letters = 0, !.game.submitting = FALSE, !.game.clears = @ + 1] =
            [q EXCEPT !.game = h]
      BY <1>1 DEF PageType
    <3>. QED BY <1>2, <1>4, <3>1 DEF guessConfirmed, CallOK
  <2>2. c.mine => b.game \in GameType /\ h \in GameType /\ h.tile = b.game.tile
    <3>1. c.mine => b.game \in GameType
      BY <1>2, <1>4 DEF guessConfirmed, CallOK
    <3>2. ASSUME b.game \in GameType
          PROVE  h \in GameType /\ h.tile = b.game.tile
      <4>1. b.game.clears + 1 \in Nat
        BY <3>2 DEF GameType
      <4>. QED BY <3>2, <4>1 DEF GameType
    <3>. QED BY <3>1, <3>2
  <2>. HIDE DEF q, h
  <2>3. /\ r \in PageType /\ r.shown = b.shown /\ r.calls = q.calls
        /\ r.game = IF c.mine THEN h ELSE b.game
    BY <1>1, <2>2 DEF PageType
  <2>. HIDE DEF r
  <2>4. \A d \in r.calls : CallOK(d, Latest, r.game)
    BY <1>1, <2>2, <2>3 DEF CallOK
  <2>. QED BY <2>1, <2>2, <2>3, <2>4, ShowInv
<1>5. CASE guessFailed(c)
  <2>1. CASE c.mine
    <3>. DEFINE g == [b.game EXCEPT !.submitting = FALSE, !.justRevealed = NoRow]
    <3>1. b.game \in GameType /\ g \in GameType /\ g.tile = b.game.tile
      BY <1>2, <1>5, <2>1 DEF guessFailed, CallOK, GameType, NoRow
    <3>2. b' = [q EXCEPT !.game = renderBoard(b.game, Shown, g, Shown)] /\ UNCHANGED history
      BY <1>1, <1>5, <2>1 DEF guessFailed
    <3>. HIDE DEF g
    <3>3. b' = [b EXCEPT !.game = renderBoard(b.game, Shown, g, Shown), !.calls = b.calls \ {c}]
      BY <3>2 DEF Without, BoardInv, PageType
    <3>4. b.calls \ {c} \in SUBSET CallType
      BY DEF BoardInv, PageType
    <3>. QED BY <1>1, <3>1, <3>2, <3>3, <3>4, PlaysInv
  <2>2. CASE ~c.mine
    <3>1. b' = q /\ UNCHANGED history
      BY <1>5, <2>2 DEF guessFailed
    <3>. HIDE DEF q
    <3>. QED BY <1>1, <3>1, KeepsInv
  <2>. QED BY <2>1, <2>2
<1>. QED BY <1>3, <1>4, <1>5

LEMMA ReceivesInv ==
    ASSUME BoardInv, NEW v, Receives(v)
    PROVE  BoardInv'
<1>. DEFINE q == [b EXCEPT !.seen = v]
<1>1. v \in 1 .. Latest /\ UNCHANGED history /\ b' = show(q, b.game, v)
  BY DEF Receives, BoardInv, PageType, Latest
<1>2. /\ q \in PageType /\ q.shown = b.shown /\ q.game = b.game /\ q.calls = b.calls
      /\ \A c \in b.calls : CallOK(c, Latest, b.game)
  BY <1>1 DEF BoardInv, PageType
<1>. HIDE DEF q
<1>. QED BY <1>1, <1>2, ShowInv

\* A timer or an animation of one tile: the effect has the last word.
LEMMA TileStepsInv ==
    ASSUME BoardInv, NEW r \in Rows, NEW tile \in TileType, b.game \in GameType, TileSteps(r, tile)
    PROVE  BoardInv'
<1>. DEFINE colour == buildGrid(b.game, Shown, r)
            t == flipEffect(tile, colour, b.game.justRevealed = r)
            g == [b.game EXCEPT !.tile = [@ EXCEPT ![r] = t]]
<1>1. b' = [b EXCEPT !.game = g] /\ UNCHANGED history
  BY DEF TileSteps, BoardInv, PageType
<1>2. t \in TileType /\ TileOK(t, colour)
  BY FlipSettles, Grid
<1>. HIDE DEF t, colour
<1>3. /\ g \in GameType /\ g.letters = b.game.letters
      /\ \A k \in Rows : g.tile[k] = IF k = r THEN t ELSE b.game.tile[k]
  BY <1>2 DEF GameType
<1>. HIDE DEF g
<1>4. \A k \in Rows : buildGrid(g, Shown, k) = buildGrid(b.game, Shown, k)
  BY <1>3 DEF buildGrid
<1>5. Settled(g, Shown)
  BY <1>2, <1>3, <1>4 DEF BoardInv, Settled, colour
<1>6. b' \in PageType /\ b'.shown = b.shown /\ b'.game = g /\ b'.calls = b.calls
  BY <1>1, <1>3 DEF BoardInv, PageType
<1>7. \A c \in b.calls : CallOK(c, Latest, g)
  BY <1>3 DEF BoardInv, CallOK
<1>. QED BY <1>1, <1>3, <1>5, <1>6, <1>7 DEF BoardInv, Shown, Latest

LEMMA TimersInv ==
    ASSUME BoardInv,
           \/ revealEnds \/ promotedEnds
           \/ \E r \in Rows : t1Fires(r) \/ handleAnimationEnd(r)
    PROVE  BoardInv'
<1>1. /\ b \in PageType /\ \A c \in b.calls : CallOK(c, Latest, b.game)
      /\ b.calls \in SUBSET CallType
      /\ HasBoard(b) => b.game \in GameType
  BY DEF BoardInv, PageType, HasBoard
<1>2. CASE revealEnds
  <2>. DEFINE g == [b.game EXCEPT !.clears = @ - 1, !.justRevealed = NoRow]
  <2>1. b.game \in GameType /\ g \in GameType /\ g.tile = b.game.tile
    <3>1. b.game \in GameType /\ b.game.clears > 0
      BY <1>1, <1>2 DEF revealEnds
    <3>2. b.game.clears - 1 \in Nat
      BY <3>1 DEF GameType
    <3>. QED BY <3>1, <3>2 DEF GameType, NoRow
  <2>2. b' = [b EXCEPT !.game = renderBoard(b.game, Shown, g, Shown), !.calls = b.calls]
        /\ UNCHANGED history
    BY <1>1, <1>2 DEF revealEnds, Plays, PageType
  <2>. HIDE DEF g
  <2>. QED BY <1>1, <2>1, <2>2, PlaysInv
<1>3. CASE promotedEnds
  <2>1. b' \in PageType /\ b'.shown = b.shown /\ b'.game = b.game /\ b'.calls = b.calls
    BY <1>1, <1>3 DEF promotedEnds, PageType
  <2>. QED BY <1>1, <1>3, <2>1, KeepsInv DEF promotedEnds
<1>4. ASSUME NEW r \in Rows, t1Fires(r)
      PROVE  BoardInv'
  <2>1. b.game \in GameType
    BY <1>1, <1>4 DEF t1Fires
  <2>2. [b.game.tile[r] EXCEPT !.flipping = "front", !.t1 = FALSE] \in TileType
    BY <2>1 DEF GameType, TileType
  <2>. QED BY <1>4, <2>1, <2>2, TileStepsInv DEF t1Fires
<1>5. ASSUME NEW r \in Rows, handleAnimationEnd(r)
      PROVE  BoardInv'
  <2>1. b.game \in GameType /\ b.game.tile[r] \in TileType
    BY <1>1, <1>5 DEF handleAnimationEnd, GameType
  <2>. DEFINE front == [b.game.tile[r] EXCEPT !.display = buildGrid(b.game, Shown, r),
                                              !.flipping = "back"]
              back == [b.game.tile[r] EXCEPT !.flipping = "no"]
  <2>2. front \in TileType /\ back \in TileType
    BY <2>1, Grid DEF TileType
  <2>3. TileSteps(r, IF b.game.tile[r].flipping = "front" THEN front ELSE back)
    BY <1>5 DEF handleAnimationEnd
  <2>. HIDE DEF front, back
  <2>. QED BY <2>1, <2>2, <2>3, TileStepsInv
<1>. QED BY <1>2, <1>3, <1>4, <1>5

LEMMA NextBoardInv ==
    ASSUME BoardInv, [Next]_vars
    PROVE  BoardInv'
<1>1. CASE OthersAct /\ UNCHANGED b
  <2>1. PICK s \in StateType : Becomes(s)
    BY <1>1, RoomBecomes
  <2>2. \A c \in b.calls : CallOK(c, Latest + 1, b.game)
    BY DEF BoardInv, CallOK, Latest
  <2>. QED BY <1>1, <2>1, <2>2, BecomesInv DEF BoardInv
<1>2. CASE UNCHANGED vars
  BY <1>2 DEF vars, BoardInv, Shown, Latest
<1>. QED BY <1>1, <1>2, PlayerInv, ServeInv, AnswersInv, ReceivesInv, TimersInv
   DEF Next, Timers

\* The typing of the page, and what answers and boards have to do with each other.
THEOREM BoardInvariance == Spec => []BoardInv
<1>1. Init => BoardInv
  BY InitBoardInv
<1>2. BoardInv /\ [Next]_vars => BoardInv'
  BY NextBoardInv
<1>. QED BY <1>1, <1>2, PTL DEF Spec

\* A tile that is scored shows it, unless its flip is still to come or under way,
\* whatever cuts a flip short (Game.tsx:124-158).
THEOREM TilesSettle == Spec => []TileSettles
<1>1. BoardInv => TileSettles
  BY DEF BoardInv, PageType, HasBoard, TileSettles, Settled, TileOK
<1>. QED BY <1>1, BoardInvariance, PTL

--------------------------------------------------------------------------------
(* The typed word and the row it becomes.                                  *)

Pending(c) == c.kind = "guess" /\ c.mine

WordType == [row : Nat, lost : BOOLEAN]

\* The states of the room are in the order of its rounds and of this player's rows.
Ordered == \A v \in 1 .. Latest : After(history[v], Now)

\* What board g, rendered with state s, may have typed when the word has become w.
WordOK(g, s, w) ==
    /\ g.letters > 0 /\ w.row # NoRow /\ ~w.lost => g.submitting /\ s.rows < w.row
    /\ w.lost => ~g.submitting

\* A board's own guess is under way: the board is submitting, and as long as the
\* server did not take the guess its word is no row.
GuessOK(c, g, w) ==
    Pending(c) => /\ g.submitting
                  /\ c.is \in {"asked", "failed"} => w = Unplayed

OneGuess(calls) == \A c, d \in calls : Pending(c) /\ Pending(d) => c = d

\* The board knows the round and how many rows it has shown, one guess at most is
\* under way, and the word goes with the first sign of its row.
WordInv ==
    /\ word \in WordType
    /\ b.game \in GameType =>
        /\ b.game.prevGuesses = Shown.rows
        /\ b.game.round = Shown.round
        /\ WordOK(b.game, Shown, word)
    /\ \A c \in b.calls : GuessOK(c, b.game, word)
    /\ OneGuess(b.calls)

--------------------------------------------------------------------------------
(* The order of the room's states.                                         *)

\* A step is no step of the room, or gives it one more state.
LEMMA HistoryStep ==
    ASSUME BoardInv, [Next]_vars
    PROVE  UNCHANGED history \/ \E s \in StateType : Becomes(s) /\ After(Now, s)
<1>1. ASSUME Types \/ Presses
      PROVE  UNCHANGED history
  BY <1>1 DEF Types, Presses, handleLetter, handleBackspace, handleEnter, handleStart,
              handleNextRound, onDismiss, Plays, Asks
<1>2. ASSUME Timers
      PROVE  UNCHANGED history
  BY <1>2 DEF Timers, revealEnds, promotedEnds, t1Fires, handleAnimationEnd, Plays, TileSteps
<1>3. ASSUME NEW c \in b.calls, guessFailed(c) \/ roundAnswered(c) \/ guessConfirmed(c)
      PROVE  UNCHANGED history
  BY <1>3 DEF guessFailed, roundAnswered, guessConfirmed
<1>4. ASSUME NEW c \in b.calls, Serve(c), ~UNCHANGED history
      PROVE  \E s \in StateType : Becomes(s) /\ After(Now, s)
  BY <1>4, RoomBecomes DEF Serve
<1>5. ASSUME NEW v, Receives(v)
      PROVE  UNCHANGED history
  BY <1>5 DEF Receives
<1>. QED BY <1>1, <1>2, <1>3, <1>4, <1>5, RoomBecomes DEF Next, vars

LEMMA OrderedStep ==
    ASSUME BoardInv, Ordered, [Next]_vars
    PROVE  Ordered'
<1>1. CASE UNCHANGED history
  BY <1>1 DEF Ordered, Now, Latest
<1>2. ASSUME NEW s \in StateType, Becomes(s), After(Now, s)
      PROVE  Ordered'
  <2>1. /\ Latest \in Nat /\ Latest' = Latest + 1 /\ Now' = s
        /\ \A v \in 1 .. Latest : history'[v] = history[v] /\ history[v] \in StateType
    BY <1>2 DEF BoardInv, Becomes, Latest, Now
  <2>2. Now \in StateType
    BY DEF BoardInv, Now, Latest
  <2>3. ASSUME NEW v \in 1 .. Latest + 1
        PROVE  After(history'[v], s)
    <3>1. CASE v = Latest + 1
      <4>1. history'[v] = s
        BY <2>1, <3>1 DEF Now
      <4>. QED BY <4>1 DEF After, StateType
    <3>2. CASE v \in 1 .. Latest
      <4>1. After(history[v], Now) /\ history'[v] = history[v] /\ history[v] \in StateType
        BY <2>1, <3>2 DEF Ordered
      <4>. QED BY <1>2, <2>2, <4>1 DEF After, StateType
    <3>. QED BY <2>1, <3>1, <3>2
  <2>. QED BY <2>1, <2>3 DEF Ordered
<1>. QED BY <1>1, <1>2, HistoryStep

--------------------------------------------------------------------------------
(* The word through renders and steps.                                     *)

\* What the layout effect makes of board h when state t is rendered.
LEMMA RenderWord ==
    ASSUME NEW g, NEW s, NEW h \in GameType, NEW t \in StateType
    PROVE  /\ renderBoard(g, s, h, t).submitting = h.submitting
           /\ renderBoard(g, s, h, t).round = h.round
           /\ renderBoard(g, s, h, t).prevGuesses = t.rows
           /\ renderBoard(g, s, h, t).letters =
                  IF t.rows > h.prevGuesses /\ h.submitting THEN 0 ELSE h.letters
<1>. DEFINE n == layoutEffect(h, t)
            f == renderBoard(g, s, h, t).tile
            Same(r) == /\ buildGrid(g, s, r) = buildGrid(n, t, r)
                       /\ (g.justRevealed = r) = (n.justRevealed = r)
            e == [r \in Rows |->
                    IF Same(r) THEN n.tile[r]
                    ELSE flipEffect(n.tile[r], buildGrid(n, t, r), n.justRevealed = r)]
<1>1. /\ n \in GameType /\ n.submitting = h.submitting /\ n.prevGuesses = t.rows
      /\ n.round = h.round
      /\ n.letters = IF t.rows > h.prevGuesses /\ h.submitting THEN 0 ELSE h.letters
  BY DEF layoutEffect, GameType, StateType
<1>2. renderBoard(g, s, h, t) = [n EXCEPT !.tile = e]
  BY DEF renderBoard
<1>. HIDE DEF n, e
<1>. QED BY <1>1, <1>2 DEF GameType

\* A render of state v by page q, whose board is h where it was g: the guesses q
\* still waits for are guesses of g.
LEMMA ShowWord ==
    ASSUME BoardInv, WordInv, UNCHANGED <<history, word>>, NEW v \in 1 .. Latest,
           NEW q \in PageType, q.shown = b.shown,
           q.game \in GameType => q.game.prevGuesses = Shown.rows /\ WordOK(q.game, Shown, word),
           \A c \in q.calls : GuessOK(c, q.game, word),
           OneGuess(q.calls),
           b' = show(q, b.game, v)
    PROVE  WordInv'
<1>. DEFINE s == history[v]
            r == hostEffect(modalEffect([q EXCEPT !.shown = v], s), s)
            New == s.status = "lobby" \/ ~HasBoard(q) \/ q.game.round # s.round
            fresh == IF s.status = "lobby" THEN NoBoard ELSE NewBoard(s)
            others == {[c EXCEPT !.mine = FALSE] : c \in r.calls}
            u == renderBoard(b.game, history[q.shown], r.game, s)
<1>1. b' = IF New THEN [r EXCEPT !.game = fresh, !.calls = others] ELSE [r EXCEPT !.game = u]
  BY DEF show
<1>2. s \in StateType /\ v \in Nat /\ Shown \in StateType
  BY DEF BoardInv, Latest, Shown
<1>3. [q EXCEPT !.shown = v] \in PageType /\ [q EXCEPT !.shown = v].shown = v
      /\ [q EXCEPT !.shown = v].game = q.game /\ [q EXCEPT !.shown = v].calls = q.calls
  BY <1>2 DEF PageType
<1>4. r \in PageType /\ r.shown = v /\ r.game = q.game /\ r.calls = q.calls
  BY <1>2, <1>3, EffectsKeepGame
<1>. HIDE DEF s, r
<1>5. CASE New
  <2>1. \A c \in others : ~Pending(c)
    <3>1. ASSUME NEW c \in r.calls
          PROVE  ~Pending([c EXCEPT !.mine = FALSE])
      <4>1. c \in CallType
        BY <1>4 DEF PageType
      <4>. QED BY <4>1 DEF CallType, Pending
    <3>. QED BY <3>1
  <2>2. fresh \in GameType =>
            /\ fresh.prevGuesses = s.rows /\ fresh.round = s.round
            /\ fresh.letters = 0 /\ fresh.submitting = FALSE
    BY NoBoardIsNone DEF NewBoard
  <2>. HIDE DEF fresh, others
  <2>3. b'.shown = v /\ b'.game = fresh /\ b'.calls = others
    BY <1>1, <1>4, <1>5 DEF PageType
  <2>4. fresh \in GameType => WordOK(fresh, s, word)
    BY <2>2 DEF WordOK
  <2>5. (\A c \in others : GuessOK(c, fresh, word)) /\ OneGuess(others)
    BY <2>1 DEF GuessOK, OneGuess
  <2>. QED BY <2>2, <2>3, <2>4, <2>5 DEF WordInv, Shown, s
<1>6. CASE ~New
  <2>1. q.game \in GameType /\ q.game.round = s.round
    BY <1>6 DEF HasBoard, PageType
  <2>2. /\ u.submitting = q.game.submitting /\ u.prevGuesses = s.rows
        /\ u.round = q.game.round
        /\ u.letters = IF s.rows > q.game.prevGuesses /\ q.game.submitting THEN 0 ELSE q.game.letters
    BY <1>2, <1>4, <2>1, RenderWord
  <2>. HIDE DEF u
  <2>3. b'.shown = v /\ b'.game = u /\ b'.calls = q.calls
    BY <1>1, <1>4, <1>6 DEF PageType
  <2>4. WordOK(u, s, word)
    <3>1. /\ s.rows \in Nat /\ Shown.rows \in Nat /\ q.game.letters \in Nat
          /\ q.game.prevGuesses = Shown.rows /\ word.row \in Nat
      BY <1>2, <2>1 DEF StateType, GameType, WordInv, WordType
    <3>. QED BY <2>1, <2>2, <3>1 DEF WordOK
  <2>5. \A c \in q.calls : GuessOK(c, u, word)
    BY <2>2 DEF GuessOK
  <2>. QED BY <2>1, <2>2, <2>3, <2>4, <2>5 DEF WordInv, Shown, s
<1>. QED BY <1>5, <1>6

\* A step of the game alone; the word that is typed may be another one.
LEMMA PlaysWord ==
    ASSUME BoardInv, WordInv, UNCHANGED history, b.game \in GameType,
           NEW g \in GameType, g.prevGuesses = Shown.rows, g.round = b.game.round,
           word' \in WordType, WordOK(g, Shown, word'),
           NEW calls \in SUBSET CallType,
           \A c \in calls : GuessOK(c, g, word'),
           OneGuess(calls),
           b' = [b EXCEPT !.game = renderBoard(b.game, Shown, g, Shown), !.calls = calls]
    PROVE  WordInv'
<1>. DEFINE u == renderBoard(b.game, Shown, g, Shown)
<1>1. Shown \in StateType
  BY DEF BoardInv, Shown, Latest
<1>2. /\ u.submitting = g.submitting /\ u.prevGuesses = Shown.rows /\ u.letters = g.letters
      /\ u.round = g.round
  BY <1>1, RenderWord DEF StateType
<1>. HIDE DEF u
<1>3. b'.shown = b.shown /\ b'.game = u /\ b'.calls = calls
  BY DEF BoardInv, PageType, u
<1>4. WordOK(u, Shown, word') /\ \A c \in calls : GuessOK(c, u, word')
  BY <1>2 DEF WordOK, GuessOK
<1>5. u.round = Shown.round
  BY <1>2 DEF WordInv
<1>. QED BY <1>2, <1>3, <1>4, <1>5 DEF WordInv, Shown

\* Neither the word nor the state shown changes, and no guess begins.
LEMMA KeepsWord ==
    ASSUME WordInv, Shown' = Shown, UNCHANGED word,
           b'.game \in GameType => b.game \in GameType,
           b'.game.prevGuesses = b.game.prevGuesses, b'.game.submitting = b.game.submitting,
           b'.game.letters = b.game.letters, b'.game.round = b.game.round,
           \A c \in b'.calls : Pending(c) => c \in b.calls
    PROVE  WordInv'
BY DEF WordInv, WordOK, GuessOK, OneGuess

LEMMA PlayerWord ==
    ASSUME BoardInv, WordInv, (Types /\ word' = Unplayed) \/ (Presses /\ UNCHANGED word)
    PROVE  WordInv'
<1>1. b \in PageType /\ b.calls \in SUBSET CallType
  BY DEF BoardInv, PageType
<1>2. MayPress => b.game \in GameType /\ ~b.game.submitting /\ \A c \in b.calls : ~Pending(c)
  BY <1>1 DEF MayPress, HasBoard, PageType, WordInv, GuessOK
<1>3. Shown \in StateType /\ (UNCHANGED history /\ b'.shown = b.shown => Shown' = Shown)
  BY DEF BoardInv, Shown, Latest
<1>4. b.game \in GameType => b.game.prevGuesses = Shown.rows
  BY DEF WordInv
<1>5. Unplayed \in WordType /\ \A g : WordOK(g, Shown, Unplayed)
  BY DEF Unplayed, WordType, WordOK, NoRow
<1>6. ASSUME NEW g \in GameType, g.prevGuesses = b.game.prevGuesses, g.round = b.game.round,
             MayPress, Plays(g), word' = Unplayed
      PROVE  WordInv'
  <2>1. b' = [b EXCEPT !.game = renderBoard(b.game, Shown, g, Shown), !.calls = b.calls]
    BY <1>1, <1>6 DEF Plays, PageType
  <2>2. (\A c \in b.calls : GuessOK(c, g, word')) /\ OneGuess(b.calls)
    BY <1>2, <1>6 DEF GuessOK, OneGuess
  <2>3. word' \in WordType /\ WordOK(g, Shown, word')
    BY <1>5, <1>6
  <2>4. b.game \in GameType /\ g.prevGuesses = Shown.rows /\ UNCHANGED history
    BY <1>2, <1>4, <1>6 DEF Plays
  <2>. QED BY <1>1, <1>6, <2>1, <2>2, <2>3, <2>4, PlaysWord
<1>7. CASE handleLetter /\ word' = Unplayed
  <2>. DEFINE g == [b.game EXCEPT !.letters = @ + 1]
  <2>1. g \in GameType /\ g.prevGuesses = b.game.prevGuesses /\ g.round = b.game.round
    BY <1>2, <1>7 DEF handleLetter, GameType
  <2>2. MayPress /\ Plays(g)
    BY <1>7 DEF handleLetter
  <2>. HIDE DEF g
  <2>. QED BY <1>6, <1>7, <2>1, <2>2
<1>8. CASE handleBackspace /\ word' = Unplayed
  <2>. DEFINE g == [b.game EXCEPT !.letters = @ - 1]
  <2>1. g \in GameType /\ g.prevGuesses = b.game.prevGuesses /\ g.round = b.game.round
    BY <1>2, <1>8 DEF handleBackspace, GameType
  <2>2. MayPress /\ Plays(g)
    BY <1>8 DEF handleBackspace
  <2>. HIDE DEF g
  <2>. QED BY <1>6, <1>8, <2>1, <2>2
<1>9. CASE handleEnter /\ word' = Unplayed
  <2>. DEFINE g == [b.game EXCEPT !.submitting = TRUE, !.justRevealed = Shown.rows + 1]
              call == Call("guess")
              calls == b.calls \union {call}
  <2>1. /\ g \in GameType /\ g.prevGuesses = Shown.rows /\ g.submitting
        /\ g.round = b.game.round
    <3>1. Shown.rows + 1 \in Nat /\ b.game \in GameType
      BY <1>2, <1>3, <1>9 DEF handleEnter, StateType
    <3>. QED BY <1>4, <3>1 DEF GameType
  <2>2. call \in CallType
    BY DEF Call, CallType
  <2>3. b' = [b EXCEPT !.game = renderBoard(b.game, Shown, g, Shown), !.calls = calls]
    BY <1>1, <1>9 DEF handleEnter, PageType
  <2>. HIDE DEF g, call
  <2>4. calls \in SUBSET CallType /\ \A c \in calls : Pending(c) => c = call
    BY <1>1, <1>2, <1>9, <2>2 DEF handleEnter
  <2>. HIDE DEF calls
  <2>5. (\A c \in calls : GuessOK(c, g, word')) /\ OneGuess(calls)
    BY <1>9, <2>1, <2>4 DEF GuessOK, OneGuess
  <2>6. b.game \in GameType /\ UNCHANGED history
    BY <1>2, <1>9 DEF handleEnter
  <2>7. word' \in WordType /\ WordOK(g, Shown, word')
    BY <1>5, <1>9
  <2>. QED BY <2>1, <2>3, <2>4, <2>5, <2>6, <2>7, PlaysWord
<1>10. ASSUME NEW kind \in {"start", "next"}, Asks(kind), UNCHANGED word
       PROVE  WordInv'
  <2>1. ~Pending(Call(kind))
    BY DEF Call, Pending
  <2>2. b'.shown = b.shown /\ b'.game = b.game /\ b'.calls = b.calls \union {Call(kind)}
    BY <1>1, <1>10 DEF Asks, PageType
  <2>. QED BY <1>3, <1>10, <2>1, <2>2, KeepsWord DEF Asks
<1>11. CASE onDismiss /\ UNCHANGED word
  <2>1. b'.shown = b.shown /\ b'.game = b.game /\ b'.calls = b.calls
    BY <1>1, <1>11 DEF onDismiss, PageType
  <2>. QED BY <1>3, <1>11, <2>1, KeepsWord DEF onDismiss
<1>. QED
  BY <1>7, <1>8, <1>9, <1>10, <1>11 DEF Types, Presses, handleStart, handleNextRound

\* The room's states are never taken back.
LEMMA ShownStays ==
    ASSUME BoardInv, NEW s \in StateType, Becomes(s), b'.shown = b.shown
    PROVE  Shown' = Shown
BY DEF BoardInv, Becomes, Shown, Latest

\* A guess the server takes becomes a row below all that the board has shown.
LEMMA ServeWord ==
    ASSUME BoardInv, WordInv, Ordered, NEW c \in b.calls, Serve(c), Served(c)
    PROVE  WordInv'
<1>1. PICK is \in {"ok", "lost", "failed"} :
        Replies(c, is) /\ (is = "failed" => UNCHANGED history)
  BY DEF Serve
<1>. DEFINE a == [c EXCEPT !.is = is, !.state = Len(history')]
            calls == (b.calls \ {c}) \union {a}
<1>2. b' = [b EXCEPT !.calls = calls]
  BY <1>1 DEF Replies, BoardInv, PageType
<1>3. b'.shown = b.shown /\ b'.game = b.game /\ b'.calls = calls
  BY <1>2 DEF BoardInv, PageType
<1>4. Shown' = Shown
  <2>1. CASE UNCHANGED history
    BY <1>3, <2>1 DEF Shown
  <2>2. CASE BeginsRound \/ Guesses
    BY <1>3, <2>2, RoomBecomes, ShownStays
  <2>. QED BY <2>1, <2>2 DEF Serve
<1>5. a.kind = c.kind /\ a.mine = c.mine /\ a.is = is /\ c.is = "asked"
  BY DEF BoardInv, PageType, CallType, Serve
<1>. HIDE DEF a
<1>6. ASSUME Pending(c)
      PROVE  /\ word = Unplayed /\ b.game \in GameType /\ b.game.submitting
             /\ \A d \in b.calls : Pending(d) => d = c
  BY <1>5, <1>6 DEF WordInv, GuessOK, OneGuess, BoardInv, CallOK, Pending
<1>7. CASE Written(c)
  <2>1. word' = [row |-> Now.rows + 1, lost |-> FALSE]
    <3>1. word = Unplayed
      BY <1>6, <1>7 DEF Written, Pending
    <3>. QED BY <1>7, <3>1 DEF Served, Unplayed
  <2>2. Now.rows \in Nat /\ Shown.rows \in Nat /\ Shown.rows <= Now.rows
    <3>1. Now \in StateType /\ Shown \in StateType /\ After(Shown, Now)
      BY DEF BoardInv, Now, Shown, Latest, Ordered
    <3>2. Shown.round = Now.round
      BY <1>6, <1>7 DEF Written, Pending, WordInv
    <3>. QED BY <3>1, <3>2 DEF After, StateType
  <2>3. word' \in WordType /\ WordOK(b.game, Shown, word')
    BY <1>6, <1>7, <2>1, <2>2 DEF WordType, WordOK, Written, Pending
  <2>4. is # "failed"
    BY <1>1, <1>7 DEF Written
  <2>5. (\A d \in calls : GuessOK(d, b.game, word')) /\ OneGuess(calls)
    BY <1>1, <1>5, <1>6, <1>7, <2>4 DEF GuessOK, OneGuess, Written, Pending
  <2>. QED BY <1>3, <1>4, <2>3, <2>5 DEF WordInv
<1>8. CASE ~Written(c)
  <2>1. word' = word
    BY <1>8 DEF Served
  <2>2. (\A d \in calls : GuessOK(d, b.game, word)) /\ OneGuess(calls)
    BY <1>5, <1>6 DEF WordInv, GuessOK, OneGuess, Pending
  <2>. QED BY <1>3, <1>4, <2>1, <2>2 DEF WordInv
<1>. QED BY <1>7, <1>8

LEMMA AnswersWord ==
    ASSUME BoardInv, WordInv, NEW c \in b.calls,
           roundAnswered(c) \/ guessConfirmed(c), UNCHANGED word
    PROVE  WordInv'
<1>. DEFINE q == Without(c)
<1>1. /\ q \in PageType /\ q.shown = b.shown /\ q.game = b.game /\ q.calls = b.calls \ {c}
  BY WithoutKeeps
<1>2. CallOK(c, Latest, b.game)
  BY DEF BoardInv
<1>3. OneGuess(b.calls \ {c}) /\ \A d \in b.calls \ {c} : GuessOK(d, b.game, word)
  BY DEF WordInv, OneGuess
<1>4. CASE roundAnswered(c)
  <2>1. CASE c.is = "ok"
    <3>1. b' = show(q, b.game, c.state) /\ c.state \in 1 .. Latest /\ UNCHANGED history
      BY <1>2, <1>4, <2>1 DEF roundAnswered, CallOK
    <3>. HIDE DEF q
    <3>. QED BY <1>1, <1>3, <3>1, ShowWord DEF WordInv
  <2>2. CASE c.is # "ok"
    <3>1. b' = q /\ UNCHANGED history
      BY <1>4, <2>2 DEF roundAnswered
    <3>. HIDE DEF q
    <3>. QED BY <1>1, <3>1, KeepsWord DEF Shown
  <2>. QED BY <2>1, <2>2
<1>5. CASE guessConfirmed(c)
  <2>. DEFINE h == [b.game EXCEPT !.letters = 0, !.submitting = FALSE, !.clears = @ + 1]
              r == IF c.mine THEN [q EXCEPT !.game = h] ELSE q
  <2>1. b' = show(r, b.game, c.state) /\ c.state \in 1 .. Latest /\ UNCHANGED history
    <3>1. [q EXCEPT !.game.letters = 0, !.game.submitting = FALSE, !.game.clears = @ + 1] =
            [q EXCEPT !.game = h]
      BY <1>1 DEF PageType
    <3>. QED BY <1>2, <1>5, <3>1 DEF guessConfirmed, CallOK
  <2>2. ASSUME c.mine
        PROVE  /\ h \in GameType /\ h.prevGuesses = b.game.prevGuesses /\ b.game \in GameType
               /\ h.letters = 0 /\ h.submitting = FALSE
    <3>1. b.game \in GameType
      BY <1>2, <1>5, <2>2 DEF guessConfirmed, CallOK
    <3>2. b.game.clears + 1 \in Nat
      BY <3>1 DEF GameType
    <3>. QED BY <3>1, <3>2 DEF GameType
  <2>3. c.mine => \A d \in b.calls \ {c} : ~Pending(d)
    BY <1>5 DEF guessConfirmed, WordInv, OneGuess, Pending
  <2>. HIDE DEF q, h
  <2>4. /\ r \in PageType /\ r.shown = b.shown /\ r.calls = b.calls \ {c}
        /\ r.game = IF c.mine THEN h ELSE b.game
    BY <1>1, <2>2 DEF PageType
  <2>. HIDE DEF r
  <2>5. \A d \in r.calls : GuessOK(d, r.game, word)
    BY <1>3, <2>3, <2>4 DEF GuessOK
  <2>6. r.game \in GameType => r.game.prevGuesses = Shown.rows /\ WordOK(r.game, Shown, word)
    <3>1. CASE c.mine
      <4>1. r.game = h /\ h.letters = 0 /\ ~h.submitting /\ h.prevGuesses = Shown.rows
        BY <2>2, <2>4, <3>1 DEF WordInv
      <4>. QED BY <4>1 DEF WordOK
    <3>2. CASE ~c.mine
      BY <2>4, <3>2 DEF WordInv
    <3>. QED BY <3>1, <3>2
  <2>. QED BY <1>3, <2>1, <2>4, <2>5, <2>6, ShowWord
<1>. QED BY <1>4, <1>5

\* The board takes no notice of why its guess failed; the word does.
LEMMA FailureWord ==
    ASSUME BoardInv, WordInv, NEW c \in b.calls, guessFailed(c), Failed(c)
    PROVE  WordInv'
<1>. DEFINE q == Without(c)
<1>1. /\ q \in PageType /\ q.shown = b.shown /\ q.game = b.game /\ q.calls = b.calls \ {c}
  BY WithoutKeeps
<1>2. CallOK(c, Latest, b.game) /\ c.is \in {"failed", "lost"} /\ c.kind = "guess"
  BY DEF BoardInv, guessFailed
<1>3. CASE ~c.mine
  <2>1. b' = q /\ UNCHANGED history /\ word' = word
    BY <1>3 DEF guessFailed, Failed
  <2>. HIDE DEF q
  <2>. QED BY <1>1, <2>1, KeepsWord DEF Shown
<1>4. CASE c.mine
  <2>. DEFINE g == [b.game EXCEPT !.submitting = FALSE, !.justRevealed = NoRow]
              calls == b.calls \ {c}
  <2>1. /\ b.game \in GameType /\ g \in GameType /\ g.prevGuesses = b.game.prevGuesses
        /\ g.round = b.game.round /\ g.submitting = FALSE
    BY <1>2, <1>4 DEF CallOK, GameType, NoRow
  <2>2. b' = [q EXCEPT !.game = renderBoard(b.game, Shown, g, Shown)] /\ UNCHANGED history
    BY <1>1, <1>4 DEF guessFailed
  <2>. HIDE DEF g
  <2>3. b' = [b EXCEPT !.game = renderBoard(b.game, Shown, g, Shown), !.calls = calls]
    BY <2>2 DEF Without, BoardInv, PageType
  <2>4. calls \in SUBSET CallType /\ g.prevGuesses = Shown.rows
    BY <2>1 DEF BoardInv, PageType, WordInv
  <2>5. (\A d \in calls : GuessOK(d, g, word')) /\ OneGuess(calls)
    BY <1>2, <1>4 DEF WordInv, GuessOK, OneGuess, Pending
  <2>6. word' \in WordType /\ WordOK(g, Shown, word')
    <3>1. CASE c.is = "failed"
      <4>1. word' = Unplayed
        BY <1>2, <1>4, <3>1 DEF Failed, WordInv, GuessOK, Pending
      <4>. QED BY <2>1, <4>1 DEF Unplayed, WordType, WordOK, NoRow
    <3>2. CASE c.is = "lost"
      <4>1. word' = [word EXCEPT !.lost = TRUE]
        BY <1>4, <3>2 DEF Failed
      <4>2. word' \in WordType /\ word'.lost
        BY <4>1 DEF WordInv, WordType
      <4>. QED BY <2>1, <4>2 DEF WordOK
    <3>. QED BY <1>2, <3>1, <3>2
  <2>. HIDE DEF calls
  <2>. QED BY <2>1, <2>2, <2>3, <2>4, <2>5, <2>6, PlaysWord
<1>. QED BY <1>3, <1>4

LEMMA ReceivesWord ==
    ASSUME BoardInv, WordInv, NEW v, Receives(v), UNCHANGED word
    PROVE  WordInv'
<1>. DEFINE q == [b EXCEPT !.seen = v]
<1>1. v \in 1 .. Latest /\ UNCHANGED history /\ b' = show(q, b.game, v)
  BY DEF Receives, BoardInv, PageType, Latest
<1>2. q \in PageType /\ q.shown = b.shown /\ q.game = b.game /\ q.calls = b.calls
  BY <1>1 DEF BoardInv, PageType
<1>. HIDE DEF q
<1>. QED BY <1>1, <1>2, ShowWord DEF WordInv

LEMMA TimersWord ==
    ASSUME BoardInv, WordInv, Timers, UNCHANGED word
    PROVE  WordInv'
<1>1. /\ b \in PageType /\ b.calls \in SUBSET CallType
      /\ HasBoard(b) => b.game \in GameType
  BY DEF BoardInv, PageType, HasBoard
<1>2. CASE revealEnds
  <2>. DEFINE g == [b.game EXCEPT !.clears = @ - 1, !.justRevealed = NoRow]
  <2>1. /\ b.game \in GameType /\ g \in GameType /\ g.prevGuesses = b.game.prevGuesses
        /\ g.submitting = b.game.submitting /\ g.letters = b.game.letters
        /\ g.round = b.game.round
    <3>1. b.game \in GameType /\ b.game.clears > 0
      BY <1>1, <1>2 DEF revealEnds
    <3>2. b.game.clears - 1 \in Nat
      BY <3>1 DEF GameType
    <3>. QED BY <3>1, <3>2 DEF GameType, NoRow
  <2>2. b' = [b EXCEPT !.game = renderBoard(b.game, Shown, g, Shown), !.calls = b.calls]
        /\ UNCHANGED history
    BY <1>1, <1>2 DEF revealEnds, Plays, PageType
  <2>. HIDE DEF g
  <2>3. /\ g.prevGuesses = Shown.rows /\ word' \in WordType /\ WordOK(g, Shown, word')
        /\ (\A c \in b.calls : GuessOK(c, g, word')) /\ OneGuess(b.calls)
    BY <2>1 DEF WordInv, WordOK, GuessOK
  <2>. QED BY <1>1, <2>1, <2>2, <2>3, PlaysWord
<1>3. CASE promotedEnds
  <2>1. b'.shown = b.shown /\ b'.game = b.game /\ b'.calls = b.calls /\ UNCHANGED history
    BY <1>1, <1>3 DEF promotedEnds, PageType
  <2>. QED BY <2>1, KeepsWord DEF Shown
<1>4. ASSUME NEW r \in Rows, NEW tile, b.game \in GameType, TileSteps(r, tile)
      PROVE  WordInv'
  <2>. DEFINE f == [b.game.tile EXCEPT ![r] =
                        flipEffect(tile, buildGrid(b.game, Shown, r), b.game.justRevealed = r)]
  <2>1. b' = [b EXCEPT !.game = [b.game EXCEPT !.tile = f]] /\ UNCHANGED history
    BY <1>1, <1>4 DEF TileSteps, PageType
  <2>. HIDE DEF f
  <2>2. /\ b'.shown = b.shown /\ b'.calls = b.calls
        /\ b'.game.prevGuesses = b.game.prevGuesses /\ b'.game.submitting = b.game.submitting
        /\ b'.game.letters = b.game.letters /\ b'.game.round = b.game.round
    BY <1>1, <1>4, <2>1 DEF PageType, GameType
  <2>. QED BY <1>4, <2>1, <2>2, KeepsWord DEF Shown
<1>. QED BY <1>1, <1>2, <1>3, <1>4 DEF Timers, t1Fires, handleAnimationEnd

LEMMA NextWord ==
    ASSUME BoardInv, WordInv, Ordered, [Next]_vars
    PROVE  WordInv'
<1>1. CASE OthersAct /\ UNCHANGED <<b, word>>
  BY <1>1, RoomBecomes, ShownStays, KeepsWord
<1>2. CASE UNCHANGED vars
  BY <1>2, KeepsWord DEF vars, Shown
<1>. QED
  BY <1>1, <1>2, PlayerWord, ServeWord, AnswersWord, FailureWord, ReceivesWord, TimersWord DEF Next

\* What is known of the typed word, in every reachable state.
THEOREM WordInvariance == Spec => [](WordInv /\ Ordered)
<1>1. Init => WordInv /\ Ordered
  <2>1. ASSUME Init
        PROVE  WordInv
    <3>1. word = Unplayed /\ b.calls = {} /\ Shown = history[1]
          /\ b.game = IF Shown.status = "lobby" THEN NoBoard ELSE NewBoard(Shown)
      BY <2>1 DEF Init, Shown
    <3>. QED
      BY <3>1, NoBoardIsNone DEF WordInv, WordType, WordOK, GuessOK, OneGuess, Unplayed, NoRow, NewBoard
  <2>2. ASSUME Init
        PROVE  Ordered
    BY <2>2 DEF Init, State, Ordered, After, Now, Latest
  <2>. QED BY <2>1, <2>2
<1>2. BoardInv /\ (WordInv /\ Ordered) /\ [Next]_vars => (WordInv /\ Ordered)'
  BY NextWord, OrderedStep
<1>. QED BY <1>1, <1>2, BoardInvariance, PTL DEF Spec

\* While a guess is under way its word is not typed below the row it has become: the
\* broadcast of the row takes it along (Game.tsx:234-242).
THEOREM NoRowTwice == Spec => []NoDuplicateRow
<1>1. BoardInv /\ WordInv => NoDuplicateRow
  BY DEF BoardInv, PageType, HasBoard, WordInv, WordOK, NoDuplicateRow, Played
<1>. QED BY <1>1, BoardInvariance, WordInvariance, PTL

\* A word that is a row and was answered is typed no more, unless its answer got
\* lost (Game.tsx:201-207, 293-306).
THEOREM AnsweredWordsGo == Spec => []AnsweredWordGoes
<1>1. BoardInv /\ WordInv => AnsweredWordGoes
  BY DEF BoardInv, PageType, HasBoard, WordInv, WordOK, AnsweredWordGoes, Played
<1>. QED BY <1>1, BoardInvariance, WordInvariance, PTL
================================================================================
