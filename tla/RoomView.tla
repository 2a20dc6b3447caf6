-------------------------------- MODULE RoomView --------------------------------
(***************************************************************************)
(* What the players of a room are shown: backend/internal/room/view.go     *)
(* (PlayerView) and ranking.go (ComputeRanking), over the rooms RoomStore   *)
(* produces.                                                               *)
(*                                                                         *)
(* To the room of RoomStore this adds what only the views read: the score  *)
(* of every player's best row and the order of the solving times.          *)
(***************************************************************************)
EXTENDS RoomStore, Sequences, SequencesExt

CONSTANT AllGreen       \* the score of an all-green row; other rows score less

ASSUME AllGreenAssumption == AllGreen \in Nat \ {0}

VARIABLES
    bestRow,    \* bestRowScore of every player
    solves,     \* the pairs <<p, q>> of solvers with p's Player.SolvedAt before q's
    informed,   \* history: whom a view has shown the target of the present round
    left        \* history: who has left by Leave in the present round

viewVars == <<bestRow, solves, informed, left>>
rvVars == <<vars, viewVars>>

NoRows == [p \in Tokens |-> 0]

RVInit ==
    /\ Init
    /\ bestRow = NoRows
    /\ solves = {}
    /\ informed = {}
    /\ left = {}

--------------------------------------------------------------------------------
(* The views.                                                              *)

\* Mutant: by the number of guesses alone.
solvedByGuesses(p, q) ==
    guesses[p] < guesses[q] \/ (guesses[p] = guesses[q] /\ p < q)

\* p has the earlier solving time.
Earlier(p, q) == <<p, q>> \in solves

\* Among solvers: fewer guesses first, then who solved earlier.
solvedOrder(p, q) ==
    guesses[p] < guesses[q] \/ (guesses[p] = guesses[q] /\ Earlier(p, q))

\* Among the others: the better best row first, then who joined earlier.
unsolvedOrder(p, q) ==
    bestRow[p] > bestRow[q] \/ (bestRow[p] = bestRow[q] /\ p < q)

\* What slices.SortFunc promises of a slice of S, given the pairs of which one is to
\* stand before the other: nobody stands behind a player it is to stand before.
SortFunc(S, before) ==
    CHOOSE s \in [1 .. Cardinality(S) -> S] :
        IsInjective(s) /\ \A i, j \in DOMAIN s : i < j => <<s[j], s[i]>> \notin before

\* ComputeRanking: the players whose status is solved, then the others.
ComputeRanking ==
    LET solved == {p \in players : pstatus[p] = "solved"}
        unsolved == players \ solved
    IN  SortFunc(solved, {x \in solved \X solved : solvedOrder(x[1], x[2])})
            \o SortFunc(unsolved, {x \in unsolved \X unsolved : unsolvedOrder(x[1], x[2])})

\* Mutant: whoever is through with its own board may see the target.
showsTargetWhenDone(c) ==
    status = "finished" \/ (status = "playing" /\ c \in players /\ pstatus[c] # "playing")

\* PlayerView sets Target only when the round is over.
showsTarget(c) == status = "finished"

\* PlayerView for caller c, a player or a stranger.
PlayerView(c) ==
    [youAreHost |-> c = host,
     target     |-> showsTarget(c),
     boards     |-> {p \in players : p = c \/ status = "finished"},
     ranking    |-> IF status = "finished" THEN ComputeRanking ELSE <<>>]

--------------------------------------------------------------------------------
\* GetView: c looks at the room; so does whoever gets a response or a broadcast.
GetView(c) ==
    /\ status # "none"
    /\ informed' = IF PlayerView(c).target THEN informed \union {c} ELSE informed
    /\ UNCHANGED <<vars, bestRow, solves, left>>

\* A guess whose row scores row.
Guess(t, row) ==
    /\ SubmitGuess(t, row = AllGreen)
    /\ bestRow' = [bestRow EXCEPT ![t] = IF row > @ THEN row ELSE @]
    /\ solves' = IF row = AllGreen
                 THEN {x \in solves : x[1] # t} \union {<<p, t>> : p \in {q \in Tokens \ {t} : solvedAt[q]}}
                 ELSE solves
    /\ UNCHANGED <<informed, left>>

\* A new target and empty boards, or no room any more.
Afresh ==
    /\ (\E t \in Tokens : StartRound(t) \/ NextRound(t)) \/ sweepIdle
    /\ bestRow' = NoRows
    /\ solves' = {}
    /\ informed' = {}
    /\ left' = {}

Seat == \E t \in Tokens : (Create(t) \/ Join(t)) /\ UNCHANGED viewVars
Come == \E t \in Tokens : Registry(t) /\ UNCHANGED viewVars
Wait == Tick /\ UNCHANGED viewVars

Go ==
    \E t \in Tokens :
        /\ Leave(t)
        /\ left' = left \union {t}
        /\ UNCHANGED <<bestRow, solves, informed>>

RVNext ==
    \/ \E t \in Tokens : GetView(t) \/ \E row \in 0 .. AllGreen : Guess(t, row)
    \/ Afresh \/ Seat \/ Come \/ Go \/ Wait

RVSpec == RVInit /\ [][RVNext]_rvVars

--------------------------------------------------------------------------------
\* p did better than q: the rule of ranking.go:13-17 read off the boards and the
\* solving times, whatever the players' statuses have become.
Beats(p, q) ==
    IF solvedAt[p] /\ solvedAt[q]
    THEN guesses[p] <= guesses[q] /\ (guesses[p] = guesses[q] => Earlier(p, q))
    ELSE IF solvedAt[p] \/ solvedAt[q] THEN solvedAt[p]
    ELSE bestRow[p] >= bestRow[q] /\ (bestRow[p] = bestRow[q] => p < q)

\* The published ranking lists every player once, and nobody behind a player it
\* did better than, whoever dropped out and came back (ranking.go:13-17).  It goes
\* by statuses, and leaving overwrites them: players who left in the round are
\* ranked, but out of order.
RankingIsFair ==
    status = "finished" =>
        LET r == PlayerView(host).ranking
        IN  /\ ToSet(r) = players /\ IsInjective(r)
            /\ \A i, j \in DOMAIN r :
                i < j /\ {r[i], r[j]} \intersect left = {} => ~Beats(r[j], r[i])

\* A board that is full or solved takes no further guess, whatever drops and
\* returns follow, as long as its player has not left (store.go:230-232, 341-343,
\* 406: a drop is not recorded for those who are through, so a return does not
\* let them play again).
BoardsClose ==
    \A p \in players \ left :
        /\ guesses[p] <= MaxGuesses
        /\ solvedAt[p] => pstatus[p] = "solved"

\* Nobody who has been shown the target of a round guesses in it, whatever
\* drops, returns and ends of the round came between (view.go:63-67; the
\* spoiler rules of DECISIONS.md).
NoGuessAfterReveal ==
    [][\A t \in Tokens : t \in informed /\ informed' # {} => guesses'[t] = guesses[t]]_rvVars

--------------------------------------------------------------------------------
\* All players "have six guesses to solve it" (README.md:15): nobody takes more,
\* and nobody guesses on who has solved it.
SixGuesses ==
    \A p \in players :
        /\ guesses[p] <= MaxGuesses
        /\ solvedAt[p] => pstatus[p] # "playing"
================================================================================
