-------------------------------- MODULE Scoring --------------------------------
(***************************************************************************)
(* backend/internal/game/game.go, Score: the colours of a guess.  A word is *)
(* a sequence of letters; the stores only pass words of the target's       *)
(* length.                                                                 *)
(***************************************************************************)
EXTENDS Integers, Sequences, FiniteSets

Colours == {"green", "yellow", "gray"}

Least(S) == CHOOSE i \in S : \A j \in S : i <= j

\* Pass 1: the positions where guess and target agree.
Greens(guess, target) == {i \in 1 .. Len(target) : guess[i] = target[i]}

\* Mutant: pass 1 does not consume the letters it matches.
consumedByYellows(guess, target) ==
    LET taken[i \in 0 .. Len(guess)] ==
            IF i = 0 THEN {}
            ELSE IF i \in Greens(guess, target) THEN taken[i - 1]
            ELSE LET free == {j \in (1 .. Len(target)) \ taken[i - 1] : guess[i] = target[j]}
                 IN  IF free = {} THEN taken[i - 1] ELSE taken[i - 1] \union {Least(free)}
    IN  taken

\* The array consumed after pass 2 has gone over the first i letters of the
\* guess: every letter that is not green takes the first equal letter of the
\* target nobody has consumed.
consumed(guess, target) ==
    LET taken[i \in 0 .. Len(guess)] ==
            IF i = 0 THEN Greens(guess, target)
            ELSE IF i \in Greens(guess, target) THEN taken[i - 1]
            ELSE LET free == {j \in (1 .. Len(target)) \ taken[i - 1] : guess[i] = target[j]}
                 IN  IF free = {} THEN taken[i - 1] ELSE taken[i - 1] \union {Least(free)}
    IN  taken

\* A letter is yellow when it consumed one.
Score(guess, target) ==
    LET taken == consumed(guess, target)
    IN  [i \in 1 .. Len(target) |->
            IF i \in Greens(guess, target) THEN "green"
            ELSE IF taken[i] # taken[i - 1] THEN "yellow" ELSE "gray"]

\* What bestRowScore in ranking.go makes of a row: 2 for a green, 1 for a yellow.
rowScore(row) ==
    2 * Cardinality({i \in DOMAIN row : row[i] = "green"})
      + Cardinality({i \in DOMAIN row : row[i] = "yellow"})
================================================================================
