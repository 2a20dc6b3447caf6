-------------------------------- MODULE Keyboard --------------------------------
(***************************************************************************)
(* What the scored rows of a board say, tile by tile and key by key: the   *)
(* helpers of frontend/src/components/Game.tsx that read them.  A scored    *)
(* guess is its word and its colours.                                      *)
(***************************************************************************)
EXTENDS Scoring

ScoredGuess(guess, target) == [word |-> guess, scoring |-> Score(guess, target)]

\* The colour of a tile.
scoringToState(s) ==
    CASE s = "green" -> "correct" [] s = "yellow" -> "present" [] s = "gray" -> "absent"

\* Mutant: the letter scored last decides.
keyAfterLast(current, s) == scoringToState(s)

\* What a key shows once one more of its letters is scored: what is better stays.
keyAfter(current, s) ==
    IF s = "green" \/ (s = "yellow" /\ current # "correct") \/ (s = "gray" /\ current = "unused")
    THEN scoringToState(s) ELSE current

\* What the key of a letter shows after one more row, read from the left.
keyAfterRow(before, row, letter) ==
    LET key[i \in 0 .. Len(row.word)] ==
            IF i = 0 THEN before
            ELSE IF row.word[i] = letter THEN keyAfter(key[i - 1], row.scoring[i]) ELSE key[i - 1]
    IN  key[Len(row.word)]

\* What it shows after the guesses, row by row.
keyStates(guesses, letter) ==
    LET key[r \in 0 .. Len(guesses)] ==
            IF r = 0 THEN "unused" ELSE keyAfterRow(key[r - 1], guesses[r], letter)
    IN  key[Len(guesses)]
================================================================================
