------------------------------- MODULE MCScoring -------------------------------
(***************************************************************************)
(* Score against the rule of the game, on every guess and target over a    *)
(* small alphabet, and the keyboard against the target, after every two    *)
(* guesses.                                                                *)
(***************************************************************************)
EXTENDS Keyboard

CONSTANTS Letters, Length

ASSUME LengthAssumption == Length \in Nat

VARIABLES guess, target

Words == [1 .. Length -> Letters]

Init == guess \in Words /\ target \in Words

\* The same two words, the other way round.
Swap == guess' = target /\ target' = guess

Spec == Init /\ [][Swap]_<<guess, target>>

--------------------------------------------------------------------------------
\* Where in P a word has a letter, and how often.
Copies(w, x, P) == {i \in P : w[i] = x}

Occurrences(w, x, P) == Cardinality(Copies(w, x, P))

\* The rule: a letter in its place is green; of the other copies of a letter in
\* the guess, the leftmost are yellow, as many as the target has copies left
\* over; the rest is gray.
Rule(g, t) ==
    LET off == {i \in 1 .. Length : g[i] # t[i]}
    IN  [i \in 1 .. Length |->
            IF i \notin off THEN "green"
            ELSE IF Occurrences(g, g[i], {k \in off : k < i}) < Occurrences(t, g[i], off)
            THEN "yellow" ELSE "gray"]

\* Score's two passes colour every guess by the rule, duplicates included
\* (game.go:19-64; game_test.go:8-62 samples six pairs).
ScoreFollowsRule == Score(guess, target) = Rule(guess, target)

Places(w, letter) == Copies(w, letter, 1 .. Length)

\* What the key of a letter should show when the letter was tried at these places
\* and the target has it at those.
Truth(tried, there) ==
    IF tried = {} THEN "unused"
    ELSE IF there = {} THEN "absent"
    ELSE IF tried \intersect there = {} THEN "present" ELSE "correct"

\* Whatever was guessed and however the letters repeat, a key is correct when some
\* guess had its letter in place, present when the word has it elsewhere, absent
\* when the word does not have it: no later row takes anything back
\* (Game.tsx:332-345).
KeyboardTellsTruth ==
    \A other \in Words :
        LET rows == <<ScoredGuess(guess, target), ScoredGuess(other, target)>>
        IN  \A letter \in Letters :
                keyStates(rows, letter) =
                    Truth(Places(guess, letter) \union Places(other, letter), Places(target, letter))

\* Guess and target share equally many letters either way: swapping them keeps
\* the greens and the number of yellows.
ScoreIsSymmetric ==
    [][/\ Greens(guess, target)' = Greens(guess, target)
       /\ rowScore(Score(guess, target))' = rowScore(Score(guess, target))]_<<guess, target>>
================================================================================
