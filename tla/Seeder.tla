--------------------------------- MODULE Seeder ---------------------------------
(***************************************************************************)
(* Filling the words table on startup: backend/internal/words/seeder.go as *)
(* main.go calls it, by several instances of the server on one database    *)
(* (a deployment starts the new instance beside the old one), each of      *)
(* which may die at any point and be started again.                        *)
(*                                                                         *)
(* COPY and UPDATE are single statements, so each takes effect wholly or   *)
(* not at all; nothing makes the two of them one.                          *)
(***************************************************************************)
EXTENDS Integers

CONSTANTS
    Instances,      \* processes
    MaxCrashes      \* bound of the model: how many of them die while seeding

ASSUME CrashesAssumption == MaxCrashes \in Nat

VARIABLES
    words,      \* the rows of the table: "none", "guesses" or "answers" once marked
    pc,         \* where each instance is
    crashes     \* how many have died

seedVars == <<words, pc, crashes>>

SeedInit ==
    /\ words = "none"
    /\ pc = [i \in Instances |-> "down"]
    /\ crashes = 0

Goes(i, from, to) == pc[i] = from /\ pc' = [pc EXCEPT ![i] = to]

--------------------------------------------------------------------------------
Start(i) == Goes(i, "down", "checking") /\ UNCHANGED <<words, crashes>>

\* SELECT EXISTS: a table with any row in it needs no seeding.
checkTable(i) ==
    /\ Goes(i, "checking", IF words = "none" THEN "copying" ELSE "serving")
    /\ UNCHANGED <<words, crashes>>

\* Mutant: rows that are there already are no error.
copyOnConflict(i) ==
    /\ Goes(i, "copying", "marking")
    /\ words' = IF words = "none" THEN "guesses" ELSE words
    /\ UNCHANGED crashes

\* CopyFrom: the primary key refuses the rows of a second instance, and that
\* instance exits.
copyGuesses(i) ==
    /\ Goes(i, "copying", IF words = "none" THEN "marking" ELSE "down")
    /\ words' = IF words = "none" THEN "guesses" ELSE words
    /\ UNCHANGED crashes

\* Mutant: the answers of a table somebody is seeding are left to them.
markAnswersAlone(i) ==
    /\ Goes(i, "marking", "serving")
    /\ words' = IF \E j \in Instances \ {i} : pc[j] \in {"checking", "copying"}
                THEN words ELSE "answers"
    /\ UNCHANGED crashes

\* UPDATE marks the answers among the rows.
markAnswers(i) ==
    /\ Goes(i, "marking", "serving")
    /\ words' = "answers"
    /\ UNCHANGED crashes

\* The process is killed, or a statement of Seed fails and main exits.
Crash(i) ==
    /\ pc[i] \in {"checking", "copying", "marking"}
    /\ crashes < MaxCrashes
    /\ pc' = [pc EXCEPT ![i] = "down"]
    /\ crashes' = crashes + 1
    /\ UNCHANGED words

Seed(i) == checkTable(i) \/ copyGuesses(i) \/ markAnswers(i)

--------------------------------------------------------------------------------
\* As long as no instance dies, the two statements are as good as one: however
\* many instances seed at once, a table without answers is one that an instance
\* is about to mark (seeder.go:16-67; main.go:48-53).
HalfSeededIsPassing ==
    words = "guesses" /\ crashes = 0 => \E i \in Instances : pc[i] = "marking"

\* However many instances start, die and start again, one of them seeds: no two
\* are past the copy together, none is without its rows (the primary key of
\* db/migrations/0001; seeder.go:39-46).
OneSeeds ==
    /\ \A i, j \in Instances : pc[i] = "marking" /\ pc[j] = "marking" => i = j
    /\ \A i \in Instances : pc[i] \in {"marking", "serving"} => words # "none"

\* Once a server is up there will be words to guess, unless an instance has died
\* in the middle: "seeded on startup" (README.md:41).
Playable == words = "answers"

ServersGetWords ==
    (\E i \in Instances : pc[i] = "serving") ~> Playable \/ crashes > 0
================================================================================
