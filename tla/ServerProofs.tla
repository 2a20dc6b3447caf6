------------------------------ MODULE ServerProofs ------------------------------
(***************************************************************************)
(* Seeding the database, for any number of instances and of crashes: one   *)
(* instance seeds, and as long as none dies a table without answers is     *)
(* being seeded.                                                           *)
(***************************************************************************)
EXTENDS Server, TLAPS

SeedTypeOK ==
    /\ words \in {"none", "guesses", "answers"}
    /\ pc \in [Instances -> {"down", "checking", "copying", "marking", "serving"}]
    /\ crashes \in Nat

SeedInv == SeedTypeOK /\ OneSeeds /\ HalfSeededIsPassing

LEMMA SeedInitInv ==
    ASSUME Init
    PROVE  SeedInv
BY DEF Init, SeedInit, SeedInv, SeedTypeOK, OneSeeds, HalfSeededIsPassing

\* An instance that goes where it seeds nothing.
LEMMA GoesInv ==
    ASSUME SeedInv, NEW i \in Instances, NEW from, NEW to \in {"down", "checking", "copying", "serving"},
           Goes(i, from, to), from # "marking", to = "serving" => words # "none",
           UNCHANGED words, crashes' \in Nat, crashes' = 0 => crashes = 0
    PROVE  SeedInv'
<1>. USE DEF SeedInv, Goes
<1>1. SeedTypeOK'
  BY DEF SeedTypeOK
<1>2. OneSeeds'
  BY DEF SeedTypeOK, OneSeeds
<1>3. HalfSeededIsPassing'
  BY DEF SeedTypeOK, HalfSeededIsPassing
<1>. QED BY <1>1, <1>2, <1>3

LEMMA copyGuessesInv ==
    ASSUME SeedInv, NEW i \in Instances, copyGuesses(i), words = "none"
    PROVE  SeedInv'
<1>. USE DEF SeedInv, Goes, copyGuesses
<1>1. SeedTypeOK'
  BY DEF SeedTypeOK
<1>2. OneSeeds'
  BY DEF SeedTypeOK, OneSeeds
<1>3. HalfSeededIsPassing'
  BY DEF SeedTypeOK, HalfSeededIsPassing
<1>. QED BY <1>1, <1>2, <1>3

LEMMA markAnswersInv ==
    ASSUME SeedInv, NEW i \in Instances, markAnswers(i)
    PROVE  SeedInv'
<1>. USE DEF SeedInv, Goes, markAnswers
<1>1. SeedTypeOK'
  BY DEF SeedTypeOK
<1>2. OneSeeds'
  BY DEF SeedTypeOK, OneSeeds
<1>3. HalfSeededIsPassing'
  BY DEF HalfSeededIsPassing
<1>. QED BY <1>1, <1>2, <1>3

\* A death in the middle of the seeding is counted.
LEMMA CrashInv ==
    ASSUME SeedInv, NEW i \in Instances, Crash(i)
    PROVE  SeedInv'
<1>. USE DEF SeedInv, Crash
<1>1. SeedTypeOK'
  BY DEF SeedTypeOK
<1>2. OneSeeds'
  BY DEF SeedTypeOK, OneSeeds
<1>3. HalfSeededIsPassing'
  BY DEF SeedTypeOK, HalfSeededIsPassing
<1>. QED BY <1>1, <1>2, <1>3

LEMMA SeedNextInv ==
    ASSUME SeedInv, [Next]_vars
    PROVE  SeedInv'
<1>1. ASSUME NEW i \in Instances, Starts(i)
      PROVE  SeedInv'
  BY <1>1, GoesInv DEF Starts, Start, SeedInv, SeedTypeOK
<1>2. ASSUME NEW i \in Instances, Seeds(i)
      PROVE  SeedInv'
  <2>1. CASE checkTable(i)
    BY <2>1, GoesInv DEF checkTable, SeedInv, SeedTypeOK
  <2>2. CASE copyGuesses(i) /\ words = "none"
    BY <2>2, copyGuessesInv
  <2>3. CASE copyGuesses(i) /\ words # "none"
    BY <2>3, GoesInv DEF copyGuesses, SeedInv, SeedTypeOK
  <2>4. CASE markAnswers(i)
    BY <2>4, markAnswersInv
  <2>. QED BY <1>2, <2>1, <2>2, <2>3, <2>4 DEF Seeds, Seed
<1>3. ASSUME NEW i \in Instances, Dies(i)
      PROVE  SeedInv'
  BY <1>3, CrashInv DEF Dies
<1>4. ASSUME NEW i \in Instances, Stop(i)
      PROVE  SeedInv'
  BY <1>4, GoesInv DEF Stop, SeedInv, SeedTypeOK
<1>5. CASE Exits
  BY <1>5, GoesInv, FollowedAssumption DEF Exits, SeedInv, SeedTypeOK
<1>6. CASE UNCHANGED seedVars
  BY <1>6 DEF seedVars, SeedInv, SeedTypeOK, OneSeeds, HalfSeededIsPassing
<1>. QED BY <1>1, <1>2, <1>3, <1>4, <1>5, <1>6 DEF Next, Takes, vars

\* Who seeds, and what the table holds meanwhile, in every reachable state of the
\* instances (seeder.go:18-63).
THEOREM SeedInvariance == FairSpec => []SeedInv
<1>1. Init => SeedInv
  BY SeedInitInv
<1>2. SeedInv /\ [Next]_vars => SeedInv'
  BY SeedNextInv
<1>. QED BY <1>1, <1>2, PTL DEF FairSpec

\* However many instances start, die and start again, one of them seeds, and none
\* serves a table without rows (seeder.go:39-46).
THEOREM OneSeeder == FairSpec => []OneSeeds
<1>1. SeedInv => OneSeeds
  BY DEF SeedInv
<1>. QED BY <1>1, SeedInvariance, PTL

\* As long as no instance dies, a table whose answers are not marked is one that an
\* instance is about to mark (seeder.go:48-63).
THEOREM HalfSeededPasses == FairSpec => []HalfSeededIsPassing
<1>1. SeedInv => HalfSeededIsPassing
  BY DEF SeedInv
<1>. QED BY <1>1, SeedInvariance, PTL
================================================================================
