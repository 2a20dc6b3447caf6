----------------------------- MODULE ScoringProofs -----------------------------
(***************************************************************************)
(* Score and keyStates for every alphabet and every length of words: Score *)
(* colours by the rule of the game, no copy of a letter too many or too    *)
(* few; only the target scores in full; and after any number of rows the   *)
(* keys tell the truth.  A recursion is unfolded once (Recursion) and      *)
(* followed by counting (Counting).                                        *)
(***************************************************************************)
EXTENDS MCScoring, FiniteSetTheorems, WellFoundedInduction, TLAPS

\* A nonempty set of naturals has a least element.
LEMMA Smallest ==
    ASSUME NEW S \in SUBSET Nat, S # {}
    PROVE  \E h \in S : \A k \in S : h <= k
<1>1. IsWellFoundedOn(OpToRel(<, Nat), Nat)
  BY NatLessThanWellFounded
<1>2. PICK h \in S : \A k \in S : ~(<<k, h>> \in OpToRel(<, Nat))
  BY <1>1, WFMin
<1>3. \A k \in S : k \in Nat /\ h \in Nat /\ ~(k < h)
  BY <1>2 DEF OpToRel
<1>. QED BY <1>3

\* What holds of 0 and goes on from each number to the next holds up to n.
LEMMA Counting ==
    ASSUME NEW n \in Nat, NEW P, 0 \in P, \A i \in 0 .. n - 1 : i \in P => i + 1 \in P
    PROVE  \A i \in 0 .. n : i \in P
<1>. DEFINE S == (0 .. n) \ P
<1>. SUFFICES ASSUME S # {} PROVE FALSE
  OBVIOUS
<1>1. PICK h \in S : \A k \in S : h <= k
  <2>1. S \in SUBSET Nat
    OBVIOUS
  <2>. HIDE DEF S
  <2>. QED BY <2>1, Smallest
<1>2. h # 0 /\ h \in 0 .. n
  OBVIOUS
<1>3. h - 1 \in 0 .. n - 1 /\ h - 1 \in P
  BY <1>1, <1>2
<1>. QED BY <1>2, <1>3

\* Function f is what the recursion makes of base with the steps of F.
Unfolds(f, n, S, base, F) ==
    f \in [0 .. n -> S] /\ f[0] = base /\ \A i \in 1 .. n : f[i] = F[i][f[i - 1]]

\* There is such a function.
LEMMA Recursion ==
    ASSUME NEW n \in Nat, NEW S, NEW base \in S, NEW F \in [1 .. n -> [S -> S]]
    PROVE  \E f : Unfolds(f, n, S, base, F)
<1>. DEFINE Good(m, f) == f[0] = base /\ \A i \in 1 .. m : f[i] = F[i][f[i - 1]]
            P == {m \in 0 .. n : \E f \in [0 .. m -> S] : Good(m, f)}
<1>1. 0 \in P
  <2>. DEFINE f == [i \in 0 .. 0 |-> base]
  <2>1. f \in [0 .. 0 -> S] /\ Good(0, f)
    OBVIOUS
  <2>2. 0 \in 0 .. n
    OBVIOUS
  <2>. HIDE DEF f, Good
  <2>. QED BY <2>1, <2>2
<1>2. ASSUME NEW m \in 0 .. n - 1, m \in P
      PROVE  m + 1 \in P
  <2>1. PICK f \in [0 .. m -> S] : Good(m, f)
    BY <1>2
  <2>. DEFINE g == [i \in 0 .. m + 1 |-> IF i = m + 1 THEN F[m + 1][f[m]] ELSE f[i]]
  <2>2. F[m + 1][f[m]] \in S
    <3>1. m + 1 \in 1 .. n /\ f[m] \in S
      OBVIOUS
    <3>. QED BY <3>1
  <2>3. g \in [0 .. m + 1 -> S]
    BY <2>2
  <2>4. g[0] = base /\ g[m + 1] = F[m + 1][f[m]] /\ \A i \in 0 .. m : g[i] = f[i]
    BY <2>1
  <2>. HIDE DEF g
  <2>5. \A i \in 1 .. m + 1 : g[i] = F[i][g[i - 1]]
    BY <2>1, <2>4
  <2>. QED BY <2>3, <2>4, <2>5
<1>3. n \in P
  <2>1. \A m \in 0 .. n - 1 : m \in P => m + 1 \in P
    BY <1>2
  <2>. HIDE DEF P
  <2>2. \A m \in 0 .. n : m \in P
    BY <1>1, <2>1, Counting
  <2>. QED BY <2>2
<1>. QED BY <1>3 DEF Unfolds

\* What Least chooses.
LEMMA LeastIs ==
    ASSUME NEW S \in SUBSET Nat, S # {}
    PROVE  Least(S) \in S /\ \A k \in S : Least(S) <= k
<1>1. \E h \in S : \A k \in S : h <= k
  BY Smallest
<1>. QED BY <1>1 DEF Least

\* What has been consumed after letter i of the guess, if T was before it.
NextTaken(g, t, i, T) ==
    IF i \in Greens(g, t) THEN T
    ELSE LET free == {j \in (1 .. Len(t)) \ T : g[i] = t[j]}
         IN  IF free = {} THEN T ELSE T \union {Least(free)}

\* consumed is the function its recursion describes.
LEMMA Consumed ==
    ASSUME NEW g, NEW t, NEW n \in Nat, Len(g) = n, Len(t) \in Nat
    PROVE  LET c == consumed(g, t)
           IN  /\ c \in [0 .. n -> SUBSET (1 .. Len(t))]
               /\ c[0] = Greens(g, t)
               /\ \A i \in 1 .. n : c[i] = NextTaken(g, t, i, c[i - 1])
<1>. DEFINE S == SUBSET (1 .. Len(t))
            F == [i \in 1 .. n |-> [T \in S |-> NextTaken(g, t, i, T)]]
            c == consumed(g, t)
            Fits(f) == f = [i \in 0 .. n |->
                    IF i = 0 THEN Greens(g, t)
                    ELSE IF i \in Greens(g, t) THEN f[i - 1]
                    ELSE LET free == {j \in (1 .. Len(t)) \ f[i - 1] : g[i] = t[j]}
                         IN  IF free = {} THEN f[i - 1] ELSE f[i - 1] \union {Least(free)}]
<1>1. c = CHOOSE f : Fits(f)
  BY DEF consumed
<1>2. \A T \in S, i \in 1 .. n : NextTaken(g, t, i, T) \in S
  <2>. SUFFICES ASSUME NEW T \in S, NEW i \in 1 .. n
                PROVE  NextTaken(g, t, i, T) \in S
    OBVIOUS
  <2>. DEFINE free == {j \in (1 .. Len(t)) \ T : g[i] = t[j]}
  <2>1. free # {} => Least(free) \in free
    <3>1. free \in SUBSET Nat
      OBVIOUS
    <3>. HIDE DEF free
    <3>. QED BY <3>1, LeastIs
  <2>. QED BY <2>1 DEF NextTaken
<1>3. Greens(g, t) \in S
  BY DEF Greens
<1>4. F \in [1 .. n -> [S -> S]]
  BY <1>2
<1>5. PICK f \in [0 .. n -> S] :
        f[0] = Greens(g, t) /\ \A i \in 1 .. n : f[i] = F[i][f[i - 1]]
  <2>. DEFINE base == Greens(g, t)
  <2>1. n \in Nat /\ base \in S
    BY <1>3
  <2>. HIDE DEF F, S, base
  <2>2. \E f : Unfolds(f, n, S, base, F)
    BY <1>4, <2>1, Recursion
  <2>. QED BY <2>2 DEF base, Unfolds
<1>6. \A h : Fits(h) <=> h = [i \in 0 .. n |-> IF i = 0 THEN Greens(g, t)
                                             ELSE NextTaken(g, t, i, h[i - 1])]
  BY DEF NextTaken
<1>7. Fits(f)
  <2>1. \A i \in 1 .. n : i - 1 \in 0 .. n /\ f[i - 1] \in S
    <3>. HIDE DEF S
    <3>1. \A i \in 1 .. n : i - 1 \in 0 .. n
      OBVIOUS
    <3>. QED BY <3>1, <1>5
  <2>2. \A i \in 1 .. n : F[i][f[i - 1]] = NextTaken(g, t, i, f[i - 1])
    BY <2>1
  <2>. HIDE DEF F, S, Fits
  <2>3. f = [i \in 0 .. n |-> f[i]] /\ \A i \in 0 .. n : i # 0 => i \in 1 .. n
    BY <1>5
  <2>4. f = [i \in 0 .. n |-> IF i = 0 THEN Greens(g, t)
                             ELSE NextTaken(g, t, i, f[i - 1])]
    BY <1>5, <2>2, <2>3
  <2>. QED BY <1>6, <2>4
<1>8. Fits(c)
  <2>. HIDE DEF Fits, c
  <2>. QED BY <1>1, <1>7
<1>9. /\ DOMAIN c = 0 .. n /\ c[0] = Greens(g, t)
      /\ \A i \in 1 .. n : c[i] = NextTaken(g, t, i, c[i - 1])
  <2>. HIDE DEF Fits, c
  <2>. QED BY <1>6, <1>8
<1>10. \A i \in 0 .. n : c[i] \in S
  <2>. DEFINE P == {i \in 0 .. n : c[i] \in S}
  <2>1. 0 \in P
    BY <1>3, <1>9
  <2>2. \A i \in 0 .. n - 1 : i \in P => i + 1 \in P
    BY <1>2, <1>9
  <2>3. \A i \in 0 .. n : i \in P
    <3>. HIDE DEF P
    <3>. QED BY <2>1, <2>2, Counting
  <2>. QED BY <2>3
<1>. QED BY <1>8, <1>9, <1>10

--------------------------------------------------------------------------------
\* The length of a word.
LEMMA WordLength ==
    ASSUME NEW n \in Nat, NEW L, NEW w \in [1 .. n -> L]
    PROVE  w \in Seq(L) /\ Len(w) = n
OBVIOUS

\* The places where guess and target differ.
Off(g, t) == (1 .. Len(t)) \ Greens(g, t)

\* Occurrences of letters can be counted.
LEMMA Counts ==
    ASSUME NEW n \in Nat, NEW P \in SUBSET (1 .. n), NEW w, NEW x
    PROVE  IsFiniteSet(Copies(w, x, P)) /\ Cardinality(Copies(w, x, P)) \in Nat
<1>1. IsFiniteSet(1 .. n)
  BY FS_Interval
<1>2. Copies(w, x, P) \in SUBSET (1 .. n)
  BY DEF Copies
<1>. QED BY <1>1, <1>2, FS_Subset, FS_CardinalityType

\* What the next letter of the guess consumes.
TookOne(g, t, n, i, T, U) ==
    /\ U \in SUBSET (1 .. n) /\ T \subseteq U
    /\ \A x : x # g[i] \/ i \in Greens(g, t) =>
         Copies(t, x, U \ Greens(g, t)) = Copies(t, x, T \ Greens(g, t))
    /\ i \notin Greens(g, t) =>
         LET x == g[i]
             C == Copies(t, x, T \ Greens(g, t))
             D == Copies(t, x, U \ Greens(g, t))
             all == Copies(t, x, Off(g, t))
         IN  /\ C \subseteq all
             /\ C = all => U = T
             /\ C # all => U # T /\ \E j : j \notin C /\ D = C \union {j}

LEMMA TakesOne ==
    ASSUME NEW n \in Nat, NEW g, NEW t, Len(t) = n, NEW i \in 1 .. n,
           NEW T \in SUBSET (1 .. n), Greens(g, t) \subseteq T,
           NEW U, U = NextTaken(g, t, i, T)
    PROVE  TookOne(g, t, n, i, T, U)
<1>. DEFINE G == Greens(g, t)
            free == {j \in (1 .. n) \ T : g[i] = t[j]}
<1>1. CASE i \in G
  BY <1>1 DEF NextTaken, TookOne
<1>2. CASE i \notin G /\ free = {}
  <2>1. U = T
    BY <1>2 DEF NextTaken
  <2>2. Copies(t, g[i], T \ G) = Copies(t, g[i], Off(g, t))
    BY <1>2 DEF Copies, Off
  <2>. QED BY <1>2, <2>1, <2>2 DEF TookOne
<1>3. CASE i \notin G /\ free # {}
  <2>. DEFINE j == Least(free)
  <2>1. j \in free
    <3>1. free \in SUBSET Nat
      OBVIOUS
    <3>. HIDE DEF free
    <3>. QED BY <1>3, <3>1, LeastIs
  <2>2. U = T \union {j}
    BY <1>3 DEF NextTaken
  <2>3. j \in 1 .. n /\ j \notin T /\ t[j] = g[i] /\ j \notin G
    BY <2>1
  <2>. HIDE DEF j, free
  <2>4. j \in Copies(t, g[i], Off(g, t)) /\ j \notin Copies(t, g[i], T \ G)
    BY <2>3 DEF Copies, Off
  <2>5. Copies(t, g[i], U \ G) = Copies(t, g[i], T \ G) \union {j}
    BY <2>2, <2>3 DEF Copies
  <2>6. \A x : x # g[i] => Copies(t, x, U \ G) = Copies(t, x, T \ G)
    BY <2>2, <2>3 DEF Copies
  <2>7. Copies(t, g[i], T \ G) \subseteq Copies(t, g[i], Off(g, t))
    BY DEF Copies, Off
  <2>8. U \in SUBSET (1 .. n) /\ U # T /\ T \subseteq U
    BY <2>2, <2>3
  <2>. HIDE DEF G
  <2>. QED BY <1>3, <2>4, <2>5, <2>6, <2>7, <2>8 DEF G, TookOne
<1>. QED BY <1>1, <1>2, <1>3

\* After i letters of the guess, as many copies of a letter have been consumed out
\* of place as the guess had among them, or all that the target has.
LEMMA TakenCounts ==
    ASSUME NEW n \in Nat, NEW g, NEW t, Len(g) = n, Len(t) = n
    PROVE  \A i \in 0 .. n :
            LET taken == consumed(g, t)[i]
                off == Off(g, t)
            IN  /\ taken \in SUBSET (1 .. n) /\ Greens(g, t) \subseteq taken
                /\ \A x : LET tried == Occurrences(g, x, {k \in off : k <= i})
                              there == Occurrences(t, x, off)
                          IN  Occurrences(t, x, taken \ Greens(g, t)) =
                                IF tried < there THEN tried ELSE there
<1>. DEFINE G == Greens(g, t)
            c == consumed(g, t)
            off == Off(g, t)
            tried(x, i) == Occurrences(g, x, {k \in off : k <= i})
            there(x) == Occurrences(t, x, off)
            Right(i, T) == \A x : Occurrences(t, x, T \ G) =
                                    IF tried(x, i) < there(x) THEN tried(x, i) ELSE there(x)
            P == {i \in 0 .. n : c[i] \in SUBSET (1 .. n) /\ G \subseteq c[i] /\ Right(i, c[i])}
<1>0. /\ c \in [0 .. n -> SUBSET (1 .. n)] /\ c[0] = G
      /\ \A i \in 1 .. n : c[i] = NextTaken(g, t, i, c[i - 1])
  BY Consumed
<1>1. off \in SUBSET (1 .. n) /\ G \in SUBSET (1 .. n) /\ off = (1 .. n) \ G
  BY DEF Off, Greens
<1>2. \A x, i : tried(x, i) \in Nat /\ there(x) \in Nat
  <2>. SUFFICES ASSUME NEW x, NEW i PROVE tried(x, i) \in Nat /\ there(x) \in Nat
    OBVIOUS
  <2>1. {k \in off : k <= i} \in SUBSET (1 .. n)
    BY <1>1
  <2>2. off \in SUBSET (1 .. n)
    BY <1>1
  <2>. HIDE DEF off
  <2>. QED BY <2>1, <2>2, Counts DEF Occurrences
<1>3. 0 \in P
  <2>1. \A x : Copies(t, x, G \ G) = {} /\ Copies(g, x, {k \in off : k <= 0}) = {}
    BY <1>1 DEF Copies
  <2>2. \A x : Occurrences(t, x, G \ G) = 0 /\ tried(x, 0) = 0
    BY <2>1, FS_EmptySet DEF Occurrences
  <2>3. Right(0, c[0])
    <3>. HIDE DEF tried, there, c, G
    <3>1. \A x : 0 = IF tried(x, 0) < there(x) THEN tried(x, 0) ELSE there(x)
      BY <1>2, <2>2
    <3>. QED BY <1>0, <2>2, <3>1
  <2>4. 0 \in 0 .. n
    OBVIOUS
  <2>5. c[0] \in SUBSET (1 .. n) /\ G \subseteq c[0]
    BY <1>0, <1>1
  <2>. HIDE DEF Right, c, G
  <2>. QED BY <2>3, <2>4, <2>5
<1>4. ASSUME NEW i \in 0 .. n - 1, i \in P
      PROVE  i + 1 \in P
  <2>. DEFINE T == c[i]
              U == c[i + 1]
  <2>1. i + 1 \in 1 .. n /\ U = NextTaken(g, t, i + 1, T)
    BY <1>0
  <2>2. T \in SUBSET (1 .. n) /\ G \subseteq T /\ Right(i, T)
    BY <1>4
  <2>. HIDE DEF T, U
  <2>3. /\ U \in SUBSET (1 .. n) /\ T \subseteq U
        /\ \A x : x # g[i + 1] \/ i + 1 \in G => Copies(t, x, U \ G) = Copies(t, x, T \ G)
        /\ i + 1 \notin G =>
                LET x == g[i + 1]
                    C == Copies(t, x, T \ G)
                    D == Copies(t, x, U \ G)
                    all == Copies(t, x, off)
                IN  /\ C \subseteq all
                    /\ C = all => U = T
                    /\ C # all => U # T /\ \E j : j \notin C /\ D = C \union {j}
    <3>1. T \in SUBSET (1 .. n) /\ Greens(g, t) \subseteq T /\ i + 1 \in 1 .. n
      BY <2>1, <2>2
    <3>2. \A k \in 1 .. n : U = NextTaken(g, t, k, T) => TookOne(g, t, n, k, T, U)
      <4>. HIDE DEF G, off
      <4>. QED BY <3>1, TakesOne
    <3>. QED BY <2>1, <3>1, <3>2 DEF TookOne
  <2>4. ASSUME NEW x, x # g[i + 1] \/ i + 1 \in G
        PROVE  Occurrences(t, x, U \ G) = Occurrences(t, x, T \ G) /\ tried(x, i + 1) = tried(x, i)
    <3>1. Copies(g, x, {k \in off : k <= i + 1}) = Copies(g, x, {k \in off : k <= i})
      BY <1>1, <2>4 DEF Copies
    <3>. QED BY <2>3, <2>4, <3>1 DEF Occurrences
  <2>5. ASSUME NEW x, x = g[i + 1], i + 1 \notin G
        PROVE  /\ tried(x, i + 1) = tried(x, i) + 1
               /\ Occurrences(t, x, T \ G) = there(x) =>
                    Occurrences(t, x, U \ G) = there(x)
               /\ Occurrences(t, x, T \ G) # there(x) =>
                    Occurrences(t, x, U \ G) = Occurrences(t, x, T \ G) + 1
    <3>. DEFINE C == Copies(t, x, T \ G)
                D == Copies(t, x, U \ G)
                all == Copies(t, x, off)
    <3>1. Copies(g, x, {k \in off : k <= i + 1}) =
            Copies(g, x, {k \in off : k <= i}) \union {i + 1}
          /\ i + 1 \notin Copies(g, x, {k \in off : k <= i})
      BY <1>1, <2>1, <2>5 DEF Copies
    <3>2. IsFiniteSet(Copies(g, x, {k \in off : k <= i}))
      <4>1. {k \in off : k <= i} \in SUBSET (1 .. n)
        BY <1>1
      <4>. QED BY <4>1, Counts
    <3>3. tried(x, i + 1) = tried(x, i) + 1
      BY <3>1, <3>2, FS_AddElement DEF Occurrences
    <3>4. IsFiniteSet(C) /\ IsFiniteSet(all)
      <4>1. T \ G \in SUBSET (1 .. n)
        BY <2>2
      <4>. QED BY <1>1, <4>1, Counts
    <3>5. C \subseteq all /\ (C = all => U = T) /\ (C # all => \E j : j \notin C /\ D = C \union {j})
      BY <2>3, <2>5 DEF TookOne
    <3>6. C # all => Cardinality(C) # Cardinality(all) /\ Cardinality(D) = Cardinality(C) + 1
      <4>. HIDE DEF C, D, all
      <4>. QED BY <3>4, <3>5, FS_Subset, FS_AddElement
    <3>7. C = all => D = all
      BY <3>5
    <3>. QED BY <3>3, <3>6, <3>7 DEF Occurrences
  <2>6. Right(i + 1, U)
    <3>. SUFFICES ASSUME NEW x
                  PROVE  Occurrences(t, x, U \ G) =
                            IF tried(x, i + 1) < there(x) THEN tried(x, i + 1) ELSE there(x)
      OBVIOUS
    <3>1. Occurrences(t, x, T \ G) = IF tried(x, i) < there(x) THEN tried(x, i) ELSE there(x)
      BY <2>2
    <3>2. tried(x, i) \in Nat /\ there(x) \in Nat
      BY <1>2
    <3>. HIDE DEF tried, there, G, P
    <3>3. CASE x # g[i + 1] \/ i + 1 \in G
      <4>1. Occurrences(t, x, U \ G) = Occurrences(t, x, T \ G)
        BY <2>4, <3>3
      <4>2. tried(x, i + 1) = tried(x, i)
        BY <2>4, <3>3
      <4>. QED BY <3>1, <4>1, <4>2
    <3>4. CASE x = g[i + 1] /\ i + 1 \notin G
      <4>1. tried(x, i + 1) = tried(x, i) + 1
        BY <2>5, <3>4
      <4>2. Occurrences(t, x, T \ G) = there(x) => Occurrences(t, x, U \ G) = there(x)
        BY <2>5, <3>4
      <4>3. Occurrences(t, x, T \ G) # there(x) =>
                Occurrences(t, x, U \ G) = Occurrences(t, x, T \ G) + 1
        BY <2>5, <3>4
      <4>. HIDE DEF T, U
      <4>. QED BY <3>1, <3>2, <4>1, <4>2, <4>3
    <3>. QED BY <3>3, <3>4
  <2>7. i + 1 \in 0 .. n
    BY <2>1
  <2>8. U \in SUBSET (1 .. n) /\ G \subseteq U
    BY <2>2, <2>3
  <2>. HIDE DEF Right, c, G
  <2>. QED BY <2>6, <2>7, <2>8 DEF U
<1>5. \A i \in 0 .. n : i \in P
  <2>1. \A i \in 0 .. n - 1 : i \in P => i + 1 \in P
    BY <1>4
  <2>. HIDE DEF P
  <2>. QED BY <1>3, <2>1, Counting
<1>. QED BY <1>5

\* A letter off its place is yellow if and only if the target has more copies of it
\* out of place than the guess had before it.
LEMMA YellowIs ==
    ASSUME NEW n \in Nat, NEW g, NEW t, Len(g) = n, Len(t) = n,
           NEW i \in 1 .. n, i \notin Greens(g, t)
    PROVE  consumed(g, t)[i] # consumed(g, t)[i - 1]
              <=> Occurrences(g, g[i], {k \in Off(g, t) : k < i}) < Occurrences(t, g[i], Off(g, t))
<1>. DEFINE G == Greens(g, t)
            c == consumed(g, t)
            T == c[i - 1]
            U == c[i]
            x == g[i]
            off == Off(g, t)
            C == Copies(t, x, T \ G)
            all == Copies(t, x, off)
            tried == Occurrences(g, x, {k \in off : k <= i - 1})
<1>1. i - 1 \in 0 .. n
  OBVIOUS
<1>2. /\ T \in SUBSET (1 .. n) /\ G \subseteq T
      /\ Cardinality(C) = IF tried < Cardinality(all) THEN tried ELSE Cardinality(all)
  BY <1>1, TakenCounts DEF Occurrences
<1>3. U = NextTaken(g, t, i, T)
  BY Consumed
<1>4. TookOne(g, t, n, i, T, U)
  <2>. HIDE DEF T, U
  <2>. QED BY <1>2, <1>3, TakesOne
<1>5. C \subseteq all /\ (U # T <=> C # all)
  BY <1>4 DEF TookOne
<1>6. off \in SUBSET (1 .. n) /\ off = (1 .. n) \ G
  BY DEF Off
<1>7. IsFiniteSet(all) /\ Cardinality(all) \in Nat /\ IsFiniteSet(C)
  <2>1. T \ G \in SUBSET (1 .. n)
    BY <1>2
  <2>. HIDE DEF off, T, x, G
  <2>. QED BY <1>6, <2>1, Counts
<1>8. tried \in Nat
  <2>1. {k \in off : k <= i - 1} \in SUBSET (1 .. n)
    BY <1>6
  <2>. HIDE DEF off, x
  <2>. QED BY <2>1, Counts DEF Occurrences
<1>9. C # all <=> Cardinality(C) # Cardinality(all)
  <2>. HIDE DEF C, all
  <2>. QED BY <1>5, <1>7, FS_Subset
<1>10. C # all <=> tried < Cardinality(all)
  <2>. HIDE DEF C, all, tried
  <2>. QED BY <1>2, <1>7, <1>8, <1>9
<1>11. {k \in off : k <= i - 1} = {k \in off : k < i}
  BY <1>6
<1>. QED BY <1>5, <1>10, <1>11 DEF Occurrences

\* The words of the model.
LEMMA AWord ==
    ASSUME NEW w \in Words
    PROVE  Length \in Nat /\ Len(w) = Length /\ w \in Seq(Letters) /\ DOMAIN w = 1 .. Length
BY LengthAssumption, WordLength DEF Words

\* Score and the rule give the same row.
LEMMA ScoreIsRule ==
    ASSUME NEW g \in Words, NEW t \in Words
    PROVE  Score(g, t) = Rule(g, t)
<1>1. Length \in Nat /\ Len(g) = Length /\ Len(t) = Length
  BY AWord
<1>2. Greens(g, t) = {i \in 1 .. Length : g[i] = t[i]}
  BY <1>1 DEF Greens
<1>3. Off(g, t) = {i \in 1 .. Length : g[i] # t[i]}
  BY <1>1, <1>2 DEF Off
<1>4. \A i \in 1 .. Length : i \notin Greens(g, t) =>
        (consumed(g, t)[i] # consumed(g, t)[i - 1]
           <=> Occurrences(g, g[i], {k \in Off(g, t) : k < i}) < Occurrences(t, g[i], Off(g, t)))
  BY <1>1, YellowIs
<1>5. Score(g, t) = [i \in 1 .. Length |->
            IF i \in Greens(g, t) THEN "green"
            ELSE IF consumed(g, t)[i] # consumed(g, t)[i - 1] THEN "yellow" ELSE "gray"]
  BY <1>1 DEF Score
<1>6. Rule(g, t) = [i \in 1 .. Length |->
            IF i \notin Off(g, t) THEN "green"
            ELSE IF Occurrences(g, g[i], {k \in Off(g, t) : k < i}) < Occurrences(t, g[i], Off(g, t))
            THEN "yellow" ELSE "gray"]
  BY <1>3 DEF Rule
<1>7. \A i \in 1 .. Length : i \in Greens(g, t) <=> i \notin Off(g, t)
  BY <1>2, <1>3
<1>. QED BY <1>4, <1>5, <1>6, <1>7

\* Guess and target are words.
Typed == guess \in Words /\ target \in Words

\* Swapping the words leaves them words.
LEMMA AlwaysTyped == Spec => []Typed
<1>1. Init => Typed
  BY DEF Init, Typed
<1>2. Typed /\ [Swap]_<<guess, target>> => Typed'
  BY DEF Typed, Swap
<1>. QED BY <1>1, <1>2, PTL DEF Spec

\* The two passes of Score colour every guess by the rule, for words of any length
\* over any alphabet (game.go:19-64).
THEOREM ScoringFollowsRule == Spec => []ScoreFollowsRule
<1>1. Typed => ScoreFollowsRule
  BY ScoreIsRule DEF Typed, ScoreFollowsRule
<1>. QED BY <1>1, AlwaysTyped, PTL

--------------------------------------------------------------------------------
\* Taking one position out of a set.
LEMMA OneLess ==
    ASSUME NEW n \in Nat, NEW A \in SUBSET (1 .. n), NEW a \in A
    PROVE  /\ IsFiniteSet(A \ {a}) /\ Cardinality(A \ {a}) \in Nat
           /\ Cardinality(A) = Cardinality(A \ {a}) + 1
<1>1. IsFiniteSet(A)
  <2>1. IsFiniteSet(1 .. n)
    BY FS_Interval
  <2>. QED BY <2>1, FS_Subset
<1>2. IsFiniteSet(A \ {a}) /\ Cardinality(A \ {a}) = Cardinality(A) - 1
  BY <1>1, FS_RemoveElement
<1>. QED BY <1>1, <1>2, FS_CardinalityType

\* Word u has at A every letter as often as w has it at B.
SameCounts(u, A, w, B) == \A x : Occurrences(u, x, A) = Occurrences(w, x, B)

\* Two sets of positions whose letters occur equally often are of one size.
LEMMA SameSize ==
    ASSUME NEW n \in Nat, NEW u, NEW w, NEW A \in SUBSET (1 .. n), NEW B \in SUBSET (1 .. n),
           SameCounts(u, A, w, B)
    PROVE  Cardinality(A) = Cardinality(B)
<1>. DEFINE Size(m) == \A X, Y \in SUBSET (1 .. n) :
                        Cardinality(X) = m /\ SameCounts(u, X, w, Y) => Cardinality(Y) = m
            P == {m \in 0 .. n : Size(m)}
<1>1. \A X \in SUBSET (1 .. n) : IsFiniteSet(X) /\ Cardinality(X) \in 0 .. n
  <2>. SUFFICES ASSUME NEW X \in SUBSET (1 .. n)
                PROVE  IsFiniteSet(X) /\ Cardinality(X) \in 0 .. n
    OBVIOUS
  <2>1. IsFiniteSet(1 .. n) /\ Cardinality(1 .. n) = n
    BY FS_Interval
  <2>2. IsFiniteSet(X) /\ Cardinality(X) <= n
    BY <2>1, FS_Subset
  <2>. QED BY <2>2, FS_CardinalityType
<1>2. 0 \in P
  <2>. SUFFICES ASSUME NEW X \in SUBSET (1 .. n), NEW Y \in SUBSET (1 .. n),
                       Cardinality(X) = 0, SameCounts(u, X, w, Y), Y # {}
                PROVE  FALSE
    BY FS_EmptySet
  <2>1. PICK b \in Y : TRUE
    OBVIOUS
  <2>2. X = {}
    BY <1>1, FS_EmptySet
  <2>3. Copies(u, w[b], X) = {} /\ b \in Copies(w, w[b], Y)
    BY <2>1, <2>2 DEF Copies
  <2>4. Occurrences(u, w[b], X) = 0
    BY <2>3, FS_EmptySet DEF Occurrences
  <2>5. Cardinality(Copies(w, w[b], Y)) = 0 /\ IsFiniteSet(Copies(w, w[b], Y))
    BY <2>4, Counts DEF SameCounts, Occurrences
  <2>. QED BY <2>3, <2>5, FS_EmptySet
<1>3. ASSUME NEW m \in 0 .. n - 1, m \in P
      PROVE  m + 1 \in P
  <2>. SUFFICES ASSUME NEW X \in SUBSET (1 .. n), NEW Y \in SUBSET (1 .. n),
                       Cardinality(X) = m + 1, SameCounts(u, X, w, Y)
                PROVE  Cardinality(Y) = m + 1
    OBVIOUS
  <2>1. PICK a \in X : TRUE
    <3>1. m + 1 # 0
      OBVIOUS
    <3>. QED BY <3>1, FS_EmptySet
  <2>2. a \in Copies(u, u[a], X)
    BY DEF Copies
  <2>3. PICK b \in Y : w[b] = u[a]
    <3>1. IsFiniteSet(Copies(u, u[a], X)) /\ Cardinality(Copies(u, u[a], X)) # 0
      BY <2>2, Counts, FS_EmptySet
    <3>2. Cardinality(Copies(w, u[a], Y)) # 0
      BY <3>1 DEF SameCounts, Occurrences
    <3>3. Copies(w, u[a], Y) # {}
      BY <3>2, FS_EmptySet
    <3>. QED BY <3>3 DEF Copies
  <2>4. SameCounts(u, X \ {a}, w, Y \ {b})
    <3>. SUFFICES ASSUME NEW x
                  PROVE  Cardinality(Copies(u, x, X \ {a})) = Cardinality(Copies(w, x, Y \ {b}))
      BY DEF SameCounts, Occurrences
    <3>1. Cardinality(Copies(u, x, X)) = Cardinality(Copies(w, x, Y))
      BY DEF SameCounts, Occurrences
    <3>2. CASE x # u[a]
      <4>1. Copies(u, x, X \ {a}) = Copies(u, x, X) /\ Copies(w, x, Y \ {b}) = Copies(w, x, Y)
        BY <2>3, <3>2 DEF Copies
      <4>. QED BY <3>1, <4>1
    <3>3. CASE x = u[a]
      <4>1. /\ Copies(u, x, X \ {a}) = Copies(u, x, X) \ {a} /\ a \in Copies(u, x, X)
            /\ Copies(w, x, Y \ {b}) = Copies(w, x, Y) \ {b} /\ b \in Copies(w, x, Y)
        BY <2>3, <3>3 DEF Copies
      <4>2. Copies(u, x, X) \in SUBSET (1 .. n) /\ Copies(w, x, Y) \in SUBSET (1 .. n)
        BY DEF Copies
      <4>3. Cardinality(Copies(u, x, X)) = Cardinality(Copies(u, x, X) \ {a}) + 1
            /\ Cardinality(Copies(u, x, X) \ {a}) \in Nat
        BY <4>1, <4>2, OneLess
      <4>4. Cardinality(Copies(w, x, Y)) = Cardinality(Copies(w, x, Y) \ {b}) + 1
            /\ Cardinality(Copies(w, x, Y) \ {b}) \in Nat
        BY <4>1, <4>2, OneLess
      <4>. DEFINE p == Copies(u, x, X)
                  q == Copies(w, x, Y)
      <4>5. Cardinality(p \ {a}) = Cardinality(q \ {b})
        <5>1. Cardinality(p) = Cardinality(q)
          BY <3>1
        <5>. HIDE DEF p, q
        <5>. QED BY <4>3, <4>4, <5>1 DEF p, q
      <4>. QED BY <4>1, <4>5
    <3>. QED BY <3>2, <3>3
  <2>5. Cardinality(X \ {a}) = m
    <3>1. Cardinality(X) = Cardinality(X \ {a}) + 1 /\ Cardinality(X \ {a}) \in Nat
      BY OneLess
    <3>. QED BY <3>1
  <2>6. Cardinality(Y \ {b}) = m
    <3>1. X \ {a} \in SUBSET (1 .. n) /\ Y \ {b} \in SUBSET (1 .. n)
      OBVIOUS
    <3>. QED BY <1>3, <2>4, <2>5, <3>1
  <2>. QED BY <2>6, OneLess
<1>4. \A m \in 0 .. n : m \in P
  <2>1. \A m \in 0 .. n - 1 : m \in P => m + 1 \in P
    BY <1>3
  <2>. HIDE DEF P
  <2>. QED BY <1>2, <2>1, Counting
<1>5. Cardinality(A) \in P
  BY <1>1, <1>4
<1>. QED BY <1>5

\* The yellow letters of a guess.
Yellows(g, t) == {i \in Off(g, t) : consumed(g, t)[i] # consumed(g, t)[i - 1]}

\* Each yellow letter has consumed one equal letter of the target.
LEMMA YellowsTake ==
    ASSUME NEW n \in Nat, NEW g, NEW t, Len(g) = n, Len(t) = n, NEW x
    PROVE  Occurrences(g, x, Yellows(g, t)) = Occurrences(t, x, consumed(g, t)[n] \ Greens(g, t))
<1>. DEFINE G == Greens(g, t)
            c == consumed(g, t)
            Y(i) == Copies(g, x, {k \in Yellows(g, t) : k <= i})
            C(i) == Copies(t, x, c[i] \ G)
            P == {i \in 0 .. n : Cardinality(Y(i)) = Cardinality(C(i))}
<1>1. /\ c \in [0 .. n -> SUBSET (1 .. n)] /\ c[0] = G
      /\ \A i \in 1 .. n : c[i] = NextTaken(g, t, i, c[i - 1])
  BY Consumed
<1>2. Yellows(g, t) = {i \in 1 .. n : i \notin G /\ c[i] # c[i - 1]}
  BY DEF Yellows, Off
<1>3. \A i \in 0 .. n : c[i] \in SUBSET (1 .. n) /\ G \subseteq c[i]
  <2>. HIDE DEF c, G
  <2>. QED BY TakenCounts DEF c, G
<1>4. 0 \in P
  <2>1. Y(0) = {} /\ C(0) = {}
    BY <1>1, <1>2 DEF Copies
  <2>2. 0 \in 0 .. n
    OBVIOUS
  <2>. HIDE DEF Y, C
  <2>. QED BY <2>1, <2>2
<1>5. ASSUME NEW i \in 0 .. n - 1, i \in P
      PROVE  i + 1 \in P
  <2>. DEFINE T == c[i]
              U == c[i + 1]
  <2>1. i \in 0 .. n /\ i + 1 \in 0 .. n /\ i + 1 \in 1 .. n /\ (i + 1) - 1 = i
    OBVIOUS
  <2>2. T \in SUBSET (1 .. n) /\ G \subseteq T /\ Cardinality(Y(i)) = Cardinality(C(i))
    BY <1>3, <1>5, <2>1
  <2>3. TookOne(g, t, n, i + 1, T, U)
    <3>1. U = NextTaken(g, t, i + 1, T)
      BY <1>1, <2>1
    <3>2. \A k \in 1 .. n : U = NextTaken(g, t, k, T) => TookOne(g, t, n, k, T, U)
      <4>. HIDE DEF T, U
      <4>. QED BY <2>2, TakesOne
    <3>. QED BY <2>1, <3>1, <3>2
  <2>4. Cardinality(Y(i + 1)) = Cardinality(C(i + 1))
    <3>1. CASE x # g[i + 1] \/ i + 1 \in G \/ U = T
      <4>1. Y(i + 1) = Y(i)
        <5>1. i + 1 \in G => U = T
          BY <1>1, <2>1 DEF NextTaken
        <5>. HIDE DEF c, G
        <5>. QED BY <1>2, <2>1, <3>1, <5>1 DEF Copies
      <4>2. C(i + 1) = C(i)
        BY <2>3, <3>1 DEF TookOne
      <4>. HIDE DEF Y, C
      <4>. QED BY <2>2, <4>1, <4>2
    <3>2. CASE x = g[i + 1] /\ i + 1 \notin G /\ U # T
      <4>1. PICK j : j \notin C(i) /\ C(i + 1) = C(i) \union {j}
        BY <2>3, <3>2 DEF TookOne
      <4>2. Y(i + 1) = Y(i) \union {i + 1} /\ i + 1 \notin Y(i)
        BY <1>2, <2>1, <3>2 DEF Copies
      <4>3. IsFiniteSet(Y(i)) /\ IsFiniteSet(C(i))
        <5>1. {k \in Yellows(g, t) : k <= i} \in SUBSET (1 .. n) /\ T \ G \in SUBSET (1 .. n)
          BY <1>2, <2>2
        <5>. HIDE DEF T, G
        <5>. QED BY <5>1, Counts DEF T
      <4>. HIDE DEF Y, C
      <4>4. Cardinality(Y(i + 1)) = Cardinality(Y(i)) + 1
        BY <4>2, <4>3, FS_AddElement
      <4>5. Cardinality(C(i + 1)) = Cardinality(C(i)) + 1
        BY <4>1, <4>3, FS_AddElement
      <4>. QED BY <2>2, <4>4, <4>5
    <3>. QED BY <3>1, <3>2
  <2>. HIDE DEF Y, C
  <2>. QED BY <2>1, <2>4
<1>6. n \in P
  <2>1. \A i \in 0 .. n - 1 : i \in P => i + 1 \in P
    BY <1>5
  <2>. HIDE DEF P
  <2>2. \A i \in 0 .. n : i \in P
    BY <1>4, <2>1, Counting
  <2>. QED BY <2>2
<1>7. {k \in Yellows(g, t) : k <= n} = Yellows(g, t)
  BY <1>2
<1>8. Cardinality(Y(n)) = Cardinality(C(n))
  <2>. HIDE DEF Y, C
  <2>. QED BY <1>6
<1>. QED BY <1>7, <1>8 DEF Occurrences

Smaller(a, b) == IF a < b THEN a ELSE b

\* Out of place, as many letters of a kind are yellow as guess and target share.
LEMMA YellowsShared ==
    ASSUME NEW n \in Nat, NEW g, NEW t, Len(g) = n, Len(t) = n, NEW x
    PROVE  Occurrences(g, x, Yellows(g, t))
             = Smaller(Occurrences(g, x, Off(g, t)), Occurrences(t, x, Off(g, t)))
<1>1. {k \in Off(g, t) : k <= n} = Off(g, t)
  BY DEF Off
<1>2. n \in 0 .. n
  OBVIOUS
<1>3. Occurrences(t, x, consumed(g, t)[n] \ Greens(g, t))
        = Smaller(Occurrences(g, x, Off(g, t)), Occurrences(t, x, Off(g, t)))
  BY <1>1, <1>2, TakenCounts DEF Smaller
<1>. QED BY <1>3, YellowsTake

\* Guess and target may be swapped: the same greens, as many yellows.
LEMMA Symmetric ==
    ASSUME NEW n \in Nat, NEW g, NEW t, Len(g) = n, Len(t) = n
    PROVE  /\ Greens(g, t) = Greens(t, g)
           /\ Cardinality(Yellows(g, t)) = Cardinality(Yellows(t, g))
<1>. DEFINE X == Yellows(g, t)
            Y == Yellows(t, g)
<1>1. Greens(g, t) = Greens(t, g) /\ Off(g, t) = Off(t, g) /\ Off(g, t) \in SUBSET (1 .. n)
  BY DEF Greens, Off
<1>2. X \in SUBSET (1 .. n) /\ Y \in SUBSET (1 .. n)
  BY <1>1 DEF Yellows
<1>3. ASSUME NEW x
      PROVE  Occurrences(g, x, X) = Occurrences(t, x, Y)
  <2>. DEFINE p == Occurrences(g, x, Off(g, t))
              q == Occurrences(t, x, Off(g, t))
  <2>1. Occurrences(g, x, X) = Smaller(p, q)
    BY YellowsShared
  <2>2. Occurrences(t, x, Y) = Smaller(q, p)
    BY <1>1, YellowsShared
  <2>3. p \in Nat /\ q \in Nat
    BY <1>1, Counts DEF Occurrences
  <2>. HIDE DEF X, Y, p, q
  <2>. QED BY <2>1, <2>2, <2>3 DEF Smaller
<1>4. SameCounts(g, X, t, Y)
  BY <1>3 DEF SameCounts
<1>5. Cardinality(X) = Cardinality(Y)
  <2>1. \A C, D \in SUBSET (1 .. n) : SameCounts(g, C, t, D) => Cardinality(C) = Cardinality(D)
    BY SameSize
  <2>. HIDE DEF X, Y
  <2>. QED BY <1>2, <1>4, <2>1
<1>. QED BY <1>1, <1>5

\* What a word has of a letter at A or B is what it has at A and what it has at B.
AddUp(w, x, A, B) ==
    /\ Occurrences(w, x, A) \in Nat /\ Occurrences(w, x, B) \in Nat
    /\ Occurrences(w, x, A \union B) = Occurrences(w, x, A) + Occurrences(w, x, B)

\* For places apart from each other they do.
LEMMA OccurrencesAddUp ==
    ASSUME NEW n \in Nat, NEW w, NEW x, NEW A \in SUBSET (1 .. n), NEW B \in SUBSET (1 .. n),
           A \intersect B = {}
    PROVE  AddUp(w, x, A, B)
<1>1. IsFiniteSet(Copies(w, x, A)) /\ IsFiniteSet(Copies(w, x, B))
      /\ Cardinality(Copies(w, x, A)) \in Nat /\ Cardinality(Copies(w, x, B)) \in Nat
  BY Counts
<1>2. /\ Copies(w, x, A \union B) = Copies(w, x, A) \union Copies(w, x, B)
      /\ Copies(w, x, A) \intersect Copies(w, x, B) = {}
  BY DEF Copies
<1>3. Cardinality(Copies(w, x, A) \union Copies(w, x, B))
        = Cardinality(Copies(w, x, A)) + Cardinality(Copies(w, x, B))
          - Cardinality(Copies(w, x, A) \intersect Copies(w, x, B))
  BY <1>1, FS_Union
<1>4. Cardinality(Copies(w, x, A) \intersect Copies(w, x, B)) = 0
  BY <1>2, FS_EmptySet
<1>. DEFINE p == Cardinality(Copies(w, x, A))
            q == Cardinality(Copies(w, x, B))
<1>5. Cardinality(Copies(w, x, A \union B)) = p + q
  <2>1. Cardinality(Copies(w, x, A \union B)) = p + q - 0
    BY <1>2, <1>3, <1>4
  <2>2. p \in Nat /\ q \in Nat
    BY <1>1
  <2>. HIDE DEF p, q
  <2>. QED BY <2>1, <2>2
<1>. QED BY <1>1, <1>5 DEF Occurrences, AddUp

\* Whatever letters repeat: of every letter as many copies are coloured as guess and
\* target have in common (game.go:19-64).
THEOREM HintsAreExact ==
    ASSUME NEW g \in Words, NEW t \in Words, NEW x
    PROVE  Occurrences(g, x, {i \in 1 .. Length : Score(g, t)[i] # "gray"})
             = Smaller(Occurrences(g, x, 1 .. Length), Occurrences(t, x, 1 .. Length))
<1>. DEFINE G == Greens(g, t)
            Y == Yellows(g, t)
            O == Off(g, t)
            a == Occurrences(g, x, G)
            p == Occurrences(g, x, O)
            q == Occurrences(t, x, O)
            y == Occurrences(g, x, Y)
<1>1. Length \in Nat /\ Len(g) = Length /\ Len(t) = Length
  BY AWord
<1>2. /\ G \in SUBSET (1 .. Length) /\ O \in SUBSET (1 .. Length) /\ Y \in SUBSET (1 .. Length)
      /\ G \union O = 1 .. Length /\ G \intersect O = {} /\ G \intersect Y = {}
  BY <1>1 DEF Greens, Off, Yellows
<1>3. {i \in 1 .. Length : Score(g, t)[i] # "gray"} = G \union Y
  BY <1>1 DEF Score, Greens, Off, Yellows
<1>4. Occurrences(t, x, G) = a
  <2>1. Copies(t, x, G) = Copies(g, x, G)
    BY <1>1 DEF Copies, Greens
  <2>. QED BY <2>1 DEF Occurrences
<1>5. \A w : \A A, B \in SUBSET (1 .. Length) : A \intersect B = {} => AddUp(w, x, A, B)
  BY <1>1, OccurrencesAddUp
<1>6. a \in Nat /\ p \in Nat /\ Occurrences(g, x, G \union O) = a + p
  <2>. HIDE DEF G, O
  <2>. QED BY <1>2, <1>5 DEF AddUp
<1>7. q \in Nat /\ Occurrences(t, x, G \union O) = a + q /\ Occurrences(g, x, G \union Y) = a + y
  <2>. HIDE DEF G, O, Y
  <2>. QED BY <1>2, <1>4, <1>5 DEF AddUp
<1>8. y = Smaller(p, q)
  BY <1>1, YellowsShared
<1>. HIDE DEF G, Y, O, a, p, q, y
<1>9. a + y = Smaller(a + p, a + q)
  BY <1>6, <1>7, <1>8 DEF Smaller
<1>. QED BY <1>2, <1>3, <1>6, <1>7, <1>9

\* What bestRowScore counts.
LEMMA RowScoreIs ==
    ASSUME NEW g \in Words, NEW t \in Words
    PROVE  /\ rowScore(Score(g, t)) = 2 * Cardinality(Greens(g, t)) + Cardinality(Yellows(g, t))
           /\ Greens(g, t) \in SUBSET (1 .. Length) /\ Yellows(g, t) \in SUBSET Off(g, t)
           /\ Off(g, t) = (1 .. Length) \ Greens(g, t)
<1>1. Length \in Nat /\ Len(g) = Length /\ Len(t) = Length
  BY AWord
<1>2. DOMAIN Score(g, t) = 1 .. Length
  BY <1>1 DEF Score
<1>3. {i \in DOMAIN Score(g, t) : Score(g, t)[i] = "green"} = Greens(g, t)
  BY <1>1, <1>2 DEF Score, Greens
<1>4. {i \in DOMAIN Score(g, t) : Score(g, t)[i] = "yellow"} = Yellows(g, t)
  BY <1>1, <1>2 DEF Score, Yellows, Off
<1>. QED BY <1>1, <1>3, <1>4 DEF rowScore, Greens, Yellows, Off

\* ranking.go and the stores take the best row score for a solved board: a row scores
\* twice its length if and only if it is the target.
THEOREM OnlyTargetScoresFull ==
    ASSUME NEW g \in Words, NEW t \in Words
    PROVE  /\ rowScore(Score(g, t)) \in 0 .. 2 * Length
           /\ rowScore(Score(g, t)) = 2 * Length <=> g = t
<1>. DEFINE p == Cardinality(Greens(g, t))
            q == Cardinality(Yellows(g, t))
            o == Cardinality(Off(g, t))
<1>1. Length \in Nat /\ Len(g) = Length /\ Len(t) = Length
  BY AWord
<1>2. IsFiniteSet(1 .. Length) /\ Cardinality(1 .. Length) = Length
  BY <1>1, FS_Interval
<1>3. /\ Greens(g, t) \in SUBSET (1 .. Length) /\ Off(g, t) = (1 .. Length) \ Greens(g, t)
      /\ Yellows(g, t) \in SUBSET Off(g, t)
  BY RowScoreIs
<1>4. IsFiniteSet(Greens(g, t)) /\ IsFiniteSet(Off(g, t)) /\ IsFiniteSet(Yellows(g, t))
  BY <1>2, <1>3, FS_Subset
<1>5. p \in Nat /\ q \in Nat /\ o \in Nat
  BY <1>4, FS_CardinalityType
<1>6. q <= o
  BY <1>3, <1>4, FS_Subset
<1>7. p + o = Length
  <2>1. Greens(g, t) \union Off(g, t) = 1 .. Length /\ Greens(g, t) \intersect Off(g, t) = {}
    BY <1>3
  <2>2. Cardinality(Greens(g, t) \union Off(g, t)) =
            p + o - Cardinality(Greens(g, t) \intersect Off(g, t))
    BY <1>4, FS_Union
  <2>3. Length = p + o - Cardinality({})
    BY <1>2, <2>1, <2>2
  <2>4. Cardinality({}) = 0
    BY FS_EmptySet
  <2>. HIDE DEF p, o
  <2>. QED BY <1>1, <1>5, <2>3, <2>4
<1>8. rowScore(Score(g, t)) = 2 * p + q
  BY RowScoreIs
<1>9. o = 0 <=> Off(g, t) = {}
  BY <1>4, FS_EmptySet
<1>10. Off(g, t) = {} <=> g = t
  <2>1. Off(g, t) = {i \in 1 .. Length : g[i] # t[i]}
    BY <1>1 DEF Off, Greens
  <2>2. g = [i \in 1 .. Length |-> g[i]] /\ t = [i \in 1 .. Length |-> t[i]]
    BY DEF Words
  <2>3. ASSUME Off(g, t) = {} PROVE g = t
    <3>1. \A i \in 1 .. Length : g[i] = t[i]
      BY <2>1, <2>3
    <3>. QED BY <2>2, <3>1
  <2>. QED BY <2>1, <2>3
<1>. HIDE DEF p, q, o
<1>11. rowScore(Score(g, t)) \in 0 .. 2 * Length
  BY <1>1, <1>5, <1>6, <1>7, <1>8
<1>12. rowScore(Score(g, t)) = 2 * Length <=> o = 0
  BY <1>1, <1>5, <1>6, <1>7, <1>8
<1>. QED BY <1>9, <1>10, <1>11, <1>12

\* So the row scores the same either way.
LEMMA ScoresEqually ==
    ASSUME NEW g \in Words, NEW t \in Words
    PROVE  Greens(g, t) = Greens(t, g) /\ rowScore(Score(g, t)) = rowScore(Score(t, g))
<1>1. Length \in Nat /\ Len(g) = Length /\ Len(t) = Length
  BY AWord
<1>2. Greens(g, t) = Greens(t, g) /\ Cardinality(Yellows(g, t)) = Cardinality(Yellows(t, g))
  BY <1>1, Symmetric
<1>3. /\ rowScore(Score(g, t)) = 2 * Cardinality(Greens(g, t)) + Cardinality(Yellows(g, t))
      /\ rowScore(Score(t, g)) = 2 * Cardinality(Greens(t, g)) + Cardinality(Yellows(t, g))
  BY RowScoreIs
<1>. QED BY <1>2, <1>3

\* Swapping guess and target keeps the greens and the score of the row
\* (game.go:19-64, ranking.go:75-91).
THEOREM ScoringIsSymmetric == Spec => ScoreIsSymmetric
<1>1. Typed /\ Swap => /\ Greens(guess, target)' = Greens(guess, target)
                       /\ rowScore(Score(guess, target))' = rowScore(Score(guess, target))
  <2>. SUFFICES ASSUME Typed, Swap
                PROVE  /\ Greens(guess, target)' = Greens(guess, target)
                       /\ rowScore(Score(guess, target))' = rowScore(Score(guess, target))
    OBVIOUS
  <2>1. /\ Greens(guess, target) = Greens(target, guess)
        /\ rowScore(Score(guess, target)) = rowScore(Score(target, guess))
    BY ScoresEqually DEF Typed
  <2>. QED BY <2>1 DEF Swap
<1>2. Typed /\ [Swap]_<<guess, target>> =>
        [/\ Greens(guess, target)' = Greens(guess, target)
         /\ rowScore(Score(guess, target))' = rowScore(Score(guess, target))]_<<guess, target>>
  BY <1>1
<1>. QED BY <1>2, AlwaysTyped, PTL DEF Spec, ScoreIsSymmetric

--------------------------------------------------------------------------------
\* What the key shows is the better of what it showed and of the colours.
Best(before, row, tiles) ==
    IF before = "correct" \/ \E i \in tiles : row[i] = "green" THEN "correct"
    ELSE IF before = "present" \/ \E i \in tiles : row[i] = "yellow" THEN "present"
    ELSE IF before = "absent" \/ tiles # {} THEN "absent" ELSE "unused"

\* What a key may show.
Keys == {"unused", "absent", "present", "correct"}

\* One more letter only betters what the key shows.
LEMMA KeyAfterBetter ==
    ASSUME NEW k \in Keys, NEW s \in Colours
    PROVE  keyAfter(k, s) = IF k = "correct" \/ s = "green" THEN "correct"
                            ELSE IF k = "present" \/ s = "yellow" THEN "present" ELSE "absent"
BY DEF keyAfter, scoringToState, Keys, Colours

\* keyAfterRow takes the best of the row.
LEMMA KeyAfterRow ==
    ASSUME NEW n \in Nat, NEW before \in Keys, NEW row, NEW letter,
           Len(row.word) = n, \A i \in 1 .. n : row.scoring[i] \in Colours
    PROVE  keyAfterRow(before, row, letter) = Best(before, row.scoring, Copies(row.word, letter, 1 .. n))
<1>. DEFINE Step(i, k) == IF row.word[i] = letter THEN keyAfter(k, row.scoring[i]) ELSE k
            F == [i \in 1 .. n |-> [k \in Keys |-> Step(i, k)]]
            Fits(f) == f = [i \in 0 .. n |->
                    IF i = 0 THEN before
                    ELSE IF row.word[i] = letter THEN keyAfter(f[i - 1], row.scoring[i])
                    ELSE f[i - 1]]
            key == CHOOSE f : Fits(f)
            B(i) == Best(before, row.scoring, Copies(row.word, letter, 1 .. i))
            P == {i \in 0 .. n : key[i] = B(i)}
<1>1. keyAfterRow(before, row, letter) = key[n]
  BY DEF keyAfterRow
<1>2. \A i \in 1 .. n, k \in Keys : Step(i, k) \in Keys
  BY KeyAfterBetter DEF Keys
<1>3. PICK f \in [0 .. n -> Keys] : f[0] = before /\ \A i \in 1 .. n : f[i] = F[i][f[i - 1]]
  <2>1. F \in [1 .. n -> [Keys -> Keys]]
    BY <1>2
  <2>. HIDE DEF F
  <2>2. \E f : Unfolds(f, n, Keys, before, F)
    BY <2>1, Recursion
  <2>. QED BY <2>2 DEF Unfolds
<1>4. Fits(f)
  <2>1. \A i \in 1 .. n : i - 1 \in 0 .. n /\ f[i - 1] \in Keys
    BY <1>3
  <2>2. \A i \in 1 .. n : f[i] = Step(i, f[i - 1])
    BY <1>3, <2>1
  <2>3. f = [i \in 0 .. n |-> f[i]] /\ \A i \in 0 .. n : i # 0 => i \in 1 .. n
    BY <1>3
  <2>. QED BY <1>3, <2>2, <2>3
<1>5. Fits(key)
  <2>. HIDE DEF Fits
  <2>. QED BY <1>4
<1>6. key[0] = before /\ \A i \in 1 .. n : key[i] = Step(i, key[i - 1])
  <2>. HIDE DEF key
  <2>. QED BY <1>5
<1>7. 0 \in P
  <2>1. Copies(row.word, letter, 1 .. 0) = {}
    BY DEF Copies
  <2>. HIDE DEF key
  <2>. QED BY <1>6, <2>1 DEF Best, Keys
<1>8. ASSUME NEW i \in 0 .. n - 1, i \in P
      PROVE  i + 1 \in P
  <2>1. i + 1 \in 1 .. n /\ i + 1 \in 0 .. n /\ key[i + 1] = Step(i + 1, key[i]) /\ key[i] = B(i)
    <3>. HIDE DEF key, B, Step
    <3>. QED BY <1>6, <1>8
  <2>2. B(i) \in Keys
    BY DEF Best, Keys
  <2>3. CASE row.word[i + 1] # letter
    <3>1. Copies(row.word, letter, 1 .. i + 1) = Copies(row.word, letter, 1 .. i)
      BY <2>3 DEF Copies
    <3>. HIDE DEF key
    <3>. QED BY <2>1, <2>3, <3>1
  <2>4. CASE row.word[i + 1] = letter
    <3>1. Copies(row.word, letter, 1 .. i + 1) = Copies(row.word, letter, 1 .. i) \union {i + 1}
      BY <2>4 DEF Copies
    <3>2. key[i + 1] = keyAfter(B(i), row.scoring[i + 1])
      BY <2>1, <2>4
    <3>3. B(i + 1) = keyAfter(B(i), row.scoring[i + 1])
      <4>. DEFINE b == B(i)
                  s == row.scoring[i + 1]
                  C == Copies(row.word, letter, 1 .. i)
                  sc == row.scoring
      <4>1. B(i + 1) = Best(before, sc, C \union {i + 1})
        BY <3>1
      <4>2. b = Best(before, sc, C)
        OBVIOUS
      <4>3. b \in Keys /\ s \in Colours /\ s = sc[i + 1]
        BY <2>1, <2>2
      <4>. HIDE DEF b, s, C, B, sc
      <4>4. Best(before, sc, C \union {i + 1}) =
              IF b = "correct" \/ s = "green" THEN "correct"
              ELSE IF b = "present" \/ s = "yellow" THEN "present" ELSE "absent"
        BY <4>2, <4>3 DEF Best
      <4>5. keyAfter(b, s) = IF b = "correct" \/ s = "green" THEN "correct"
                             ELSE IF b = "present" \/ s = "yellow" THEN "present" ELSE "absent"
        BY <4>3, KeyAfterBetter
      <4>. QED BY <4>1, <4>4, <4>5 DEF b, s
    <3>. HIDE DEF key, B
    <3>. QED BY <2>1, <3>2, <3>3
  <2>. QED BY <2>3, <2>4
<1>9. n \in P
  <2>1. \A i \in 0 .. n - 1 : i \in P => i + 1 \in P
    BY <1>8
  <2>. HIDE DEF P
  <2>2. \A i \in 0 .. n : i \in P
    BY <1>7, <2>1, Counting
  <2>. QED BY <2>2
<1>. QED BY <1>1, <1>9

\* What the colours of a letter's tiles say of the target.
LEMMA RowColours ==
    ASSUME NEW w \in Words, NEW t \in Words, NEW letter
    PROVE  LET row == Score(w, t)
               tiles == Places(w, letter)
               there == Places(t, letter)
           IN  /\ (\E i \in tiles : row[i] = "green") <=> tiles \intersect there # {}
               /\ (\E i \in tiles : row[i] = "yellow") => there # {}
               /\ tiles # {} /\ there # {} /\ tiles \intersect there = {} =>
                    \E i \in tiles : row[i] = "yellow"
<1>. DEFINE row == Score(w, t)
            tiles == Places(w, letter)
            there == Places(t, letter)
            off == {i \in 1 .. Length : w[i] # t[i]}
            before(i) == Occurrences(w, w[i], {k \in off : k < i})
            left(i) == Occurrences(t, w[i], off)
<1>1. Length \in Nat /\ off \in SUBSET (1 .. Length)
  BY AWord
<1>2. \A i \in 1 .. Length : row[i] = IF i \notin off THEN "green"
                                      ELSE IF before(i) < left(i) THEN "yellow" ELSE "gray"
  <2>1. row = Rule(w, t)
    BY ScoreIsRule
  <2>. QED BY <2>1 DEF Rule
<1>3. tiles \in SUBSET (1 .. Length) /\ there \in SUBSET (1 .. Length)
      /\ \A i \in 1 .. Length : (i \in tiles <=> w[i] = letter) /\ (i \in there <=> t[i] = letter)
  BY DEF Places, Copies
<1>4. \A i \in 1 .. Length : before(i) \in Nat /\ left(i) \in Nat
  <2>1. \A i : {k \in off : k < i} \in SUBSET (1 .. Length)
    OBVIOUS
  <2>. HIDE DEF off
  <2>. QED BY <1>1, <2>1, Counts DEF Occurrences
<1>5. (\E i \in tiles : row[i] = "green") <=> tiles \intersect there # {}
  <2>1. \A i \in 1 .. Length : row[i] = "green" <=> w[i] = t[i]
    BY <1>2
  <2>. HIDE DEF row, tiles, there
  <2>. QED BY <1>3, <2>1
<1>6. ASSUME NEW i \in tiles, row[i] = "yellow"
      PROVE  there # {}
  <2>1. i \in 1 .. Length /\ w[i] = letter
    BY <1>3
  <2>2. left(i) # 0
    <3>1. before(i) < left(i)
      BY <1>2, <1>6, <2>1
    <3>. HIDE DEF before, left
    <3>. QED BY <1>4, <2>1, <3>1
  <2>3. Copies(t, letter, off) # {}
    BY <2>1, <2>2, FS_EmptySet DEF Occurrences
  <2>. QED BY <2>3 DEF Copies, Places
<1>7. ASSUME tiles # {}, there # {}, tiles \intersect there = {}
      PROVE  \E i \in tiles : row[i] = "yellow"
  <2>1. PICK i \in tiles : \A k \in tiles : i <= k
    <3>1. tiles \in SUBSET Nat
      BY <1>3
    <3>. HIDE DEF tiles
    <3>. QED BY <1>7, <3>1, Smallest
  <2>2. i \in 1 .. Length /\ w[i] = letter /\ i \in off
    BY <1>3, <1>7
  <2>3. before(i) = 0
    <3>1. Copies(w, letter, {k \in off : k < i}) = {}
      BY <1>3, <2>1, <2>2 DEF Copies
    <3>. QED BY <2>2, <3>1, FS_EmptySet DEF Occurrences
  <2>4. left(i) # 0
    <3>1. PICK j \in there : TRUE
      BY <1>7
    <3>2. j \in Copies(t, letter, off)
      BY <1>3, <1>7, <3>1 DEF Copies
    <3>3. IsFiniteSet(Copies(t, letter, off))
      <4>. HIDE DEF off
      <4>. QED BY <1>1, Counts
    <3>. QED BY <2>2, <3>2, <3>3, FS_EmptySet DEF Occurrences
  <2>5. before(i) < left(i)
    <3>. HIDE DEF before, left
    <3>. QED BY <1>4, <2>2, <2>3, <2>4
  <2>. QED BY <1>2, <2>2, <2>5
<1>. QED BY <1>5, <1>6, <1>7

\* A scored guess is a row of colours.
LEMMA ScoredRow ==
    ASSUME NEW w \in Words, NEW t \in Words
    PROVE  LET row == ScoredGuess(w, t)
           IN  /\ Length \in Nat /\ row.word = w /\ Len(row.word) = Length /\ row.scoring = Score(w, t)
               /\ \A i \in 1 .. Length : row.scoring[i] \in Colours
<1>1. Length \in Nat /\ Len(w) = Length /\ Len(t) = Length
  BY AWord
<1>2. \A i \in 1 .. Length : Score(w, t)[i] \in Colours
  BY <1>1 DEF Score, Colours
<1>. QED BY <1>1, <1>2 DEF ScoredGuess

\* One more row turns the truth about the tries so far into that about one more try.
LEMMA RowKeepsTruth ==
    ASSUME NEW w \in Words, NEW t \in Words, NEW letter, NEW tried
    PROVE  keyAfterRow(Truth(tried, Places(t, letter)), ScoredGuess(w, t), letter)
             = Truth(tried \union Places(w, letter), Places(t, letter))
<1>. DEFINE row == ScoredGuess(w, t)
            tiles == Places(w, letter)
            there == Places(t, letter)
            key == Truth(tried, there)
<1>1. /\ Length \in Nat /\ row.word = w /\ Len(row.word) = Length /\ row.scoring = Score(w, t)
      /\ \A i \in 1 .. Length : row.scoring[i] \in Colours
  BY ScoredRow
<1>2. key \in Keys
  BY DEF Truth, Keys
<1>3. keyAfterRow(key, row, letter) = Best(key, Score(w, t), tiles)
  <2>1. Copies(row.word, letter, 1 .. Length) = tiles
    BY <1>1 DEF Places
  <2>. HIDE DEF key, row, tiles
  <2>. QED BY <1>1, <1>2, <2>1, KeyAfterRow
<1>4. /\ (\E i \in tiles : Score(w, t)[i] = "green") <=> tiles \intersect there # {}
      /\ (\E i \in tiles : Score(w, t)[i] = "yellow") => there # {}
      /\ tiles # {} /\ there # {} /\ tiles \intersect there = {} =>
            \E i \in tiles : Score(w, t)[i] = "yellow"
  BY RowColours
<1>5. Best(key, Score(w, t), tiles) = Truth(tried \union tiles, there)
  <2>. HIDE DEF tiles, there, row
  <2>. QED BY <1>4 DEF Best, Truth
<1>. QED BY <1>3, <1>5

\* All that was tried in the first rows.
AllTried(ws, m, letter) == UNION {Places(ws[r], letter) : r \in 1 .. m}

\* However many rows there are, the key of a letter is correct when it was tried where
\* the target has it, present when only elsewhere, absent when the target does not
\* have it (Game.tsx:332-345).
THEOREM KeysTellTruth ==
    ASSUME NEW m \in Nat, NEW ws \in [1 .. m -> Words], NEW t \in Words, NEW letter
    PROVE  keyStates([r \in 1 .. m |-> ScoredGuess(ws[r], t)], letter)
             = Truth(AllTried(ws, m, letter), Places(t, letter))
<1>. DEFINE guesses == [r \in 1 .. m |-> ScoredGuess(ws[r], t)]
            there == Places(t, letter)
            F == [r \in 1 .. m |-> [k \in Keys |-> keyAfterRow(k, guesses[r], letter)]]
            Fits(f) == f = [r \in 0 .. m |->
                    IF r = 0 THEN "unused" ELSE keyAfterRow(f[r - 1], guesses[r], letter)]
            key == CHOOSE f : Fits(f)
            told == [r \in 0 .. m |-> Truth(AllTried(ws, r, letter), there)]
<1>1. Len(guesses) = m
  OBVIOUS
<1>2. keyStates(guesses, letter) = key[m]
  BY <1>1 DEF keyStates
<1>3. AllTried(ws, 0, letter) = {}
  BY DEF AllTried
<1>4. \A r \in 1 .. m : AllTried(ws, r, letter) = AllTried(ws, r - 1, letter) \union Places(ws[r], letter)
  BY DEF AllTried
<1>5. \A r \in 1 .. m : told[r] = keyAfterRow(told[r - 1], guesses[r], letter)
  <2>. SUFFICES ASSUME NEW r \in 1 .. m
                PROVE  told[r] = keyAfterRow(told[r - 1], guesses[r], letter)
    OBVIOUS
  <2>1. r - 1 \in 0 .. m /\ r \in 0 .. m /\ ws[r] \in Words /\ guesses[r] = ScoredGuess(ws[r], t)
    OBVIOUS
  <2>2. told[r - 1] = Truth(AllTried(ws, r - 1, letter), there)
        /\ told[r] = Truth(AllTried(ws, r - 1, letter) \union Places(ws[r], letter), there)
    BY <1>4, <2>1
  <2>. HIDE DEF told, guesses
  <2>. QED BY <2>1, <2>2, RowKeepsTruth
<1>6. Fits(told)
  <2>1. told[0] = "unused"
    BY <1>3 DEF Truth
  <2>2. told = [r \in 0 .. m |-> told[r]] /\ \A r \in 0 .. m : r # 0 => r \in 1 .. m
    OBVIOUS
  <2>. HIDE DEF told, guesses
  <2>. QED BY <1>5, <2>1, <2>2
<1>7. Fits(key)
  <2>. HIDE DEF Fits
  <2>. QED BY <1>6
<1>8. key = told
  <2>. DEFINE P == {r \in 0 .. m : key[r] = told[r]}
  <2>1. key[0] = told[0] /\ \A r \in 1 .. m : key[r] = keyAfterRow(key[r - 1], guesses[r], letter)
    <3>. HIDE DEF key, told, guesses
    <3>. QED BY <1>6, <1>7
  <2>2. \A r \in 0 .. m : r \in P
    <3>1. 0 \in P
      BY <2>1
    <3>2. \A r \in 0 .. m - 1 : r \in P => r + 1 \in P
      <4>. HIDE DEF key, told, guesses
      <4>. QED BY <1>5, <2>1
    <3>. HIDE DEF P
    <3>. QED BY <3>1, <3>2, Counting
  <2>. HIDE DEF key, told, guesses
  <2>. QED BY <1>6, <1>7, <2>2
<1>9. told[m] = Truth(AllTried(ws, m, letter), there)
  OBVIOUS
<1>. HIDE DEF key, told, guesses
<1>. QED BY <1>2, <1>8, <1>9 DEF guesses

\* So it is after the two guesses of the run, whatever they are.
THEOREM KeyboardsTellTruth == Spec => []KeyboardTellsTruth
<1>1. ASSUME NEW g \in Words, NEW o \in Words, NEW t \in Words, NEW letter
      PROVE  keyStates(<<ScoredGuess(g, t), ScoredGuess(o, t)>>, letter)
               = Truth(Places(g, letter) \union Places(o, letter), Places(t, letter))
  <2>. DEFINE ws == [r \in 1 .. 2 |-> IF r = 1 THEN g ELSE o]
  <2>1. ws \in [1 .. 2 -> Words] /\ 2 \in Nat /\ ws[1] = g /\ ws[2] = o
    OBVIOUS
  <2>2. [r \in 1 .. 2 |-> ScoredGuess(ws[r], t)] = <<ScoredGuess(g, t), ScoredGuess(o, t)>>
    OBVIOUS
  <2>3. AllTried(ws, 2, letter) = Places(g, letter) \union Places(o, letter)
    BY <2>1 DEF AllTried
  <2>. HIDE DEF ws
  <2>4. keyStates([r \in 1 .. 2 |-> ScoredGuess(ws[r], t)], letter)
          = Truth(AllTried(ws, 2, letter), Places(t, letter))
    BY <2>1, KeysTellTruth
  <2>. QED BY <2>2, <2>3, <2>4
<1>2. Typed => KeyboardTellsTruth
  BY <1>1 DEF Typed, KeyboardTellsTruth
<1>. QED BY <1>2, AlwaysTyped, PTL
================================================================================
