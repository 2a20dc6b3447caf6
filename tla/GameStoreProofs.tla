---------------------------- MODULE GameStoreProofs ----------------------------
(***************************************************************************)
(* A single-player game for any number of concurrent requests, any words   *)
(* and any number of rows.  Inductive is that the status tells the board   *)
(* while no row follows a winning one, and that every answer on its way    *)
(* holds a prefix of the board; only the look at the status under the lock *)
(* keeps the first.                                                        *)
(***************************************************************************)
EXTENDS GameStore, SequenceTheorems, TLAPS

BoardOK ==
    /\ status \in {"none", "playing", "won", "lost"}
    /\ target \in Answers \union {NoWord}
    /\ rows \in Seq(Dictionary)
    /\ Len(rows) <= MaxGuesses
    /\ status = "none" <=> target = NoWord
    /\ status = "none" => rows = <<>>
    /\ \A i \in 1 .. Len(rows) : rows[i] = target => i = Len(rows)
    /\ status = "won" <=> Len(rows) > 0 /\ rows[Len(rows)] = target
    /\ status = "lost" <=> Len(rows) = MaxGuesses /\ rows[Len(rows)] # target

Prefix(b) ==
    b \in Seq(Dictionary) /\ Len(b) <= Len(rows) /\ \A i \in 1 .. Len(b) : b[i] = rows[i]

SnapOK(s) ==
    /\ Prefix(s.rows)
    /\ s.target # NoWord =>
        Len(s.rows) = Len(rows) /\ s.target = target /\ status \in {"won", "lost"}

RequestOK(x) ==
    /\ x.pc \in {"free", "received", "checked", "answered"}
    /\ x.pc = "received" => x = [pc |-> "received", word |-> x.word]
    /\ x.pc = "checked" => x.word \in Dictionary
    /\ x.pc = "answered" /\ x.code = "ok" => SnapOK(x.snap)

GameInv ==
    /\ BoardOK
    /\ request = [r \in Requests |-> request[r]]
    /\ \A r \in Requests : RequestOK(request[r])

--------------------------------------------------------------------------------
LEMMA FreeOK == RequestOK(Free)
BY DEF RequestOK, Free

LEMMA FailureOK == \A code : code # "ok" => RequestOK(Failure(code))
BY DEF RequestOK, Failure

\* An answer made under the lock shows the board as it is.
LEMMA AnswersOK ==
    BoardOK /\ status # "none" => RequestOK(Answer(status, target, rows))
<1>. SUFFICES ASSUME BoardOK, status # "none" PROVE RequestOK(Answer(status, target, rows))
  OBVIOUS
<1>. DEFINE s == [status |-> status, rows |-> rows,
                  target |-> IF status \in {"won", "lost"} THEN target ELSE NoWord]
            x == [pc |-> "answered", code |-> "ok", snap |-> s]
<1>1. s.rows = rows /\ (s.target # NoWord => s.target = target /\ status \in {"won", "lost"})
  OBVIOUS
<1>2. Answer(status, target, rows) = x
  BY DEF Answer, snapshotOf
<1>. HIDE DEF s
<1>3. SnapOK(s)
  BY <1>1 DEF SnapOK, Prefix, BoardOK
<1>4. x.pc = "answered" /\ x.snap = s
  OBVIOUS
<1>. HIDE DEF x
<1>. QED BY <1>2, <1>3, <1>4 DEF RequestOK

\* A request moves on while the board does not.
LEMMA Moves ==
    ASSUME GameInv, NEW r \in Requests, NEW from, NEW to, Goes(r, from, to), RequestOK(to),
           UNCHANGED <<status, target, rows>>
    PROVE  GameInv'
<1>1. /\ request' = [q \in Requests |-> IF q = r THEN to ELSE request[q]]
      /\ BoardOK'
  BY DEF Goes, GameInv, BoardOK
<1>2. ASSUME NEW x, RequestOK(x) PROVE RequestOK(x)'
  BY <1>2 DEF RequestOK, SnapOK, Prefix
<1>3. \A q \in Requests : RequestOK(request'[q])
  BY <1>1 DEF GameInv
<1>4. \A q \in Requests : RequestOK(request[q])'
  BY <1>3 DEF RequestOK, SnapOK, Prefix
<1>. QED BY <1>1, <1>4 DEF GameInv

--------------------------------------------------------------------------------
\* A row that is written to a game in play.
LEMMA Writes ==
    ASSUME GameInv, status = "playing", NEW w \in Dictionary,
           rows' = Append(rows, w), status' = AfterRow(Len(rows'), w), UNCHANGED target
    PROVE  /\ BoardOK'
           /\ status' # "none"
           /\ \A x : RequestOK(x) => RequestOK(x)'
<1>. DEFINE n == Len(rows)
<1>1. /\ rows' \in Seq(Dictionary) /\ Len(rows') = n + 1
      /\ \A i \in 1 .. n : rows'[i] = rows[i]
      /\ rows'[n + 1] = w
  BY AppendProperties DEF GameInv, BoardOK
<1>2. n \in Nat /\ n < MaxGuesses /\ \A i \in 1 .. n : rows[i] # target
  BY MaxGuessesAssumption DEF GameInv, BoardOK
<1>3. /\ w = target => status' = "won"
      /\ w # target /\ n + 1 >= MaxGuesses => status' = "lost"
      /\ w # target /\ n + 1 < MaxGuesses => status' = "playing"
  BY <1>1, <1>2, MaxGuessesAssumption DEF AfterRow, AllGreen
<1>4. BoardOK'
  <2>1. target # NoWord /\ target \in Answers
    BY DEF GameInv, BoardOK
  <2>2. status' \in {"playing", "won", "lost"}
    BY <1>1, <1>2, <1>3, MaxGuessesAssumption
  <2>. HIDE DEF n
  <2>3. \A i \in 1 .. n + 1 : rows'[i] = target => i = n + 1
    BY <1>1, <1>2
  <2>4. status' = "won" <=> rows'[n + 1] = target
    BY <1>1, <1>2, <1>3, MaxGuessesAssumption
  <2>5. status' = "lost" <=> n + 1 = MaxGuesses /\ rows'[n + 1] # target
    BY <1>1, <1>2, <1>3, MaxGuessesAssumption
  <2>. QED BY <1>1, <1>2, <2>1, <2>2, <2>3, <2>4, <2>5, MaxGuessesAssumption DEF BoardOK
<1>5. ASSUME NEW s, SnapOK(s) PROVE SnapOK(s)'
  <2>1. s.target = NoWord
    BY <1>5 DEF SnapOK
  <2>. HIDE DEF n
  <2>2. Prefix(s.rows)'
    BY <1>1, <1>2, <1>5 DEF SnapOK, Prefix, n
  <2>. QED BY <2>1, <2>2 DEF SnapOK
<1>6. status' # "none"
  BY <1>1, <1>2, <1>3, MaxGuessesAssumption
<1>. QED BY <1>4, <1>5, <1>6 DEF RequestOK

LEMMA SubmitsOK == ASSUME GameInv, NEW r \in Requests, SubmitGuess(r) PROVE GameInv'
<1>1. CASE status = "none" /\ Goes(r, "checked", Failure("not_found"))
            /\ UNCHANGED <<status, rows>>
  BY <1>1, FailureOK, Moves DEF SubmitGuess
<1>2. CASE Goes(r, "checked", Failure("game_finished")) /\ UNCHANGED <<status, rows>>
  BY <1>2, FailureOK, Moves DEF SubmitGuess
<1>3. CASE /\ status = "playing" /\ request[r].pc = "checked"
           /\ rows' = Append(rows, request[r].word)
           /\ status' = AfterRow(Len(rows'), request[r].word)
           /\ Goes(r, "checked", Answer(status', target, rows'))
  <2>. DEFINE w == request[r].word
  <2>1. w \in Dictionary /\ UNCHANGED target
    BY <1>3 DEF GameInv, RequestOK, SubmitGuess
  <2>. HIDE DEF w
  <2>2. BoardOK' /\ status' # "none" /\ \A x : RequestOK(x) => RequestOK(x)'
    BY <1>3, <2>1, Writes DEF w
  <2>3. RequestOK(Answer(status, target, rows))'
    <3>1. (BoardOK /\ status # "none" => RequestOK(Answer(status, target, rows)))'
      BY AnswersOK, PTL
    <3>. QED BY <2>2, <3>1
  <2>4. request' = [q \in Requests |-> IF q = r THEN Answer(status, target, rows)' ELSE request[q]]
    BY <1>3, <2>1 DEF Goes, GameInv, Answer, snapshotOf
  <2>5. \A q \in Requests : RequestOK(request[q])'
    BY <2>2, <2>3, <2>4 DEF GameInv
  <2>. QED BY <2>2, <2>4, <2>5 DEF GameInv
<1>. QED BY <1>1, <1>2, <1>3 DEF SubmitGuess

LEMMA RequestStepsOK ==
    ASSUME GameInv, NEW r \in Requests,
           (\E w \in Words : Receive(r, w)) \/ IsValidGuess(r) \/ Get(r) \/ Done(r)
    PROVE  GameInv'
<1>1. ASSUME NEW w \in Words, Receive(r, w) PROVE GameInv'
  <2>1. RequestOK([pc |-> "received", word |-> w])
    BY DEF RequestOK
  <2>. QED BY <1>1, <2>1, Moves DEF Receive
<1>2. ASSUME IsValidGuess(r) PROVE GameInv'
  <2>1. CASE /\ request[r].pc = "received" /\ request[r].word \in Dictionary
             /\ Goes(r, "received", [request[r] EXCEPT !.pc = "checked"])
    <3>. DEFINE to == [request[r] EXCEPT !.pc = "checked"]
    <3>1. request[r] = [pc |-> "received", word |-> request[r].word]
      BY <2>1 DEF GameInv, RequestOK
    <3>2. to.pc = "checked" /\ to.word = request[r].word
      BY <3>1
    <3>. HIDE DEF to
    <3>3. RequestOK(to)
      BY <2>1, <3>2 DEF RequestOK
    <3>. QED BY <1>2, <2>1, <3>3, Moves DEF IsValidGuess, to
  <2>2. CASE Goes(r, "received", Failure("not_a_word")) \/ Goes(r, "received", Failure("internal_error"))
    BY <1>2, <2>2, FailureOK, Moves DEF IsValidGuess
  <2>. QED BY <1>2, <2>1, <2>2 DEF IsValidGuess
<1>3. ASSUME Get(r) PROVE GameInv'
  <2>1. RequestOK(IF status = "none" THEN Failure("not_found") ELSE Answer(status, target, rows))
    BY FailureOK, AnswersOK DEF GameInv
  <2>. QED BY <1>3, <2>1, Moves DEF Get
<1>4. ASSUME Done(r) PROVE GameInv'
  BY <1>4, FreeOK, Moves DEF Done
<1>. QED BY <1>1, <1>2, <1>3, <1>4

\* The game appears.
LEMMA CreatesOK == ASSUME GameInv, Create PROVE GameInv'
<1>1. /\ status = "none" /\ status' = "playing" /\ target' \in Answers /\ target' # NoWord
      /\ rows = <<>> /\ rows' = rows /\ UNCHANGED request
  BY WordsAssumption DEF Create, GameInv, BoardOK, NoWord
<1>2. BoardOK'
  BY <1>1, MaxGuessesAssumption DEF GameInv, BoardOK
<1>3. ASSUME NEW x, RequestOK(x) PROVE RequestOK(x)'
  BY <1>1, <1>3 DEF RequestOK, SnapOK, Prefix
<1>4. \A r \in Requests : RequestOK(request[r])'
  BY <1>1 DEF GameInv, RequestOK, SnapOK, Prefix
<1>. QED BY <1>1, <1>2, <1>4 DEF GameInv

\* The board, its status and the answers on their way fit together, for any
\* interleaving of requests (store.go:82-143).
THEOREM GameInvariance == Spec => []GameInv
<1>1. Init => GameInv
  <2>. SUFFICES ASSUME Init PROVE GameInv
    OBVIOUS
  <2>1. BoardOK
    <3>1. rows = <<>> /\ rows \in Seq(Dictionary) /\ Len(rows) = 0
      BY DEF Init
    <3>2. status = "none" /\ target = NoWord
      BY DEF Init
    <3>. QED BY <3>1, <3>2, MaxGuessesAssumption DEF BoardOK
  <2>. QED BY <2>1, FreeOK DEF Init, GameInv
<1>2. GameInv /\ [Next]_vars => GameInv'
  <2>. SUFFICES ASSUME GameInv, [Next]_vars PROVE GameInv'
    OBVIOUS
  <2>1. CASE UNCHANGED vars
    BY <2>1 DEF vars, GameInv, BoardOK, RequestOK, SnapOK, Prefix
  <2>. QED BY <2>1, CreatesOK, RequestStepsOK, SubmitsOK DEF Next
<1>. QED BY <1>1, <1>2, PTL DEF Spec

\* The game stays well formed: whatever requests were checked before the end, no
\* row is added to a full board (store.go:89-107).
THEOREM GameTyping == Spec => []TypeOK
<1>1. GameInv => TypeOK
  BY DEF GameInv, BoardOK, RequestOK, TypeOK
<1>. QED BY <1>1, GameInvariance, PTL

\* The status tells the board, and nothing follows a winning row (store.go:97-123).
THEOREM StatusTells == Spec => []StatusTellsBoard
<1>1. GameInv => StatusTellsBoard
  <2>. SUFFICES ASSUME GameInv PROVE StatusTellsBoard
    OBVIOUS
  <2>. DEFINE hits == {i \in DOMAIN rows : rows[i] = target}
  <2>1. /\ DOMAIN rows = 1 .. Len(rows) /\ Len(rows) \in Nat
        /\ rows = <<>> <=> Len(rows) = 0
    BY DEF GameInv, BoardOK
  <2>2. hits \subseteq {Len(rows)}
    BY <2>1 DEF GameInv, BoardOK
  <2>3. Len(rows) \in hits <=> Len(rows) > 0 /\ rows[Len(rows)] = target
    BY <2>1
  <2>4. hits = {} <=> Len(rows) \notin hits
    BY <2>2
  <2>5. hits = {Len(rows)} <=> Len(rows) \in hits
    BY <2>2
  <2>. HIDE DEF hits
  <2>6. status = "won" <=> hits = {Len(rows)} /\ rows # <<>>
    BY <2>1, <2>3, <2>5 DEF GameInv, BoardOK
  <2>7. status = "lost" <=> hits = {} /\ Len(rows) = MaxGuesses
    BY <2>1, <2>3, <2>4, MaxGuessesAssumption DEF GameInv, BoardOK
  <2>. QED BY <2>2, <2>6, <2>7 DEF StatusTellsBoard, hits
<1>. QED BY <1>1, GameInvariance, PTL

\* Answers on their way are prefixes of one board, and none shows the target of a
\* game that is not over (store.go:128-143).
THEOREM AnswersTell == Spec => []AnswersAgree
<1>1. GameInv => AnswersAgree
  <2>. SUFFICES ASSUME GameInv, NEW s \in Snaps
                PROVE  /\ s.rows = SubSeq(rows, 1, Len(s.rows))
                       /\ s.target # NoWord =>
                            s.rows = rows /\ s.target = target /\ status \in {"won", "lost"}
    BY DEF AnswersAgree
  <2>1. SnapOK(s)
    BY DEF Snaps, GameInv, RequestOK
  <2>. DEFINE n == Len(s.rows)
              cut == SubSeq(rows, 1, n)
  <2>2. /\ n \in Nat /\ n <= Len(rows) /\ s.rows \in Seq(Dictionary) /\ rows \in Seq(Dictionary)
        /\ \A i \in 1 .. n : s.rows[i] = rows[i]
    BY <2>1 DEF SnapOK, Prefix, GameInv, BoardOK
  <2>3. \A i \in 1 .. n : rows[i] \in Dictionary
    BY <2>2, ElementOfSeq
  <2>. HIDE DEF n
  <2>4. /\ cut \in Seq(Dictionary) /\ Len(cut) = n
        /\ \A i \in 1 .. n : cut[i] = rows[i]
    BY <2>2, <2>3, SubSeqProperties
  <2>. HIDE DEF cut
  <2>5. s.rows = cut
    BY <2>2, <2>4 DEF n
  <2>6. s.target # NoWord => s.rows = rows
    BY <2>1, <2>2 DEF SnapOK, n
  <2>. QED BY <2>1, <2>5, <2>6 DEF SnapOK, cut, n
<1>. QED BY <1>1, GameInvariance, PTL

\* However the requests interleave, the board is written as one game.
THEOREM Implements == Spec => KeepsGame
<1>1. Init => Contract!Init
  BY DEF Init, Contract!Init, NoWord, Contract!NoWord
<1>2. GameInv /\ [Next]_vars => [Contract!Next]_<<target, rows>>
  <2>. SUFFICES ASSUME GameInv, [Next]_vars PROVE [Contract!Next]_<<target, rows>>
    OBVIOUS
  <2>1. CASE UNCHANGED <<target, rows>>
    BY <2>1
  <2>2. CASE Create
    BY <2>2 DEF Create, Contract!Next, Contract!Deal, GameInv, BoardOK, Words, Dictionary, NoWord,
                Contract!NoWord
  <2>3. ASSUME NEW r \in Requests, SubmitGuess(r), ~UNCHANGED rows
        PROVE  Contract!Write
    <3>1. /\ status = "playing" /\ request[r].pc = "checked"
          /\ rows' = Append(rows, request[r].word) /\ UNCHANGED target
      BY <2>3 DEF SubmitGuess
    <3>2. request[r].word \in Words
      BY <3>1 DEF GameInv, RequestOK, Words
    <3>3. target # NoWord /\ ~Contract!Over
      BY <3>1, MaxGuessesAssumption DEF Contract!Over, GameInv, BoardOK
    <3>. QED BY <3>1, <3>2, <3>3 DEF Contract!Write, NoWord, Contract!NoWord
  <2>4. CASE UNCHANGED vars
    BY <2>4 DEF vars
  <2>5. ASSUME NEW r \in Requests, SubmitGuess(r) PROVE UNCHANGED target
    BY <2>5 DEF SubmitGuess
  <2>. QED BY <2>1, <2>2, <2>3, <2>4, <2>5
           DEF Next, Receive, IsValidGuess, Get, Done, Contract!Next
<1>. QED BY <1>1, <1>2, GameInvariance, PTL DEF Spec, KeepsGame, Contract!Spec

--------------------------------------------------------------------------------
(* The game as the single-player page is shown it: what PlayPage goes by.  *)

Over == status \in {"won", "lost"}

game ==
    [g \in {1} |-> [is |-> IF status = "none" THEN "unused" ELSE "stored",
                    rows |-> Len(rows), over |-> Over]]

Page == INSTANCE PlayPage WITH Games <- {1}, MaxRows <- MaxGuesses, MaxAsked <- 0, play <- <<>>

\* A game begins as PlayPage has it, and each of its steps is one that PlayPage lets
\* the server make: it is created, or gets one row more, which ends it when it is
\* the last (store.go:51-67, 83-123).
THEOREM GamesAreShown ==
    /\ Init => game = [g \in {1} |-> [is |-> "unused", rows |-> 0, over |-> FALSE]]
    /\ Spec => [][Page!createGame(1) \/ Page!submitGuess(1)]_<<status, rows>>
<1>1. Init => game = [g \in {1} |-> [is |-> "unused", rows |-> 0, over |-> FALSE]]
  <2>1. Init => Over = FALSE /\ Len(rows) = 0 /\ status = "none"
    BY DEF Init, Over
  <2>. QED BY <2>1, Zenon DEF game
<1>2. GameInv /\ [Next]_vars => [Page!createGame(1) \/ Page!submitGuess(1)]_<<status, rows>>
  <2>. SUFFICES ASSUME GameInv, [Next]_vars, ~UNCHANGED <<status, rows>>
                PROVE  Page!createGame(1) \/ Page!submitGuess(1)
    OBVIOUS
  <2>. DEFINE Shown(is, n, over) == [g \in {1} |-> [is |-> is, rows |-> n, over |-> over]]
  <2>1. CASE Create
    <3>1. status = "none" /\ status' = "playing" /\ rows = <<>> /\ rows' = rows
      BY <2>1 DEF Create, GameInv, BoardOK
    <3>2. Over = FALSE /\ Over' = FALSE /\ Len(rows) = 0 /\ Len(rows') = 0
      BY <3>1 DEF Over
    <3>3. game = Shown("unused", 0, FALSE) /\ game' = Shown("stored", 0, FALSE)
      BY <3>1, <3>2, Zenon DEF game
    <3>4. game[1].is = "unused" /\ \A h \in {1} : 1 <= h
      BY <3>3
    <3>5. game' = [game EXCEPT ![1].is = "stored"]
      BY <3>3
    <3>. QED BY <3>4, <3>5 DEF Page!createGame
  <2>2. ASSUME NEW r \in Requests, SubmitGuess(r)
        PROVE  Page!submitGuess(1)
    <3>1. /\ status = "playing" /\ request[r].pc = "checked"
          /\ rows' = Append(rows, request[r].word)
          /\ status' = AfterRow(Len(rows'), request[r].word)
      BY <2>2 DEF SubmitGuess
    <3>2. request[r].word \in Dictionary /\ Len(rows) \in Nat /\ Len(rows) < MaxGuesses
      BY <3>1, MaxGuessesAssumption DEF GameInv, BoardOK, RequestOK
    <3>3. Len(rows') = Len(rows) + 1
      BY <3>1, <3>2 DEF GameInv, BoardOK
    <3>4. PICK solved \in BOOLEAN : solved <=> AllGreen(request[r].word)
      OBVIOUS
    <3>5. Over = FALSE /\ Over' = (solved \/ Len(rows) + 1 = MaxGuesses) /\ status' # "none"
      BY <3>1, <3>2, <3>3, <3>4, MaxGuessesAssumption DEF Over, AfterRow
    <3>. DEFINE n == Len(rows)
                over == solved \/ n + 1 = MaxGuesses
    <3>6. game = Shown("stored", n, FALSE) /\ game' = Shown("stored", n + 1, over)
      BY <3>1, <3>3, <3>5, Zenon DEF game
    <3>7. game[1].is = "stored" /\ ~game[1].over /\ game[1].rows = n
      BY <3>6
    <3>8. game' = [game EXCEPT ![1].rows = n + 1, ![1].over = over]
      <4>. HIDE DEF n, over
      <4>. QED BY <3>6
    <3>. QED BY <3>7, <3>8 DEF Page!submitGuess
  <2>. QED BY <2>1, <2>2 DEF Next, Receive, IsValidGuess, Get, Done, vars
<1>. QED BY <1>1, <1>2, GameInvariance, PTL DEF Spec
================================================================================
