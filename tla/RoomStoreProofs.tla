---------------------------- MODULE RoomStoreProofs ----------------------------
(***************************************************************************)
(* RoomStore keeps its inductive invariant for every set of tokens, every  *)
(* number of guesses and every grace period: one lemma per action, each    *)
(* with one step per part of the invariant.  The contract of a round and  *)
(* the handing over of a room follow from it.                              *)
(***************************************************************************)
EXTENDS RoomStore, TLAPS

\* The room that Init leaves under the code is nothing.
LEMMA InitInv ==
    ASSUME Init
    PROVE  IInv
BY TokensAssumption, GuessesAssumption, TimesAssumption DEF
       Init, IInv, TypeOK, HostIsPlayer, NothingElse, DisconnectedAtSet, RoundOverSettled, LobbyFresh,
       ScoreConsistent, NewStatus, NoGuesses, NoSolvers, NobodyAway, RoomStatus,
       PlayerStatus, NoToken, NoTime

\* Ending the round changes nothing but a running room into a finished one,
\* and then nobody is playing (store.go:428-443).
LEMMA CheckAllDone ==
    ASSUME NEW ps, NEW aw, NEW new, new = checkAllDone(ps, aw), status \in RoomStatus
    PROVE  /\ new \in RoomStatus
           /\ new # status => status = "playing" /\ new = "finished"
           /\ new # status => \A p \in players : ~isBlockingRound(ps[p], aw[p])
           /\ new # status => \A p \in players : ps[p] # "playing"
BY DEF checkAllDone, isBlockingRound, RoomStatus

\* The host that migrateHost leaves is a player (store.go:411-426).
LEMMA MigrateHost ==
    ASSUME NEW ps, NEW h \in migrateHost(ps)
    PROVE  \/ h = host /\ Heirs(ps) = {}
           \/ h \in Heirs(ps) /\ \A q \in Heirs(ps) : h <= q
BY DEF migrateHost

LEMMA CreateInv ==
    ASSUME IInv, NEW t \in Tokens, Create(t)
    PROVE  IInv'
BY TokensAssumption, GuessesAssumption, TimesAssumption DEF Create,
       GenerateToken, touch, IInv, TypeOK, HostIsPlayer, NothingElse, DisconnectedAtSet,
       RoundOverSettled, LobbyFresh, ScoreConsistent, RoomStatus, PlayerStatus,
       NoToken, NoTime

LEMMA JoinInv ==
    ASSUME IInv, NEW t \in Tokens, Join(t)
    PROVE  IInv'
BY TokensAssumption, GuessesAssumption, TimesAssumption DEF Join,
       GenerateToken, touch, IInv, TypeOK, HostIsPlayer, NothingElse, DisconnectedAtSet,
       RoundOverSettled, LobbyFresh, ScoreConsistent, RoomStatus, PlayerStatus,
       NoToken, NoTime

LEMMA BeginRoundInv ==
    ASSUME IInv, status # "none", BeginRound
    PROVE  IInv'
BY TokensAssumption, GuessesAssumption, TimesAssumption DEF BeginRound, Dealt,
       touch, IInv, TypeOK, HostIsPlayer, NothingElse, DisconnectedAtSet, NoGuesses, NoSolvers,
       RoundOverSettled, LobbyFresh, ScoreConsistent, RoomStatus, PlayerStatus,
       NoToken, NoTime

LEMMA SubmitGuessInv ==
    ASSUME IInv, NEW t \in Tokens, NEW green \in BOOLEAN, SubmitGuess(t, green)
    PROVE  IInv'
<1> DEFINE new == AfterGuess(guesses[t] + 1, green)
<1>1. /\ status = "playing" /\ t \in players /\ pstatus[t] = "playing"
      /\ guesses' = [guesses EXCEPT ![t] = @ + 1]
      /\ pstatus' = [pstatus EXCEPT ![t] = new]
      /\ solvedAt' = [solvedAt EXCEPT ![t] = @ \/ green]
      /\ status' = checkAllDone(pstatus', away)
      /\ idle' = 0
      /\ UNCHANGED <<host, players, away, issued>>
  BY DEF SubmitGuess, touch
<1>2. /\ status' \in {"playing", "finished"}
      /\ status' = "finished" => \A p \in players : pstatus'[p] # "playing"
  BY <1>1 DEF checkAllDone, isBlockingRound
<1>3. /\ new \in {"solved", "out", "playing"}
      /\ new = "solved" <=> green
      /\ new = "out" => guesses[t] + 1 >= MaxGuesses
  BY DEF AfterGuess
<1>. HIDE DEF new
<1>4. TypeOK'
  BY <1>1, <1>2, <1>3, TimesAssumption DEF IInv, TypeOK, RoomStatus, PlayerStatus
<1>5. HostIsPlayer' /\ NothingElse'
  BY <1>1, <1>2 DEF IInv, TypeOK, HostIsPlayer, NothingElse
<1>6. DisconnectedAtSet'
  BY <1>1, <1>3 DEF IInv, TypeOK, DisconnectedAtSet
<1>7. RoundOverSettled' /\ LobbyFresh'
  BY <1>1, <1>2, <1>3 DEF IInv, TypeOK, RoundOverSettled, LobbyFresh
<1>8. ScoreConsistent'
  <2>1. ASSUME NEW p \in players'
        PROVE  /\ pstatus'[p] = "solved" => solvedAt'[p]
               /\ solvedAt'[p] => guesses'[p] > 0
               /\ pstatus'[p] = "out" => guesses'[p] >= MaxGuesses
    <3>1. CASE p = t
      BY <1>1, <1>3, <3>1, GuessesAssumption DEF IInv, TypeOK
    <3>2. CASE p # t
      BY <1>1, <3>2 DEF IInv, TypeOK, ScoreConsistent
    <3>. QED BY <3>1, <3>2
  <2>. QED BY <2>1 DEF ScoreConsistent
<1>. QED BY <1>4, <1>5, <1>6, <1>7, <1>8 DEF IInv

\* Leaving and a drop both put one player away; its board stays.
LEMMA LeaveInv ==
    ASSUME IInv, NEW t \in Tokens, Leave(t)
    PROVE  IInv'
<1>1. CASE UNCHANGED vars
  BY <1>1 DEF vars, IInv, TypeOK, HostIsPlayer, NothingElse, DisconnectedAtSet, RoundOverSettled,
              LobbyFresh, ScoreConsistent
<1>2. CASE ~UNCHANGED vars
  <2>1. /\ t \in players /\ pstatus[t] # "disconnected"
        /\ pstatus' = [pstatus EXCEPT ![t] = "disconnected"]
        /\ away' = [away EXCEPT ![t] = Grace]
        /\ host' \in IF t = host THEN migrateHost(pstatus') ELSE {host}
        /\ status' = checkAllDone(pstatus', away')
        /\ idle' = 0
        /\ UNCHANGED <<players, guesses, solvedAt, issued>>
    BY <1>2 DEF Leave, touch
  <2>2. /\ status' \in RoomStatus
        /\ status' # status => status = "playing" /\ status' = "finished"
        /\ status' # status => \A p \in players : pstatus'[p] # "playing"
    BY <2>1 DEF checkAllDone, isBlockingRound, RoomStatus, IInv, TypeOK
  <2>3. status # "none" /\ host' \in players
    BY <2>1 DEF migrateHost, Heirs, IInv, HostIsPlayer, NothingElse
  <2>4. TypeOK'
    BY <2>1, <2>2, <2>3, TimesAssumption
       DEF IInv, TypeOK, PlayerStatus
  <2>5. HostIsPlayer' /\ NothingElse'
    BY <2>1, <2>2, <2>3 DEF IInv, TypeOK, HostIsPlayer, NothingElse
  <2>6. DisconnectedAtSet'
    BY <2>1, TimesAssumption DEF IInv, TypeOK, DisconnectedAtSet, NoTime
  <2>7. RoundOverSettled' /\ LobbyFresh'
    BY <2>1, <2>2 DEF IInv, TypeOK, RoundOverSettled, LobbyFresh
  <2>8. ScoreConsistent'
    BY <2>1 DEF IInv, TypeOK, ScoreConsistent
  <2>. QED BY <2>4, <2>5, <2>6, <2>7, <2>8 DEF IInv
<1>. QED BY <1>1, <1>2

LEMMA MarkPlayerDisconnectedInv ==
    ASSUME IInv, NEW t \in Tokens, MarkPlayerDisconnected(t)
    PROVE  IInv'
BY TimesAssumption
   DEF MarkPlayerDisconnected, DropCounts, vars, IInv, TypeOK, HostIsPlayer, NothingElse, DisconnectedAtSet,
       RoundOverSettled, LobbyFresh, ScoreConsistent, PlayerStatus, NoTime

LEMMA FinalizeDisconnectInv ==
    ASSUME IInv, NEW t \in Tokens, FinalizeDisconnect(t)
    PROVE  IInv'
<1>1. CASE UNCHANGED vars
  BY <1>1 DEF vars, IInv, TypeOK, HostIsPlayer, NothingElse, DisconnectedAtSet, RoundOverSettled,
              LobbyFresh, ScoreConsistent
<1>2. CASE ~UNCHANGED vars
  <2>1. /\ t \in players
        /\ host' \in IF t = host THEN migrateHost(pstatus) ELSE {host}
        /\ status' = checkAllDone(pstatus, away)
        /\ UNCHANGED <<players, pstatus, guesses, solvedAt, away, idle, issued>>
    BY <1>2 DEF FinalizeDisconnect, IsAway
  <2>2. /\ status' \in RoomStatus
        /\ status' # status => status = "playing" /\ status' = "finished"
        /\ status' # status => \A p \in players : pstatus[p] # "playing"
    BY <2>1 DEF checkAllDone, isBlockingRound, RoomStatus, IInv, TypeOK
  <2>3. status # "none" /\ host' \in players
    BY <2>1 DEF migrateHost, Heirs, IInv, HostIsPlayer, NothingElse
  <2>. QED
    BY <2>1, <2>2, <2>3
       DEF IInv, TypeOK, HostIsPlayer, NothingElse, DisconnectedAtSet, RoundOverSettled, LobbyFresh,
           ScoreConsistent
<1>. QED BY <1>1, <1>2

LEMMA MarkPlayerReconnectedInv ==
    ASSUME IInv, NEW t \in Tokens, MarkPlayerReconnected(t)
    PROVE  IInv'
BY DEF MarkPlayerReconnected, IsAway, Returns, vars, IInv, TypeOK, HostIsPlayer, NothingElse,
       DisconnectedAtSet, RoundOverSettled, LobbyFresh, ScoreConsistent, PlayerStatus,
       NoTime

LEMMA SweepInv ==
    ASSUME IInv, sweepIdle
    PROVE  IInv'
BY TimesAssumption
   DEF sweepIdle, IInv, TypeOK, HostIsPlayer, NothingElse, DisconnectedAtSet, RoundOverSettled, LobbyFresh,
       ScoreConsistent, NewStatus, NoGuesses, NoSolvers, NobodyAway, RoomStatus,
       PlayerStatus, NoToken, NoTime

\* An age stays in its range, and NoTime stays NoTime.
LEMMA OlderType ==
    ASSUME NEW limit \in Nat, NEW age \in {NoTime} \union (0 .. limit)
    PROVE  /\ Older(age, limit) \in {NoTime} \union (0 .. limit)
           /\ Older(age, limit) = NoTime <=> age = NoTime
BY DEF Older, NoTime

LEMMA TickInv ==
    ASSUME IInv, Tick
    PROVE  IInv'
<1>1. /\ away' = [p \in Tokens |-> Older(away[p], Grace)]
      /\ idle' = IF status = "none" THEN 0 ELSE Older(idle, IdleTimeout + 1)
      /\ UNCHANGED <<status, host, players, pstatus, guesses, solvedAt, issued>>
  BY DEF Tick
<1>2. \A p \in Tokens : /\ away'[p] \in {NoTime} \union (0 .. Grace)
                        /\ away'[p] = NoTime <=> away[p] = NoTime
  BY <1>1, OlderType, TimesAssumption DEF IInv, TypeOK
<1>3. idle' \in 0 .. IdleTimeout + 1
  BY <1>1, OlderType, TimesAssumption DEF IInv, TypeOK, Older, NoTime
<1>4. away' \in [Tokens -> {NoTime} \union (0 .. Grace)]
  BY <1>1, <1>2
<1>. QED
  BY <1>1, <1>2, <1>3, <1>4
     DEF IInv, TypeOK, HostIsPlayer, NothingElse, DisconnectedAtSet, RoundOverSettled, LobbyFresh,
         ScoreConsistent

--------------------------------------------------------------------------------
\* Every step of the store keeps the invariant.
LEMMA NextInv ==
    ASSUME IInv, [Next]_vars
    PROVE  IInv'
<1>1. CASE UNCHANGED vars
  BY <1>1 DEF vars, IInv, TypeOK, HostIsPlayer, NothingElse, DisconnectedAtSet, RoundOverSettled,
              LobbyFresh, ScoreConsistent
<1>2. ASSUME NEW t \in Tokens, Request(t)
      PROVE  IInv'
  <2>1. CASE StartRound(t) \/ NextRound(t)
    BY <2>1, BeginRoundInv DEF StartRound, NextRound
  <2>2. CASE Create(t) \/ Join(t)
    BY <2>2, CreateInv, JoinInv
  <2>3. ASSUME NEW green \in BOOLEAN, SubmitGuess(t, green)
        PROVE  IInv'
    BY <2>3, SubmitGuessInv
  <2>. QED BY <1>2, <2>1, <2>2, <2>3 DEF Request
<1>3. ASSUME NEW t \in Tokens, Leave(t) \/ Registry(t)
      PROVE  IInv'
  BY <1>3, LeaveInv, MarkPlayerDisconnectedInv, FinalizeDisconnectInv,
     MarkPlayerReconnectedInv DEF Registry
<1>4. CASE Housekeeping
  BY <1>4, SweepInv, TickInv DEF Housekeeping
<1>. QED BY <1>1, <1>2, <1>3, <1>4 DEF Next

\* The invariant holds in every reachable state of every room.
THEOREM Invariance == Spec => []IInv
<1>1. Init => IInv
  BY InitInv
<1>2. IInv /\ [Next]_vars => IInv'
  BY NextInv
<1>. QED BY <1>1, <1>2, PTL DEF Spec

\* Type correctness of a room (store.go).
THEOREM Typing == Spec => []TypeOK
<1>1. IInv => TypeOK
  BY DEF IInv
<1>. QED BY <1>1, Invariance, PTL

\* Nobody is playing in a round that is over, nobody waits outside one.
THEOREM RoundsSettle == Spec => []RoundOverSettled
<1>1. IInv => RoundOverSettled
  BY DEF IInv
<1>. QED BY <1>1, Invariance, PTL

\* A stored room has a host among its players, whoever left, dropped or was
\* finalised (store.go:315-319, 411-426).
THEOREM RoomsHaveHosts == Spec => []HostIsPlayer
<1>1. IInv => HostIsPlayer
  BY DEF IInv
<1>. QED BY <1>1, Invariance, PTL

\* DisconnectedAt is set exactly while the player is disconnected, whichever of
\* leaving, dropping, finalizing and returning came last (room.go:48).
THEOREM DropsAreTimed == Spec => []DisconnectedAtSet
<1>1. IInv => DisconnectedAtSet
  BY DEF IInv
<1>. QED BY <1>1, Invariance, PTL

\* Nothing of a past round shows in a lobby.
THEOREM LobbiesAreFresh == Spec => []LobbyFresh
<1>1. IInv => LobbyFresh
  BY DEF IInv
<1>. QED BY <1>1, Invariance, PTL

\* What the ranking reads of a player is there (ranking.go:19-68).
THEOREM ScoresAreThere == Spec => []ScoreConsistent
<1>1. IInv => ScoreConsistent
  BY DEF IInv
<1>. QED BY <1>1, Invariance, PTL

--------------------------------------------------------------------------------
(* The room store keeps the contract of a round, and hands a room over     *)
(* only from a host who is away to the oldest player who is there.         *)
(* Both follow from the inductive invariant above.                         *)

\* A player who is marked away by Leave blocks nothing; a player just dropped
\* still does; a player who plays does; nobody else (store.go:22-32).
LEMMA BlockingCases ==
    /\ ~isBlockingRound("disconnected", Grace)
    /\ isBlockingRound("disconnected", 0)
    /\ \A since : isBlockingRound("playing", since)
    /\ \A s \in {"solved", "out", "waiting"} : \A since : ~isBlockingRound(s, since)
BY TimesAssumption DEF isBlockingRound, NoTime

\* What checkAllDone decides of the new statuses is what the contract says: those
\* who block a round are those who act and those who just dropped.
LEMMA EndsTogether ==
    ASSUME UNCHANGED players, status' = checkAllDone(pstatus', away')
    PROVE  Contract!EndsWithLast
<1>1. Acting' \union Dropped' = {p \in players : isBlockingRound(pstatus'[p], away'[p])}
  BY DEF Acting, Dropped, isBlockingRound
<1>. QED BY <1>1 DEF Contract!EndsWithLast, checkAllDone

\* Where one player changes, everybody else stays where it was.
LEMMA OneMoves ==
    ASSUME NEW t \in players, UNCHANGED players,
           \A p \in players \ {t} : pstatus'[p] = pstatus[p] /\ away'[p] = away[p]
    PROVE  /\ Acting' = IF pstatus'[t] = "playing" THEN Acting \union {t} ELSE Acting \ {t}
           /\ Dropped' = IF pstatus'[t] = "disconnected" /\ isBlockingRound(pstatus'[t], away'[t])
                         THEN Dropped \union {t} ELSE Dropped \ {t}
           /\ Gone' = IF pstatus'[t] = "disconnected" /\ ~isBlockingRound(pstatus'[t], away'[t])
                      THEN Gone \union {t} ELSE Gone \ {t}
BY DEF Acting, Dropped, Gone

\* Nobody moves.
LEMMA NobodyMoves ==
    ASSUME UNCHANGED <<players, pstatus, away>>
    PROVE  UNCHANGED <<Acting, Dropped, Gone>>
BY DEF Acting, Dropped, Gone, isBlockingRound

\* Who is there is neither dropped nor gone.
LEMMA WhoIsPresent ==
    /\ Contract!Present = {p \in players : pstatus[p] # "disconnected"}
    /\ Dropped \union Gone = {p \in players : pstatus[p] = "disconnected"}
BY DEF Contract!Present, Dropped, Gone

LEMMA ContractInit ==
    ASSUME Init
    PROVE  Contract!Init
BY DEF Init, Contract!Init, Contract!EmptyBoard, Board, Acting, Dropped, Gone, NoGuesses, NoSolvers

\* A round begins on empty boards, for everyone who is there.
LEMMA BeginImplementsBegin ==
    ASSUME IInv, BeginRound, status \in {"lobby", "finished"}
    PROVE  Contract!Begin
<1>1. /\ status' = "playing" /\ UNCHANGED <<players, away>>
      /\ guesses' = NoGuesses /\ solvedAt' = NoSolvers
      /\ \A p \in players : pstatus'[p] = Dealt(p)
  BY DEF BeginRound, IInv, TypeOK
<1>2. \A p \in players : pstatus'[p] = "disconnected" <=> pstatus[p] = "disconnected"
  BY <1>1 DEF Dealt
<1>3. UNCHANGED <<Dropped, Gone>>
  BY <1>1, <1>2 DEF Dropped, Gone, isBlockingRound
<1>4. Acting' = Contract!Present
  BY <1>1, WhoIsPresent DEF Acting, Dealt
<1>5. Board' = Contract!EmptyBoard
  BY <1>1 DEF Board, Contract!EmptyBoard, NoGuesses, NoSolvers
<1>. QED BY <1>1, <1>3, <1>4, <1>5 DEF Contract!Begin

\* Somebody takes a seat.
LEMMA SeatImplementsSit ==
    ASSUME IInv, NEW t \in Tokens, Create(t) \/ Join(t)
    PROVE  Contract!Sit(t)
<1>1. /\ t \notin players /\ players' = players \union {t}
      /\ status \in {"none", "lobby"} /\ status' = "lobby"
      /\ UNCHANGED <<pstatus, guesses, solvedAt, away>>
  BY DEF Create, Join, GenerateToken, IInv, TypeOK, NothingElse
<1>2. pstatus[t] = "playing"
  BY <1>1 DEF IInv, NothingElse
<1>3. Acting' = Acting \union {t} /\ UNCHANGED <<Dropped, Gone, Board>>
  BY <1>1, <1>2 DEF Acting, Dropped, Gone, Board, isBlockingRound
<1>. QED BY <1>1, <1>3 DEF Contract!Sit

\* A guess is written on the board of a player who acts.
LEMMA SubmitImplementsGuess ==
    ASSUME IInv, NEW t \in Tokens, NEW green \in BOOLEAN, SubmitGuess(t, green)
    PROVE  Contract!Guess(t)
<1> DEFINE new == AfterGuess(guesses[t] + 1, green)
<1>1. /\ status = "playing" /\ t \in players /\ pstatus[t] = "playing"
      /\ guesses' = [guesses EXCEPT ![t] = @ + 1]
      /\ pstatus' = [pstatus EXCEPT ![t] = new]
      /\ solvedAt' = [solvedAt EXCEPT ![t] = @ \/ green]
      /\ status' = checkAllDone(pstatus', away)
      /\ UNCHANGED <<host, players, away, issued>>
  BY DEF SubmitGuess
<1>2. new \in {"solved", "out", "playing"} /\ (green => new = "solved")
  BY DEF AfterGuess
<1>. HIDE DEF new
<1>3. \A p \in players \ {t} : pstatus'[p] = pstatus[p] /\ away'[p] = away[p]
  BY <1>1 DEF IInv, TypeOK
<1>4. pstatus'[t] = new
  BY <1>1 DEF IInv, TypeOK
<1>5. /\ t \in Acting /\ t \notin Dropped /\ t \notin Gone
  BY <1>1 DEF Acting, Dropped, Gone
<1>6. /\ Acting' = IF new = "playing" THEN Acting ELSE Acting \ {t}
      /\ UNCHANGED <<Dropped, Gone>>
  <2>1. /\ Acting' = IF new = "playing" THEN Acting \union {t} ELSE Acting \ {t}
        /\ Dropped' = IF new = "disconnected" /\ isBlockingRound(new, away'[t])
                      THEN Dropped \union {t} ELSE Dropped \ {t}
        /\ Gone' = IF new = "disconnected" /\ ~isBlockingRound(new, away'[t])
                   THEN Gone \union {t} ELSE Gone \ {t}
    BY <1>1, <1>3, <1>4, OneMoves
  <2>. QED BY <1>2, <1>5, <2>1
<1>7. Contract!EndsWithLast
  <2>1. status' = checkAllDone(pstatus', away')
    BY <1>1
  <2>. QED BY <1>1, <2>1, EndsTogether
<1>8. /\ Board'.count = [Board.count EXCEPT ![t] = @ + 1]
      /\ Board'.solvers = IF green THEN Board.solvers \union {t} ELSE Board.solvers
      /\ Board' = [count |-> Board'.count, solvers |-> Board'.solvers]
  <2>1. {p \in Tokens : solvedAt'[p]} =
            IF green THEN {p \in Tokens : solvedAt[p]} \union {t}
                     ELSE {p \in Tokens : solvedAt[p]}
    BY <1>1 DEF IInv, TypeOK
  <2>. QED BY <1>1, <2>1 DEF Board
<1>9. Board'.solvers # Board.solvers => t \notin Acting'
  BY <1>2, <1>6, <1>8
<1>. QED BY <1>1, <1>5, <1>6, <1>7, <1>8, <1>9 DEF Contract!Guess

\* A player who leaves is gone, and that may end the round.
LEMMA LeaveImplementsLeave ==
    ASSUME IInv, NEW t \in Tokens, Leave(t), ~UNCHANGED vars
    PROVE  Contract!Leave(t)
<1>1. /\ t \in players /\ pstatus[t] # "disconnected"
      /\ pstatus' = [pstatus EXCEPT ![t] = "disconnected"]
      /\ away' = [away EXCEPT ![t] = Grace]
      /\ status' = checkAllDone(pstatus', away')
      /\ UNCHANGED <<players, guesses, solvedAt, issued>>
  BY DEF Leave
<1>2. \A p \in players \ {t} : pstatus'[p] = pstatus[p] /\ away'[p] = away[p]
  BY <1>1 DEF IInv, TypeOK
<1>3. pstatus'[t] = "disconnected" /\ ~isBlockingRound(pstatus'[t], away'[t])
  BY <1>1, BlockingCases DEF IInv, TypeOK
<1>4. t \notin Dropped /\ t \in Contract!Present
  BY <1>1, WhoIsPresent DEF Dropped
<1>5. Acting' = Acting \ {t} /\ Gone' = Gone \union {t} /\ Dropped' = Dropped
  BY <1>1, <1>2, <1>3, <1>4, OneMoves
<1>6. Contract!EndsWithLast /\ UNCHANGED Board
  BY <1>1, EndsTogether DEF Board
<1>. QED BY <1>1, <1>4, <1>5, <1>6 DEF Contract!Leave

\* A player whose connection breaks may still be back in time.
LEMMA DropImplementsDrop ==
    ASSUME IInv, NEW t \in Tokens, MarkPlayerDisconnected(t), ~UNCHANGED vars
    PROVE  Contract!Drop(t)
<1>1. /\ t \in players /\ pstatus[t] \in {"playing", "waiting"}
      /\ pstatus' = [pstatus EXCEPT ![t] = "disconnected"]
      /\ away' = [away EXCEPT ![t] = 0]
      /\ UNCHANGED <<status, players, guesses, solvedAt>>
  BY DEF MarkPlayerDisconnected, DropCounts
<1>2. \A p \in players \ {t} : pstatus'[p] = pstatus[p] /\ away'[p] = away[p]
  BY <1>1 DEF IInv, TypeOK
<1>3. pstatus'[t] = "disconnected" /\ isBlockingRound(pstatus'[t], away'[t])
  BY <1>1, BlockingCases DEF IInv, TypeOK
<1>4. /\ t \notin Gone /\ t \in Contract!Present
      /\ status # "finished" => t \in Acting
  BY <1>1, WhoIsPresent DEF Gone, Acting, IInv, RoundOverSettled
<1>5. Acting' = Acting \ {t} /\ Dropped' = Dropped \union {t} /\ Gone' = Gone
  BY <1>1, <1>2, <1>3, <1>4, OneMoves
<1>. QED BY <1>1, <1>4, <1>5 DEF Contract!Drop, Board

\* The end of a grace period is noticed, and that may end the round.
LEMMA FinalizeImplementsNotice ==
    ASSUME IInv, NEW t \in Tokens, FinalizeDisconnect(t), ~UNCHANGED vars
    PROVE  Contract!Notice \/ UNCHANGED Contract!vars
<1>1. /\ status' = checkAllDone(pstatus', away')
      /\ UNCHANGED <<players, pstatus, guesses, solvedAt, away>>
  BY DEF FinalizeDisconnect
<1>2. Contract!EndsWithLast /\ UNCHANGED <<Board, Acting, Dropped, Gone>>
  BY <1>1, EndsTogether, NobodyMoves DEF Board
<1>3. CASE status = "playing"
  BY <1>1, <1>2, <1>3 DEF Contract!Notice
<1>4. CASE status # "playing"
  BY <1>1, <1>2, <1>4 DEF Contract!vars, checkAllDone
<1>. QED BY <1>3, <1>4

\* A player who returns acts again, unless the round is over.
LEMMA ReconnectImplementsReturn ==
    ASSUME IInv, NEW t \in Tokens, MarkPlayerReconnected(t), ~UNCHANGED vars
    PROVE  Contract!Return(t)
<1>1. /\ t \in players /\ pstatus[t] = "disconnected"
      /\ pstatus' = [pstatus EXCEPT ![t] = Returns]
      /\ away' = [away EXCEPT ![t] = NoTime]
      /\ UNCHANGED <<status, players, guesses, solvedAt>>
  BY DEF MarkPlayerReconnected, IsAway
<1>2. \A p \in players \ {t} : pstatus'[p] = pstatus[p] /\ away'[p] = away[p]
  BY <1>1 DEF IInv, TypeOK
<1>3. pstatus'[t] = IF status = "finished" THEN "waiting" ELSE "playing"
  BY <1>1 DEF Returns, IInv, TypeOK
<1>4. t \notin Acting /\ t \in Dropped \union Gone
  BY <1>1, WhoIsPresent DEF Acting
<1>5. /\ Acting' = IF status = "finished" THEN Acting ELSE Acting \union {t}
      /\ Dropped' = Dropped \ {t} /\ Gone' = Gone \ {t}
  BY <1>1, <1>2, <1>3, <1>4, OneMoves
<1>. QED BY <1>1, <1>4, <1>5 DEF Contract!Return, Board

LEMMA SweepImplementsClose ==
    ASSUME IInv, sweepIdle
    PROVE  Contract!Close
BY DEF sweepIdle, Contract!Close, Contract!EmptyBoard, Board, Acting, Dropped, Gone, NoGuesses, NoSolvers

\* Time only makes players who dropped players who are gone.
LEMMA TickImplementsGiveUp ==
    ASSUME IInv, Tick
    PROVE  \E late \in SUBSET Dropped : Contract!GiveUp(late)
<1>1. /\ away' = [p \in Tokens |-> Older(away[p], Grace)]
      /\ UNCHANGED <<status, players, pstatus, guesses, solvedAt>>
  BY DEF Tick
<1>2. \A p \in players :
        isBlockingRound(pstatus[p], away'[p]) => isBlockingRound(pstatus[p], away[p])
  BY <1>1, TimesAssumption DEF IInv, TypeOK, Older, isBlockingRound, NoTime
<1>. DEFINE late == Dropped \ Dropped'
<1>3. Acting' = Acting /\ Dropped' = Dropped \ late /\ Gone' = Gone \union late
  BY <1>1, <1>2 DEF Acting, Dropped, Gone
<1>4. late \in SUBSET Dropped
  OBVIOUS
<1>. HIDE DEF late
<1>5. Contract!GiveUp(late)
  BY <1>1, <1>3, <1>4 DEF Contract!GiveUp, Board
<1>. QED BY <1>4, <1>5

\* Every step of the store is a step of the contract, or none.
LEMMA ContractStep ==
    ASSUME IInv, [Next]_vars
    PROVE  [Contract!Next]_(Contract!vars)
<1>1. CASE UNCHANGED vars
  BY <1>1, NobodyMoves DEF vars, Contract!vars, Board
<1>2. ASSUME NEW t \in Tokens, Request(t)
      PROVE  Contract!Next
  <2>1. CASE StartRound(t) \/ NextRound(t)
    BY <2>1, BeginImplementsBegin DEF StartRound, NextRound, Contract!Next
  <2>2. CASE Create(t) \/ Join(t)
    BY <2>2, SeatImplementsSit DEF Contract!Next
  <2>3. ASSUME NEW green \in BOOLEAN, SubmitGuess(t, green)
        PROVE  Contract!Next
    BY <2>3, SubmitImplementsGuess DEF Contract!Next
  <2>. QED BY <1>2, <2>1, <2>2, <2>3 DEF Request
<1>3. ASSUME NEW t \in Tokens, Leave(t) \/ Registry(t), ~UNCHANGED vars
      PROVE  Contract!Next \/ UNCHANGED Contract!vars
  BY <1>3, LeaveImplementsLeave, DropImplementsDrop, FinalizeImplementsNotice,
     ReconnectImplementsReturn DEF Registry, Contract!Next
<1>4. CASE Housekeeping
  BY <1>4, SweepImplementsClose, TickImplementsGiveUp DEF Housekeeping, Contract!Next
<1>. QED BY <1>1, <1>2, <1>3, <1>4 DEF Next

\* The store implements the contract of a round.
THEOREM Implements == Spec => KeepsContract
<1>1. Init => Contract!Init
  BY ContractInit
<1>2. IInv /\ [Next]_vars => [Contract!Next]_(Contract!vars)
  BY ContractStep
<1>. QED BY <1>1, <1>2, Invariance, PTL DEF Spec, KeepsContract, Contract!Spec

--------------------------------------------------------------------------------
\* The host of a stored room changes only while it is away, and the oldest
\* player who is there takes over.
THEOREM Handover == Spec => HostHandover
<1> DEFINE Handed ==
        status # "none" /\ status' # "none" /\ host' # host =>
            /\ pstatus'[host] = "disconnected"
            /\ host' \in players /\ pstatus'[host'] # "disconnected"
            /\ \A p \in players : pstatus'[p] # "disconnected" => host' <= p
<1>1. ASSUME IInv, [Next]_vars
      PROVE  [Handed]_vars
  <2> SUFFICES ASSUME status # "none", status' # "none", host' # host
               PROVE  Handed
    OBVIOUS
  <2>1. ASSUME NEW t \in Tokens, Leave(t)
        PROVE  Handed
    <3>1. /\ t = host /\ t \in players
          /\ pstatus' = [pstatus EXCEPT ![t] = "disconnected"]
          /\ host' \in migrateHost(pstatus')
      BY <2>1 DEF Leave, vars
    <3>2. pstatus'[host] = "disconnected"
      BY <1>1, <3>1 DEF IInv, TypeOK
    <3>. QED BY <3>1, <3>2 DEF migrateHost, Heirs
  <2>2. ASSUME NEW t \in Tokens, FinalizeDisconnect(t)
        PROVE  Handed
    BY <2>2 DEF FinalizeDisconnect, IsAway, migrateHost, Heirs, vars
  <2>3. ASSUME NEW t \in Tokens, ~Leave(t), ~FinalizeDisconnect(t),
               Request(t) \/ Registry(t)
        PROVE  FALSE
    BY <2>3 DEF Request, Registry, Create, Join, StartRound, NextRound, BeginRound,
                SubmitGuess, MarkPlayerDisconnected, MarkPlayerReconnected, vars
  <2>4. ~Housekeeping /\ ~UNCHANGED vars
    BY DEF Housekeeping, sweepIdle, Tick, vars
  <2>. QED BY <1>1, <2>1, <2>2, <2>3, <2>4 DEF Next
<1>. QED BY <1>1, Invariance, PTL DEF Spec, HostHandover

--------------------------------------------------------------------------------
\* Only requests of its players set the clock of a room back, and the sweep: no
\* drop, grace timer or return does (store.go:337-408, 472-475).
THEOREM UseTouches == Spec => OnlyUseTouches
<1> DEFINE Told == idle' < idle => Used
<1>1. ASSUME IInv, [Next]_vars
      PROVE  [Told]_vars
  <2>1. ASSUME NEW t \in Tokens, Request(t)
        PROVE  Used
    <3>1. CASE Create(t) \/ Join(t)
      <4>1. t \notin players /\ t \in players'
        BY <1>1, <3>1 DEF Create, Join, GenerateToken, IInv, TypeOK, NothingElse
      <4>. QED BY <4>1 DEF Used
    <3>2. CASE StartRound(t) \/ NextRound(t)
      BY <3>2 DEF StartRound, NextRound, BeginRound, Used
    <3>3. ASSUME NEW green \in BOOLEAN, SubmitGuess(t, green)
          PROVE  Used
      <4>1. guesses' = [guesses EXCEPT ![t] = @ + 1]
        BY <3>3 DEF SubmitGuess
      <4>2. guesses'[t] = guesses[t] + 1 /\ guesses[t] \in Nat
        BY <1>1, <4>1 DEF IInv, TypeOK
      <4>. QED BY <4>2 DEF Used
    <3>. QED BY <2>1, <3>1, <3>2, <3>3 DEF Request
  <2>2. ASSUME NEW t \in Tokens, Leave(t), ~UNCHANGED vars
        PROVE  Used
    <3>1. /\ t \in players /\ pstatus[t] # "disconnected"
          /\ pstatus' = [pstatus EXCEPT ![t] = "disconnected"]
          /\ away' = [away EXCEPT ![t] = Grace]
      BY <2>2 DEF Leave
    <3>2. pstatus'[t] = "disconnected" /\ away'[t] = Grace
      BY <1>1, <3>1 DEF IInv, TypeOK
    <3>. QED BY <3>1, <3>2 DEF Used
  <2>3. ASSUME NEW t \in Tokens, Registry(t)
        PROVE  UNCHANGED idle
    BY <2>3 DEF Registry, MarkPlayerDisconnected, FinalizeDisconnect, MarkPlayerReconnected, vars
  <2>4. sweepIdle => Used
    BY <1>1 DEF sweepIdle, Used, IInv, HostIsPlayer
  <2>5. Tick => ~(idle' < idle)
    BY <1>1, TimesAssumption DEF Tick, Older, NoTime, IInv, TypeOK, NothingElse
  <2>6. UNCHANGED idle => ~(idle' < idle)
    BY <1>1, TimesAssumption DEF IInv, TypeOK
  <2>. QED BY <1>1, <2>1, <2>2, <2>3, <2>4, <2>5, <2>6 DEF Next, Housekeeping, vars
<1>. QED BY <1>1, Invariance, PTL DEF Spec, OnlyUseTouches

--------------------------------------------------------------------------------
\* A seat lasts as long as its room, and no longer: while a room is stored none of its
\* tokens goes, and no later room takes a token that was issued before.
SeatsLast ==
    [][/\ status' # "none" => players \subseteq players'
       /\ issued \subseteq issued'
       /\ (players' \ players) \intersect issued = {}]_vars

\* What the browser's modules go by (RoomService: a token is good if and only if
\* its room is stored): Store never removes a player, and GenerateToken never returns
\* a token twice (store.go:496-506, tokens.go).
THEOREM SeatsLastWithRooms == Spec => SeatsLast
<1>. DEFINE Lasts == /\ status' # "none" => players \subseteq players'
                    /\ issued \subseteq issued'
                    /\ (players' \ players) \intersect issued = {}
<1>1. ASSUME IInv, [Next]_vars
      PROVE  [Lasts]_vars
  <2>1. ASSUME NEW t \in Tokens, Create(t) \/ Join(t)
        PROVE  Lasts
    <3>1. t \notin issued /\ issued' = issued \union {t}
      BY <2>1 DEF Create, Join, GenerateToken
    <3>2. players' \subseteq players \union {t} /\ players \subseteq players'
      BY <1>1, <2>1 DEF Create, Join, IInv, HostIsPlayer, NothingElse
    <3>. QED BY <3>1, <3>2
  <2>2. ASSUME NEW t \in Tokens, StartRound(t) \/ NextRound(t) \/ (\E green \in BOOLEAN : SubmitGuess(t, green))
        PROVE  UNCHANGED <<players, issued>>
    BY <2>2 DEF StartRound, NextRound, BeginRound, SubmitGuess
  <2>3. ASSUME NEW t \in Tokens, Leave(t) \/ Registry(t)
        PROVE  UNCHANGED <<players, issued>>
    BY <2>3 DEF Leave, Registry, MarkPlayerDisconnected, FinalizeDisconnect, MarkPlayerReconnected, vars
  <2>4. Tick => UNCHANGED <<players, issued>>
    BY DEF Tick
  <2>5. sweepIdle => Lasts
    BY DEF sweepIdle
  <2>6. UNCHANGED <<players, issued>> => Lasts
    OBVIOUS
  <2>. HIDE DEF Lasts
  <2>. QED BY <1>1, <2>1, <2>2, <2>3, <2>4, <2>5, <2>6 DEF Next, Request, Housekeeping
<1>. QED BY <1>1, Invariance, PTL DEF Spec, SeatsLast
================================================================================
