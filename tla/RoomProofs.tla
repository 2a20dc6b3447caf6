------------------------------- MODULE RoomProofs -------------------------------
(***************************************************************************)
(* What is built on a room.  Its connections: the room under them is a     *)
(* room of RoomStore, so that all that is proved of RoomStore holds of it; *)
(* and everybody in a grace period has a grace goroutine of its own, for   *)
(* every number of connections.  Its views and the panels made of them,    *)
(* for any number of rows and any score: the ranking is fair, finished     *)
(* boards stay closed, nobody guesses who has been shown the target, and   *)
(* every panel tells what the room waits for.                              *)
(***************************************************************************)
EXTENDS Realtime, RoomPanels, RoomStoreProofs, FiniteSetTheorems

(***************************************************************************)
(* Connections: Realtime.                                                  *)
(***************************************************************************)

\* A call of the registry for the token of a connection is a call for the
\* token of a player, or changes nothing.
LEMMA RegistryStep ==
    ASSUME RTTypeOK, NEW c \in Conns, Registry(token[c])
    PROVE  [Next]_vars
<1>1. CASE token[c] \in Tokens
  BY <1>1 DEF Next
<1>2. CASE token[c] \notin Tokens
  <2>1. token[c] \notin players
    BY <1>2 DEF RTTypeOK, TypeOK
  <2>. QED
    BY <2>1 DEF Registry, MarkPlayerDisconnected, FinalizeDisconnect, MarkPlayerReconnected,
                DropCounts, IsAway
<1>. QED BY <1>1, <1>2

\* Every step of the connections is a step of the room, or leaves it alone.
LEMMA RTStepIsStoreStep ==
    ASSUME RTTypeOK, [RTNext]_rtVars
    PROVE  [Next]_vars
<1>1. ASSUME NEW t \in Tokens, Request(t) \/ Leave(t)
      PROVE  Next
  BY <1>1 DEF Next
<1>2. ASSUME NEW t \in Tokens, NEW c \in Conns, wsUpgrade(c, t)
      PROVE  UNCHANGED vars
  BY <1>2 DEF wsUpgrade
<1>3. ASSUME NEW c \in Conns, Server(c)
      PROVE  [Next]_vars
  <2>1. CASE OnClientReconnect(c) \/ OnClientDisconnect(c) \/ graceExpires(c)
    BY <2>1, RegistryStep
       DEF OnClientReconnect, OnClientDisconnect, graceExpires, Registry
  <2>2. CASE Register(c) \/ graceStarts(c)
    BY <2>2 DEF Register, graceStarts
  <2>. QED BY <1>3, <2>1, <2>2 DEF Server
<1>4. ASSUME NEW c \in Conns, close(c)
      PROVE  UNCHANGED vars
  BY <1>4 DEF close
<1>5. CASE sweepIdle \/ RTTick
  BY <1>5 DEF RTTick, Next, Housekeeping
<1>6. CASE UNCHANGED rtVars
  BY <1>6 DEF rtVars
<1>. QED BY <1>1, <1>2, <1>3, <1>4, <1>5, <1>6 DEF RTNext

--------------------------------------------------------------------------------
(* The grace goroutines.                                                   *)

RTIInv == IInv /\ RTInv

LEMMA RTInitInv ==
    ASSUME RTInit
    PROVE  RTIInv
<1>1. IInv
  BY InitInv DEF RTInit
<1>2. RTTypeOK
  BY <1>1, TimesAssumption DEF RTInit, RTTypeOK, IInv, Stages
<1>3. GraceIsTimed
  BY DEF RTInit, Init, GraceIsTimed
<1>. QED BY <1>1, <1>2, <1>3 DEF RTIInv, RTInv

LEMMA RTTypeStep ==
    ASSUME RTIInv, [RTNext]_rtVars
    PROVE  RTTypeOK'
<1>1. TypeOK'
  BY RTStepIsStoreStep, NextInv DEF RTIInv, RTInv, IInv
<1>2. ASSUME NEW c \in Conns, Server(c) \/ close(c)
      PROVE  RTTypeOK'
  BY <1>1, <1>2, TimesAssumption
     DEF RTIInv, RTInv, RTTypeOK, Server, OnClientReconnect, Register, OnClientDisconnect,
         graceStarts, graceExpires, close, Moves, Stages
<1>3. ASSUME NEW c \in Conns, NEW t \in Tokens, wsUpgrade(c, t)
      PROVE  RTTypeOK'
  BY <1>1, <1>3 DEF RTIInv, RTInv, RTTypeOK, wsUpgrade, Moves, Stages
<1>4. CASE RTTick
  BY <1>1, <1>4, TimesAssumption DEF RTIInv, RTInv, RTTypeOK, RTTick
<1>5. CASE UNCHANGED connVars
  BY <1>1, <1>5 DEF RTIInv, RTInv, RTTypeOK, connVars
<1>. QED BY <1>2, <1>3, <1>4, <1>5 DEF RTNext, rtVars, connVars

\* Nobody but a drop starts an absence shorter than the grace period, and only
\* time makes an absence longer.
LEMMA AbsencesOfStoreSteps ==
    ASSUME IInv, NEW t \in Tokens,
           \/ Request(t) \/ Leave(t)
           \/ FinalizeDisconnect(t) \/ MarkPlayerReconnected(t)
    PROVE  \A p \in players' :
               pstatus'[p] = "disconnected" /\ away'[p] < Grace =>
                   p \in players /\ pstatus[p] = "disconnected" /\ away'[p] = away[p]
<1>1. CASE Create(t) \/ Join(t)
  BY <1>1 DEF Create, Join, GenerateToken, IInv, TypeOK, HostIsPlayer, NothingElse
<1>2. CASE StartRound(t) \/ NextRound(t)
  BY <1>2 DEF StartRound, NextRound, BeginRound, Dealt, IInv, TypeOK
<1>3. ASSUME NEW green \in BOOLEAN, SubmitGuess(t, green)
      PROVE  \A p \in players' :
               pstatus'[p] = "disconnected" /\ away'[p] < Grace =>
                   p \in players /\ pstatus[p] = "disconnected" /\ away'[p] = away[p]
  BY <1>3 DEF SubmitGuess, AfterGuess, IInv, TypeOK
<1>4. CASE Leave(t)
  BY <1>4, TimesAssumption DEF Leave, vars, IInv, TypeOK
<1>5. CASE FinalizeDisconnect(t) \/ MarkPlayerReconnected(t)
  BY <1>5 DEF FinalizeDisconnect, MarkPlayerReconnected, Returns, vars, IInv, TypeOK
<1>. QED BY <1>1, <1>2, <1>3, <1>4, <1>5 DEF Request

\* The goroutine of a connection is where it was, no time having passed.
StaysTimed(c) == stage'[c] = stage[c] /\ token'[c] = token[c] /\ sleep'[c] = sleep[c]

LEMMA GraceStep ==
    ASSUME RTIInv, [RTNext]_rtVars
    PROVE  GraceIsTimed'
<1>. USE DEF RTIInv, RTInv
<1>1. ASSUME \A p \in players' :
               pstatus'[p] = "disconnected" /\ away'[p] < Grace =>
                   p \in players /\ pstatus[p] = "disconnected" /\ away'[p] = away[p],
             \A c \in Conns : Timing(c) /\ (stage[c] = "grace" => sleep[c] > 0) => StaysTimed(c)
      PROVE  GraceIsTimed'
  <2>1. SUFFICES ASSUME NEW p \in players', pstatus'[p] = "disconnected", away'[p] < Grace
                 PROVE  \E c \in Conns : /\ Timing(c)' /\ token'[c] = p
                                         /\ stage'[c] = "grace" => sleep'[c] >= Grace - away'[p]
    BY DEF GraceIsTimed
  <2>2. p \in players /\ pstatus[p] = "disconnected" /\ away'[p] = away[p]
    BY <1>1, <2>1
  <2>3. PICK c \in Conns : /\ Timing(c) /\ token[c] = p
                           /\ stage[c] = "grace" => sleep[c] >= Grace - away[p]
    BY <2>1, <2>2 DEF GraceIsTimed
  <2>4. stage[c] = "grace" => sleep[c] > 0
    BY <2>1, <2>2, <2>3, TimesAssumption DEF RTTypeOK, TypeOK, NoTime
  <2>5. StaysTimed(c)
    BY <1>1, <2>3, <2>4
  <2>. QED BY <2>2, <2>3, <2>5 DEF StaysTimed, Timing
<1>2. ASSUME NEW t \in Tokens, Request(t) \/ Leave(t), UNCHANGED connVars
      PROVE  GraceIsTimed'
  BY <1>1, <1>2, AbsencesOfStoreSteps DEF connVars, StaysTimed
<1>3. ASSUME UNCHANGED vars,
             \A c \in Conns : Timing(c) /\ (stage[c] = "grace" => sleep[c] > 0) => StaysTimed(c)
      PROVE  GraceIsTimed'
  BY <1>1, <1>3 DEF vars
<1>4. ASSUME NEW t \in Tokens, NEW c \in Conns, wsUpgrade(c, t)
      PROVE  GraceIsTimed'
  BY <1>3, <1>4 DEF wsUpgrade, Moves, Timing, StaysTimed, RTTypeOK
<1>5. ASSUME NEW c \in Conns, Register(c) \/ close(c)
      PROVE  GraceIsTimed'
  BY <1>3, <1>5 DEF Register, close, Moves, Timing, StaysTimed, RTTypeOK
<1>6. ASSUME NEW c \in Conns, OnClientReconnect(c) \/ graceExpires(c)
      PROVE  GraceIsTimed'
  <2>1. \A d \in Conns : Timing(d) /\ (stage[d] = "grace" => sleep[d] > 0) => StaysTimed(d)
    BY <1>6 DEF OnClientReconnect, graceExpires, Moves, Timing, StaysTimed, RTTypeOK
  <2>2. CASE token[c] \in Tokens
    BY <1>1, <1>6, <2>1, <2>2, AbsencesOfStoreSteps DEF OnClientReconnect, graceExpires
  <2>3. CASE token[c] \notin Tokens
    BY <1>3, <1>6, <2>1, <2>3
       DEF OnClientReconnect, graceExpires, MarkPlayerReconnected, FinalizeDisconnect,
           IsAway, RTTypeOK, TypeOK
  <2>. QED BY <2>2, <2>3
<1>7. ASSUME NEW c \in Conns, OnClientDisconnect(c)
      PROVE  GraceIsTimed'
  <2>1. \A d \in Conns : Timing(d) => StaysTimed(d)
    BY <1>7 DEF OnClientDisconnect, Moves, Timing, StaysTimed, RTTypeOK
  <2>2. CASE UNCHANGED vars
    BY <1>3, <2>1, <2>2
  <2>3. CASE ~UNCHANGED vars
    <3>1. /\ token[c] \in players
          /\ pstatus' = [pstatus EXCEPT ![token[c]] = "disconnected"]
          /\ away' = [away EXCEPT ![token[c]] = 0]
          /\ players' = players
      BY <1>7, <2>3 DEF OnClientDisconnect, MarkPlayerDisconnected, DropCounts
    <3>2. stage'[c] = "marked" /\ token'[c] = token[c]
      BY <1>7 DEF OnClientDisconnect, Moves, RTTypeOK
    <3>3. \A p \in players \ {token[c]} : pstatus'[p] = pstatus[p] /\ away'[p] = away[p]
      BY <3>1 DEF RTTypeOK, TypeOK
    <3>. QED BY <2>1, <3>1, <3>2, <3>3 DEF GraceIsTimed, Timing, StaysTimed
  <2>. QED BY <2>2, <2>3
<1>8. ASSUME NEW c \in Conns, graceStarts(c)
      PROVE  GraceIsTimed'
  <2>1. \A d \in Conns : Timing(d) /\ d # c => StaysTimed(d)
    BY <1>8 DEF graceStarts, Moves, Timing, StaysTimed, RTTypeOK
  <2>2. /\ Timing(c) /\ Timing(c)' /\ token' = token
        /\ sleep'[c] = Grace
        /\ UNCHANGED <<players, pstatus, away>>
    BY <1>8 DEF graceStarts, Moves, Timing, vars, RTTypeOK
  <2>3. \A p \in players : pstatus[p] = "disconnected" => Grace >= Grace - away[p]
    BY TimesAssumption DEF IInv, TypeOK, DisconnectedAtSet, NoTime
  <2>. QED BY <2>1, <2>2, <2>3 DEF GraceIsTimed, Timing, StaysTimed
<1>9. CASE RTTick
  <2>1. SUFFICES ASSUME NEW p \in players', pstatus'[p] = "disconnected", away'[p] < Grace
                 PROVE  \E c \in Conns : /\ Timing(c)' /\ token'[c] = p
                                         /\ stage'[c] = "grace" => sleep'[c] >= Grace - away'[p]
    BY DEF GraceIsTimed
  <2>2. p \in players /\ pstatus[p] = "disconnected" /\ away[p] \in 0 .. Grace
    BY <1>9, <2>1 DEF RTTick, Tick, IInv, TypeOK, DisconnectedAtSet, NoTime
  <2>3. away[p] < Grace /\ away'[p] = away[p] + 1
    BY <1>9, <2>1, <2>2, TimesAssumption DEF RTTick, Tick, Older, NoTime, RTTypeOK, TypeOK
  <2>4. PICK c \in Conns : /\ Timing(c) /\ token[c] = p
                           /\ stage[c] = "grace" => sleep[c] >= Grace - away[p]
    BY <2>2, <2>3 DEF GraceIsTimed
  <2>5. /\ stage' = stage /\ Timing(c)' /\ token'[c] = p
        /\ sleep'[c] = IF sleep[c] > 0 THEN sleep[c] - 1 ELSE 0
    BY <1>9, <2>4 DEF RTTick, Timing
  <2>6. sleep[c] \in Nat
    BY DEF RTTypeOK
  <2>7. stage'[c] = "grace" => sleep'[c] >= Grace - away'[p]
    BY <2>2, <2>3, <2>4, <2>5, <2>6, TimesAssumption
  <2>. QED BY <2>5, <2>7
<1>10. CASE sweepIdle
  BY <1>10 DEF sweepIdle, GraceIsTimed
<1>11. CASE UNCHANGED rtVars
  BY <1>3, <1>11 DEF rtVars, StaysTimed
<1>. QED
  BY <1>2, <1>4, <1>5, <1>6, <1>7, <1>8, <1>9, <1>10, <1>11 DEF RTNext, Server

LEMMA RTNextInv ==
    ASSUME RTIInv, [RTNext]_rtVars
    PROVE  RTIInv'
<1>1. IInv'
  BY RTStepIsStoreStep, NextInv DEF RTIInv, RTInv
<1>. QED BY <1>1, RTTypeStep, GraceStep DEF RTIInv, RTInv

\* The connections, their types and their timers, in every reachable state.
THEOREM RTInvariance == RTSpec => []RTIInv
<1>1. RTInit => RTIInv
  BY RTInitInv
<1>2. RTIInv /\ [RTNext]_rtVars => RTIInv'
  BY RTNextInv
<1>. QED BY <1>1, <1>2, PTL DEF RTSpec

\* Everybody in a grace period has a grace goroutine that ends with it.
THEOREM GraceTimed == RTSpec => []GraceIsTimed
<1>1. RTIInv => GraceIsTimed
  BY DEF RTIInv, RTInv
<1>. QED BY <1>1, RTInvariance, PTL

--------------------------------------------------------------------------------
(* Running rounds.                                                         *)

\* A round that somebody blocks is watched: whoever blocks it is playing, or is
\* in a grace period and has a goroutine.
LEMMA BlockedIsWatched ==
    ASSUME GraceIsTimed', NEW p \in players', isBlockingRound(pstatus'[p], away'[p])
    PROVE  RoundIsWatched'
<1>1. CASE pstatus'[p] = "playing"
  BY <1>1 DEF RoundIsWatched
<1>2. CASE pstatus'[p] = "disconnected" /\ away'[p] < Grace
  <2>1. PICK c \in Conns : Timing(c)' /\ token'[c] = p
    BY <1>2 DEF GraceIsTimed
  <2>. QED BY <1>2, <2>1 DEF RoundIsWatched, IsAway
<1>. QED BY <1>1, <1>2 DEF isBlockingRound

\* What checkAllDone has looked at and left running, somebody blocks.
LEMMA CheckedIsWatched ==
    ASSUME GraceIsTimed', players' = players, status' = checkAllDone(pstatus', away')
    PROVE  RoundIsWatched'
<1>1. CASE status' # "playing"
  BY <1>1 DEF RoundIsWatched
<1>2. CASE status' = "playing"
  <2>1. PICK p \in players : isBlockingRound(pstatus'[p], away'[p])
    BY <1>2 DEF checkAllDone
  <2>. QED BY <2>1, BlockedIsWatched
<1>. QED BY <1>1, <1>2

\* A step that leaves the players and the sleeping goroutines of those who are
\* away alone leaves the round watched.
LEMMA StillWatched ==
    ASSUME RoundIsWatched, UNCHANGED <<status, players, pstatus>>,
           \A c \in Conns : Timing(c) /\ IsAway(token[c]) =>
                                Timing(c)' /\ token'[c] = token[c]
    PROVE  RoundIsWatched'
BY DEF RoundIsWatched, IsAway

LEMMA WatchedByRequests ==
    ASSUME RTIInv, RoundIsWatched, GraceIsTimed', NEW t \in Tokens,
           Request(t) \/ Leave(t), UNCHANGED connVars
    PROVE  RoundIsWatched'
<1>1. CASE Create(t) \/ Join(t)
  BY <1>1 DEF Create, Join, RoundIsWatched
<1>2. CASE StartRound(t) \/ NextRound(t)
  <2>1. /\ players' = players
        /\ \A p \in players : pstatus'[p] \in {"playing", "disconnected"}
    BY <1>2 DEF StartRound, NextRound, BeginRound, Dealt, RTIInv, IInv, TypeOK
  <2>. QED BY <2>1 DEF RoundIsWatched
<1>3. ASSUME NEW green \in BOOLEAN, SubmitGuess(t, green)
      PROVE  RoundIsWatched'
  BY <1>3, CheckedIsWatched DEF SubmitGuess
<1>4. CASE Leave(t)
  <2>1. CASE UNCHANGED vars
    BY <2>1, StillWatched DEF vars, connVars, Timing
  <2>2. CASE ~UNCHANGED vars
    BY <1>4, <2>2, CheckedIsWatched DEF Leave
  <2>. QED BY <2>1, <2>2
<1>. QED BY <1>1, <1>2, <1>3, <1>4 DEF Request

LEMMA WatchedByServer ==
    ASSUME RTIInv, RoundIsWatched, GraceIsTimed', NEW c \in Conns, Server(c)
    PROVE  RoundIsWatched'
<1>. USE DEF RTIInv, RTInv
<1>1. CASE OnClientReconnect(c)
  <2>1. \A d \in Conns : Timing(d) => Timing(d)' /\ token'[d] = token[d]
    BY <1>1 DEF OnClientReconnect, Moves, Timing, RTTypeOK
  <2>2. CASE UNCHANGED vars
    BY <2>1, <2>2, StillWatched DEF vars
  <2>3. CASE ~UNCHANGED vars
    <3>1. /\ token[c] \in players
          /\ pstatus' = [pstatus EXCEPT ![token[c]] = Returns]
          /\ players' = players /\ status' = status
      BY <1>1, <2>3 DEF OnClientReconnect, MarkPlayerReconnected, IsAway
    <3>2. status' = "playing" => pstatus'[token[c]] = "playing"
      BY <3>1 DEF Returns, RTTypeOK, TypeOK
    <3>. QED BY <3>1, <3>2 DEF RoundIsWatched
  <2>. QED BY <2>2, <2>3
<1>2. CASE Register(c) \/ graceStarts(c)
  BY <1>2, StillWatched DEF Register, graceStarts, Moves, Timing, vars, RTTypeOK
<1>3. CASE OnClientDisconnect(c)
  <2>1. \A d \in Conns : Timing(d) => Timing(d)' /\ token'[d] = token[d]
    BY <1>3 DEF OnClientDisconnect, Moves, Timing, RTTypeOK
  <2>2. CASE UNCHANGED vars
    BY <2>1, <2>2, StillWatched DEF vars
  <2>3. CASE ~UNCHANGED vars
    <3>1. /\ token[c] \in players'
          /\ pstatus'[token[c]] = "disconnected" /\ away'[token[c]] = 0
      BY <1>3, <2>3 DEF OnClientDisconnect, MarkPlayerDisconnected, DropCounts, RTTypeOK, TypeOK
    <3>2. isBlockingRound(pstatus'[token[c]], away'[token[c]])
      BY <3>1, TimesAssumption DEF isBlockingRound, NoTime
    <3>. QED BY <3>1, <3>2, BlockedIsWatched
  <2>. QED BY <2>2, <2>3
<1>4. CASE graceExpires(c)
  <2>1. CASE IsAway(token[c])
    BY <1>4, <2>1, CheckedIsWatched DEF graceExpires, FinalizeDisconnect
  <2>2. CASE ~IsAway(token[c])
    <3>1. \A d \in Conns : Timing(d) /\ IsAway(token[d]) =>
                               Timing(d)' /\ token'[d] = token[d]
      BY <1>4, <2>2 DEF graceExpires, Moves, Timing, RTTypeOK
    <3>. QED BY <1>4, <2>2, <3>1, StillWatched DEF graceExpires, FinalizeDisconnect, vars
  <2>. QED BY <2>1, <2>2
<1>. QED BY <1>1, <1>2, <1>3, <1>4 DEF Server

LEMMA WatchedStep ==
    ASSUME RTIInv, RoundIsWatched, [RTNext]_rtVars
    PROVE  RoundIsWatched'
<1>1. GraceIsTimed'
  BY GraceStep
<1>2. ASSUME NEW t \in Tokens, NEW c \in Conns, wsUpgrade(c, t)
      PROVE  RoundIsWatched'
  BY <1>2, StillWatched DEF wsUpgrade, Moves, Timing, vars, RTIInv, RTInv, RTTypeOK
<1>3. ASSUME NEW c \in Conns, close(c)
      PROVE  RoundIsWatched'
  BY <1>3, StillWatched DEF close, Moves, Timing, vars, RTIInv, RTInv, RTTypeOK
<1>4. CASE sweepIdle
  BY <1>4 DEF sweepIdle, RoundIsWatched
<1>5. CASE RTTick
  BY <1>5, StillWatched DEF RTTick, Tick, Timing
<1>6. CASE UNCHANGED rtVars
  BY <1>6, StillWatched DEF rtVars, vars, Timing
<1>. QED
  BY <1>1, <1>2, <1>3, <1>4, <1>5, <1>6, WatchedByRequests, WatchedByServer DEF RTNext

\* A running round with somebody in it is being played, or a goroutine will look
\* at it again (store.go:351-380; registry.go:105-117).
THEOREM RoundsAreWatched == RTSpec => []RoundIsWatched
<1>1. RTInit => RTIInv /\ RoundIsWatched
  BY RTInitInv DEF RTInit, Init, RoundIsWatched
<1>2. (RTIInv /\ RoundIsWatched) /\ [RTNext]_rtVars => (RTIInv /\ RoundIsWatched)'
  BY RTNextInv, WatchedStep
<1>. QED BY <1>1, <1>2, PTL DEF RTSpec

--------------------------------------------------------------------------------
\* The room under its connections is a room of RoomStore.
THEOREM RTImplementsStore == RTSpec => Spec
<1>1. RTInit => Init
  BY DEF RTInit
<1>2. RTIInv /\ [RTNext]_rtVars => [Next]_vars
  BY RTStepIsStoreStep DEF RTIInv, RTInv
<1>. QED BY <1>1, <1>2, RTInvariance, PTL DEF RTSpec, Spec

--------------------------------------------------------------------------------
(***************************************************************************)
(* Views and panels: RoomView, RoomPanels.                                 *)
(***************************************************************************)

\* Solving times order the solvers.
SolvesOrdered ==
    /\ \A p, q \in Tokens : Earlier(p, q) => solvedAt[p] /\ solvedAt[q] /\ ~Earlier(q, p)
    /\ \A p, q \in Tokens : solvedAt[p] /\ solvedAt[q] /\ p # q => Earlier(p, q) \/ Earlier(q, p)
    /\ \A p, q, u \in Tokens : Earlier(p, q) /\ Earlier(q, u) => Earlier(p, u)

\* Who may guess, now or after a return, has a row left and has not solved.
BoardsOpen ==
    \A p \in players \ left :
        /\ guesses[p] <= MaxGuesses
        /\ solvedAt[p] => pstatus[p] = "solved"
        /\ guesses[p] = MaxGuesses => pstatus[p] \in {"solved", "out"}

\* A round that runs has somebody to wait for, present or away.
Awaited ==
    status = "playing" => \E p \in players : pstatus[p] \in {"playing", "disconnected"}

RVInv ==
    /\ IInv
    /\ IsFiniteSet(players)
    /\ bestRow \in [Tokens -> Nat]
    /\ SolvesOrdered
    /\ BoardsOpen
    /\ Awaited
    /\ status # "finished" => informed = {}

--------------------------------------------------------------------------------
(* The steps.                                                              *)

LEMMA GetViewInv == ASSUME RVInv, NEW c \in Tokens, GetView(c) PROVE RVInv'
<1>1. IInv'
  BY NextInv DEF RVInv, GetView
<1>2. SolvesOrdered' /\ BoardsOpen' /\ Awaited'
  BY DEF RVInv, GetView, vars, SolvesOrdered, Earlier, BoardsOpen, Awaited
<1>3. status' # "finished" => informed' = {}
  BY DEF RVInv, GetView, vars, PlayerView, showsTarget
<1>. QED BY <1>1, <1>2, <1>3 DEF RVInv, GetView, vars

\* The solver of now is later than all solvers before.
LEMMA GuessInv ==
    ASSUME RVInv, NEW t \in Tokens, NEW row \in 0 .. AllGreen, Guess(t, row)
    PROVE  RVInv'
<1>. DEFINE green == row = AllGreen
            new == AfterGuess(guesses[t] + 1, green)
<1>0. /\ status = "playing" /\ t \in players /\ pstatus[t] = "playing"
      /\ guesses' = [guesses EXCEPT ![t] = @ + 1]
      /\ pstatus' = [pstatus EXCEPT ![t] = new]
      /\ solvedAt' = [solvedAt EXCEPT ![t] = @ \/ green]
      /\ status' = checkAllDone(pstatus', away)
      /\ UNCHANGED <<host, players, away, issued, informed, left>>
  BY DEF Guess, SubmitGuess
<1>00. /\ guesses \in [Tokens -> Nat] /\ pstatus \in [Tokens -> PlayerStatus]
       /\ solvedAt \in [Tokens -> BOOLEAN] /\ players \subseteq Tokens
  BY DEF RVInv, IInv, TypeOK
<1>1. IInv'
  <2>1. green \in BOOLEAN /\ SubmitGuess(t, green)
    BY DEF Guess
  <2>. HIDE DEF green
  <2>. QED BY <2>1, SubmitGuessInv DEF RVInv
<1>2. bestRow' \in [Tokens -> Nat]
  BY AllGreenAssumption DEF Guess, RVInv
<1>3. SolvesOrdered'
  <2>1. CASE ~green
    <3>1. solves' = solves
      BY <2>1 DEF Guess
    <3>2. \A p \in Tokens : solvedAt'[p] <=> solvedAt[p]
      BY <1>0, <1>00, <2>1
    <3>. QED BY <3>1, <3>2 DEF RVInv, SolvesOrdered, Earlier
  <2>2. CASE green
    <3>1. solves' = {x \in solves : x[1] # t} \union {<<p, t>> : p \in {q \in Tokens \ {t} : solvedAt[q]}}
      BY <2>2 DEF Guess
    <3>2. \A p, q \in Tokens :
            <<p, q>> \in solves' <=> p # t /\ (<<p, q>> \in solves \/ (q = t /\ solvedAt[p]))
      BY <3>1
    <3>3. \A p \in Tokens : solvedAt'[p] <=> p = t \/ solvedAt[p]
      BY <1>0, <1>00, <2>2
    <3>. QED BY <3>2, <3>3 DEF RVInv, SolvesOrdered, Earlier
  <2>. QED BY <2>1, <2>2
<1>4. BoardsOpen'
  <2>1. ASSUME NEW p \in players \ left
        PROVE  /\ guesses'[p] <= MaxGuesses
               /\ solvedAt'[p] => pstatus'[p] = "solved"
               /\ guesses'[p] = MaxGuesses => pstatus'[p] \in {"solved", "out"}
    <3>1. CASE p # t
      BY <1>0, <1>00, <3>1 DEF RVInv, BoardsOpen
    <3>2. CASE p = t
      <4>1. guesses[t] <= MaxGuesses /\ guesses[t] # MaxGuesses /\ ~solvedAt[t]
        BY <1>0, <3>2 DEF RVInv, BoardsOpen
      <4>2. guesses'[t] = guesses[t] + 1 /\ (solvedAt'[t] <=> green) /\ pstatus'[t] = new
        BY <1>0, <1>00, <4>1
      <4>. QED BY <1>00, <3>2, <4>1, <4>2, GuessesAssumption DEF AfterGuess
    <3>. QED BY <3>1, <3>2
  <2>. QED BY <1>0, <2>1 DEF BoardsOpen
<1>5. Awaited'
  BY <1>0 DEF Awaited, checkAllDone, isBlockingRound
<1>. QED BY <1>0, <1>1, <1>2, <1>3, <1>4, <1>5 DEF RVInv

LEMMA AfreshInv == ASSUME RVInv, Afresh PROVE RVInv'
<1>0. /\ bestRow' = NoRows /\ solves' = {} /\ informed' = {} /\ left' = {}
      /\ \/ status \in {"lobby", "finished"} /\ BeginRound
         \/ sweepIdle
  BY DEF Afresh, StartRound, NextRound
<1>1. IInv'
  BY <1>0, BeginRoundInv, SweepInv DEF RVInv
<1>2. bestRow' \in [Tokens -> Nat]
  BY <1>0 DEF NoRows
<1>3. \A p \in Tokens : ~solvedAt'[p] /\ guesses'[p] = 0
  BY <1>0 DEF BeginRound, sweepIdle, NoSolvers, NoGuesses
<1>4. IsFiniteSet(players') /\ players' \subseteq Tokens
  BY <1>0, FS_EmptySet DEF BeginRound, sweepIdle, RVInv, IInv, TypeOK
<1>5. SolvesOrdered'
  BY <1>0, <1>3 DEF SolvesOrdered, Earlier
<1>6. BoardsOpen'
  BY <1>3, <1>4, GuessesAssumption DEF BoardsOpen
<1>7. Awaited'
  <2>1. CASE status \in {"lobby", "finished"} /\ BeginRound
    <3>1. host \in players /\ host \in Tokens
      BY <2>1 DEF RVInv, IInv, HostIsPlayer, NothingElse, TypeOK
    <3>2. players' = players /\ pstatus'[host] = Dealt(host)
      BY <2>1, <3>1 DEF BeginRound
    <3>. QED BY <3>1, <3>2 DEF Awaited, Dealt
  <2>2. CASE sweepIdle
    BY <2>2 DEF Awaited, sweepIdle
  <2>. QED BY <1>0, <2>1, <2>2
<1>. QED BY <1>0, <1>1, <1>2, <1>4, <1>5, <1>6, <1>7 DEF RVInv

LEMMA SeatInv == ASSUME RVInv, Seat PROVE RVInv'
<1>. PICK t \in Tokens : Create(t) \/ Join(t)
  BY DEF Seat
<1>0. /\ UNCHANGED <<bestRow, solves, informed, left, pstatus, guesses, solvedAt>>
      /\ players' = players \union {t} /\ t \in Tokens \ issued
      /\ status \in {"none", "lobby"} /\ status' = "lobby"
  BY DEF Seat, viewVars, Create, Join, GenerateToken, RVInv, IInv, HostIsPlayer, NothingElse
<1>1. IInv'
  BY CreateInv, JoinInv DEF RVInv
<1>2. IsFiniteSet(players')
  BY <1>0, FS_AddElement DEF RVInv
<1>3. SolvesOrdered' /\ Awaited'
  BY <1>0 DEF RVInv, SolvesOrdered, Earlier, Awaited
<1>4. BoardsOpen'
  <2>1. t \notin players
    BY <1>0 DEF RVInv, IInv, TypeOK
  <2>2. guesses[t] = 0 /\ ~solvedAt[t]
    BY <1>0, <2>1 DEF RVInv, IInv, HostIsPlayer, NothingElse
  <2>. QED BY <1>0, <2>2, GuessesAssumption DEF RVInv, BoardsOpen
<1>. QED BY <1>0, <1>1, <1>2, <1>3, <1>4 DEF RVInv

\* Drops are not recorded for those who are through, so returns reopen no board.
LEMMA ComeInv == ASSUME RVInv, Come PROVE RVInv'
<1>. PICK t \in Tokens : Registry(t)
  BY DEF Come
<1>0. UNCHANGED <<bestRow, solves, informed, left, players, guesses, solvedAt>>
  BY DEF Come, viewVars, Registry, MarkPlayerDisconnected, FinalizeDisconnect, MarkPlayerReconnected, vars
<1>1. IInv'
  BY MarkPlayerDisconnectedInv, FinalizeDisconnectInv, MarkPlayerReconnectedInv DEF Registry, RVInv
<1>2. SolvesOrdered'
  BY <1>0 DEF RVInv, SolvesOrdered, Earlier
<1>3. /\ pstatus \in [Tokens -> PlayerStatus]
      /\ \A p \in Tokens : pstatus'[p] = pstatus[p]
            \/ (pstatus[p] \in {"playing", "waiting"} /\ pstatus'[p] = "disconnected")
            \/ (pstatus[p] = "disconnected" /\ pstatus'[p] = Returns)
  BY DEF RVInv, IInv, TypeOK, Registry, MarkPlayerDisconnected, DropCounts, FinalizeDisconnect,
         MarkPlayerReconnected, IsAway, vars
<1>4. players \subseteq Tokens
  BY DEF RVInv, IInv, TypeOK
<1>5. BoardsOpen'
  BY <1>0, <1>3, <1>4 DEF RVInv, BoardsOpen
<1>6. status' = status \/ status' = "finished"
  BY DEF Registry, MarkPlayerDisconnected, FinalizeDisconnect, MarkPlayerReconnected, checkAllDone, vars
<1>7. Awaited'
  BY <1>0, <1>3, <1>4, <1>6 DEF RVInv, Awaited, Returns
<1>. QED BY <1>0, <1>1, <1>2, <1>5, <1>6, <1>7 DEF RVInv

LEMMA GoInv == ASSUME RVInv, Go PROVE RVInv'
<1>. PICK t \in Tokens : Leave(t) /\ left' = left \union {t}
  BY DEF Go
<1>0. UNCHANGED <<bestRow, solves, informed, players, guesses, solvedAt>>
  BY DEF Go, Leave, vars
<1>1. IInv'
  BY LeaveInv DEF RVInv
<1>2. SolvesOrdered'
  BY <1>0 DEF RVInv, SolvesOrdered, Earlier
<1>3. /\ pstatus'[t] = "disconnected" /\ t \in players
      /\ \A p \in Tokens \ {t} : pstatus'[p] = pstatus[p]
      /\ status' = status \/ status' = "finished"
  BY DEF RVInv, IInv, TypeOK, Leave, IsAway, checkAllDone, vars
<1>4. players \subseteq Tokens
  BY DEF RVInv, IInv, TypeOK
<1>5. BoardsOpen'
  BY <1>0, <1>3, <1>4 DEF RVInv, BoardsOpen
<1>6. Awaited'
  BY <1>0, <1>3 DEF Awaited
<1>. QED BY <1>0, <1>1, <1>2, <1>3, <1>5, <1>6 DEF RVInv

LEMMA WaitInv == ASSUME RVInv, Wait PROVE RVInv'
<1>1. UNCHANGED <<bestRow, solves, informed, left, status, players, pstatus, guesses, solvedAt>>
  BY DEF Wait, viewVars, Tick
<1>2. IInv'
  BY TickInv DEF RVInv, Wait
<1>3. SolvesOrdered' /\ BoardsOpen' /\ Awaited'
  BY <1>1 DEF RVInv, SolvesOrdered, Earlier, BoardsOpen, Awaited
<1>. QED BY <1>1, <1>2, <1>3 DEF RVInv

--------------------------------------------------------------------------------
\* Inductive for the views: the room's invariant, who can still guess, the order
\* of the solving times, and that nobody is informed while a round runs.
THEOREM RVInvariance == RVSpec => []RVInv
<1>1. RVInit => RVInv
  <2>. SUFFICES ASSUME RVInit PROVE RVInv
    OBVIOUS
  <2>1. IInv
    BY InitInv DEF RVInit
  <2>2. IsFiniteSet(players) /\ players = {}
    BY FS_EmptySet DEF RVInit, Init
  <2>3. SolvesOrdered
    BY DEF RVInit, Init, SolvesOrdered, Earlier, NoSolvers
  <2>. QED BY <2>1, <2>2, <2>3 DEF RVInit, Init, RVInv, BoardsOpen, Awaited, NoRows
<1>2. RVInv /\ [RVNext]_rvVars => RVInv'
  <2>. SUFFICES ASSUME RVInv, [RVNext]_rvVars PROVE RVInv'
    OBVIOUS
  <2>1. CASE UNCHANGED rvVars
    <3>1. UNCHANGED <<vars, bestRow, solves, informed, left>>
      BY <2>1 DEF rvVars, viewVars
    <3>2. IInv'
      BY <3>1, NextInv DEF RVInv
    <3>3. SolvesOrdered' /\ BoardsOpen' /\ Awaited'
      BY <3>1 DEF vars, RVInv, SolvesOrdered, Earlier, BoardsOpen, Awaited
    <3>. QED BY <3>1, <3>2, <3>3 DEF vars, RVInv
  <2>. QED BY <2>1, GetViewInv, GuessInv, AfreshInv, SeatInv, ComeInv, GoInv, WaitInv DEF RVNext
<1>. QED BY <1>1, <1>2, PTL DEF RVSpec

\* The room whose views are given out is a room of RoomStore.
THEOREM RVImplementsStore == RVSpec => Spec
<1>1. RVInit => Init
  BY DEF RVInit
<1>2. [RVNext]_rvVars => [Next]_vars
  <2>1. \A t \in Tokens : GetView(t) => UNCHANGED vars
    BY DEF GetView, vars
  <2>2. ASSUME NEW t \in Tokens, NEW row \in 0 .. AllGreen, Guess(t, row)
        PROVE  Next
    <3>1. SubmitGuess(t, row = AllGreen) /\ (row = AllGreen) \in BOOLEAN
      BY <2>2 DEF Guess
    <3>. QED BY <3>1 DEF Next, Request
  <2>3. Afresh => Next
    BY DEF Afresh, Next, Request, Housekeeping
  <2>4. Seat => Next
    BY DEF Seat, Next, Request
  <2>5. Come => Next
    BY DEF Come, Next
  <2>6. Go => Next
    BY DEF Go, Next
  <2>7. Wait => Next
    BY DEF Wait, Next, Housekeeping
  <2>8. UNCHANGED rvVars => UNCHANGED vars
    BY DEF rvVars
  <2>. QED BY <2>1, <2>2, <2>3, <2>4, <2>5, <2>6, <2>7, <2>8 DEF RVNext
<1>. QED BY <1>1, <1>2, PTL DEF RVSpec, Spec

\* A board that is full or solved takes no further guess, whatever drops and
\* returns follow, unless its player leaves (store.go:230-232, 341-343, 406).
THEOREM BoardsStayClosed == RVSpec => []BoardsClose
<1>1. RVInv => BoardsClose
  BY DEF RVInv, BoardsOpen, BoardsClose
<1>. QED BY <1>1, RVInvariance, PTL

\* Nobody who has been shown the target of a round guesses in it (view.go:63-67).
THEOREM InformedDoNotGuess == RVSpec => NoGuessAfterReveal
<1>1. RVInv /\ [RVNext]_rvVars =>
        [\A t \in Tokens : t \in informed /\ informed' # {} => guesses'[t] = guesses[t]]_rvVars
  <2>. SUFFICES ASSUME RVInv, RVNext, NEW t \in Tokens, t \in informed, informed' # {}
                PROVE  guesses'[t] = guesses[t]
    OBVIOUS
  <2>1. status = "finished"
    BY DEF RVInv
  <2>2. ~Afresh /\ ~Seat
    BY <2>1 DEF Afresh, Seat, Create, Join
  <2>3. \A u \in Tokens, row \in 0 .. AllGreen : ~Guess(u, row)
    BY <2>1 DEF Guess, SubmitGuess
  <2>4. guesses' = guesses
    BY <2>2, <2>3 DEF RVNext, GetView, Come, Go, Wait, Registry, MarkPlayerDisconnected,
                      FinalizeDisconnect, MarkPlayerReconnected, Leave, Tick, vars
  <2>. QED BY <2>4
<1>. QED BY <1>1, RVInvariance, PTL DEF RVSpec, NoGuessAfterReveal

--------------------------------------------------------------------------------
(* The rounds as a player is shown them: what Board goes by.               *)

Rounds == INSTANCE RoundShown WITH MaxRows <- MaxGuesses

IsDone(p) == pstatus[p] \in {"solved", "out"}

\* What p is shown of the room in its n-th round.
Seen(p, n) == Rounds!State(status, n, guesses[p], IsDone(p), p = host)

\* The room moves as RoundShown says for p, between the n-th round and the next.
MovesFor(p, n) ==
    \/ Rounds!MayBegin(Seen(p, n)) /\ Seen(p, n + 1)' = Rounds!Begun(Seen(p, n))
    \/ Rounds!MayGuess(Seen(p, n)) /\ Seen(p, n)' \in Rounds!Guessed(Seen(p, n))
    \/ Seen(p, n)' \in Rounds!Met(Seen(p, n))

Stays(p) == p \in players \ left

LEMMA Meets ==
    ASSUME NEW p, NEW n,
           status' = status \/ (status = "playing" /\ status' = "finished"),
           guesses'[p] = guesses[p], IsDone(p)' <=> IsDone(p)
    PROVE  MovesFor(p, n)
<1>1. \A d, h, e \in BOOLEAN :
        Rounds!State(status', n, guesses[p], d, h)
            \in Rounds!Met(Rounds!State(status, n, guesses[p], d, e))
  BY DEF Rounds!State, Rounds!Met
<1>2. IsDone(p)' = IsDone(p) /\ IsDone(p) \in BOOLEAN
  <2>1. IsDone(p) \in BOOLEAN /\ IsDone(p)' \in BOOLEAN
    BY DEF IsDone
  <2>. QED BY <2>1
<1>3. (p = host) \in BOOLEAN /\ (p = host)' \in BOOLEAN
  OBVIOUS
<1>4. Seen(p, n)' \in Rounds!Met(Seen(p, n))
  BY <1>1, <1>2, <1>3, Zenon DEF Seen
<1>. QED BY <1>4 DEF MovesFor

LEMMA Unmoved ==
    ASSUME NEW p, NEW n, UNCHANGED <<status, guesses, pstatus>>
    PROVE  MovesFor(p, n)
<1>1. IsDone(p)' <=> IsDone(p)
  BY DEF IsDone
<1>. QED BY <1>1, Meets

\* Those who play and those who do not are dealt an empty board.
LEMMA RoundMoves ==
    ASSUME RVInv, NEW p \in players, NEW n \in Nat, BeginRound, status \in {"lobby", "finished"}
    PROVE  MovesFor(p, n)
<1>1. /\ status' = "playing" /\ guesses'[p] = 0 /\ host' = host
      /\ pstatus'[p] \in {"playing", "disconnected"}
  BY DEF BeginRound, NoGuesses, Dealt, RVInv, IInv, TypeOK
<1>2. ~IsDone(p)'
  BY <1>1 DEF IsDone
<1>3. Rounds!MayBegin(Seen(p, n))
  BY DEF Seen, Rounds!State, Rounds!MayBegin
<1>4. Seen(p, n + 1)' = Rounds!Begun(Seen(p, n))
  <2>1. Seen(p, n + 1)' = Rounds!State("playing", n + 1, 0, FALSE, p = host)
    <3>1. IsDone(p)' = FALSE /\ (p = host)' = (p = host)
      BY <1>1, <1>2
    <3>. QED BY <1>1, <3>1, Zenon DEF Seen
  <2>2. Seen(p, n).round = n /\ Seen(p, n).host = (p = host)
    BY DEF Seen, Rounds!State
  <2>. QED BY <2>1, <2>2, Zenon DEF Rounds!Begun
<1>. QED BY <1>3, <1>4 DEF MovesFor

LEMMA GuessMoves ==
    ASSUME RVInv, NEW p \in players, p \notin left, NEW n \in Nat,
           NEW t \in Tokens, NEW row \in 0 .. AllGreen, Guess(t, row)
    PROVE  MovesFor(p, n)
<1>. DEFINE new == AfterGuess(guesses[t] + 1, row = AllGreen)
<1>1. /\ status = "playing" /\ t \in players /\ pstatus[t] = "playing"
      /\ guesses' = [guesses EXCEPT ![t] = @ + 1]
      /\ pstatus' = [pstatus EXCEPT ![t] = new]
      /\ status' = checkAllDone(pstatus', away)
      /\ host' = host /\ players' = players
  BY DEF Guess, SubmitGuess
<1>2. /\ guesses \in [Tokens -> Nat] /\ pstatus \in [Tokens -> PlayerStatus]
      /\ players \subseteq Tokens
  BY DEF RVInv, IInv, TypeOK
<1>. HIDE DEF new
<1>3. status' \in {"playing", "finished"}
  BY <1>1 DEF checkAllDone
<1>4. CASE p # t
  <2>1. guesses'[p] = guesses[p] /\ (IsDone(p)' <=> IsDone(p))
    BY <1>1, <1>2, <1>4 DEF IsDone
  <2>. QED BY <1>1, <1>3, <2>1, Meets
<1>5. CASE p = t
  <2>1. guesses'[p] = guesses[p] + 1 /\ pstatus'[p] = new
    BY <1>1, <1>2, <1>5
  <2>2. status' = "finished" => pstatus'[p] # "playing"
    BY <1>1, <1>5 DEF checkAllDone, isBlockingRound
  <2>3. new \in {"playing", "solved", "out"} /\ (guesses[p] + 1 = MaxGuesses => new # "playing")
    BY <1>2, <1>5, GuessesAssumption DEF AfterGuess, new
  <2>4. status' = "finished" \/ guesses[p] + 1 = MaxGuesses => IsDone(p)'
    BY <2>1, <2>2, <2>3 DEF IsDone
  <2>5. Rounds!MayGuess(Seen(p, n))
    BY <1>1, <1>5 DEF Seen, IsDone, Rounds!State, Rounds!MayGuess
  <2>6. IsDone(p)' \in BOOLEAN
    BY DEF IsDone
  <2>7. Seen(p, n)' \in Rounds!Guessed(Seen(p, n))
    BY <1>1, <1>3, <2>1, <2>4, <2>6 DEF Seen, Rounds!State, Rounds!Guessed
  <2>. QED BY <2>5, <2>7 DEF MovesFor
<1>. QED BY <1>4, <1>5

\* Drops and returns of others, and its own, leave a player's board alone.
LEMMA ComeMoves ==
    ASSUME RVInv, NEW p \in players, NEW n \in Nat, NEW t \in Tokens, Registry(t)
    PROVE  MovesFor(p, n)
<1>1. pstatus \in [Tokens -> PlayerStatus] /\ players \subseteq Tokens
  BY DEF RVInv, IInv, TypeOK
<1>2. CASE UNCHANGED vars
  BY <1>2, Unmoved DEF vars
<1>3. CASE ~UNCHANGED vars
  <2>1. guesses' = guesses
    BY <1>3 DEF Registry, MarkPlayerDisconnected, FinalizeDisconnect, MarkPlayerReconnected
  <2>2. status' = status \/ status' = checkAllDone(pstatus, away)
    BY <1>3 DEF Registry, MarkPlayerDisconnected, FinalizeDisconnect, MarkPlayerReconnected
  <2>3. pstatus'[p] = pstatus[p] \/ (~IsDone(p) /\ pstatus'[p] \notin {"solved", "out"})
    BY <1>1, <1>3
       DEF Registry, MarkPlayerDisconnected, FinalizeDisconnect, MarkPlayerReconnected,
           DropCounts, IsAway, Returns, IsDone
  <2>4. IsDone(p)' <=> IsDone(p)
    BY <2>3 DEF IsDone
  <2>. QED BY <2>1, <2>2, <2>4, Meets DEF checkAllDone
<1>. QED BY <1>2, <1>3

LEMMA GoMoves ==
    ASSUME RVInv, NEW p \in players, p \notin left', NEW n \in Nat, Go
    PROVE  MovesFor(p, n)
<1>1. PICK t \in Tokens : Leave(t) /\ left' = left \union {t}
  BY DEF Go
<1>2. p # t /\ pstatus \in [Tokens -> PlayerStatus]
  BY <1>1 DEF RVInv, IInv, TypeOK
<1>3. CASE UNCHANGED vars
  BY <1>3, Unmoved DEF vars
<1>4. CASE ~UNCHANGED vars
  <2>1. /\ guesses' = guesses /\ pstatus'[p] = pstatus[p]
        /\ status' = checkAllDone(pstatus', away')
    <3>1. pstatus' = [pstatus EXCEPT ![t] = "disconnected"]
      BY <1>1, <1>4 DEF Leave
    <3>. QED BY <1>1, <1>2, <1>4, <3>1 DEF Leave
  <2>2. IsDone(p)' <=> IsDone(p)
    BY <2>1 DEF IsDone
  <2>. QED BY <2>1, <2>2, Meets DEF checkAllDone
<1>. QED BY <1>3, <1>4

\* Whatever happens in the room, a player who does not leave sees its round begin with
\* an empty board, its own guess, or a handover and the end of the round: the moves
\* that Board lets the room make (view.go:13-75; store.go:160-295, 413-443).
THEOREM RoundsAreShown ==
    RVSpec => [][\A p \in Tokens : Stays(p) /\ Stays(p)' => \A n \in Nat : MovesFor(p, n)]_rvVars
<1>1. RVInv /\ [RVNext]_rvVars =>
        [\A p \in Tokens : Stays(p) /\ Stays(p)' => \A n \in Nat : MovesFor(p, n)]_rvVars
  <2>. SUFFICES ASSUME RVInv, RVNext, NEW p \in players, p \notin left,
                       p \in players', p \notin left', NEW n \in Nat
                PROVE  MovesFor(p, n)
    BY DEF Stays
  <2>2. CASE \E t \in Tokens : GetView(t)
    BY <2>2, Unmoved DEF GetView, vars
  <2>3. CASE \E t \in Tokens, row \in 0 .. AllGreen : Guess(t, row)
    BY <2>3, GuessMoves
  <2>4. CASE Afresh
    <3>1. ~sweepIdle
      BY DEF sweepIdle
    <3>. QED BY <2>4, <3>1, RoundMoves DEF Afresh, StartRound, NextRound
  <2>5. CASE Seat
    BY <2>5, Unmoved DEF Seat, Create, Join, RVInv, IInv, HostIsPlayer, NothingElse
  <2>6. CASE Come
    BY <2>6, ComeMoves DEF Come
  <2>7. CASE Go
    BY <2>7, GoMoves
  <2>8. CASE Wait
    BY <2>8, Unmoved DEF Wait, Tick
  <2>. QED BY <2>2, <2>3, <2>4, <2>5, <2>6, <2>7, <2>8 DEF RVNext
<1>. QED BY <1>1, RVInvariance, PTL DEF RVSpec

--------------------------------------------------------------------------------
(* The ranking.                                                            *)

\* A finite set that is strictly and totally ordered by R can be listed in order:
\* every element's place is the number of those before it.
LEMMA Listing ==
    ASSUME NEW S, IsFiniteSet(S), NEW R,
           \A x, y \in S : <<x, y>> \in R => <<y, x>> \notin R,
           \A x, y \in S : x # y => <<x, y>> \in R \/ <<y, x>> \in R,
           \A x, y, z \in S : <<x, y>> \in R /\ <<y, z>> \in R => <<x, z>> \in R
    PROVE  \E s \in [1 .. Cardinality(S) -> S] :
                IsInjective(s) /\ \A i, j \in DOMAIN s : i < j => <<s[j], s[i]>> \notin R
<1>. DEFINE n == Cardinality(S)
            below(x) == {y \in S : <<y, x>> \in R}
            place == [x \in S |-> Cardinality(below(x)) + 1]
<1>1. n \in Nat
  BY FS_CardinalityType
<1>2. ASSUME NEW x \in S
      PROVE  IsFiniteSet(below(x)) /\ Cardinality(below(x)) \in Nat /\ Cardinality(below(x)) < n
  <2>1. below(x) \in SUBSET S /\ x \notin below(x)
    OBVIOUS
  <2>2. IsFiniteSet(below(x)) /\ Cardinality(below(x)) <= n /\ Cardinality(below(x)) # n
    BY <2>1, FS_Subset
  <2>3. Cardinality(below(x)) \in Nat
    BY <2>2, FS_CardinalityType
  <2>. QED BY <1>1, <2>2, <2>3
<1>3. ASSUME NEW x \in S, NEW y \in S, <<x, y>> \in R
      PROVE  Cardinality(below(x)) < Cardinality(below(y))
  <2>1. below(x) \in SUBSET below(y) /\ x \in below(y) /\ x \notin below(x)
    BY <1>3
  <2>2. IsFiniteSet(below(y)) /\ Cardinality(below(x)) \in Nat /\ Cardinality(below(y)) \in Nat
    BY <1>2
  <2>. HIDE DEF below
  <2>3. Cardinality(below(x)) <= Cardinality(below(y)) /\ Cardinality(below(x)) # Cardinality(below(y))
    BY <2>1, <2>2, FS_Subset
  <2>. QED BY <2>2, <2>3
<1>. HIDE DEF below, n
<1>4. ASSUME NEW x \in S PROVE place[x] \in 1 .. n
  BY <1>1, <1>2
<1>5. ASSUME NEW x \in S, NEW y \in S, <<x, y>> \in R PROVE place[x] < place[y]
  BY <1>2, <1>3, <1>5
<1>6. place \in [S -> 1 .. n]
  BY <1>4
<1>. HIDE DEF place
<1>7. place \in Injection(S, 1 .. n)
  <2>1. ASSUME NEW x \in S, NEW y \in S, place[x] = place[y] PROVE x = y
    <3>1. place[x] \in Nat /\ ~(place[x] < place[y]) /\ ~(place[y] < place[x])
      BY <1>1, <1>4, <2>1
    <3>. QED BY <1>5, <3>1
  <2>. QED BY <1>6, <2>1 DEF Injection, IsInjective
<1>8. place \in Surjection(S, 1 .. n)
  <2>1. IsFiniteSet(1 .. n) /\ Cardinality(1 .. n) = n
    BY <1>1, FS_Interval
  <2>. QED BY <1>7, <2>1, FS_Injection DEF n
<1>. DEFINE s == [i \in 1 .. n |-> CHOOSE x \in S : place[x] = i]
<1>9. \A i \in 1 .. n : s[i] \in S /\ place[s[i]] = i
  BY <1>8 DEF Surjection
<1>10. s \in [1 .. n -> S]
  BY <1>9
<1>. HIDE DEF s
<1>11. IsInjective(s)
  BY <1>9, <1>10 DEF IsInjective
<1>12. ASSUME NEW i \in DOMAIN s, NEW j \in DOMAIN s, i < j PROVE <<s[j], s[i]>> \notin R
  <2>1. i \in 1 .. n /\ j \in 1 .. n
    BY <1>10
  <2>2. ~(place[s[j]] < place[s[i]])
    BY <1>9, <1>12, <2>1
  <2>. QED BY <1>5, <1>9, <2>1, <2>2
<1>. QED BY <1>10, <1>11, <1>12 DEF n

\* An injective list of as many elements as the set has lists them all.
LEMMA ListsAll ==
    ASSUME NEW S, IsFiniteSet(S), NEW s \in [1 .. Cardinality(S) -> S], IsInjective(s)
    PROVE  \A x \in S : \E i \in 1 .. Cardinality(S) : s[i] = x
<1>. DEFINE n == Cardinality(S)
<1>1. n \in Nat
  BY FS_CardinalityType
<1>2. Cardinality(1 .. n) = n
  BY <1>1, FS_Interval
<1>3. s \in Injection(1 .. n, S)
  BY DEF Injection
<1>4. s \in Surjection(1 .. n, S)
  BY <1>2, <1>3, FS_Injection
<1>. QED BY <1>4 DEF Surjection

solvers == {p \in players : pstatus[p] = "solved"}

\* The two sorts have a result, and it is in order.
LEMMA Sorts ==
    ASSUME NEW S, IsFiniteSet(S), NEW R \in SUBSET (S \X S),
           \A p, q \in S : <<p, q>> \in R => <<q, p>> \notin R,
           \A p, q \in S : p # q => <<p, q>> \in R \/ <<q, p>> \in R,
           \A p, q, u \in S : <<p, q>> \in R /\ <<q, u>> \in R => <<p, u>> \in R
    PROVE  LET s == SortFunc(S, R)
           IN  /\ s \in [1 .. Cardinality(S) -> S] /\ IsInjective(s)
               /\ \A i, j \in DOMAIN s : i < j => <<s[j], s[i]>> \notin R
<1>1. \E s \in [1 .. Cardinality(S) -> S] :
        IsInjective(s) /\ \A i, j \in DOMAIN s : i < j => <<s[j], s[i]>> \notin R
  BY Listing
<1>. QED BY <1>1 DEF SortFunc

SolvedPairs == {x \in solvers \X solvers : solvedOrder(x[1], x[2])}
UnsolvedPairs ==
    {x \in (players \ solvers) \X (players \ solvers) : unsolvedOrder(x[1], x[2])}

LEMMA Sorted ==
    ASSUME RVInv
    PROVE  LET r1 == SortFunc(solvers, SolvedPairs)
               r2 == SortFunc(players \ solvers, UnsolvedPairs)
           IN  /\ r1 \in [1 .. Cardinality(solvers) -> solvers] /\ IsInjective(r1)
               /\ \A i, j \in DOMAIN r1 : i < j => ~solvedOrder(r1[j], r1[i])
               /\ r2 \in [1 .. Cardinality(players \ solvers) -> players \ solvers] /\ IsInjective(r2)
               /\ \A i, j \in DOMAIN r2 : i < j => ~unsolvedOrder(r2[j], r2[i])
<1>0. /\ IsFiniteSet(players) /\ players \subseteq Tokens /\ Tokens \subseteq Nat
      /\ guesses \in [Tokens -> Nat] /\ bestRow \in [Tokens -> Nat]
      /\ \A p \in solvers : solvedAt[p]
  BY TokensAssumption DEF RVInv, IInv, TypeOK, ScoreConsistent, solvers
<1>1. /\ IsFiniteSet(solvers) /\ IsFiniteSet(players \ solvers)
      /\ solvers \subseteq Tokens /\ players \ solvers \subseteq Tokens
  BY <1>0, FS_Subset DEF solvers
<1>. DEFINE r1 == SortFunc(solvers, SolvedPairs)
            r2 == SortFunc(players \ solvers, UnsolvedPairs)
<1>2. /\ r1 \in [1 .. Cardinality(solvers) -> solvers] /\ IsInjective(r1)
      /\ \A i, j \in DOMAIN r1 : i < j => ~solvedOrder(r1[j], r1[i])
  <2>. DEFINE R == SolvedPairs
  <2>1. R \in SUBSET (solvers \X solvers) /\ \A p, q \in solvers : <<p, q>> \in R <=> solvedOrder(p, q)
    BY DEF SolvedPairs
  <2>2. /\ \A p, q \in solvers : solvedOrder(p, q) => ~solvedOrder(q, p)
        /\ \A p, q \in solvers : p # q => solvedOrder(p, q) \/ solvedOrder(q, p)
        /\ \A p, q, u \in solvers : solvedOrder(p, q) /\ solvedOrder(q, u) => solvedOrder(p, u)
    BY <1>0, <1>1 DEF solvedOrder, RVInv, SolvesOrdered
  <2>. HIDE DEF R
  <2>3. LET s == SortFunc(solvers, R)
        IN  /\ s \in [1 .. Cardinality(solvers) -> solvers] /\ IsInjective(s)
            /\ \A i, j \in DOMAIN s : i < j => <<s[j], s[i]>> \notin R
    BY <1>1, <2>1, <2>2, Sorts
  <2>. QED BY <2>1, <2>3 DEF R
<1>3. /\ r2 \in [1 .. Cardinality(players \ solvers) -> players \ solvers] /\ IsInjective(r2)
      /\ \A i, j \in DOMAIN r2 : i < j => ~unsolvedOrder(r2[j], r2[i])
  <2>. DEFINE S == players \ solvers
              R == UnsolvedPairs
  <2>1. R \in SUBSET (S \X S) /\ \A p, q \in S : <<p, q>> \in R <=> unsolvedOrder(p, q)
    BY DEF UnsolvedPairs
  <2>2. /\ \A p, q \in S : unsolvedOrder(p, q) => ~unsolvedOrder(q, p)
        /\ \A p, q \in S : p # q => unsolvedOrder(p, q) \/ unsolvedOrder(q, p)
        /\ \A p, q, u \in S : unsolvedOrder(p, q) /\ unsolvedOrder(q, u) => unsolvedOrder(p, u)
    BY <1>0, <1>1 DEF unsolvedOrder
  <2>3. IsFiniteSet(S)
    BY <1>1
  <2>. HIDE DEF R, S
  <2>4. LET s == SortFunc(S, R)
        IN  /\ s \in [1 .. Cardinality(S) -> S] /\ IsInjective(s)
            /\ \A i, j \in DOMAIN s : i < j => <<s[j], s[i]>> \notin R
    BY <2>1, <2>2, <2>3, Sorts
  <2>. QED BY <2>1, <2>4 DEF R, S
<1>. QED BY <1>2, <1>3

\* The ranking is a list of the players: first the solvers, in their order, then
\* the others, in theirs.
LEMMA Ranked ==
    ASSUME RVInv
    PROVE  LET r == ComputeRanking
           IN  /\ \A i \in DOMAIN r : r[i] \in players
               /\ \A p \in players : \E i \in DOMAIN r : r[i] = p
               /\ IsInjective(r)
               /\ DOMAIN r \subseteq Nat
               /\ \A i, j \in DOMAIN r : i < j =>
                    \/ r[i] \in solvers /\ r[j] \in solvers /\ ~solvedOrder(r[j], r[i])
                    \/ r[i] \in solvers /\ r[j] \notin solvers
                    \/ r[i] \notin solvers /\ r[j] \notin solvers /\ ~unsolvedOrder(r[j], r[i])
<1>. DEFINE others == players \ solvers
            r1 == SortFunc(solvers, SolvedPairs)
            r2 == SortFunc(others, UnsolvedPairs)
            m == Cardinality(solvers)
            n == Cardinality(others)
<1>1. ComputeRanking = r1 \o r2
  BY DEF ComputeRanking, solvers, SolvedPairs, UnsolvedPairs
<1>2. /\ r1 \in [1 .. m -> solvers] /\ IsInjective(r1)
      /\ \A i, j \in DOMAIN r1 : i < j => ~solvedOrder(r1[j], r1[i])
      /\ r2 \in [1 .. n -> others] /\ IsInjective(r2)
      /\ \A i, j \in DOMAIN r2 : i < j => ~unsolvedOrder(r2[j], r2[i])
  BY Sorted
<1>3. IsFiniteSet(solvers) /\ IsFiniteSet(others)
  BY FS_Subset DEF RVInv, solvers
<1>4. m \in Nat /\ n \in Nat
  BY <1>3, FS_CardinalityType
<1>5. solvers \subseteq players
  BY DEF solvers
<1>. HIDE DEF r1, r2
<1>6. /\ \A p \in solvers : \E i \in 1 .. m : r1[i] = p
      /\ \A p \in others : \E i \in 1 .. n : r2[i] = p
  BY <1>2, <1>3, ListsAll
<1>. HIDE DEF m, n
<1>7. r1 \in Seq(solvers) /\ r2 \in Seq(others) /\ Len(r1) = m /\ Len(r2) = n
  BY <1>2, <1>4
<1>. DEFINE r == r1 \o r2
<1>8. /\ DOMAIN r = 1 .. m + n
      /\ \A i \in 1 .. m + n : r[i] = IF i <= m THEN r1[i] ELSE r2[i - m]
  BY <1>4, <1>7
<1>9. /\ \A i \in 1 .. m + n : IF i <= m THEN i \in 1 .. m ELSE i - m \in 1 .. n
      /\ \A i \in 1 .. m : i \in 1 .. m + n /\ i <= m
      /\ \A i \in 1 .. n : m + i \in 1 .. m + n /\ ~(m + i <= m) /\ (m + i) - m = i
  BY <1>4
<1>. HIDE DEF r
<1>10. \A i \in DOMAIN r : IF i <= m THEN r[i] \in solvers ELSE r[i] \in others
  BY <1>2, <1>8, <1>9
<1>11. \A p \in players : \E i \in DOMAIN r : r[i] = p
  <2>1. ASSUME NEW p \in solvers PROVE \E i \in DOMAIN r : r[i] = p
    <3>1. PICK i \in 1 .. m : r1[i] = p
      BY <1>6
    <3>2. i \in DOMAIN r /\ r[i] = p
      BY <1>8, <1>9, <3>1
    <3>. QED BY <3>2
  <2>2. ASSUME NEW p \in others PROVE \E i \in DOMAIN r : r[i] = p
    <3>1. PICK i \in 1 .. n : r2[i] = p
      BY <1>6
    <3>2. m + i \in DOMAIN r /\ r[m + i] = p
      BY <1>8, <1>9, <3>1
    <3>. QED BY <3>2
  <2>. QED BY <2>1, <2>2
<1>12. ASSUME NEW i \in DOMAIN r, NEW j \in DOMAIN r, r[i] = r[j] PROVE i = j
  <2>1. CASE i <= m
    <3>1. j <= m
      BY <1>10, <1>12, <2>1
    <3>. QED BY <1>2, <1>8, <1>9, <1>12, <2>1, <3>1 DEF IsInjective
  <2>2. CASE ~(i <= m)
    <3>1. ~(j <= m)
      BY <1>10, <1>12, <2>2
    <3>2. i - m = j - m
      BY <1>2, <1>8, <1>9, <1>12, <2>2, <3>1 DEF IsInjective
    <3>. QED BY <1>4, <1>8, <3>2
  <2>. QED BY <2>1, <2>2
<1>13. ASSUME NEW i \in DOMAIN r, NEW j \in DOMAIN r, i < j
       PROVE  \/ r[i] \in solvers /\ r[j] \in solvers /\ ~solvedOrder(r[j], r[i])
              \/ r[i] \in solvers /\ r[j] \notin solvers
              \/ r[i] \notin solvers /\ r[j] \notin solvers /\ ~unsolvedOrder(r[j], r[i])
  <2>1. CASE j <= m
    <3>1. i <= m
      BY <1>4, <1>8, <1>13, <2>1
    <3>2. r[i] = r1[i] /\ r[j] = r1[j] /\ i \in DOMAIN r1 /\ j \in DOMAIN r1
      BY <1>2, <1>8, <1>9, <2>1, <3>1
    <3>3. ~solvedOrder(r[j], r[i])
      BY <1>2, <1>13, <3>2
    <3>. QED BY <1>10, <2>1, <3>1, <3>3
  <2>2. CASE i <= m /\ ~(j <= m)
    BY <1>10, <2>2
  <2>3. CASE ~(i <= m) /\ ~(j <= m)
    <3>1. r[i] = r2[i - m] /\ r[j] = r2[j - m] /\ i - m \in DOMAIN r2 /\ j - m \in DOMAIN r2
      BY <1>2, <1>8, <1>9, <2>3
    <3>2. i - m < j - m
      BY <1>4, <1>8, <1>13
    <3>3. ~unsolvedOrder(r[j], r[i])
      BY <1>2, <3>1, <3>2
    <3>. QED BY <1>10, <2>3, <3>3
  <2>4. i <= m \/ ~(j <= m)
    BY <1>4, <1>8, <1>13
  <2>. QED BY <2>1, <2>2, <2>3, <2>4
<1>14. DOMAIN r \subseteq Nat
  BY <1>4, <1>8
<1>15. IsInjective(r)
  BY <1>12 DEF IsInjective
<1>16. \A i \in DOMAIN r : r[i] \in players
  BY <1>5, <1>10
<1>17. ComputeRanking = r
  BY <1>1 DEF r
<1>. QED BY <1>11, <1>13, <1>14, <1>15, <1>16, <1>17

\* The published ranking lists every player once, and nobody behind a player it
\* did better than, players who left apart (ranking.go:13-17).
THEOREM RankingsAreFair == RVSpec => []RankingIsFair
<1>1. RVInv => RankingIsFair
  <2>. SUFFICES ASSUME RVInv, status = "finished" PROVE RankingIsFair
    BY DEF RankingIsFair
  <2>. DEFINE r == ComputeRanking
  <2>1. PlayerView(host).ranking = r
    BY DEF PlayerView
  <2>2. /\ \A i \in DOMAIN r : r[i] \in players
        /\ \A p \in players : \E i \in DOMAIN r : r[i] = p
        /\ IsInjective(r)
        /\ DOMAIN r \subseteq Nat
        /\ \A i, j \in DOMAIN r : i < j =>
            \/ r[i] \in solvers /\ r[j] \in solvers /\ ~solvedOrder(r[j], r[i])
            \/ r[i] \in solvers /\ r[j] \notin solvers
            \/ r[i] \notin solvers /\ r[j] \notin solvers /\ ~unsolvedOrder(r[j], r[i])
    BY Ranked
  <2>. HIDE DEF r
  <2>3. ToSet(r) = players
    BY <2>2 DEF ToSet
  <2>4. ASSUME NEW i \in DOMAIN r, NEW j \in DOMAIN r, i < j, {r[i], r[j]} \intersect left = {}
        PROVE  ~Beats(r[j], r[i])
    <3>. DEFINE p == r[i]
                q == r[j]
    <3>1. p \in players \ left /\ q \in players \ left /\ p # q
      BY <2>2, <2>4 DEF IsInjective
    <3>2. /\ solvedAt[p] <=> p \in solvers
          /\ solvedAt[q] <=> q \in solvers
      BY <3>1 DEF RVInv, IInv, ScoreConsistent, BoardsOpen, solvers
    <3>3. /\ p \in Tokens /\ q \in Tokens /\ Tokens \subseteq Nat
          /\ guesses[p] \in Nat /\ guesses[q] \in Nat /\ bestRow[p] \in Nat /\ bestRow[q] \in Nat
      BY <3>1, TokensAssumption DEF RVInv, IInv, TypeOK
    <3>4. \/ p \in solvers /\ q \in solvers /\ ~solvedOrder(q, p)
          \/ p \in solvers /\ q \notin solvers
          \/ p \notin solvers /\ q \notin solvers /\ ~unsolvedOrder(q, p)
      BY <2>2, <2>4
    <3>. HIDE DEF p, q
    <3>5. ~Beats(q, p)
      BY <3>1, <3>2, <3>3, <3>4 DEF Beats, solvedOrder, unsolvedOrder
    <3>. QED BY <3>5 DEF p, q
  <2>. QED BY <2>1, <2>2, <2>3, <2>4 DEF RankingIsFair
<1>. QED BY <1>1, RVInvariance, PTL

--------------------------------------------------------------------------------
(* The panels.                                                             *)

\* Nobody is left with a page that tells nothing to wait for: in the lobby, while
\* the round runs, and when it is over (FinishModal.tsx:20-26, 70-108, 132-145;
\* page.tsx:299, 323-340, 402-420; store.go:428-443).
THEOREM PanelsAlwaysTell == RVSpec => []PanelsTell
<1>1. RVInv => PanelsTell
  <2>. SUFFICES ASSUME RVInv, NEW me \in players
                PROVE  /\ ShowsLobby(me) =>
                            lobby(me).hostAway \/ \E p \in players : lobby(p).mayStart /\ ~IsAway(p)
                       /\ showModal(me) /\ status = "playing" =>
                            LET waiting == FinishModal(me).waiting
                            IN  /\ \A p \in waiting : ~board(p, FALSE).disabled
                                /\ waiting = {} => \E p \in players : board(me, TRUE).lines[p] = "Away"
                       /\ ShowsBoard(me) /\ status = "finished" =>
                            \A open \in {FALSE, showModal(me)} :
                                LET panel == IF open THEN FinishModal(me) ELSE board(me, FALSE)
                                IN  panel.word /\ (panel.nextRound <=> me = host)
                       /\ showModal(me) /\ status = "finished" =>
                            \E i \in DOMAIN FinishModal(me).ranking :
                                /\ PlayerView(me).ranking[i] = me
                                /\ FinishModal(me).ranking[i].result = "guesses"
                                    <=> FinishModal(me).resultLine = "solved"
    BY DEF PanelsTell
  <2>1. ASSUME ShowsLobby(me)
        PROVE  lobby(me).hostAway \/ \E p \in players : lobby(p).mayStart /\ ~IsAway(p)
    <3>1. host \in players
      BY <2>1 DEF RVInv, IInv, HostIsPlayer, NothingElse, ShowsLobby
    <3>2. lobby(host).mayStart
      BY DEF lobby, PlayerView
    <3>3. lobby(me).hostAway <=> pstatus[host] = "disconnected"
      BY <3>1 DEF lobby
    <3>. QED BY <3>1, <3>2, <3>3 DEF IsAway
  <2>2. ASSUME showModal(me), status = "playing"
        PROVE  LET waiting == FinishModal(me).waiting
               IN  /\ \A p \in waiting : ~board(p, FALSE).disabled
                   /\ waiting = {} => \E p \in players : board(me, TRUE).lines[p] = "Away"
    <3>1. FinishModal(me).waiting = {p \in players \ {me} : pstatus[p] = "playing"}
      BY <2>2 DEF FinishModal, stillPlaying
    <3>2. \A p \in players : pstatus[p] = "playing" => ~board(p, FALSE).disabled
      BY <2>2 DEF board, disabled, myStatus
    <3>3. pstatus[me] # "playing"
      BY <2>2 DEF showModal
    <3>4. \A p \in players : pstatus[p] = "disconnected" => board(me, TRUE).lines[p] = "Away"
      BY DEF board, Scoreboard
    <3>5. \E p \in players : pstatus[p] \in {"playing", "disconnected"}
      BY <2>2 DEF RVInv, Awaited
    <3>. QED BY <3>1, <3>2, <3>3, <3>4, <3>5
  <2>3. ASSUME status = "finished", NEW open \in {FALSE, showModal(me)}
        PROVE  LET panel == IF open THEN FinishModal(me) ELSE board(me, FALSE)
               IN  panel.word /\ (panel.nextRound <=> me = host)
    <3>1. PlayerView(me).target /\ (PlayerView(me).youAreHost <=> me = host)
      BY <2>3 DEF PlayerView, showsTarget
    <3>2. FinishModal(me).word /\ (FinishModal(me).nextRound <=> me = host)
      BY <2>3, <3>1 DEF FinishModal
    <3>3. board(me, FALSE).word /\ (board(me, FALSE).nextRound <=> me = host)
      BY <2>3, <3>1 DEF board
    <3>. QED BY <3>2, <3>3
  <2>4. ASSUME showModal(me), status = "finished"
        PROVE  \E i \in DOMAIN FinishModal(me).ranking :
                    /\ PlayerView(me).ranking[i] = me
                    /\ FinishModal(me).ranking[i].result = "guesses"
                        <=> FinishModal(me).resultLine = "solved"
    <3>. DEFINE r == ComputeRanking
    <3>1. PlayerView(me).ranking = r
      BY <2>4 DEF PlayerView
    <3>2. PICK i \in DOMAIN r : r[i] = me
      BY Ranked
    <3>. HIDE DEF r
    <3>3. FinishModal(me).ranking = [k \in DOMAIN r |-> entry(r[k], k)]
      BY <3>1 DEF FinishModal
    <3>4. FinishModal(me).ranking[i] = entry(me, i) /\ i \in DOMAIN FinishModal(me).ranking
      BY <3>2, <3>3
    <3>5. entry(me, i).result = "guesses" <=> pstatus[me] = "solved"
      BY DEF entry
    <3>6. FinishModal(me).resultLine = "solved" <=> pstatus[me] = "solved"
      BY DEF FinishModal
    <3>. QED BY <3>1, <3>2, <3>4, <3>5, <3>6
  <2>. QED BY <2>1, <2>2, <2>3, <2>4
<1>. QED BY <1>1, RVInvariance, PTL
================================================================================
