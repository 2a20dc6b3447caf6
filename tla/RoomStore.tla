------------------------------- MODULE RoomStore -------------------------------
(***************************************************************************)
(* backend/internal/room/store.go, one slot of Store.rooms: the life of    *)
(* the room stored under one code, from Create to the sweeper and to the   *)
(* next room created under the same code.                                  *)
(*                                                                         *)
(* Every method of Store runs its state change under Store.mu, so one      *)
(* method call is one action.  A call that returns an error changes        *)
(* nothing and is no step here; the three calls made by the realtime       *)
(* registry, which answer "nothing changed" instead of failing, are total: *)
(* their second disjunct is that answer.                                   *)
(*                                                                         *)
(* Tokens are numbered in the order GenerateToken hands them out.  JoinedAt *)
(* is read together with the new token, so p < q says that p joined first. *)
(* Guesses are counted, not spelled; times are kept as ages (how long ago),*)
(* saturated where the code stops telling them apart.                      *)
(***************************************************************************)
EXTENDS Integers

CONSTANTS
    Tokens,       \* the player tokens the model may issue
    MaxGuesses,   \* Room.MaxGuesses (6 in Create)
    GuessCap,     \* bound of the model: no player is followed past this many guesses
    Grace,        \* disconnectGrace, in ticks
    IdleTimeout   \* the sweeper's idleTimeout, in ticks

ASSUME TokensAssumption == Tokens \subseteq Nat \ {0}
ASSUME GuessesAssumption == MaxGuesses \in Nat \ {0} /\ GuessCap \in Nat
ASSUME TimesAssumption == Grace \in Nat \ {0} /\ IdleTimeout \in Nat

VARIABLES
    status,     \* Room.Status, or "none" while no room is stored under the code
    host,       \* Room.HostToken
    players,    \* the keys of Room.Players
    pstatus,    \* Player.Status
    guesses,    \* len(Player.Guesses)
    solvedAt,   \* Player.SolvedAt is set
    away,       \* time since Player.DisconnectedAt, NoTime when it is nil
    idle,       \* time since Room.LastTouchedAt
    issued      \* every token GenerateToken has returned so far

vars == <<status, host, players, pstatus, guesses, solvedAt, away, idle, issued>>

RoomStatus == {"none", "lobby", "playing", "finished"}
PlayerStatus == {"playing", "solved", "out", "disconnected", "waiting"}
NoToken == 0
NoTime == -1

--------------------------------------------------------------------------------
(* Helpers of the store: what a method computes under the lock.            *)

\* The player still has to act before the round can end: it is playing, or it
\* dropped less than the grace period ago.
isBlockingRound(s, since) ==
    \/ s = "playing"
    \/ s = "disconnected" /\ since # NoTime /\ since < Grace

\* Mutant: the round ends as soon as nobody is playing, whatever the grace.
FinishesIgnoringGrace(ps, aw) ==
    IF status = "playing" /\ \A p \in players : ps[p] # "playing"
    THEN "finished" ELSE status

\* Room.Status once checkAllDone has run over players with statuses ps and
\* absences aw: the round is over when nobody blocks it.
checkAllDone(ps, aw) ==
    IF status = "playing" /\ \A p \in players : ~isBlockingRound(ps[p], aw[p])
    THEN "finished" ELSE status

\* The players migrateHost may choose from.
Heirs(ps) == {p \in players \ {host} : ps[p] # "disconnected"}

\* Mutant: the newest heir, the comparison of JoinedAt the wrong way round.
MigrateToNewest(ps) ==
    IF Heirs(ps) = {} THEN {host}
    ELSE {p \in Heirs(ps) : \A q \in Heirs(ps) : q <= p}

\* The hosts migrateHost may leave behind: the heir who joined first, or the
\* present host when there is no heir.
migrateHost(ps) ==
    IF Heirs(ps) = {} THEN {host}
    ELSE {p \in Heirs(ps) : \A q \in Heirs(ps) : p <= q}

\* Mutant: a new round leaves the statuses of the last one.
DealtAsBefore(p) == IF pstatus[p] = "waiting" THEN "playing" ELSE pstatus[p]

\* The status StartRound and NextRound leave a player with.
Dealt(p) == IF pstatus[p] = "disconnected" THEN "disconnected" ELSE "playing"

\* GenerateToken: the next token in the numbering.
GenerateToken(t) ==
    /\ t \in Tokens \ issued
    /\ \A u \in Tokens \ issued : t <= u
    /\ issued' = issued \union {t}

touch == idle' = 0

--------------------------------------------------------------------------------
\* What the player variables are where nobody has joined.
NewStatus == [t \in Tokens |-> "playing"]
NoGuesses == [t \in Tokens |-> 0]
NoSolvers == [t \in Tokens |-> FALSE]
NobodyAway == [t \in Tokens |-> NoTime]

Init ==
    /\ status = "none"
    /\ host = NoToken
    /\ players = {}
    /\ pstatus = NewStatus
    /\ guesses = NoGuesses
    /\ solvedAt = NoSolvers
    /\ away = NobodyAway
    /\ idle = 0
    /\ issued = {}

\* Store.Create picks this code, which must be free; the caller becomes host.
Create(t) ==
    /\ status = "none"
    /\ GenerateToken(t)
    /\ status' = "lobby"
    /\ host' = t
    /\ players' = {t}
    /\ touch
    /\ UNCHANGED <<pstatus, guesses, solvedAt, away>>

\* Store.Join: only a lobby takes new players.
Join(t) ==
    /\ status = "lobby"
    /\ GenerateToken(t)
    /\ players' = players \union {t}
    /\ touch
    /\ UNCHANGED <<status, host, pstatus, guesses, solvedAt, away>>

\* The common body of StartRound and NextRound: everyone gets an empty board.
BeginRound ==
    /\ status' = "playing"
    /\ guesses' = NoGuesses
    /\ pstatus' = [p \in Tokens |-> IF p \in players THEN Dealt(p) ELSE pstatus[p]]
    /\ solvedAt' = NoSolvers
    /\ touch
    /\ UNCHANGED <<host, players, away, issued>>

StartRound(t) ==
    /\ status = "lobby"
    /\ t = host
    /\ \E p, q \in players : p # q      \* len(r.Players) >= 2
    /\ BeginRound

NextRound(t) ==
    /\ status = "finished"
    /\ t = host
    /\ BeginRound

\* The status of a player whose n-th guess was all green or not.
AfterGuess(n, green) ==
    IF green THEN "solved" ELSE IF n >= MaxGuesses THEN "out" ELSE "playing"

\* Mutant: a guess is taken whatever the room is doing.
GuessAnyTime(t, green) ==
    /\ t \in players
    /\ pstatus[t] = "playing"
    /\ guesses[t] < GuessCap
    /\ guesses' = [guesses EXCEPT ![t] = @ + 1]
    /\ pstatus' = [pstatus EXCEPT ![t] = AfterGuess(guesses[t] + 1, green)]
    /\ solvedAt' = [solvedAt EXCEPT ![t] = @ \/ green]
    /\ status' = checkAllDone(pstatus', away)
    /\ touch
    /\ UNCHANGED <<host, players, away, issued>>

\* Store.SubmitGuess once the dictionary has accepted the word.
SubmitGuess(t, green) ==
    /\ status = "playing"
    /\ t \in players
    /\ pstatus[t] = "playing"
    /\ guesses[t] < GuessCap
    /\ guesses' = [guesses EXCEPT ![t] = @ + 1]
    /\ pstatus' = [pstatus EXCEPT ![t] = AfterGuess(guesses[t] + 1, green)]
    /\ solvedAt' = [solvedAt EXCEPT ![t] = @ \/ green]
    /\ status' = checkAllDone(pstatus', away)
    /\ touch
    /\ UNCHANGED <<host, players, away, issued>>

IsAway(t) == t \in players /\ pstatus[t] = "disconnected"

\* Mutant: DisconnectedAt is set off the wrong way, into the future.
LeaveAhead(t) ==
    \/ /\ t \in players
       /\ pstatus[t] # "disconnected"
       /\ pstatus' = [pstatus EXCEPT ![t] = "disconnected"]
       /\ away' = [away EXCEPT ![t] = -Grace]
       /\ host' \in IF t = host THEN migrateHost(pstatus') ELSE {host}
       /\ status' = checkAllDone(pstatus', away')
       /\ touch
       /\ UNCHANGED <<players, guesses, solvedAt, issued>>
    \/ IsAway(t) /\ UNCHANGED vars

\* Mutant: a player who leaves is deleted from the room.
LeaveForGood(t) ==
    /\ t \in players
    /\ players' = players \ {t}
    /\ host' \in IF t = host THEN migrateHost(pstatus) ELSE {host}
    /\ touch
    /\ UNCHANGED <<status, pstatus, guesses, solvedAt, away, issued>>

\* Store.Leave: away at once, with the grace already spent; nothing changes for
\* a player who is away already.
Leave(t) ==
    \/ /\ t \in players
       /\ pstatus[t] # "disconnected"
       /\ pstatus' = [pstatus EXCEPT ![t] = "disconnected"]
       /\ away' = [away EXCEPT ![t] = Grace]
       /\ host' \in IF t = host THEN migrateHost(pstatus') ELSE {host}
       /\ status' = checkAllDone(pstatus', away')
       /\ touch
       /\ UNCHANGED <<players, guesses, solvedAt, issued>>
    \/ IsAway(t) /\ UNCHANGED vars

--------------------------------------------------------------------------------
(* The calls of the realtime registry.                                     *)

\* Mutant: a dropped connection counts whatever the player had done.
DropCountsAlways(t) == t \in players /\ pstatus[t] # "disconnected"

\* A dropped connection counts against those who play or wait to play.
DropCounts(t) == t \in players /\ pstatus[t] \in {"playing", "waiting"}

MarkPlayerDisconnected(t) ==
    \/ /\ DropCounts(t)
       /\ pstatus' = [pstatus EXCEPT ![t] = "disconnected"]
       /\ away' = [away EXCEPT ![t] = 0]
       /\ UNCHANGED <<status, host, players, guesses, solvedAt, idle, issued>>
    \/ ~DropCounts(t) /\ UNCHANGED vars

\* Mutant: the round does not end with its last drop.
FinalizeWithoutEnding(t) ==
    \/ /\ IsAway(t)
       /\ host' \in IF t = host THEN migrateHost(pstatus) ELSE {host}
       /\ UNCHANGED <<status, players, pstatus, guesses, solvedAt, away, idle, issued>>
    \/ ~IsAway(t) /\ UNCHANGED vars

\* Mutant: the host is kept.
FinalizeWithoutHandover(t) ==
    \/ /\ IsAway(t)
       /\ status' = checkAllDone(pstatus, away)
       /\ UNCHANGED <<host, players, pstatus, guesses, solvedAt, away, idle, issued>>
    \/ ~IsAway(t) /\ UNCHANGED vars

\* Mutant: what the grace goroutine finds counts as a use of the room.
FinalizeTouching(t) ==
    \/ /\ IsAway(t)
       /\ host' \in IF t = host THEN migrateHost(pstatus) ELSE {host}
       /\ status' = checkAllDone(pstatus, away)
       /\ touch
       /\ UNCHANGED <<players, pstatus, guesses, solvedAt, away, issued>>
    \/ ~IsAway(t) /\ UNCHANGED vars

\* After the grace period: hand over the host, end the round if that was all.
FinalizeDisconnect(t) ==
    \/ /\ IsAway(t)
       /\ host' \in IF t = host THEN migrateHost(pstatus) ELSE {host}
       /\ status' = checkAllDone(pstatus, away)
       /\ UNCHANGED <<players, pstatus, guesses, solvedAt, away, idle, issued>>
    \/ ~IsAway(t) /\ UNCHANGED vars

\* Mutant: a returning player plays, even when the round is over.
ReturnsPlaying == "playing"

\* A player who returns after the round waits for the next one.
Returns == IF status = "finished" THEN "waiting" ELSE "playing"

\* Mutant: the player returns, DisconnectedAt stays set.
ReconnectKeepingTime(t) ==
    \/ /\ IsAway(t)
       /\ pstatus' = [pstatus EXCEPT ![t] = Returns]
       /\ UNCHANGED <<status, host, players, guesses, solvedAt, away, idle, issued>>
    \/ ~IsAway(t) /\ UNCHANGED vars

\* Mutant: a return counts as a use of the room.
ReconnectTouching(t) ==
    \/ /\ IsAway(t)
       /\ pstatus' = [pstatus EXCEPT ![t] = Returns]
       /\ away' = [away EXCEPT ![t] = NoTime]
       /\ touch
       /\ UNCHANGED <<status, host, players, guesses, solvedAt, issued>>
    \/ ~IsAway(t) /\ UNCHANGED vars

MarkPlayerReconnected(t) ==
    \/ /\ IsAway(t)
       /\ pstatus' = [pstatus EXCEPT ![t] = Returns]
       /\ away' = [away EXCEPT ![t] = NoTime]
       /\ UNCHANGED <<status, host, players, guesses, solvedAt, idle, issued>>
    \/ ~IsAway(t) /\ UNCHANGED vars

--------------------------------------------------------------------------------
(* The sweeper and the clock.                                              *)

\* Store.sweepIdle as the sweeper calls it: an idle room is forgotten.
sweepIdle ==
    /\ status # "none"
    /\ idle > IdleTimeout
    /\ status' = "none"
    /\ host' = NoToken
    /\ players' = {}
    /\ pstatus' = NewStatus
    /\ guesses' = NoGuesses
    /\ solvedAt' = NoSolvers
    /\ away' = NobodyAway
    /\ idle' = 0
    /\ UNCHANGED issued

\* An age one tick later, saturated at limit.
Older(age, limit) == IF age = NoTime \/ age >= limit THEN age ELSE age + 1

Tick ==
    /\ away' = [p \in Tokens |-> Older(away[p], Grace)]
    /\ idle' = IF status = "none" THEN 0 ELSE Older(idle, IdleTimeout + 1)
    /\ UNCHANGED <<status, host, players, pstatus, guesses, solvedAt, issued>>

--------------------------------------------------------------------------------
\* The HTTP requests that carry token t, but leaving.
Request(t) ==
    \/ Create(t)
    \/ Join(t)
    \/ StartRound(t)
    \/ NextRound(t)
    \/ \E green \in BOOLEAN : SubmitGuess(t, green)

\* The calls of the realtime registry.
Registry(t) ==
    \/ MarkPlayerDisconnected(t)
    \/ FinalizeDisconnect(t)
    \/ MarkPlayerReconnected(t)

Housekeeping == sweepIdle \/ Tick

Next ==
    \/ \E t \in Tokens : Request(t) \/ Leave(t) \/ Registry(t)
    \/ Housekeeping

Spec == Init /\ [][Next]_vars

\* The clock goes on and the sweeper's goroutine runs; nobody else has to act.
FairSpec == Spec /\ WF_vars(Tick) /\ WF_vars(sweepIdle)

--------------------------------------------------------------------------------
(* Invariants.                                                             *)

\* Every variable has its type.
TypeOK ==
    /\ status \in RoomStatus
    /\ host \in Tokens \union {NoToken}
    /\ players \in SUBSET issued
    /\ issued \in SUBSET Tokens
    /\ pstatus \in [Tokens -> PlayerStatus]
    /\ guesses \in [Tokens -> Nat]
    /\ solvedAt \in [Tokens -> BOOLEAN]
    /\ away \in [Tokens -> {NoTime} \union (0 .. Grace)]
    /\ idle \in 0 .. IdleTimeout + 1

\* A stored room has a host among its players, whoever left, dropped or was
\* finalised, and whether or not somebody could take over (store.go:315-319, 411-426).
HostIsPlayer == status # "none" => host \in players

\* What the variables are where there is no room or no player.
NothingElse ==
    /\ status = "none" => players = {} /\ idle = 0
    /\ \A p \in Tokens \ players :
        pstatus[p] = "playing" /\ guesses[p] = 0 /\ ~solvedAt[p] /\ away[p] = NoTime

\* DisconnectedAt is set exactly while the player is disconnected: room.go:48.
DisconnectedAtSet ==
    \A p \in players : away[p] # NoTime <=> pstatus[p] = "disconnected"

\* Once the round is over nobody in the room can still be guessing, not even a
\* player who comes back later, and only then do players wait for the next
\* round (store.go:400-404, 428-443).
RoundOverSettled ==
    /\ status = "finished" => \A p \in players : pstatus[p] # "playing"
    /\ status # "finished" => \A p \in players : pstatus[p] # "waiting"

\* Nothing of a past round shows in a lobby: a player is in it or away from it.
LobbyFresh ==
    status = "lobby" =>
        \A p \in players :
            /\ pstatus[p] \in {"playing", "disconnected"}
            /\ guesses[p] = 0 /\ ~solvedAt[p]

\* What ranking.go ranks by is there: a solver has a solving time and a last
\* guess, a player who is out has used every guess (ranking.go:19-68 reads
\* SolvedAt and len(Guesses) of the players by their status).
ScoreConsistent ==
    \A p \in players :
        /\ pstatus[p] = "solved" => solvedAt[p]
        /\ solvedAt[p] => guesses[p] > 0
        /\ pstatus[p] = "out" => guesses[p] >= MaxGuesses

\* The inductive invariant.
IInv ==
    /\ TypeOK
    /\ HostIsPlayer
    /\ NothingElse
    /\ DisconnectedAtSet
    /\ RoundOverSettled
    /\ LobbyFresh
    /\ ScoreConsistent

--------------------------------------------------------------------------------
(* Action properties, the contract, liveness.                              *)

\* The host of a stored room changes only while that host is away, and the new
\* host is the one who joined first among the players who are there
\* (README.md, "host handoff"; store.go:411-426).
HostHandover ==
    [][status # "none" /\ status' # "none" /\ host' # host =>
        /\ pstatus'[host] = "disconnected"
        /\ host' \in players /\ pstatus'[host'] # "disconnected"
        /\ \A p \in players : pstatus'[p] # "disconnected" => host' <= p]_vars

Board ==
    [count |-> guesses, solvers |-> {p \in Tokens : solvedAt[p]}]

Acting == {p \in players : pstatus[p] = "playing"}
Dropped == {p \in players : pstatus[p] = "disconnected" /\ isBlockingRound(pstatus[p], away[p])}
Gone == {p \in players : pstatus[p] = "disconnected" /\ ~isBlockingRound(pstatus[p], away[p])}

Contract ==
    INSTANCE RoundContract WITH
        phase <- status, seats <- players, board <- Board,
        acting <- Acting, dropped <- Dropped, gone <- Gone

\* The store keeps the contract of a round (store.go:22-32, 234-254, 296-443): a
\* guess, a leave or the end of a grace period ends it exactly when nobody is left
\* who plays or is within its grace period; only who plays writes on a board, a
\* drop takes nobody's finished board back, and boards are frozen between rounds.
KeepsContract == Contract!Spec

\* What a request that counts as a use of the room shows: somebody sits down, a
\* round begins, a row is written, or somebody goes without a grace period.
Used ==
    \/ players' # players
    \/ status # "playing" /\ status' = "playing"
    \/ guesses' # guesses
    \/ \E p \in players :
        pstatus[p] # "disconnected" /\ pstatus'[p] = "disconnected" /\ away'[p] = Grace

\* Only requests of its players set the clock of a room back, and the sweep, after
\* which there is no room: no drop, grace timer or return does (store.go:337-408,
\* 472-475, none of which calls touch).
OnlyUseTouches == [][idle' < idle => Used]_vars

\* A room that is not used any more goes, however often players drop, are
\* finalised and return meanwhile (store.go:478-506).
AbandonedRoomGoes == []<><<Used>>_vars \/ []<>(status = "none")
================================================================================
