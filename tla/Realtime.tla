-------------------------------- MODULE Realtime --------------------------------
(***************************************************************************)
(* The room of RoomStore under the life of its players' WebSocket          *)
(* connections: backend/internal/api/realtime.go (upgrade),                *)
(* realtime/registry.go (Connect, OnClientDisconnect and its grace         *)
(* goroutine, OnClientReconnect) and realtime/client.go (close).           *)
(*                                                                         *)
(* A connection is a slot of Conns.  Its goroutines move it through        *)
(*                                                                         *)
(*   free -> validated -> restored -> live -> closing -> marked -> grace    *)
(*                                                                         *)
(* and nothing orders the slots of one player: an old connection may close *)
(* after its successor was set up, and several grace goroutines of one     *)
(* player may sleep at the same time.  Which client gets which broadcast   *)
(* is the subject of Hub, and left out here.                               *)
(***************************************************************************)
EXTENDS RoomStore

CONSTANT Conns      \* connection slots; a slot is in use until its grace goroutine ends

VARIABLES
    stage,      \* how far the goroutines of the connection are
    token,      \* Client.token
    sleep       \* what is left of the grace goroutine's time.After, in ticks

rtVars == <<vars, stage, token, sleep>>
connVars == <<stage, token, sleep>>

Stages == {"free", "validated", "restored", "live", "closing", "marked", "grace"}

\* The connection is gone, its grace goroutine is yet to start or asleep.
Timing(c) == stage[c] \in {"marked", "grace"}

RTInit ==
    /\ Init
    /\ stage = [c \in Conns |-> "free"]
    /\ token = [c \in Conns |-> NoToken]
    /\ sleep = [c \in Conns |-> 0]

\* Connection c goes from one stage to the next.
Moves(c, from, to) ==
    /\ stage[c] = from
    /\ stage' = [stage EXCEPT ![c] = to]

\* The connections a player has, set up or being set up.
ConnsOf(t) ==
    {c \in Conns : token[c] = t /\ stage[c] \in {"validated", "restored", "live"}}

--------------------------------------------------------------------------------
(* One connection.                                                         *)

\* wsUpgrade: the token belongs to a player of the room; the connection is
\* hijacked and handed to Connect.
wsUpgrade(c, t) ==
    /\ t \in players
    /\ Moves(c, "free", "validated")
    /\ token' = [token EXCEPT ![c] = t]
    /\ UNCHANGED <<vars, sleep>>

\* Connect first restores the player.
OnClientReconnect(c) ==
    /\ Moves(c, "validated", "restored")
    /\ MarkPlayerReconnected(token[c])
    /\ UNCHANGED <<token, sleep>>

\* Then it registers the client and starts the pumps.
Register(c) ==
    /\ Moves(c, "restored", "live")
    /\ UNCHANGED <<vars, token, sleep>>

\* A pump ends, on a read or write error, a missed pong or an eviction: the
\* first call of Client.close unregisters the client and closes the socket.
close(c) ==
    /\ Moves(c, "live", "closing")
    /\ UNCHANGED <<vars, token, sleep>>

\* Mutant: a player who has a grace goroutine already gets no second one.
OnClientDisconnectOnce(c) ==
    /\ Moves(c, "closing", IF \E d \in Conns : Timing(d) /\ token[d] = token[c]
                           THEN "free" ELSE "marked")
    /\ MarkPlayerDisconnected(token[c])
    /\ UNCHANGED sleep
    /\ token' = [token EXCEPT ![c] = IF stage'[c] = "free" THEN NoToken ELSE @]

\* Then OnClientDisconnect marks the player, and broadcasts the room.
OnClientDisconnect(c) ==
    /\ Moves(c, "closing", "marked")
    /\ MarkPlayerDisconnected(token[c])
    /\ UNCHANGED <<token, sleep>>

\* When the broadcast is done it starts the grace goroutine, whether the mark
\* changed anything or not.
graceStarts(c) ==
    /\ Moves(c, "marked", "grace")
    /\ sleep' = [sleep EXCEPT ![c] = Grace]
    /\ UNCHANGED <<vars, token>>

\* The grace goroutine wakes up, at the earliest when time.After is over.
graceExpires(c) ==
    /\ sleep[c] = 0
    /\ Moves(c, "grace", "free")
    /\ FinalizeDisconnect(token[c])
    /\ token' = [token EXCEPT ![c] = NoToken]
    /\ UNCHANGED sleep

\* Time passes for the room and for the sleeping goroutines.
RTTick ==
    /\ Tick
    /\ sleep' = [c \in Conns |-> IF sleep[c] > 0 THEN sleep[c] - 1 ELSE 0]
    /\ UNCHANGED <<stage, token>>

--------------------------------------------------------------------------------
Server(c) ==
    \/ OnClientReconnect(c)
    \/ Register(c)
    \/ OnClientDisconnect(c)
    \/ graceStarts(c)
    \/ graceExpires(c)

RTNext ==
    \/ \E t \in Tokens :
        \/ (Request(t) \/ Leave(t)) /\ UNCHANGED connVars
        \/ \E c \in Conns : wsUpgrade(c, t)
    \/ \E c \in Conns : Server(c) \/ close(c)
    \/ sweepIdle /\ UNCHANGED connVars
    \/ RTTick

RTSpec == RTInit /\ [][RTNext]_rtVars

\* Goroutines that can go on do so, sleeping ones wake up, the sweeper runs.
\* Nothing is assumed of players and networks.
RTFairness ==
    /\ \A c \in Conns : WF_rtVars(Server(c))
    /\ WF_rtVars(RTTick)
    /\ WF_rtVars(sweepIdle /\ UNCHANGED connVars)

RTFairSpec == RTSpec /\ RTFairness

--------------------------------------------------------------------------------
(* What holds.                                                             *)

RTTypeOK ==
    /\ TypeOK
    /\ stage \in [Conns -> Stages]
    /\ token \in [Conns -> Tokens \union {NoToken}]
    /\ sleep \in [Conns -> 0 .. Grace]

\* Whoever is still within its grace period has a grace goroutine of this drop, about
\* to start or asleep, which does not wake up before the period is over, however
\* often the player dropped and returned: the room does not wait for somebody
\* nobody will finalize (registry.go:95-117, store.go:345-347).
GraceIsTimed ==
    \A p \in players :
        pstatus[p] = "disconnected" /\ away[p] < Grace =>
            \E c \in Conns :
                /\ Timing(c) /\ token[c] = p
                /\ stage[c] = "grace" => sleep[c] >= Grace - away[p]

RTInv == RTTypeOK /\ GraceIsTimed

\* A running round with somebody still there is never forgotten: somebody is
\* guessing, or a grace goroutine is yet to wake up for a player who is away and
\* will end the round if nobody else holds it up (README.md:34, "before the
\* server finalises the drop"; store.go:351-380).
RoundIsWatched ==
    status = "playing" /\ (\E p \in players : pstatus[p] # "disconnected") =>
        \/ \E p \in players : pstatus[p] = "playing"
        \/ \E c \in Conns : Timing(c) /\ IsAway(token[c])

\* A host who drops out of the lobby or a round is back, replaced or without an
\* heir some time (README.md:34; store.go:351-380).
HostInGrace ==
    host \in players /\ pstatus[host] = "disconnected" /\ away[host] < Grace

HostSettles ==
    HostInGrace ~> (host \in players => pstatus[host] # "disconnected" \/ Heirs(pstatus) = {})
================================================================================
