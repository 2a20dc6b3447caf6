---------------------------------- MODULE Hub ----------------------------------
(***************************************************************************)
(* How the views of one room reach its clients: realtime/registry.go       *)
(* (GetOrCreate, BroadcastRoom, CleanupIfEmpty, Connect), realtime/hub.go  *)
(* and the pumps of realtime/client.go, step by step between their locks.  *)
(*                                                                         *)
(* What a view shows is the number of the room's last mutation, version,   *)
(* so that "newer" can be said; version 0 is a room the sweeper removed.   *)
(* Whoever changes the room and broadcasts it (an HTTP handler, a grace    *)
(* goroutine, a client's close) is one of Broadcasters.                    *)
(***************************************************************************)
EXTENDS Integers, Sequences, FiniteSets

CONSTANTS
    Clients,        \* connections; each connects and closes once
    Broadcasters,   \* goroutines that change the room and broadcast
    MaxHubs,        \* bound of the model: how many hubs are created
    ChanCap,        \* capacity of Client.send (16 in Connect)
    MaxVersion      \* bound of the model: how many mutations happen

ASSUME HubAssumption ==
    MaxHubs \in Nat \ {0} /\ ChanCap \in Nat \ {0} /\ MaxVersion \in Nat \ {0}

VARIABLES
    version,    \* the room's last mutation
    registered, \* HubRegistry.hubs[roomCode], NoHub when there is none
    created,    \* how many hubs have been created
    members,    \* Hub.clients of every hub
    stage,      \* how far each connection is
    hub,        \* Client.hub
    send,       \* the buffer of Client.send
    open,       \* Client.send is not closed
    draft,      \* the initial payload a client's Register has built
    view,       \* the last view written to the client's socket
    newest,     \* history: the newest view written to the client's socket
    task        \* what each broadcaster is doing

vars == <<version, registered, created, members, stage, hub, send, open, draft, view,
          newest, task>>
clientVars == <<stage, hub, draft>>
wireVars == <<send, open, view, newest>>

NoHub == 0
Gone == 0
Hubs == 1 .. MaxHubs
Versions == 0 .. MaxVersion
Stages == {"new", "gotHub", "registered", "built", "live", "unregistered", "closed"}

Idle == [pc |-> "idle", hub |-> NoHub, todo |-> {}, to |-> {}, payload |-> Gone, evict |-> {}]

Tasks ==
    [pc : {"idle", "mutated", "found", "sending", "payload"}, hub : Hubs \union {NoHub},
     todo : SUBSET Clients, to : SUBSET Clients, payload : Versions, evict : SUBSET Clients]

Init ==
    /\ version = 1
    /\ registered = NoHub
    /\ created = 0
    /\ members = [h \in Hubs |-> {}]
    /\ stage = [c \in Clients |-> "new"]
    /\ hub = [c \in Clients |-> NoHub]
    /\ send = [c \in Clients |-> <<>>]
    /\ open = [c \in Clients |-> TRUE]
    /\ draft = [c \in Clients |-> Gone]
    /\ view = [c \in Clients |-> Gone]
    /\ newest = [c \in Clients |-> Gone]
    /\ task = [b \in Broadcasters |-> Idle]

Moves(c, from, to) ==
    /\ stage[c] = from
    /\ stage' = [stage EXCEPT ![c] = to]

Full(c) == Len(send[c]) >= ChanCap

--------------------------------------------------------------------------------
(* A client connects: Connect, from GetOrCreate on.                        *)

\* GetOrCreate, under HubRegistry.mu.
GetOrCreate(c) ==
    /\ Moves(c, "new", "gotHub")
    /\ \/ /\ registered # NoHub
          /\ UNCHANGED <<registered, created>>
       \/ /\ registered = NoHub
          /\ created < MaxHubs
          /\ created' = created + 1
          /\ registered' = created + 1
    /\ hub' = [hub EXCEPT ![c] = registered']
    /\ UNCHANGED <<version, members, draft, wireVars, task>>

\* Hub.Register, under Hub.mu.
Register(c) ==
    /\ Moves(c, "gotHub", "registered")
    /\ members' = [members EXCEPT ![hub[c]] = @ \union {c}]
    /\ UNCHANGED <<version, registered, created, hub, draft, wireVars, task>>

\* sendToOne builds the initial payload, or gives up when the room is gone;
\* the pumps start once Register returns.
buildInitial(c) ==
    /\ Moves(c, "registered", IF version = Gone THEN "live" ELSE "built")
    /\ draft' = [draft EXCEPT ![c] = version]
    /\ UNCHANGED <<version, registered, created, members, hub, wireVars, task>>

\* sendToOne pushes it without a lock, and drops it when the channel is full.
\* A channel that was closed meanwhile makes this goroutine panic: the pumps
\* never start, and the connection is never closed.
sendToOne(c) ==
    /\ Moves(c, "built", "live")
    /\ open[c]
    /\ send' = [send EXCEPT ![c] = IF Full(c) THEN @ ELSE Append(@, draft[c])]
    /\ UNCHANGED <<version, registered, created, members, hub, draft, open, view, newest, task>>

--------------------------------------------------------------------------------
(* The pumps, and Client.close.                                            *)

\* WritePump writes the next payload to the socket.
WritePump(c) ==
    /\ stage[c] = "live"
    /\ send[c] # <<>>
    /\ send' = [send EXCEPT ![c] = Tail(@)]
    /\ view' = [view EXCEPT ![c] = Head(send[c])]
    /\ newest' = [newest EXCEPT ![c] = IF Head(send[c]) > @ THEN Head(send[c]) ELSE @]
    /\ UNCHANGED <<version, registered, created, members, stage, hub, draft, open, task>>

\* Mutant: a closing client is not taken out of its hub.
UnregisterNever(c) ==
    /\ Moves(c, "live", "unregistered")
    /\ UNCHANGED <<version, registered, created, members, hub, draft, wireVars, task>>

\* Unregister, the first call of Client.close: after a read or write error, or
\* when WritePump finds its channel closed and drained.
Unregister(c) ==
    /\ Moves(c, "live", "unregistered")
    /\ members' = [members EXCEPT ![hub[c]] = @ \ {c}]
    /\ UNCHANGED <<version, registered, created, hub, draft, wireVars, task>>

\* CleanupIfEmpty, the last call of Client.close, under HubRegistry.mu: it looks
\* at the hub registered for the room, whichever the client's own hub was.
CleanupIfEmpty(c) ==
    /\ Moves(c, "unregistered", "closed")
    /\ registered' = IF registered # NoHub /\ members[registered] = {}
                     THEN NoHub ELSE registered
    /\ UNCHANGED <<version, created, members, hub, draft, wireVars, task>>

--------------------------------------------------------------------------------
(* A mutation and its broadcast.                                           *)

Goes(b, from, new) ==
    /\ task[b].pc = from
    /\ task' = [task EXCEPT ![b] = new]

\* A handler has changed the room.
Mutate(b) ==
    /\ version # Gone /\ version < MaxVersion
    /\ Goes(b, "idle", [task[b] EXCEPT !.pc = "mutated"])
    /\ version' = version + 1
    /\ UNCHANGED <<registered, created, members, clientVars, wireVars>>

\* BroadcastRoom looks the hub up; without one there is nobody to tell.
BroadcastRoom(b) ==
    /\ Goes(b, "mutated", IF registered = NoHub THEN Idle
                          ELSE [task[b] EXCEPT !.pc = "found", !.hub = registered])
    /\ UNCHANGED <<version, registered, created, members, clientVars, wireVars>>

\* Broadcast copies the clients under the read lock.
copyClients(b) ==
    /\ Goes(b, "found", [task[b] EXCEPT !.pc = "sending", !.todo = members[task[b].hub]])
    /\ UNCHANGED <<version, registered, created, members, clientVars, wireVars>>

\* Mutant: a client with a payload in its buffer needs no other one.
buildPayloadIfDrained(b, c) ==
    /\ c \in task[b].todo
    /\ Goes(b, "sending",
            [task[b] EXCEPT !.pc = IF version = Gone \/ send[c] # <<>> THEN "sending" ELSE "payload",
                            !.todo = @ \ {c}, !.to = {c}, !.payload = version])
    /\ UNCHANGED <<version, registered, created, members, clientVars, wireVars>>

\* It builds the next client's payload, in any order of the clients, and skips
\* the client when the room is gone.
buildPayload(b, c) ==
    /\ c \in task[b].todo
    /\ Goes(b, "sending",
            [task[b] EXCEPT !.pc = IF version = Gone THEN "sending" ELSE "payload",
                            !.todo = @ \ {c}, !.to = {c}, !.payload = version])
    /\ UNCHANGED <<version, registered, created, members, clientVars, wireVars>>

\* Mutant: an evicted client stays in the hub.
deliverKeeping(b) ==
    LET t == task[b]
        to == {c \in t.to : c \in members[t.hub]}
        slow == {c \in to : Full(c)}
    IN  /\ Goes(b, "payload", [t EXCEPT !.pc = "sending", !.to = {}, !.evict = @ \union slow])
        /\ send' = [c \in Clients |->
                        IF c \in to \ slow THEN Append(send[c], t.payload) ELSE send[c]]
        /\ UNCHANGED <<version, registered, created, members, clientVars, open, view, newest>>

\* Mutant: the payload is queued whatever the capacity.
deliverAlways(b) ==
    LET t == task[b]
        to == {c \in t.to : c \in members[t.hub]}
    IN  /\ Goes(b, "payload", [t EXCEPT !.pc = "sending", !.to = {}])
        /\ send' = [c \in Clients |-> IF c \in to THEN Append(send[c], t.payload) ELSE send[c]]
        /\ UNCHANGED <<version, registered, created, members, clientVars, open, view, newest>>

\* Under Hub.mu: a client that is gone is skipped, one with a full channel is
\* taken out of the hub to be evicted, the others get the payload.
deliver(b) ==
    LET t == task[b]
        to == {c \in t.to : c \in members[t.hub]}
        slow == {c \in to : Full(c)}
    IN  /\ Goes(b, "payload", [t EXCEPT !.pc = "sending", !.to = {}, !.evict = @ \union slow])
        /\ send' = [c \in Clients |->
                        IF c \in to \ slow THEN Append(send[c], t.payload) ELSE send[c]]
        /\ members' = [members EXCEPT ![t.hub] = @ \ slow]
        /\ UNCHANGED <<version, registered, created, clientVars, open, view, newest>>

\* After the loop the channels of the evicted are closed, outside the lock.
closeEvicted(b) ==
    /\ task[b].todo = {}
    /\ Goes(b, "sending", Idle)
    /\ open' = [c \in Clients |-> open[c] /\ c \notin task[b].evict]
    /\ UNCHANGED <<version, registered, created, members, clientVars, send, view, newest>>

\* The sweeper removes the room.
sweepIdle ==
    /\ version # Gone
    /\ version' = Gone
    /\ UNCHANGED <<registered, created, members, clientVars, wireVars, task>>

--------------------------------------------------------------------------------
Broadcast(b) ==
    \/ BroadcastRoom(b)
    \/ copyClients(b)
    \/ \E c \in Clients : buildPayload(b, c)
    \/ deliver(b)
    \/ closeEvicted(b)

Connecting(c) == Register(c) \/ buildInitial(c) \/ sendToOne(c)

Next ==
    \/ \E c \in Clients :
        GetOrCreate(c) \/ Connecting(c) \/ WritePump(c) \/ Unregister(c) \/ CleanupIfEmpty(c)
    \/ \E b \in Broadcasters : Mutate(b) \/ Broadcast(b)
    \/ sweepIdle

Spec == Init /\ [][Next]_vars

--------------------------------------------------------------------------------
(* What holds.                                                             *)

TypeOK ==
    /\ version \in Versions
    /\ registered \in Hubs \union {NoHub}
    /\ created \in 0 .. MaxHubs
    /\ members \in [Hubs -> SUBSET Clients]
    /\ stage \in [Clients -> Stages]
    /\ hub \in [Clients -> Hubs \union {NoHub}]
    /\ \A c \in Clients : send[c] \in Seq(Versions \ {Gone}) /\ Len(send[c]) <= ChanCap
    /\ open \in [Clients -> BOOLEAN]
    /\ draft \in [Clients -> Versions]
    /\ view \in [Clients -> Versions]
    /\ newest \in [Clients -> Versions]
    /\ task \in [Broadcasters -> Tasks]

\* No broadcast sends on a closed channel or closes one twice, however many
\* overlap: a client of a hub has an open channel, and whoever is to be evicted
\* is in no hub any more and is evicted by one broadcast (hub.go:71-91).
BroadcastsDoNotPanic ==
    /\ \A h \in Hubs : \A c \in members[h] : open[c]
    /\ \A b \in Broadcasters : \A c \in task[b].evict :
        /\ open[c]
        /\ \A h \in Hubs : c \notin members[h]
        /\ \A d \in Broadcasters \ {b} : c \notin task[d].evict

\* When every connection is closed the registry keeps no hub, whatever the order
\* in which clients came and went (registry.go:14-15, 58-71).
NoHubLeaks ==
    (\A c \in Clients : stage[c] \in {"new", "closed"}) => registered = NoHub

\* Nothing is under way: every mutation has been broadcast, every buffer drained.
Quiet ==
    /\ \A b \in Broadcasters : task[b] = Idle
    /\ \A c \in Clients : stage[c] \in {"new", "live", "closed"} /\ send[c] = <<>>

InHub(c) == stage[c] = "live" /\ open[c] /\ hub[c] = registered

\* No mutation is missed: when nothing is under way, every client of the room's
\* hub has been sent the latest view, whenever it connected, however many
\* broadcasts overlapped and whichever payloads were dropped or skipped
\* (README.md:32; hub.go:54-93, 102-112).
EveryMutationReaches ==
    Quiet /\ version # Gone => \A c \in Clients : InHub(c) => newest[c] = version

--------------------------------------------------------------------------------
(* What the documents say.                                                 *)

\* Register's initial payload lands in the buffered channel (hub.go:27-29).
InitialPayloadLands == \A c \in Clients : stage[c] = "built" => open[c]
================================================================================
