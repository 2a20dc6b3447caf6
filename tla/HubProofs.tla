------------------------------- MODULE HubProofs -------------------------------
(***************************************************************************)
(* The hub, for any number of clients, broadcasters and hubs, any capacity *)
(* of a channel and any number of mutations: broadcasts do not panic, hubs *)
(* do not leak, and no mutation is missed.                                 *)
(***************************************************************************)
EXTENDS Hub, SequenceTheorems, TLAPS

Served == {"registered", "built", "live"}

ClientsPlaced ==
    /\ created \in Nat /\ registered \in 0 .. created
    /\ \A c \in Clients :
        /\ stage[c] # "new" => hub[c] \in 1 .. created
        /\ stage[c] \in {"new", "gotHub"} => open[c] /\ send[c] = <<>>
        /\ stage[c] = "built" => draft[c] # Gone

MembersPlaced ==
    \A h \in Hubs : \A c \in members[h] : hub[c] = h /\ stage[c] \in Served

TaskPlaced(t) ==
    /\ t.pc = "idle" => t = Idle
    /\ t.pc \in {"mutated", "found"} => t.todo = {} /\ t.to = {} /\ t.evict = {}
    /\ t.pc \in {"found", "sending", "payload"} => t.hub # NoHub
    /\ t.pc = "payload" => t.payload # Gone
    /\ \A c \in t.todo \union t.to \union t.evict :
        hub[c] = t.hub /\ stage[c] \notin {"new", "gotHub"}

TasksPlaced == \A b \in Broadcasters : TaskPlaced(task[b])

\* A client that is served is in its hub, or has been taken out of it to be evicted.
Accounted ==
    \A c \in Clients : stage[c] \in Served =>
        \/ c \in members[hub[c]]
        \/ ~open[c]
        \/ \E b \in Broadcasters : c \in task[b].evict

\* Somebody is left to clean up after a hub.
Attended ==
    registered # NoHub => \E c \in Clients : stage[c] \notin {"new", "closed"}

\* Views are of the past.
Ordered ==
    version # Gone =>
        /\ \A c \in Clients :
            /\ draft[c] <= version /\ newest[c] <= version
            /\ \A i \in 1 .. Len(send[c]) : send[c][i] <= version
        /\ \A b \in Broadcasters : task[b].payload <= version

Has(c) == newest[c] = version \/ \E i \in 1 .. Len(send[c]) : send[c][i] = version

\* A broadcast is on its way to client c of the registered hub.
OnItsWay(t, c) ==
    \/ t.pc = "mutated"
    \/ t.pc = "found" /\ t.hub = registered
    \/ t.pc \in {"sending", "payload"} /\ c \in t.todo
    \/ t.pc = "payload" /\ c \in t.to /\ t.payload = version

Told(c) == Has(c) \/ \E b \in Broadcasters : OnItsWay(task[b], c)

Covered(c) ==
    /\ Told(c) \/ stage[c] = "registered" \/ (stage[c] = "built" /\ draft[c] = version)
    /\ send[c] # <<>> => Told(c)
    /\ \A b \in Broadcasters : task[b].pc = "payload" /\ c \in task[b].to => Told(c)

AllCovered ==
    version # Gone /\ registered # NoHub => \A c \in members[registered] : Covered(c)

\* The buffers are a function of the clients.
SendIs == send = [c \in Clients |-> send[c]]

HubInv ==
    /\ TypeOK
    /\ SendIs
    /\ ClientsPlaced
    /\ MembersPlaced
    /\ TasksPlaced
    /\ BroadcastsDoNotPanic
    /\ Accounted
    /\ Attended
    /\ Ordered
    /\ AllCovered

--------------------------------------------------------------------------------
(* What the cases have in common.                                          *)

\* Members are clients of their hub.
LEMMA MembersAre ==
    ASSUME HubInv
    PROVE  /\ \A h \in Hubs : members[h] \subseteq Clients
           /\ registered # NoHub => registered \in Hubs
           /\ 0 \notin Hubs
BY DEF HubInv, TypeOK, Hubs, NoHub

\* Whoever has connected is in a hub that exists.
LEMMA HubOf == ASSUME HubInv, NEW c \in Clients, stage[c] # "new" PROVE hub[c] \in Hubs
<1>1. hub[c] \in 1 .. created /\ hub[c] \in Hubs \union {NoHub}
  BY DEF HubInv, ClientsPlaced, TypeOK
<1>2. hub[c] # NoHub
  BY <1>1 DEF NoHub
<1>. QED BY <1>1, <1>2

\* A step that keeps the clients of the registered hub and whatever they have been
\* told or will be.
LEMMA StaysCovered ==
    ASSUME HubInv, NEW d, d \in members[registered], registered # NoHub, version # Gone,
           Told(d) => Told(d)',
           stage[d] = "registered" =>
                stage'[d] = "registered" \/ Told(d)' \/ (stage'[d] = "built" /\ draft'[d] = version'),
           stage[d] = "built" /\ draft[d] = version =>
                (stage'[d] = "built" /\ draft'[d] = version') \/ Told(d)',
           send'[d] # <<>> => send[d] # <<>> \/ Told(d)',
           \A b \in Broadcasters :
                task'[b].pc = "payload" /\ d \in task'[b].to =>
                    (task[b].pc = "payload" /\ d \in task[b].to) \/ Told(d)'
    PROVE  Covered(d)'
<1>1. Covered(d)
  BY DEF HubInv, AllCovered
<1>2. Told(d)' \/ stage'[d] = "registered" \/ (stage'[d] = "built" /\ draft'[d] = version')
  BY <1>1 DEF Covered
<1>3. send'[d] # <<>> => Told(d)'
  BY <1>1 DEF Covered
<1>4. \A b \in Broadcasters : task'[b].pc = "payload" /\ d \in task'[b].to => Told(d)'
  BY <1>1 DEF Covered
<1>. QED BY <1>2, <1>3, <1>4 DEF Covered

\* What is told when neither the tasks nor the room change.
LEMMA StillTold ==
    ASSUME NEW d, UNCHANGED <<version, registered, task>>, Has(d) => Has(d)'
    PROVE  Told(d) => Told(d)'
BY DEF Told, OnItsWay

LEMMA StillHas ==
    ASSUME NEW d, version' = version, newest'[d] = newest[d], send'[d] = send[d]
    PROVE  Has(d) => Has(d)'
BY DEF Has

\* A client that changes its stage, and only that.
LEMMA Covers ==
    ASSUME HubInv, UNCHANGED <<version, wireVars, task>>, registered' \in {registered, NoHub},
           registered' # NoHub => members'[registered] \subseteq members[registered],
           \A d \in members[registered] :
                \/ stage'[d] = stage[d] /\ draft'[d] = draft[d]
                \/ stage[d] \notin {"registered", "built"}
    PROVE  AllCovered'
<1>. SUFFICES ASSUME version' # Gone, registered' # NoHub, NEW d \in members'[registered']
              PROVE  Covered(d)'
  BY DEF AllCovered
<1>1. registered' = registered /\ registered # NoHub /\ version # Gone /\ d \in members[registered]
  OBVIOUS
<1>2. Told(d) => Told(d)'
  BY <1>1, StillTold, StillHas DEF wireVars
<1>. QED BY <1>1, <1>2, StaysCovered DEF wireVars

--------------------------------------------------------------------------------
(* A client connects.                                                      *)

LEMMA GetOrCreateInv == ASSUME HubInv, NEW c \in Clients, GetOrCreate(c) PROVE HubInv'
<1>. USE DEF HubInv, GetOrCreate, Moves, wireVars
<1>0. /\ stage[c] = "new" /\ stage' = [stage EXCEPT ![c] = "gotHub"]
      /\ hub' = [hub EXCEPT ![c] = registered'] /\ registered' # NoHub
      /\ \/ registered' = registered /\ created' = created
         \/ registered = NoHub /\ registered' = created + 1 /\ created' = created + 1 /\ created < MaxHubs
      /\ UNCHANGED <<version, members, draft, send, open, view, newest, task>>
  BY DEF ClientsPlaced, NoHub
<1>1. TypeOK'
  <2>1. created' \in 0 .. MaxHubs /\ registered' \in Hubs
    BY <1>0, HubAssumption DEF TypeOK, Hubs, NoHub
  <2>. QED BY <1>0, <2>1 DEF TypeOK, Stages
<1>2. SendIs'
  BY <1>0 DEF SendIs
<1>3. ClientsPlaced'
  <2>1. created' \in Nat /\ created <= created' /\ registered' \in 1 .. created'
    BY <1>0 DEF ClientsPlaced, NoHub
  <2>2. ASSUME NEW d \in Clients
        PROVE  /\ stage'[d] # "new" => hub'[d] \in 1 .. created'
               /\ stage'[d] \in {"new", "gotHub"} => open[d] /\ send[d] = <<>>
               /\ stage'[d] = "built" => draft[d] # Gone
    BY <1>0, <2>1 DEF TypeOK, ClientsPlaced
  <2>. QED BY <1>0, <2>1, <2>2 DEF ClientsPlaced
<1>4. MembersPlaced'
  BY <1>0 DEF TypeOK, MembersPlaced, Served
<1>5. TasksPlaced'
  BY <1>0 DEF TypeOK, TasksPlaced, TaskPlaced, Idle
<1>6. BroadcastsDoNotPanic'
  BY <1>0 DEF BroadcastsDoNotPanic
<1>7. Accounted'
  BY <1>0 DEF TypeOK, Accounted, Served
<1>8. Attended'
  BY <1>0 DEF TypeOK, Attended
<1>9. Ordered'
  BY <1>0 DEF Ordered
<1>10. AllCovered'
  <2>1. CASE registered' = registered
    <3>1. \A d \in members[registered] : stage'[d] = stage[d] /\ draft'[d] = draft[d]
      BY <1>0, <2>1, MembersAre DEF TypeOK, MembersPlaced, Served
    <3>. QED BY <1>0, <2>1, <3>1, Covers
  <2>2. CASE registered' = created + 1 /\ created < MaxHubs
    <3>1. registered' \in Hubs /\ members' = members
      BY <1>0, <1>1, MembersAre DEF TypeOK, NoHub
    <3>2. members[registered'] = {}
      <4>. SUFFICES ASSUME NEW d \in members[registered'] PROVE FALSE
        OBVIOUS
      <4>1. d \in Clients /\ hub[d] = created + 1 /\ stage[d] \in Served
        BY <2>2, <3>1, MembersAre DEF MembersPlaced
      <4>2. hub[d] \in 1 .. created /\ created \in Nat
        BY <4>1 DEF ClientsPlaced, Served
      <4>. QED BY <4>1, <4>2
    <3>. QED BY <3>1, <3>2 DEF AllCovered
  <2>. QED BY <1>0, <2>1, <2>2
<1>. QED BY <1>1, <1>2, <1>3, <1>4, <1>5, <1>6, <1>7, <1>8, <1>9, <1>10

LEMMA RegisterInv == ASSUME HubInv, NEW c \in Clients, Register(c) PROVE HubInv'
<1>. USE DEF HubInv, Register, Moves, wireVars
<1>0. /\ hub[c] \in Hubs /\ stage[c] = "gotHub" /\ stage' = [stage EXCEPT ![c] = "registered"]
      /\ members' = [members EXCEPT ![hub[c]] = @ \union {c}]
      /\ UNCHANGED <<version, registered, created, hub, draft, send, open, view, newest, task>>
  BY HubOf
<1>1. TypeOK'
  BY <1>0 DEF TypeOK, Stages
<1>2. SendIs'
  BY <1>0 DEF SendIs
<1>3. ClientsPlaced'
  BY <1>0 DEF TypeOK, ClientsPlaced
<1>4. MembersPlaced'
  BY <1>0 DEF TypeOK, MembersPlaced, Served
<1>5. TasksPlaced'
  BY <1>0 DEF TypeOK, TasksPlaced, TaskPlaced, Idle
<1>6. BroadcastsDoNotPanic'
  BY <1>0 DEF TypeOK, BroadcastsDoNotPanic, TasksPlaced, TaskPlaced, ClientsPlaced
<1>7. Accounted'
  <2>1. ASSUME NEW d \in Clients, stage'[d] \in Served
        PROVE  d \in members'[hub[d]] \/ ~open[d] \/ \E b \in Broadcasters : d \in task[b].evict
    <3>1. CASE d = c
      BY <1>0, <3>1 DEF TypeOK
    <3>2. CASE d # c
      <4>1. stage[d] \in Served /\ hub[d] \in Hubs
        <5>1. stage[d] \in Served /\ stage[d] # "new"
          BY <1>0, <2>1, <3>2 DEF TypeOK, Served
        <5>. QED BY <5>1, HubOf
      <4>2. members[hub[d]] \subseteq members'[hub[d]]
        BY <1>0, <4>1 DEF TypeOK
      <4>. QED BY <4>1, <4>2 DEF Accounted
    <3>. QED BY <3>1, <3>2
  <2>. QED BY <1>0, <2>1 DEF Accounted
<1>8. Attended'
  BY <1>0 DEF TypeOK, Attended
<1>9. Ordered'
  BY <1>0 DEF Ordered
<1>10. AllCovered'
  <2>. SUFFICES ASSUME version # Gone, registered # NoHub, NEW d \in members'[registered]
                PROVE  Covered(d)'
    BY <1>0 DEF AllCovered
  <2>1. d \in members[registered] \/ d = c
    BY <1>0, MembersAre DEF TypeOK
  <2>2. CASE d = c
    <3>1. stage'[c] = "registered" /\ send'[c] = <<>>
      BY <1>0 DEF TypeOK, ClientsPlaced
    <3>2. \A b \in Broadcasters : c \notin task'[b].to
      BY <1>0 DEF TasksPlaced, TaskPlaced
    <3>. QED BY <2>2, <3>1, <3>2 DEF Covered
  <2>3. CASE d \in members[registered]
    <3>1. Told(d) => Told(d)'
      BY <1>0, StillTold, StillHas
    <3>2. stage'[d] = stage[d]
      BY <1>0, <2>3, MembersAre DEF TypeOK, MembersPlaced, Served
    <3>. QED BY <1>0, <2>3, <3>1, <3>2, StaysCovered
  <2>. QED BY <2>1, <2>2, <2>3
<1>. QED BY <1>1, <1>2, <1>3, <1>4, <1>5, <1>6, <1>7, <1>8, <1>9, <1>10

LEMMA buildInitialInv == ASSUME HubInv, NEW c \in Clients, buildInitial(c) PROVE HubInv'
<1>. USE DEF HubInv, buildInitial, Moves, wireVars
<1>1. TypeOK'
  BY DEF TypeOK, Stages
<1>2. SendIs'
  BY DEF SendIs
<1>3. ClientsPlaced'
  BY DEF TypeOK, ClientsPlaced
<1>4. MembersPlaced'
  BY DEF TypeOK, MembersPlaced, Served
<1>5. TasksPlaced'
  BY DEF TypeOK, TasksPlaced, TaskPlaced, Idle
<1>6. BroadcastsDoNotPanic'
  BY DEF BroadcastsDoNotPanic
<1>7. Accounted'
  BY DEF TypeOK, Accounted, Served
<1>8. Attended'
  BY DEF TypeOK, Attended
<1>9. Ordered'
  BY DEF TypeOK, Ordered, Versions
<1>10. AllCovered'
  <2>. SUFFICES ASSUME version # Gone, registered # NoHub, NEW d \in members[registered]
                PROVE  Covered(d)'
    BY DEF AllCovered
  <2>1. Told(d) => Told(d)'
    BY StillTold, StillHas
  <2>2. \/ stage'[d] = stage[d] /\ draft'[d] = draft[d]
        \/ stage[d] = "registered" /\ stage'[d] = "built" /\ draft'[d] = version
    BY MembersAre DEF TypeOK
  <2>. QED BY <2>1, <2>2, StaysCovered
<1>. QED BY <1>1, <1>2, <1>3, <1>4, <1>5, <1>6, <1>7, <1>8, <1>9, <1>10

\* The initial payload is dropped only when a broadcast has filled the channel.
LEMMA sendToOneInv == ASSUME HubInv, NEW c \in Clients, sendToOne(c) PROVE HubInv'
<1>. USE DEF HubInv, sendToOne, Moves
<1>0. /\ stage[c] = "built" /\ stage' = [stage EXCEPT ![c] = "live"] /\ open[c]
      /\ draft[c] \in Versions \ {Gone} /\ send[c] \in Seq(Versions \ {Gone})
      /\ send'[c] = IF Full(c) THEN send[c] ELSE Append(send[c], draft[c])
      /\ \A d \in Clients \ {c} : send'[d] = send[d]
      /\ send' = [d \in Clients |-> send'[d]]
      /\ UNCHANGED <<version, registered, created, members, hub, draft, open, view, newest, task>>
  BY DEF TypeOK, SendIs, ClientsPlaced
<1>00. /\ send'[c] \in Seq(Versions \ {Gone}) /\ Len(send'[c]) <= ChanCap
       /\ \/ send'[c] = send[c] /\ send[c] # <<>>
          \/ /\ Len(send'[c]) = Len(send[c]) + 1 /\ send'[c][Len(send[c]) + 1] = draft[c]
             /\ \A i \in 1 .. Len(send[c]) : send'[c][i] = send[c][i]
  <2>1. CASE Full(c)
    BY <1>0, <2>1, HubAssumption DEF TypeOK, Full
  <2>2. CASE ~Full(c)
    <3>1. Len(send[c]) \in Nat /\ Len(send[c]) < ChanCap
      BY <1>0, <2>2, HubAssumption DEF Full
    <3>2. send'[c] = Append(send[c], draft[c])
      BY <1>0, <2>2
    <3>. HIDE DEF HubInv, sendToOne
    <3>. QED BY <1>0, <3>1, <3>2, HubAssumption, AppendProperties
  <2>. QED BY <2>1, <2>2
<1>1. TypeOK'
  <2>1. \A d \in Clients : send'[d] \in Seq(Versions \ {Gone}) /\ Len(send'[d]) <= ChanCap
    BY <1>0, <1>00 DEF TypeOK
  <2>. QED BY <1>0, <2>1 DEF TypeOK, Stages
<1>2. SendIs'
  BY <1>0 DEF SendIs
<1>3. ClientsPlaced'
  BY <1>0 DEF TypeOK, ClientsPlaced
<1>4. MembersPlaced'
  BY <1>0 DEF TypeOK, MembersPlaced, Served
<1>5. TasksPlaced'
  BY <1>0 DEF TypeOK, TasksPlaced, TaskPlaced, Idle
<1>6. BroadcastsDoNotPanic'
  BY <1>0 DEF BroadcastsDoNotPanic
<1>7. Accounted'
  BY <1>0 DEF TypeOK, Accounted, Served
<1>8. Attended'
  BY <1>0 DEF TypeOK, Attended
<1>9. Ordered'
  <2>1. ASSUME version # Gone, NEW d \in Clients, NEW i \in 1 .. Len(send'[d])
        PROVE  send'[d][i] <= version
    BY <1>0, <1>00, <2>1 DEF Ordered, TypeOK
  <2>. QED BY <1>0, <2>1 DEF Ordered
<1>10. AllCovered'
  <2>. SUFFICES ASSUME version # Gone, registered # NoHub, NEW d \in members[registered]
                PROVE  Covered(d)'
    BY <1>0 DEF AllCovered
  <2>1. Has(d) => Has(d)'
    BY <1>0, <1>00, MembersAre DEF Has
  <2>2. Told(d) => Told(d)'
    BY <1>0, <2>1, StillTold
  <2>3. CASE d # c
    <3>1. stage'[d] = stage[d] /\ draft'[d] = draft[d] /\ send'[d] = send[d]
      BY <1>0, <2>3, MembersAre DEF TypeOK
    <3>. QED BY <1>0, <2>2, <3>1, StaysCovered
  <2>4. CASE d = c
    <3>1. Covered(c)
      BY <2>4 DEF AllCovered
    <3>2. Told(c)'
      <4>1. CASE send'[c] = send[c] /\ send[c] # <<>>
        BY <2>2, <2>4, <3>1, <4>1 DEF Covered
      <4>2. CASE send'[c][Len(send[c]) + 1] = draft[c] /\ Len(send'[c]) = Len(send[c]) + 1
        <5>1. Told(c) \/ draft[c] = version
          BY <1>0, <3>1 DEF Covered
        <5>2. draft[c] = version => Has(c)'
          BY <1>0, <4>2 DEF Has
        <5>. QED BY <2>2, <2>4, <5>1, <5>2 DEF Told
      <4>. QED BY <1>00, <4>1, <4>2
    <3>. QED BY <2>4, <3>2 DEF Covered
  <2>. QED BY <2>3, <2>4
<1>. QED BY <1>1, <1>2, <1>3, <1>4, <1>5, <1>6, <1>7, <1>8, <1>9, <1>10

--------------------------------------------------------------------------------
(* The pumps, and the end of a client.                                     *)

\* What is taken from the buffer is the newest view or older than what is left.
LEMMA WritePumpInv == ASSUME HubInv, NEW c \in Clients, WritePump(c) PROVE HubInv'
<1>. USE DEF HubInv, WritePump
<1>0. /\ send[c] \in Seq(Versions \ {Gone}) /\ Len(send[c]) > 0
      /\ send'[c] = Tail(send[c])
      /\ \A d \in Clients \ {c} : send'[d] = send[d] /\ newest'[d] = newest[d]
      /\ send' = [d \in Clients |-> send'[d]]
      /\ newest'[c] = IF send[c][1] > newest[c] THEN send[c][1] ELSE newest[c]
      /\ newest' \in [Clients -> Versions] /\ view' \in [Clients -> Versions]
      /\ UNCHANGED <<version, registered, created, members, stage, hub, draft, open, task>>
  <2>1. send[c] \in Seq(Versions \ {Gone}) /\ Len(send[c]) > 0
    BY DEF TypeOK
  <2>2. Head(send[c]) = send[c][1] /\ send[c][1] \in Versions
    BY <2>1, HeadTailProperties
  <2>3. send' = [send EXCEPT ![c] = Tail(send[c])] /\ send = [d \in Clients |-> send[d]]
    BY DEF SendIs
  <2>. QED BY <2>1, <2>2, <2>3 DEF TypeOK
<1>00. /\ send'[c] \in Seq(Versions \ {Gone}) /\ Len(send'[c]) = Len(send[c]) - 1
       /\ \A i \in 1 .. Len(send'[c]) : send'[c][i] = send[c][i + 1]
  <2>. HIDE DEF HubInv, WritePump
  <2>1. send[c] # <<>>
    BY <1>0
  <2>. QED BY <1>0, <2>1, HeadTailProperties
<1>1. TypeOK'
  <2>1. \A d \in Clients : send'[d] \in Seq(Versions \ {Gone}) /\ Len(send'[d]) <= ChanCap
    BY <1>0, <1>00, HubAssumption DEF TypeOK
  <2>. QED BY <1>0, <2>1 DEF TypeOK
<1>2. SendIs'
  BY <1>0 DEF SendIs
<1>3. ClientsPlaced'
  BY <1>0 DEF TypeOK, ClientsPlaced
<1>4. MembersPlaced'
  BY <1>0 DEF MembersPlaced
<1>5. TasksPlaced'
  BY <1>0 DEF TasksPlaced, TaskPlaced
<1>6. BroadcastsDoNotPanic'
  BY <1>0 DEF BroadcastsDoNotPanic
<1>7. Accounted'
  BY <1>0 DEF Accounted
<1>8. Attended'
  BY <1>0 DEF Attended
<1>9. Ordered'
  <2>1. ASSUME version # Gone, NEW d \in Clients
        PROVE  newest'[d] <= version /\ \A i \in 1 .. Len(send'[d]) : send'[d][i] <= version
    BY <1>0, <1>00, <2>1 DEF Ordered
  <2>. QED BY <1>0, <2>1 DEF Ordered
<1>10. AllCovered'
  <2>. SUFFICES ASSUME version # Gone, registered # NoHub, NEW d \in members[registered]
                PROVE  Covered(d)'
    BY <1>0 DEF AllCovered
  <2>1. Has(d) => Has(d)'
    <3>1. CASE d # c
      BY <1>0, <3>1, MembersAre DEF Has
    <3>2. CASE d = c
      <4>. SUFFICES ASSUME Has(c) PROVE Has(c)'
        BY <3>2
      <4>1. newest[c] \in Nat /\ version \in Nat /\ send[c][1] \in Nat
        BY <1>0 DEF TypeOK, Versions
      <4>2. newest[c] <= version /\ send[c][1] <= version
        BY <1>0 DEF Ordered
      <4>3. CASE newest[c] = version \/ send[c][1] = version
        BY <1>0, <4>1, <4>2, <4>3 DEF Has
      <4>4. ASSUME NEW i \in 2 .. Len(send[c]), send[c][i] = version PROVE Has(c)'
        <5>1. i - 1 \in 1 .. Len(send'[c]) /\ send'[c][i - 1] = version
          BY <1>0, <1>00, <4>4
        <5>. QED BY <1>0, <5>1 DEF Has
      <4>5. \A i \in 1 .. Len(send[c]) : i = 1 \/ i \in 2 .. Len(send[c])
        BY <1>0
      <4>. QED BY <4>3, <4>4, <4>5 DEF Has
    <3>. QED BY <3>1, <3>2
  <2>2. Told(d) => Told(d)'
    BY <1>0, <2>1, StillTold
  <2>3. send'[d] # <<>> => send[d] # <<>>
    BY <1>0, MembersAre
  <2>. QED BY <1>0, <2>2, <2>3, StaysCovered
<1>. QED BY <1>1, <1>2, <1>3, <1>4, <1>5, <1>6, <1>7, <1>8, <1>9, <1>10

LEMMA UnregisterInv == ASSUME HubInv, NEW c \in Clients, Unregister(c) PROVE HubInv'
<1>. USE DEF HubInv, Unregister, Moves, wireVars
<1>1. TypeOK'
  BY DEF TypeOK, Stages
<1>2. SendIs'
  BY DEF SendIs
<1>3. ClientsPlaced'
  BY DEF TypeOK, ClientsPlaced
<1>4. MembersPlaced'
  BY DEF TypeOK, MembersPlaced, Served
<1>5. TasksPlaced'
  BY DEF TypeOK, TasksPlaced, TaskPlaced, Idle
<1>6. BroadcastsDoNotPanic'
  BY DEF TypeOK, BroadcastsDoNotPanic
<1>7. Accounted'
  BY DEF TypeOK, Accounted, Served
<1>8. Attended'
  BY DEF TypeOK, Attended
<1>9. Ordered'
  BY DEF Ordered
<1>10. AllCovered'
  <2>1. registered # NoHub => members'[registered] \subseteq members[registered]
    BY MembersAre DEF TypeOK
  <2>2. \A d \in members[registered] :
            \/ stage'[d] = stage[d] /\ draft'[d] = draft[d]
            \/ stage[d] \notin {"registered", "built"}
    BY DEF TypeOK
  <2>. QED BY <2>1, <2>2, Covers
<1>. QED BY <1>1, <1>2, <1>3, <1>4, <1>5, <1>6, <1>7, <1>8, <1>9, <1>10

\* A hub that is kept has members, who will come here themselves.
LEMMA CleanupIfEmptyInv == ASSUME HubInv, NEW c \in Clients, CleanupIfEmpty(c) PROVE HubInv'
<1>. USE DEF HubInv, CleanupIfEmpty, Moves, wireVars
<1>0. registered' \in {registered, NoHub}
  OBVIOUS
<1>1. TypeOK'
  BY <1>0 DEF TypeOK, Stages
<1>2. SendIs'
  BY DEF SendIs
<1>3. ClientsPlaced'
  <2>1. registered' \in 0 .. created
    BY <1>0 DEF ClientsPlaced, NoHub
  <2>2. \A d \in Clients : stage'[d] = stage[d] \/ (stage[d] = "unregistered" /\ stage'[d] = "closed")
    BY DEF TypeOK
  <2>. HIDE DEF CleanupIfEmpty
  <2>3. UNCHANGED <<created, hub, open, send, draft>>
    BY DEF CleanupIfEmpty
  <2>. QED BY <2>1, <2>2, <2>3 DEF ClientsPlaced
<1>4. MembersPlaced'
  BY DEF TypeOK, MembersPlaced, Served
<1>5. TasksPlaced'
  BY DEF TypeOK, TasksPlaced, TaskPlaced, Idle
<1>6. BroadcastsDoNotPanic'
  BY DEF BroadcastsDoNotPanic
<1>7. Accounted'
  BY DEF TypeOK, Accounted, Served
<1>8. Attended'
  <2>. SUFFICES ASSUME registered' # NoHub PROVE \E d \in Clients : stage'[d] \notin {"new", "closed"}
    BY DEF Attended
  <2>1. registered' = registered /\ registered # NoHub /\ members[registered] # {}
    BY <1>0
  <2>2. PICK d \in members[registered] : TRUE
    BY <2>1
  <2>3. d \in Clients /\ stage[d] \in Served
    BY <2>1, <2>2, MembersAre DEF MembersPlaced
  <2>4. stage'[d] = stage[d]
    BY <2>3 DEF TypeOK, Served
  <2>. QED BY <2>3, <2>4 DEF Served
<1>9. Ordered'
  BY DEF Ordered
<1>10. AllCovered'
  <2>1. \A d \in members[registered] :
            \/ stage'[d] = stage[d] /\ draft'[d] = draft[d]
            \/ stage[d] \notin {"registered", "built"}
    BY DEF TypeOK
  <2>. QED BY <1>0, <2>1, Covers
<1>. QED BY <1>1, <1>2, <1>3, <1>4, <1>5, <1>6, <1>7, <1>8, <1>9, <1>10

--------------------------------------------------------------------------------
(* A mutation and its broadcast.                                           *)

\* A task that moves on, and nothing else but the room.
LEMMA TaskMoves ==
    ASSUME HubInv, NEW b \in Broadcasters, NEW t \in Tasks, task' = [task EXCEPT ![b] = t],
           TaskPlaced(t), t.evict = task[b].evict,
           version' \in Versions, version' # Gone => version # Gone /\ version <= version',
           version' # Gone => t.payload <= version',
           UNCHANGED <<registered, created, members, stage, hub, draft, send, open, view, newest>>
    PROVE  /\ TypeOK' /\ SendIs' /\ ClientsPlaced' /\ MembersPlaced' /\ TasksPlaced'
           /\ BroadcastsDoNotPanic' /\ Accounted' /\ Attended' /\ Ordered'
<1>. USE DEF HubInv
<1>0. \A e \in Broadcasters : task'[e] = IF e = b THEN t ELSE task[e]
  BY DEF TypeOK
<1>1. TypeOK'
  BY DEF TypeOK
<1>2. SendIs' /\ ClientsPlaced' /\ MembersPlaced' /\ Attended'
  BY DEF SendIs, ClientsPlaced, MembersPlaced, Attended
<1>3. TasksPlaced'
  BY <1>0 DEF TasksPlaced, TaskPlaced
<1>4. \A e \in Broadcasters : task'[e].evict = task[e].evict
  BY <1>0
<1>5. BroadcastsDoNotPanic' /\ Accounted'
  BY <1>4 DEF BroadcastsDoNotPanic, Accounted
<1>6. Ordered'
  <2>. SUFFICES ASSUME version' # Gone PROVE Ordered'
    BY DEF Ordered
  <2>1. version \in Nat /\ version' \in Nat
    BY DEF TypeOK, Versions
  <2>2. ASSUME NEW c \in Clients
        PROVE  draft[c] <= version' /\ newest[c] <= version' /\
               \A i \in 1 .. Len(send[c]) : send[c][i] <= version'
    <3>1. draft[c] \in Nat /\ newest[c] \in Nat /\ \A i \in 1 .. Len(send[c]) : send[c][i] \in Nat
      BY DEF TypeOK, Versions
    <3>. QED BY <2>1, <3>1 DEF Ordered
  <2>3. ASSUME NEW e \in Broadcasters PROVE task'[e].payload <= version'
    <3>1. task[e].payload \in Nat
      BY DEF TypeOK, Tasks, Versions
    <3>. QED BY <1>0, <2>1, <3>1 DEF Ordered
  <2>. QED BY <2>2, <2>3 DEF Ordered
<1>. QED BY <1>1, <1>2, <1>3, <1>5, <1>6

\* Everybody is told of a mutation by the task that made it.
LEMMA MutateInv == ASSUME HubInv, NEW b \in Broadcasters, Mutate(b) PROVE HubInv'
<1>. DEFINE t == [task[b] EXCEPT !.pc = "mutated"]
<1>0. /\ task[b] \in Tasks /\ task[b] = Idle /\ t \in Tasks /\ t = [Idle EXCEPT !.pc = "mutated"]
      /\ task' = [task EXCEPT ![b] = t]
      /\ version' = version + 1 /\ version' \in Versions /\ version \in Nat \ {Gone}
      /\ UNCHANGED <<registered, created, members, stage, hub, draft, send, open, view, newest>>
  <2>1. /\ task[b].pc = "idle" /\ task' = [task EXCEPT ![b] = t] /\ version' = version + 1
        /\ version # Gone /\ version < MaxVersion
        /\ UNCHANGED <<registered, created, members, stage, hub, draft, send, open, view, newest>>
    BY DEF Mutate, Goes, clientVars, wireVars
  <2>2. task[b] \in Tasks /\ task[b] = Idle
    BY <2>1 DEF HubInv, TypeOK, TasksPlaced, TaskPlaced
  <2>3. t \in Tasks /\ t = [Idle EXCEPT !.pc = "mutated"]
    BY <2>2 DEF Tasks
  <2>4. version' \in Versions /\ version \in Nat \ {Gone}
    BY <2>1, HubAssumption DEF HubInv, TypeOK, Versions, Gone
  <2>. QED BY <2>1, <2>2, <2>3, <2>4
<1>1. t.pc = "mutated" /\ TaskPlaced(t) /\ t.evict = task[b].evict /\ t.payload = Gone
  BY <1>0 DEF Idle, TaskPlaced
<1>2. AllCovered'
  BY <1>0, <1>1 DEF HubInv, TypeOK, AllCovered, Covered, Told, OnItsWay
<1>. HIDE DEF t
<1>3. version <= version' /\ t.payload <= version' /\ version # Gone
  BY <1>0, <1>1 DEF Gone
<1>. QED BY <1>0, <1>1, <1>2, <1>3, TaskMoves DEF HubInv

LEMMA BroadcastRoomInv == ASSUME HubInv, NEW b \in Broadcasters, BroadcastRoom(b) PROVE HubInv'
<1>. DEFINE t == IF registered = NoHub THEN Idle
                 ELSE [task[b] EXCEPT !.pc = "found", !.hub = registered]
<1>0. /\ task[b] \in Tasks /\ task[b].pc = "mutated" /\ t \in Tasks
      /\ task' = [task EXCEPT ![b] = t]
      /\ UNCHANGED <<version, registered, created, members, stage, hub, draft, send, open, view, newest>>
  <2>1. /\ task[b].pc = "mutated" /\ task' = [task EXCEPT ![b] = t]
        /\ UNCHANGED <<version, registered, created, members, stage, hub, draft, send, open, view, newest>>
    BY DEF BroadcastRoom, Goes, clientVars, wireVars
  <2>2. task[b] \in Tasks /\ registered \in Hubs \union {NoHub} /\ Idle \in Tasks
    BY HubAssumption DEF HubInv, TypeOK, Tasks, Idle, Versions, Gone
  <2>3. t \in Tasks
    BY <2>2 DEF Tasks
  <2>. QED BY <2>1, <2>2, <2>3
<1>1. /\ t.evict = task[b].evict /\ t.payload \in {Gone, task[b].payload} /\ TaskPlaced(t)
      /\ registered # NoHub => t.pc = "found" /\ t.hub = registered
  <2>1. task[b].todo = {} /\ task[b].to = {} /\ task[b].evict = {}
    BY <1>0 DEF HubInv, TasksPlaced, TaskPlaced
  <2>2. CASE registered = NoHub
    BY <2>1, <2>2 DEF Idle, TaskPlaced
  <2>3. CASE registered # NoHub
    BY <1>0, <2>1, <2>3 DEF TaskPlaced, Tasks
  <2>. QED BY <2>2, <2>3
<1>2. AllCovered'
  BY <1>0, <1>1 DEF HubInv, TypeOK, AllCovered, Covered, Told, OnItsWay, Has
<1>. HIDE DEF t
<1>3. version \in Versions /\ version <= version /\ (version # Gone => t.payload <= version)
  BY <1>0, <1>1 DEF HubInv, TypeOK, Ordered, Versions, Gone
<1>. QED BY <1>0, <1>1, <1>2, <1>3, TaskMoves DEF HubInv

\* Every client of the registered hub is on the list.
LEMMA copyClientsInv == ASSUME HubInv, NEW b \in Broadcasters, copyClients(b) PROVE HubInv'
<1>. DEFINE t == [task[b] EXCEPT !.pc = "sending", !.todo = members[task[b].hub]]
<1>0. /\ task[b] \in Tasks /\ task[b].pc = "found" /\ task[b].hub \in Hubs
      /\ task' = [task EXCEPT ![b] = t]
      /\ UNCHANGED <<version, registered, created, members, stage, hub, draft, send, open, view, newest>>
  BY DEF HubInv, copyClients, Goes, clientVars, wireVars, TypeOK, Tasks, TasksPlaced, TaskPlaced
<1>1. /\ t \in Tasks /\ t.evict = task[b].evict /\ t.payload = task[b].payload /\ t.pc = "sending"
      /\ t.todo = members[task[b].hub] /\ t.to = {} /\ t.hub = task[b].hub /\ t.evict = {}
  BY <1>0, MembersAre DEF HubInv, TasksPlaced, TaskPlaced, Tasks
<1>2. AllCovered'
  BY <1>0, <1>1 DEF HubInv, TypeOK, AllCovered, Covered, Told, OnItsWay, Has
<1>. HIDE DEF t
<1>3. TaskPlaced(t)
  <2>1. \A c \in members[task[b].hub] : hub[c] = task[b].hub /\ stage[c] \notin {"new", "gotHub"}
    BY <1>0 DEF HubInv, MembersPlaced, Served
  <2>2. task[b].hub # NoHub
    BY <1>0, MembersAre DEF NoHub
  <2>. QED BY <1>1, <2>1, <2>2 DEF TaskPlaced
<1>4. version \in Versions /\ version <= version /\ (version # Gone => t.payload <= version)
  BY <1>0, <1>1 DEF HubInv, TypeOK, Ordered, Versions, Gone
<1>. QED BY <1>0, <1>1, <1>2, <1>3, <1>4, TaskMoves DEF HubInv

\* The payload that is built is the view of now.
LEMMA buildPayloadInv ==
    ASSUME HubInv, NEW b \in Broadcasters, NEW c \in Clients, buildPayload(b, c) PROVE HubInv'
<1>. DEFINE t == [task[b] EXCEPT !.pc = IF version = Gone THEN "sending" ELSE "payload",
                                 !.todo = @ \ {c}, !.to = {c}, !.payload = version]
<1>0. /\ task[b] \in Tasks /\ task[b].pc = "sending" /\ c \in task[b].todo /\ version \in Versions
      /\ task' = [task EXCEPT ![b] = t]
      /\ UNCHANGED <<version, registered, created, members, stage, hub, draft, send, open, view, newest>>
  BY DEF HubInv, buildPayload, Goes, clientVars, wireVars, TypeOK
<1>1. /\ t \in Tasks /\ t.evict = task[b].evict /\ t.payload = version
      /\ t.pc = IF version = Gone THEN "sending" ELSE "payload"
      /\ t.todo = task[b].todo \ {c} /\ t.to = {c} /\ t.hub = task[b].hub
  BY <1>0 DEF Tasks
<1>2. AllCovered'
  BY <1>0, <1>1 DEF HubInv, TypeOK, AllCovered, Covered, Told, OnItsWay, Has
<1>. HIDE DEF t
<1>3. TaskPlaced(t)
  BY <1>0, <1>1 DEF HubInv, TasksPlaced, TaskPlaced
<1>4. version <= version /\ (version # Gone => t.payload <= version)
  BY <1>0, <1>1 DEF Versions
<1>. QED BY <1>0, <1>1, <1>2, <1>3, <1>4, TaskMoves DEF HubInv

\* Who is still in the hub gets the payload or is taken out of it.
LEMMA deliverInv == ASSUME HubInv, NEW b \in Broadcasters, deliver(b) PROVE HubInv'
<1>. DEFINE to == {c \in task[b].to : c \in members[task[b].hub]}
            slow == {c \in to : Full(c)}
            t == [task[b] EXCEPT !.pc = "sending", !.to = {}, !.evict = @ \union slow]
<1>0. /\ task[b] \in Tasks /\ task[b].pc = "payload" /\ task[b].hub \in Hubs
      /\ task[b].payload \in Versions \ {Gone}
      /\ task' = [task EXCEPT ![b] = t]
      /\ members' = [members EXCEPT ![task[b].hub] = @ \ slow]
      /\ send' = [c \in Clients |->
                    IF c \in to \ slow THEN Append(send[c], task[b].payload) ELSE send[c]]
      /\ UNCHANGED <<version, registered, created, stage, hub, draft, open, view, newest>>
  BY DEF HubInv, deliver, Goes, clientVars, TypeOK, Tasks, TasksPlaced, TaskPlaced
<1>1. to \subseteq task[b].to /\ to \subseteq members[task[b].hub] /\ slow \subseteq to /\ to \subseteq Clients
  BY <1>0 DEF Tasks
<1>2. /\ t \in Tasks /\ t.pc = "sending" /\ t.hub = task[b].hub /\ t.todo = task[b].todo
      /\ t.to = {} /\ t.payload = task[b].payload /\ t.evict = task[b].evict \union slow
  BY <1>0, <1>1 DEF Tasks
<1>3. \A c \in slow : Len(send[c]) >= ChanCap
  BY DEF Full
<1>4. \A c \in to \ slow : Len(send[c]) < ChanCap
  <2>. SUFFICES ASSUME NEW c \in to \ slow PROVE Len(send[c]) < ChanCap
    OBVIOUS
  <2>1. Len(send[c]) \in Nat /\ ~(Len(send[c]) >= ChanCap)
    BY <1>1 DEF HubInv, TypeOK, Full
  <2>. QED BY <2>1, HubAssumption
<1>. HIDE DEF to, slow, t
<1>5. ASSUME NEW c \in Clients
      PROVE  /\ send'[c] \in Seq(Versions \ {Gone}) /\ Len(send'[c]) <= ChanCap
             /\ \/ send'[c] = send[c] /\ c \notin to \ slow
                \/ /\ c \in to \ slow /\ Len(send'[c]) = Len(send[c]) + 1
                   /\ send'[c][Len(send[c]) + 1] = task[b].payload
                   /\ \A i \in 1 .. Len(send[c]) : send'[c][i] = send[c][i]
  <2>0. send[c] \in Seq(Versions \ {Gone}) /\ Len(send[c]) \in Nat /\ Len(send[c]) <= ChanCap
    BY DEF HubInv, TypeOK
  <2>1. CASE c \in to \ slow
    <3>1. send'[c] = Append(send[c], task[b].payload)
      BY <1>0, <2>1
    <3>. QED BY <1>0, <1>4, <2>0, <2>1, <3>1, HubAssumption, AppendProperties
  <2>2. CASE c \notin to \ slow
    BY <1>0, <2>0, <2>2
  <2>. QED BY <2>1, <2>2
<1>6. \A e \in Broadcasters : task'[e] = IF e = b THEN t ELSE task[e]
  BY <1>0 DEF HubInv, TypeOK
<1>7. /\ members'[task[b].hub] = members[task[b].hub] \ slow
      /\ \A h \in Hubs \ {task[b].hub} : members'[h] = members[h]
  BY <1>0 DEF HubInv, TypeOK
<1>8. \A c \in slow : /\ open[c] /\ hub[c] = task[b].hub
                      /\ \A h \in Hubs : c \notin members'[h]
                      /\ \A e \in Broadcasters : c \notin task[e].evict
  BY <1>0, <1>1, <1>7, MembersAre DEF HubInv, MembersPlaced, BroadcastsDoNotPanic
<1>11. TypeOK'
  BY <1>0, <1>1, <1>2, <1>5, <1>7 DEF HubInv, TypeOK
<1>12. SendIs'
  BY <1>0 DEF SendIs
<1>13. ClientsPlaced'
  <2>1. \A c \in to : stage[c] \notin {"new", "gotHub"}
    BY <1>0, <1>1 DEF HubInv, TasksPlaced, TaskPlaced
  <2>2. \A c \in Clients : stage[c] \in {"new", "gotHub"} => send'[c] = send[c]
    BY <1>5, <2>1
  <2>. QED BY <1>0, <2>2 DEF HubInv, ClientsPlaced
<1>14. MembersPlaced'
  BY <1>0, <1>7 DEF HubInv, MembersPlaced
<1>15. TasksPlaced'
  <2>1. TaskPlaced(task[b]) /\ \A c \in slow : c \in task[b].to
    BY <1>1 DEF HubInv, TasksPlaced
  <2>2. TaskPlaced(t)
    BY <1>0, <1>2, <2>1 DEF TaskPlaced
  <2>. QED BY <1>0, <1>6, <2>2 DEF HubInv, TasksPlaced, TaskPlaced
<1>16. BroadcastsDoNotPanic'
  <2>1. \A h \in Hubs : members'[h] \subseteq members[h]
    BY <1>7
  <2>2. \A e \in Broadcasters : \A c \in task'[e].evict : c \in task[e].evict \/ (e = b /\ c \in slow)
    BY <1>2, <1>6
  <2>. QED BY <1>0, <1>8, <2>1, <2>2 DEF HubInv, BroadcastsDoNotPanic
<1>17. Accounted'
  <2>1. ASSUME NEW c \in Clients, stage[c] \in Served
        PROVE  c \in members'[hub[c]] \/ ~open[c] \/ \E e \in Broadcasters : c \in task'[e].evict
    <3>1. hub[c] \in Hubs
      BY <2>1, HubOf DEF Served
    <3>2. CASE c \in members[hub[c]]
      BY <1>2, <1>6, <1>7, <3>1, <3>2
    <3>3. CASE c \notin members[hub[c]]
      BY <1>2, <1>6, <2>1, <3>3 DEF HubInv, Accounted
    <3>. QED BY <3>2, <3>3
  <2>. QED BY <1>0, <2>1 DEF Accounted
<1>18. Attended'
  BY <1>0 DEF HubInv, Attended
<1>19. Ordered'
  <2>. SUFFICES ASSUME version # Gone PROVE Ordered'
    BY <1>0 DEF Ordered
  <2>1. \A e \in Broadcasters : task'[e].payload = task[e].payload
    BY <1>2, <1>6
  <2>2. ASSUME NEW c \in Clients, NEW i \in 1 .. Len(send'[c]) PROVE send'[c][i] <= version
    <3>1. CASE send'[c] = send[c]
      BY <3>1 DEF HubInv, Ordered
    <3>2. CASE /\ Len(send'[c]) = Len(send[c]) + 1
               /\ send'[c][Len(send[c]) + 1] = task[b].payload
               /\ \A j \in 1 .. Len(send[c]) : send'[c][j] = send[c][j]
      <4>1. i = Len(send[c]) + 1 \/ i \in 1 .. Len(send[c])
        BY <3>2 DEF HubInv, TypeOK
      <4>. QED BY <3>2, <4>1 DEF HubInv, Ordered
    <3>. QED BY <1>5, <3>1, <3>2
  <2>. QED BY <1>0, <2>1, <2>2 DEF HubInv, Ordered
<1>20. AllCovered'
  <2>. SUFFICES ASSUME version # Gone, registered # NoHub, NEW d \in members'[registered]
                PROVE  Covered(d)'
    BY <1>0 DEF AllCovered
  <2>0. d \in members[registered] /\ d \in Clients /\ hub[d] = registered /\ d \notin slow
    BY <1>7, <1>8, MembersAre DEF HubInv, MembersPlaced
  <2>1. Has(d) => Has(d)'
    <3>1. CASE send'[d] = send[d]
      BY <1>0, <3>1 DEF Has
    <3>2. CASE /\ Len(send'[d]) = Len(send[d]) + 1
               /\ \A j \in 1 .. Len(send[d]) : send'[d][j] = send[d][j]
      BY <1>0, <2>0, <3>2 DEF Has, HubInv, TypeOK
    <3>. QED BY <1>5, <2>0, <3>1, <3>2
  <2>2. ASSUME d \in task[b].to, task[b].payload = version PROVE Has(d)'
    <3>1. task[b].hub = registered
      BY <2>0, <2>2 DEF HubInv, TasksPlaced, TaskPlaced
    <3>2. d \in to
      BY <2>0, <2>2, <3>1 DEF to
    <3>3. Len(send'[d]) = Len(send[d]) + 1 /\ send'[d][Len(send[d]) + 1] = version
      BY <1>5, <2>0, <2>2, <3>2
    <3>4. Len(send[d]) + 1 \in 1 .. Len(send'[d])
      BY <2>0, <3>3 DEF HubInv, TypeOK
    <3>. QED BY <1>0, <3>3, <3>4 DEF Has
  <2>3. \A e \in Broadcasters : OnItsWay(task[e], d) => OnItsWay(task[e], d)' \/ Has(d)'
    BY <1>0, <1>2, <1>6, <2>2 DEF OnItsWay
  <2>4. Told(d) => Told(d)'
    BY <2>1, <2>3 DEF Told
  <2>5. Covered(d)
    BY <2>0 DEF HubInv, AllCovered
  <2>6. send'[d] # <<>> => send[d] # <<>> \/ Told(d)'
    BY <1>0, <1>1, <1>5, <2>0, <2>4, <2>5 DEF Covered
  <2>7. \A e \in Broadcasters :
            task'[e].pc = "payload" /\ d \in task'[e].to => task[e].pc = "payload" /\ d \in task[e].to
    BY <1>2, <1>6
  <2>. QED BY <1>0, <2>0, <2>4, <2>6, <2>7, StaysCovered
<1>. QED BY <1>11, <1>12, <1>13, <1>14, <1>15, <1>16, <1>17, <1>18, <1>19, <1>20 DEF HubInv

\* Nobody is left to be told when the channels of the evicted are closed.
LEMMA closeEvictedInv == ASSUME HubInv, NEW b \in Broadcasters, closeEvicted(b) PROVE HubInv'
<1>0. /\ task[b].todo = {} /\ task[b].pc = "sending"
      /\ Idle \in Tasks /\ task' = [task EXCEPT ![b] = Idle]
      /\ \A c \in Clients : open'[c] <=> open[c] /\ c \notin task[b].evict
      /\ open' \in [Clients -> BOOLEAN]
      /\ UNCHANGED <<version, registered, created, members, stage, hub, draft, send, view, newest>>
  <2>1. /\ task[b].todo = {} /\ task[b].pc = "sending" /\ task' = [task EXCEPT ![b] = Idle]
        /\ open' = [c \in Clients |-> open[c] /\ c \notin task[b].evict]
        /\ UNCHANGED <<version, registered, created, members, stage, hub, draft, send, view, newest>>
    BY DEF closeEvicted, Goes, clientVars
  <2>2. Idle \in Tasks
    BY HubAssumption DEF Tasks, Idle, Versions, Gone
  <2>3. open' \in [Clients -> BOOLEAN]
    BY <2>1, Zenon
  <2>4. \A c \in Clients : open'[c] <=> open[c] /\ c \notin task[b].evict
    BY <2>1, Zenon
  <2>. QED BY <2>1, <2>2, <2>3, <2>4
<1>1. \A e \in Broadcasters : task'[e] = IF e = b THEN Idle ELSE task[e]
  BY <1>0 DEF HubInv, TypeOK
<1>2. TypeOK'
  BY <1>0 DEF HubInv, TypeOK
<1>3. SendIs' /\ MembersPlaced' /\ Attended'
  BY <1>0 DEF HubInv, SendIs, MembersPlaced, Attended
<1>4. ClientsPlaced'
  BY <1>0 DEF HubInv, ClientsPlaced, TasksPlaced, TaskPlaced
<1>5. TasksPlaced'
  <2>1. TaskPlaced(Idle)'
    BY DEF TaskPlaced, Idle
  <2>. QED BY <1>0, <1>1, <2>1 DEF HubInv, TasksPlaced, TaskPlaced
<1>6. \A e \in Broadcasters : task'[e].evict = IF e = b THEN {} ELSE task[e].evict
  BY <1>1 DEF Idle
<1>7. BroadcastsDoNotPanic'
  <2>1. ASSUME NEW h \in Hubs, NEW c \in members[h] PROVE open'[c]
    BY <1>0, <2>1, MembersAre DEF HubInv, BroadcastsDoNotPanic
  <2>2. ASSUME NEW e \in Broadcasters, NEW c \in task'[e].evict
        PROVE  /\ open'[c]
               /\ \A h \in Hubs : c \notin members[h]
               /\ \A d \in Broadcasters \ {e} : c \notin task'[d].evict
    <3>1. e # b /\ c \in task[e].evict /\ c \in Clients
      BY <1>6, <2>2 DEF HubInv, TypeOK, Tasks
    <3>. QED BY <1>0, <1>6, <3>1 DEF HubInv, BroadcastsDoNotPanic
  <2>. QED BY <1>0, <2>1, <2>2 DEF BroadcastsDoNotPanic
<1>8. Accounted'
  <2>1. ASSUME NEW c \in Clients, stage[c] \in Served
        PROVE  c \in members[hub[c]] \/ ~open'[c] \/ \E e \in Broadcasters : c \in task'[e].evict
    BY <1>0, <1>6, <2>1 DEF HubInv, Accounted
  <2>. QED BY <1>0, <2>1 DEF Accounted
<1>9. Ordered'
  BY <1>0, <1>1 DEF HubInv, TypeOK, Ordered, Idle, Versions, Gone
<1>10. AllCovered'
  <2>. SUFFICES ASSUME version # Gone, registered # NoHub, NEW d \in members[registered]
                PROVE  Covered(d)'
    BY <1>0 DEF AllCovered
  <2>1. Has(d) => Has(d)'
    BY <1>0 DEF Has
  <2>2. \A e \in Broadcasters : OnItsWay(task[e], d) => OnItsWay(task[e], d)'
    BY <1>0, <1>1 DEF OnItsWay
  <2>3. Told(d) => Told(d)'
    BY <2>1, <2>2 DEF Told
  <2>4. \A e \in Broadcasters :
            task'[e].pc = "payload" /\ d \in task'[e].to => task[e].pc = "payload" /\ d \in task[e].to
    BY <1>1 DEF Idle
  <2>. QED BY <1>0, <2>3, <2>4, StaysCovered
<1>. QED BY <1>2, <1>3, <1>4, <1>5, <1>7, <1>8, <1>9, <1>10 DEF HubInv

LEMMA sweepIdleInv == ASSUME HubInv, sweepIdle PROVE HubInv'
<1>1. /\ version' = Gone /\ version' \in Versions
      /\ UNCHANGED <<registered, created, members, stage, hub, draft, send, open, view, newest, task>>
  BY HubAssumption DEF sweepIdle, clientVars, wireVars, Versions, Gone
<1>2. TypeOK' /\ SendIs' /\ ClientsPlaced' /\ MembersPlaced' /\ TasksPlaced'
  BY <1>1 DEF HubInv, TypeOK, SendIs, ClientsPlaced, MembersPlaced, TasksPlaced, TaskPlaced
<1>3. BroadcastsDoNotPanic' /\ Accounted' /\ Attended'
  BY <1>1 DEF HubInv, BroadcastsDoNotPanic, Accounted, Attended
<1>4. Ordered' /\ AllCovered'
  BY <1>1 DEF Ordered, AllCovered
<1>. QED BY <1>2, <1>3, <1>4 DEF HubInv

--------------------------------------------------------------------------------
(* The theorems.                                                           *)

\* The inductive invariant: who is in which hub, who is to be evicted, and that
\* whoever has not been sent the last mutation is about to be.
THEOREM HubInvariance == Spec => []HubInv
<1>1. Init => HubInv
  <2>. SUFFICES ASSUME Init PROVE HubInv
    OBVIOUS
  <2>1. TypeOK
    <3>1. Idle \in Tasks
      BY HubAssumption DEF Tasks, Idle, Versions, Gone
    <3>. QED BY <3>1, HubAssumption DEF Init, TypeOK, Versions, Gone, Stages
  <2>2. SendIs /\ ClientsPlaced /\ MembersPlaced /\ TasksPlaced
    BY DEF Init, SendIs, ClientsPlaced, MembersPlaced, TasksPlaced, TaskPlaced, Idle, NoHub
  <2>3. BroadcastsDoNotPanic /\ Accounted /\ Attended /\ AllCovered
    BY DEF Init, BroadcastsDoNotPanic, Accounted, Attended, AllCovered, Idle, Served
  <2>4. Ordered
    BY DEF Init, Ordered, Idle, Gone
  <2>. QED BY <2>1, <2>2, <2>3, <2>4 DEF HubInv
<1>2. HubInv /\ [Next]_vars => HubInv'
  <2>. SUFFICES ASSUME HubInv, [Next]_vars PROVE HubInv'
    OBVIOUS
  <2>1. ASSUME NEW c \in Clients,
               GetOrCreate(c) \/ Connecting(c) \/ WritePump(c) \/ Unregister(c) \/ CleanupIfEmpty(c)
        PROVE  HubInv'
    BY <2>1, GetOrCreateInv, RegisterInv, buildInitialInv, sendToOneInv, WritePumpInv,
       UnregisterInv, CleanupIfEmptyInv DEF Connecting
  <2>2. ASSUME NEW b \in Broadcasters, Mutate(b) \/ Broadcast(b) PROVE HubInv'
    BY <2>2, MutateInv, BroadcastRoomInv, copyClientsInv, buildPayloadInv, deliverInv,
       closeEvictedInv DEF Broadcast
  <2>3. CASE UNCHANGED vars
    <3>1. UNCHANGED <<version, registered, created, members, stage, hub, send, open, draft, view,
                      newest, task>>
      BY <2>3 DEF vars
    <3>2. TypeOK' /\ SendIs' /\ ClientsPlaced' /\ MembersPlaced' /\ TasksPlaced'
      BY <3>1 DEF HubInv, TypeOK, SendIs, ClientsPlaced, MembersPlaced, TasksPlaced, TaskPlaced
    <3>3. BroadcastsDoNotPanic' /\ Accounted' /\ Attended' /\ Ordered'
      BY <3>1 DEF HubInv, BroadcastsDoNotPanic, Accounted, Attended, Ordered
    <3>4. AllCovered'
      BY <3>1 DEF HubInv, AllCovered, Covered, Told, OnItsWay, Has
    <3>. QED BY <3>2, <3>3, <3>4 DEF HubInv
  <2>. QED BY <2>1, <2>2, <2>3, sweepIdleInv DEF Next
<1>. QED BY <1>1, <1>2, PTL DEF Spec

\* The hub's state stays typed: in particular no buffer grows past its capacity
\* (hub.go:71-91, 102-112).
THEOREM HubTyping == Spec => []TypeOK
<1>1. HubInv => TypeOK
  BY DEF HubInv
<1>. QED BY <1>1, HubInvariance, PTL

\* However many broadcasts of a room overlap, none sends on a closed channel or
\* closes one twice (hub.go:71-91).
THEOREM BroadcastsNeverPanic == Spec => []BroadcastsDoNotPanic
<1>1. HubInv => BroadcastsDoNotPanic
  BY DEF HubInv
<1>. QED BY <1>1, HubInvariance, PTL

\* A hub outlives its last connection in no order of connecting and closing:
\* whoever is left in a hub cleans up after it (registry.go:58-71).
THEOREM HubsDoNotLeak == Spec => []NoHubLeaks
<1>1. HubInv => NoHubLeaks
  BY DEF HubInv, Attended, NoHubLeaks
<1>. QED BY <1>1, HubInvariance, PTL

\* When nothing is under way every client of the room's hub has been sent the
\* latest view: overlapping broadcasts, dropped initial payloads, skipped and
\* evicted clients never add up to a missed mutation (hub.go:54-93, 102-112).
THEOREM MutationsReach == Spec => []EveryMutationReaches
<1>1. HubInv => EveryMutationReaches
  <2>. SUFFICES ASSUME HubInv, Quiet, version # Gone, NEW c \in Clients, InHub(c)
                PROVE  newest[c] = version
    BY DEF EveryMutationReaches
  <2>1. \A b \in Broadcasters : task[b].evict = {} /\ ~OnItsWay(task[b], c)
    BY DEF Quiet, Idle, OnItsWay
  <2>2. c \in members[registered] /\ registered # NoHub
    BY <2>1 DEF HubInv, Accounted, ClientsPlaced, InHub, Served, NoHub
  <2>3. Told(c)
    BY <2>2 DEF HubInv, AllCovered, Covered, InHub
  <2>4. Len(send[c]) = 0
    BY DEF Quiet
  <2>. QED BY <2>1, <2>3, <2>4 DEF Told, Has
<1>. QED BY <1>1, HubInvariance, PTL
================================================================================
