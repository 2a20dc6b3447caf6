------------------------------ MODULE RoomService ------------------------------
(***************************************************************************)
(* The room under one code as a browser sees it: the requests of           *)
(* frontend/src/lib/api.ts and what the server answers.  RoomStore and Hub  *)
(* say how the server comes to its answers; here a room is the numbered    *)
(* history of its states, and of a state only this is kept: of which room  *)
(* under the code it is.  The store never removes a player from a room, so *)
(* a token is good for as long as its room is stored.                      *)
(***************************************************************************)
EXTENDS Integers, Sequences

CONSTANTS
    Tokens,     \* the player tokens the model may issue
    MaxStates,  \* bound of the model: how many states are told apart
    MaxRooms    \* bound of the model: how many rooms get the code in turn

ASSUME ServiceAssumption ==
    Tokens \subseteq Nat \ {0} /\ MaxStates \in Nat \ {0} /\ MaxRooms \in Nat \ {0}

VARIABLES
    history,    \* history[v]: which room under the code the v-th state is a state of
    exists,     \* the last of these rooms is still stored
    issuedIn    \* the room each token was issued in, NoRoom before it is

serviceVars == <<history, exists, issuedIn>>

NoToken == 0
NoRoom == 0
Latest == Len(history)
Room == history[Latest]

\* The token is that of a player of the stored room.
Member(t) == t # NoToken /\ exists /\ issuedIn[t] = Room

\* A RoomState: the v-th state as the holder of token t is shown it.
View(v, t) == [state |-> v, as |-> t]
NoView == View(0, NoToken)
Views == [state : 0 .. MaxStates, as : Tokens \union {NoToken}]

\* Some player of the view has isYou.
IsYou(view) == view.as # NoToken /\ issuedIn[view.as] = history[view.state]

ServiceInit ==
    /\ history = <<1>>
    /\ exists = TRUE
    /\ issuedIn = [t \in Tokens |-> NoRoom]

--------------------------------------------------------------------------------
\* A new state of the present room.
Changes ==
    /\ exists
    /\ Latest < MaxStates
    /\ history' = Append(history, Room)
    /\ UNCHANGED exists

\* Another player changes the room.
Change == Changes /\ UNCHANGED issuedIn

\* The room is swept, or the process that held it ends.
Vanish == exists /\ exists' = FALSE /\ UNCHANGED <<history, issuedIn>>

\* A new room gets the same code.
Begins ==
    /\ ~exists /\ Room < MaxRooms /\ Latest < MaxStates
    /\ exists' = TRUE
    /\ history' = Append(history, Room + 1)

Recreate == Begins /\ UNCHANGED issuedIn

\* The next token is issued, in a room.
Issues(t, room) ==
    /\ issuedIn[t] = NoRoom
    /\ \A u \in Tokens : issuedIn[u] = NoRoom => t <= u
    /\ issuedIn' = [issuedIn EXCEPT ![t] = room]

Others == Change \/ Vanish \/ Recreate

--------------------------------------------------------------------------------
(* A request: where it is, and its answer.  "failed" stands for whatever   *)
(* request() throws that is neither an answer nor not_found: a network that *)
(* is down, an answer that got lost, a refusal.                            *)

Asked == [is |-> "asked"]
Ok(view) == [is |-> "ok", view |-> view]
NotFound == [is |-> "not_found"]
Failed == [is |-> "failed"]

\* getRoom answers strangers too.
getRoom(t, answer) ==
    /\ answer \in {Failed, IF exists THEN Ok(View(Latest, t)) ELSE NotFound}
    /\ UNCHANGED serviceVars

\* joinRoom: a full answer, a refusal, or a seat whose answer is lost.
joinRoom(answer) ==
    \/ answer \in {Failed, IF exists THEN Failed ELSE NotFound} /\ UNCHANGED serviceVars
    \/ \E t \in Tokens : Changes /\ Issues(t, Room) /\ answer \in {Ok(View(Latest + 1, t)), Failed}

\* createRoom, when the free code it is given is this one.
createRoom(answer) ==
    \/ answer = Failed /\ UNCHANGED serviceVars
    \/ \E t \in Tokens :
        /\ Begins
        /\ Issues(t, Room + 1)
        /\ answer \in {Ok(View(Latest + 1, t)), Failed}

\* startRound, nextRound and submitRoomGuess with token t.
act(t, answer) ==
    \/ answer \in {Failed, IF exists THEN Failed ELSE NotFound} /\ UNCHANGED serviceVars
    \/ Member(t) /\ Change /\ answer \in {Ok(View(Latest + 1, t)), Failed}

\* leaveRoom.  The 204 has no body, so that the caller sees a failure always.
leaveRoom(t, answer) ==
    /\ answer = Failed
    /\ \/ UNCHANGED serviceVars
       \/ Member(t) /\ Change
================================================================================
