------------------------------- MODULE RoomSocket -------------------------------
(***************************************************************************)
(* The hook of the room page: frontend/src/lib/useRoomSocket.ts.  Each run *)
(* of its effect has a closure of its own: a socket, a timer, a flag       *)
(* cancelled.  A run is cancelled when it is not the current one.          *)
(*                                                                         *)
(* The hook's state and its runs are one record s, changed by functions of *)
(* it, so that the page can apply several in one render.  How long a       *)
(* backoff lasts does not matter here, only that it ends.  The messages of *)
(* one socket come in order, as from broadcasts that do not overlap (Hub   *)
(* has those that do), and may skip states.                                *)
(***************************************************************************)
EXTENDS RoomService

CONSTANT Runs       \* slots for the runs of the effect

ASSUME RunsAssumption == Runs \subseteq Nat \ {0}

NoRun == 0
Stages == {"none", "connecting", "open", "waiting", "checking", "checked", "stopped"}
NewRun(t) == [stage |-> "connecting", token |-> t, seen |-> 0, answer |-> "asked"]
EmptyRun == [NewRun(NoToken) EXCEPT !.stage = "none"]

\* What useState is given, before the effect has run.
Unused ==
    [run |-> [i \in Runs |-> EmptyRun], current |-> NoRun, view |-> NoView,
     connected |-> FALSE, reconnecting |-> FALSE, gone |-> FALSE]

cancelled(s, i) == s.current # i
FreeRuns(s) == {i \in Runs : cancelled(s, i) /\ s.run[i].stage = "none"}

--------------------------------------------------------------------------------
\* The function the effect returns: the timer and the socket end, a check that
\* is under way does not.
cleanup(s) ==
    [s EXCEPT !.current = NoRun,
              !.run = [i \in Runs |->
                  IF cancelled(s, i) \/ s.run[i].stage \in {"checking", "checked"}
                  THEN s.run[i] ELSE EmptyRun]]

\* The effect, for token t: connect at once, or nothing without a token.
effect(s, t) ==
    IF t = NoToken THEN s
    ELSE LET i == CHOOSE j \in FreeRuns(s) : \A k \in FreeRuns(s) : j <= k
         IN  [s EXCEPT !.current = i, !.run[i] = NewRun(t)]

applyServerResponse(s, view) == [s EXCEPT !.view = view]

\* What is left of a hook whose component is gone: checks under way.
unmounted(s) == [Unused EXCEPT !.run = cleanup(s).run]

--------------------------------------------------------------------------------
(* The events of run i.  A cancelled run keeps nothing but a check, so     *)
(* these guards are where the code looks at cancelled.                     *)

\* onopen: the upgrade is refused unless the token is a player's.  The initial
\* view is the first message.
onopen(s, i) ==
    [s EXCEPT !.run[i].stage = "open", !.run[i].seen = Latest - 1,
              !.connected = TRUE, !.reconnecting = FALSE, !.gone = FALSE]

canOpen(s, i) == s.run[i].stage = "connecting" /\ Member(s.run[i].token)

\* onmessage: a state the hub of this code has sent since.  The hub outlives the
\* room, and goes on with the next one under the code.
onmessage(s, i, v) ==
    [s EXCEPT !.run[i].seen = v, !.view = View(v, s.run[i].token)]

canReceive(s, i, v) == s.run[i].stage = "open" /\ v \in s.run[i].seen + 1 .. Latest

\* onclose: of an open socket, or of one that never opened.
onclose(s, i) ==
    [s EXCEPT !.run[i].stage = "waiting", !.run[i].seen = 0, !.connected = FALSE, !.reconnecting = TRUE]

canClose(s, i) == s.run[i].stage \in {"connecting", "open"}

\* The backoff is over: the timer's function asks for the room.
timerFires(s, i) == [s EXCEPT !.run[i].stage = "checking"]

canFire(s, i) == s.run[i].stage = "waiting"

checkAnswered(s, i, answer) ==
    [s EXCEPT !.run[i].stage = "checked", !.run[i].answer = answer.is]

\* Mutant: connects without a second look at cancelled.
resumesCancelled(s, i) ==
    CASE s.run[i].answer = "not_found" ->
            IF cancelled(s, i) THEN [s EXCEPT !.run[i] = EmptyRun]
            ELSE [s EXCEPT !.run[i].stage = "stopped", !.reconnecting = FALSE, !.gone = TRUE]
      [] OTHER -> [s EXCEPT !.run[i] = NewRun(@.token)]

\* Mutant: any failure of the check ends the loop.
resumesOnSuccess(s, i) ==
    CASE cancelled(s, i) -> [s EXCEPT !.run[i] = EmptyRun]
      [] s.run[i].answer = "not_found" ->
            [s EXCEPT !.run[i].stage = "stopped", !.reconnecting = FALSE, !.gone = TRUE]
      [] s.run[i].answer = "failed" -> [s EXCEPT !.run[i].stage = "stopped"]
      [] OTHER -> [s EXCEPT !.run[i] = NewRun(@.token)]

\* After the check: stop when the room is gone, otherwise connect again; the
\* answer itself, which may be a stranger's view, is not looked at.
resumes(s, i) ==
    CASE cancelled(s, i) -> [s EXCEPT !.run[i] = EmptyRun]
      [] ~cancelled(s, i) /\ s.run[i].answer = "not_found" ->
            [s EXCEPT !.run[i].stage = "stopped", !.reconnecting = FALSE, !.gone = TRUE]
      [] OTHER -> [s EXCEPT !.run[i] = NewRun(@.token)]

--------------------------------------------------------------------------------
\* Nothing but a check outlives its run: no socket is open, or will be opened,
\* whose messages nobody reads and whose player the server thinks is there
\* (useRoomSocket.ts:42, 76, 88, 108-113).
NoLeakedSocket(s) ==
    \A i \in Runs : cancelled(s, i) => s.run[i].stage \in {"none", "checking", "checked"}

\* The current run is on its way to a connection.
Trying(s) ==
    s.current # NoRun /\ s.run[s.current].stage \in {"connecting", "waiting", "checking", "checked"}

\* It has one, or has given up because the room is gone, or there is no run.
Settled(s) == s.current = NoRun \/ s.gone \/ s.run[s.current].stage = "open"
================================================================================
