-------------------------------- MODULE RoomPage --------------------------------
(***************************************************************************)
(* frontend/src/app/room/[code]/page.tsx with its hook (RoomSocket) and    *)
(* the token storage of lib/tokens.ts: which token the page holds, which   *)
(* view it shows, and the requests that are on their way.  What the screens *)
(* do with a view is Board's matter.                                       *)
(*                                                                         *)
(* The tab is one record p.  An event changes it by functions, and whatever *)
(* the effects of the render that follows do is part of the same step      *)
(* (rendered).  A request lives on when the page that made it is gone: its *)
(* live is FALSE then, and its answer changes no state of a component but  *)
(* still stores tokens and moves the router.                               *)
(***************************************************************************)
EXTENDS RoomSocket, FiniteSets

CONSTANT MaxCalls   \* bound of the model: requests a user has under way at once

ASSUME CallsAssumption == MaxCalls \in Nat

VARIABLE p          \* the tab

pageVars == <<serviceVars, p>>

Call(kind, t) == [kind |-> kind, token |-> t, live |-> TRUE, answer |-> Asked]
Kinds == {"fetch", "join", "act", "leave"}

OnRoom == p.route = "room"

\* tokens.ts: a storage that is disabled keeps nothing.
setRoomToken(q, t) == [q EXCEPT !.storage = IF q.keeps THEN t ELSE @]
clearRoomToken(q) == setRoomToken(q, NoToken)

--------------------------------------------------------------------------------
(* Mounting, the effects, and going away.                                  *)

\* setToken, and the two effects that depend on the token: the hook's, and the
\* initial fetch.  Loading is not raised again.
setToken(q, t) ==
    IF t = q.token THEN q
    ELSE [q EXCEPT !.token = t,
                   !.socket = effect(cleanup(q.socket), t),
                   !.loading = @ /\ t # NoToken,
                   !.calls = IF t = NoToken THEN @ ELSE @ \union {Call("fetch", t)}]

\* There is a slot for the run that setToken may start.
CanRun(q) == FreeRuns(cleanup(q.socket)) # {}

\* The first render and its effects: the token is read from the storage.
mount(q) ==
    LET blank == [q EXCEPT !.route = "room", !.token = NoToken, !.loading = TRUE, !.joining = FALSE]
    IN  IF q.storage = NoToken THEN [blank EXCEPT !.loading = FALSE]
        ELSE setToken(blank, q.storage)

\* router.push("/"): the page is unmounted.
goHome(q) ==
    IF q.route # "room" THEN q
    ELSE [q EXCEPT !.route = "home", !.token = NoToken, !.loading = FALSE, !.joining = FALSE,
                   !.socket = unmounted(@),
                   !.calls = {[c EXCEPT !.live = FALSE] : c \in {d \in @ : d.kind # "act"}}]

tokenStale(q) ==
    /\ ~q.loading
    /\ q.token # NoToken
    /\ q.socket.view # NoView
    /\ ~IsYou(q.socket.view)

\* The effects after a render: leave a room that is gone, drop a stale token.
rendered(q) ==
    IF q.route = "room" /\ q.socket.gone THEN goHome(q)
    ELSE IF q.route = "room" /\ tokenStale(q) THEN setToken(clearRoomToken(q), NoToken)
    ELSE q

Renders(q) == p' = rendered(q)

PageInit ==
    /\ ServiceInit
    /\ \E keeps \in BOOLEAN, route \in {"home", "room"} :
        p = LET tab == [route |-> "home", keeps |-> keeps, storage |-> NoToken, token |-> NoToken,
                        loading |-> FALSE, joining |-> FALSE, socket |-> Unused, calls |-> {}]
            IN  IF route = "room" THEN mount(tab) ELSE tab

--------------------------------------------------------------------------------
(* What the screens offer.                                                 *)

ShowsForm == OnRoom /\ ~p.loading /\ p.token = NoToken
ShowsRoom == OnRoom /\ ~p.loading /\ p.token # NoToken /\ p.socket.view # NoView
MayCall == Cardinality(p.calls) < MaxCalls
Asks(kind) == p' = [p EXCEPT !.calls = @ \union {Call(kind, p.token)}]

\* The form is sent; its button is disabled until the answer has come.
handleJoin ==
    /\ ShowsForm /\ ~p.joining /\ MayCall
    /\ p' = [p EXCEPT !.joining = TRUE, !.calls = @ \union {Call("join", NoToken)}]
    /\ UNCHANGED serviceVars

\* handleStart, handleNextRound or handleGuessSubmit.
handleAct == ShowsRoom /\ MayCall /\ Asks("act") /\ UNCHANGED serviceVars

\* The back button, after a confirmation when the player is in a round.
handleBack == ShowsRoom /\ MayCall /\ Asks("leave") /\ UNCHANGED serviceVars

\* The browser's own back button, from any screen, or the link of the form.
Back == OnRoom /\ p' = goHome(p) /\ UNCHANGED serviceVars

\* The address of the room is opened or reloaded; so is, by onPageShow, a page
\* that comes back from the browser's cache.  Nothing of the old document stays.
Load ==
    /\ p' = mount([p EXCEPT !.socket = Unused, !.calls = {}])
    /\ UNCHANGED serviceVars

--------------------------------------------------------------------------------
(* Requests reach the server, and answers the tab.                         *)

Answered(c, answer) == p' = [p EXCEPT !.calls = (@ \ {c}) \union {[c EXCEPT !.answer = answer]}]
Answers == {NotFound, Failed} \union {Ok(view) : view \in [state : {Latest, Latest + 1}, as : Tokens]}

Serve(c) ==
    /\ c.answer = Asked
    /\ \E answer \in Answers :
        /\ \/ c.kind = "fetch" /\ getRoom(c.token, answer)
           \/ c.kind = "join" /\ joinRoom(answer)
           \/ c.kind = "act" /\ act(c.token, answer)
           \/ c.kind = "leave" /\ leaveRoom(c.token, answer)
        /\ Answered(c, answer)

\* The tab without the call, and with the view of its answer if it has one.
Without(c) == [p EXCEPT !.calls = @ \ {c}]
Shown(q, c) ==
    IF c.live /\ c.answer.is = "ok"
    THEN [q EXCEPT !.socket = applyServerResponse(@, c.answer.view)] ELSE q

Arrives(c, kind) == c.kind = kind /\ c.answer # Asked /\ UNCHANGED serviceVars

fetchAnswered(c) ==
    /\ Arrives(c, "fetch")
    /\ IF c.answer = NotFound THEN p' = goHome(Without(c))
       ELSE Renders([Shown(Without(c), c) EXCEPT !.loading = @ /\ ~c.live])

\* Mutant: the token and the view of the answer are rendered one after the other.
joinUnbatched(c) ==
    /\ Arrives(c, "join")
    /\ CanRun(p)
    /\ LET q == [Without(c) EXCEPT !.joining = @ /\ ~c.live]
       IN  IF c.answer.is # "ok" THEN Renders(q)
           ELSE LET r == setRoomToken(q, c.answer.view.as)
                IN  Renders(IF c.live THEN Shown(rendered(setToken(r, c.answer.view.as)), c) ELSE r)

\* The three calls after the answer are one render.
joinAnswered(c) ==
    /\ Arrives(c, "join")
    /\ CanRun(p)
    /\ LET q == [Without(c) EXCEPT !.joining = @ /\ ~c.live]
       IN  IF c.answer.is # "ok" THEN Renders(q)
           ELSE LET r == setRoomToken(q, c.answer.view.as)
                IN  Renders(IF c.live THEN Shown(setToken(r, c.answer.view.as), c) ELSE r)

actAnswered(c) == Arrives(c, "act") /\ Renders(Shown(Without(c), c))

\* Whatever the answer, and wherever the tab is by now.
leaveAnswered(c) == Arrives(c, "leave") /\ p' = goHome(clearRoomToken(Without(c)))

Answer(c) == fetchAnswered(c) \/ joinAnswered(c) \/ actAnswered(c) \/ leaveAnswered(c)

--------------------------------------------------------------------------------
(* The events of the hook's runs.                                          *)

Socket(next) == Renders([p EXCEPT !.socket = next]) /\ UNCHANGED serviceVars

Opens(i) == canOpen(p.socket, i) /\ Socket(onopen(p.socket, i))
Receives(i, v) == canReceive(p.socket, i, v) /\ Socket(onmessage(p.socket, i, v))
Closes(i) == canClose(p.socket, i) /\ Socket(onclose(p.socket, i))
TimerFires(i) == canFire(p.socket, i) /\ Socket(timerFires(p.socket, i))

ChecksRoom(i, answers) ==
    /\ p.socket.run[i].stage = "checking"
    /\ \E answer \in answers :
        /\ getRoom(p.socket.run[i].token, answer)
        /\ p' = [p EXCEPT !.socket = checkAnswered(@, i, answer)]

Reached(i) == {NotFound, Ok(View(Latest, p.socket.run[i].token))}
Checks(i) == ChecksRoom(i, Reached(i)) \/ ChecksRoom(i, {Failed})

Resumes(i) == p.socket.run[i].stage = "checked" /\ Socket(resumes(p.socket, i))

User == handleJoin \/ handleAct \/ handleBack \/ Back \/ Load

Line(i) == Opens(i) \/ Closes(i) \/ TimerFires(i) \/ Checks(i) \/ Resumes(i)

PageNext ==
    \/ User
    \/ \E c \in p.calls : Serve(c) \/ Answer(c)
    \/ \E i \in Runs : Line(i) \/ \E v \in 1 .. MaxStates : Receives(i, v)
    \/ Others /\ UNCHANGED p

PageSpec == PageInit /\ [][PageNext]_pageVars

\* The browser opens a socket or gives it up.
AttemptEnds(i) == Opens(i) \/ (p.socket.run[i].stage = "connecting" /\ Closes(i))

\* Timers fire and requests end, with an answer at least now and then; a
\* connection that can be made again and again is made some day.  Nothing is
\* assumed of users and rooms.
LineFairness ==
    \A i \in Runs :
        /\ WF_pageVars(TimerFires(i)) /\ WF_pageVars(Resumes(i))
        /\ WF_pageVars(Checks(i)) /\ SF_pageVars(ChecksRoom(i, Reached(i)))
        /\ WF_pageVars(AttemptEnds(i)) /\ SF_pageVars(Opens(i))

PageFair == PageSpec /\ LineFairness

--------------------------------------------------------------------------------
(* What holds.                                                             *)

PageTypeOK ==
    /\ p.route \in {"home", "room"}
    /\ p.storage \in Tokens \union {NoToken}
    /\ p.token \in Tokens \union {NoToken}
    /\ \A i \in Runs : p.socket.run[i].stage \in Stages
    /\ p.socket.view \in Views
    /\ \A c \in p.calls : c.kind \in Kinds

\* The sockets of the tab: see NoLeakedSocket.
NoLeak == NoLeakedSocket(p.socket)

\* The open page holds token t, or is about to: it is in the answer to its join.
Holds(t) ==
    /\ OnRoom
    /\ \/ p.token = t
       \/ \E c \in p.calls : c.kind = "join" /\ c.live /\ c.answer.is = "ok" /\ c.answer.view.as = t

\* A fetch the page made for another token is still on its way.
LateFetch(t) == \E c \in p.calls : c.kind = "fetch" /\ c.live /\ c.token # t

\* A page that stays open lets go of a token only when the token is dead: no
\* order of joins, answers, broadcasts and reconnects, and no reuse of the code,
\* makes it throw away a seat in the room that is stored; only the answer of a
\* fetch for an earlier token can (page.tsx:110-118, 142-144).
DiscardsOnlyDeadTokens ==
    [][\A t \in Tokens :
        Holds(t) /\ p'.route = "room" /\ ~Holds(t)' => ~Member(t) \/ LateFetch(t) \/ Load]_pageVars

\* The code belongs to another room than the token.
CodeReused == p.socket.current # NoRun /\ issuedIn[p.token] # Room

\* A broken line is mended: unless the user reloads the page for ever, once it
\* has lost its connection it gets one again, or finds the room gone and leaves,
\* or the code has got another room, whose server refuses the token for good
\* (useRoomSocket.ts:66-91).
LineSettles ==
    <>[][~Load]_pageVars => (Trying(p.socket) ~> Settled(p.socket) \/ CodeReused)
================================================================================
