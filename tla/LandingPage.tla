------------------------------ MODULE LandingPage ------------------------------
(***************************************************************************)
(* frontend/src/app/page.tsx, the way into a room, under the wake-up guard *)
(* (WakeUpGuard) and its overlay (components/WakeUpOverlay.tsx): the other *)
(* page of the tab whose room page is RoomPage.                            *)
(*                                                                         *)
(* When the tab goes to a room, what is left of this page are requests     *)
(* whose results nobody reads; for the room they are other people's joins. *)
(***************************************************************************)
EXTENDS RoomPage, WakeUpGuard

VARIABLE home       \* the state of the landing page, Fresh while it is not mounted

tabVars == <<pageVars, home>>

\* The two forms.  Which of them is open is not kept: the first screen opens
\* either, and each leads back to it, at any time.
Actions == {"create", "join"}
Fresh == [loading |-> FALSE, wake |-> Awake]

OnHome == p.route = "home"
Home(next) == home' = next /\ UNCHANGED pageVars

--------------------------------------------------------------------------------
(* What the page offers; nothing checks that the overlay is down, since the *)
(* keyboard reaches what it covers.                                        *)

\* Bound of the model: the landing page is used when nothing of the room page is
\* under way any more, but for a leave.
RoomIsLeft ==
    /\ \A i \in Runs : p.socket.run[i].stage = "none"
    /\ \A c \in p.calls : c.kind = "leave"

\* handleCreate or handleJoin, with the fields of its form filled in: the button of
\* either form is disabled while one of them is loading.
submit(action) ==
    /\ OnHome /\ RoomIsLeft
    /\ ~home.loading
    /\ Free(home.wake) # {}
    /\ Home([home EXCEPT !.loading = TRUE, !.wake = guard(@, action, TRUE)])

\* "Try again", which the overlay offers when nothing has come for too long.
onRetry ==
    /\ OnHome /\ home.wake.phase = "timedout"
    /\ Free(home.wake) # {}
    /\ Home([home EXCEPT !.wake = retry(@)])

--------------------------------------------------------------------------------
(* The timers of guard g, and its health checks.                           *)

Watching(g, watch) == OnHome /\ home.wake.guard[g].watch = watch
Wakes(next) == Home([home EXCEPT !.wake = next])

Trips(g) == Watching(g, "armed") /\ Wakes(tripWire(home.wake, g))
TimesOut(g) == Watching(g, "tripped") /\ Wakes(ceiling(home.wake, g))

\* /api/health has answered; checkHealth makes a network that is down a FALSE.
IsHealthy(g) == Watching(g, "tripped") /\ Wakes(dismiss(home.wake, g))

--------------------------------------------------------------------------------
(* The requests.                                                           *)

\* The server works on the request of guard g, or is not reached.
Works(g) ==
    /\ OnHome /\ home.wake.guard[g].request = "asked"
    /\ \E answer \in Answers :
        /\ IF home.wake.guard[g].action = "create" THEN createRoom(answer) ELSE joinRoom(answer)
        /\ home' = [home EXCEPT
                        !.wake.guard[g].request = answer.is,
                        !.wake.guard[g].seat = IF answer.is = "ok" THEN answer.view.as ELSE NoToken]
    /\ UNCHANGED p

\* The request of guard g has settled: the form, which has awaited it, stores
\* the token and goes to the room, or shows an error.
Settles(g) ==
    LET seat == home.wake.guard[g].seat
    IN  /\ OnHome /\ home.wake.guard[g].request \notin {"none", "asked"}
        /\ UNCHANGED serviceVars
        /\ \/ /\ home.wake.guard[g].awaited /\ seat # NoToken
              /\ p' = mount(setRoomToken(p, seat))
              /\ home' = Fresh
           \/ /\ ~(home.wake.guard[g].awaited /\ seat # NoToken)
              /\ home' = [home EXCEPT !.loading = @ /\ ~home.wake.guard[g].awaited,
                                      !.wake = settle(@, g)]
              /\ UNCHANGED p

Landing ==
    \/ \E action \in Actions : submit(action)
    \/ onRetry
    \/ \E g \in Guards : Trips(g) \/ TimesOut(g) \/ IsHealthy(g) \/ Works(g) \/ Settles(g)

\* The room page's steps; a document that is loaded forgets this page too.
InRoom == PageNext /\ home' = IF p'.route = "room" THEN Fresh ELSE home

TabInit == PageInit /\ home = Fresh

TabNext == Landing \/ InRoom

--------------------------------------------------------------------------------
\* See PhaseTells.
PhaseTellsWatch == PhaseTells(home.wake)
================================================================================
