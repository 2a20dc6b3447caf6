# Wordle Rooms: specifications

TLA+ models of [Wordle Rooms](../src/README.md): the Go server that keeps
multiplayer rooms in memory, pushes their state over WebSockets and ends rounds
by itself when players finish, drop or leave, and the React frontend that joins,
shows and leaves these rooms from a browser. The modules are checked with TLC on
small instances; all safety properties of the passing runs are also proved with
TLAPS for every value of the constants.

## 1. The system

| Part | State it keeps | Operations | Talks to |
| --- | --- | --- | --- |
| Room store (`backend/internal/room`) | `Store.rooms`: per code a room with host, players, target, times | Create, Join, StartRound, NextRound, SubmitGuess, Leave, MarkPlayerDisconnected, FinalizeDisconnect, MarkPlayerReconnected, GetView, sweeper | word repository (before the lock); called by handlers and registry |
| Views, ranking (`view.go`, `ranking.go`) | none | PlayerView, ComputeRanking | every response and broadcast |
| HTTP handlers (`api/rooms.go`, `api/games.go`) | none | one per route; mutation, then BroadcastRoom, then the response | stores, registry |
| Connections (`api/realtime.go`, `realtime/registry.go`, `realtime/client.go`) | per connection a client, later a sleeping grace goroutine | wsUpgrade, Connect, close, OnClientDisconnect, OnClientReconnect | room store |
| Hubs (`realtime/hub.go`, `registry.go`) | registry of hubs, clients of each hub, send channels | GetOrCreate, Register, Broadcast, Unregister, CleanupIfEmpty, the pumps | `GetView` of the store |
| Startup, shutdown (`main.go`, `registry.go`) | signal, two timeouts, wait group | seeding, serving, Shutdown, srv.Shutdown | database, connections |
| Single-player game (`game/store.go`) | `Store.games` | Create, Get, SubmitGuess | word repository |
| Scoring (`game/game.go`) | none | Score | both stores |
| Word seeding (`words/seeder.go`) | table `words` in Postgres | Seed | database |
| Landing page (`app/page.tsx`) | two forms, loading | create, join, retry | wake-up guard, API client, storage, room page |
| Wake-up guard (`lib/useWakeUpGuard.ts`, `components/WakeUpOverlay.tsx`) | phase of the overlay, the last guard and its action; per guard a trip wire, a poll and a ceiling | guard, retry, dismiss | `/api/health` |
| Room page (`app/room/[code]/page.tsx`) | token, loading, joining, the view through its hook, requests under way, modal, notice to a new host | mount, initial fetch, join, start, guess, next round, leave, page restored, stale token dropped | storage, API client, room socket, board |
| Room socket (`lib/useRoomSocket.ts`) | the view, connected, reconnecting, gone; per run of its effect a socket or a timer or a check, and `cancelled` | connect, open, message, close, backoff, check, clean-up, applyServerResponse | WebSocket, `getRoom` |
| Board (`components/Game.tsx`) | typed word, guard of a submission, row being revealed; per tile its flip | letters, Enter, answers, timers, animations | room page or play page |
| Single-player page (`app/play/page.tsx`) | game, address, loading | init, guess, New Game | API client, board |
| Panels (`FinishModal.tsx`, `Scoreboard.tsx`) | none | what they tell of a view | room page |
| API client, tokens (`lib/api.ts`, `lib/tokens.ts`) | `localStorage` | one call per route; get, set, clear of a token | server, storage |

What is hard here:

- **Concurrency.** Every method of a store is one critical section, but what
  surrounds it is not: a dictionary look-up before the lock, a broadcast after
  it, a view built before the hub's lock is taken, channels closed after it is
  released. Connections of one player overlap, and nothing orders the close of
  the old one and the set-up of the new one.
- **Time.** The grace period is kept twice: as the age of `DisconnectedAt`, which
  decides whether a player blocks the round, and as a sleeping goroutine per
  drop, which finalises it. The two must agree for every sequence of drops and
  returns.
- **Failure.** Sockets drop at any time, clients are slow, rooms vanish under
  their clients, the process may die while it seeds the database. A request may
  be refused, or do its work and lose its answer.
- **Order.** In the browser every answer, message, timer and animation is a
  callback of its own, and each acts on what the page has become since it was
  asked for: another token, another round, another game, no page at all. The
  view of a room comes by two ways, as messages and in answers, and nothing
  orders them. A code may get another room while a tab still holds a token of
  the first.

The correctness of each part: a room always has a host who is there if anybody
is; a round ends when it waits for nobody, and not before; boards are written by
those who play and frozen between rounds; nobody guesses after seeing the target;
the ranking is in its documented order; a dropped player is finalised in time;
a broadcast does not panic and does not miss a client; hubs do not leak; the
server stops when told to; concurrent guesses write one game; seeding leaves a
dictionary with answers. In the browser: a page that stays open keeps its seat as
long as it is worth something; a broken line is mended; no socket outlives the
run that opened it; the overlay of the wake-up guard is up while there is
something to wait for; no tile stays uncoloured; a word that was answered is typed no more; keys,
modal and scoreboard tell what the server means; the address names the game that
is shown.

## 2. Modules

| Module | Models | Runs |
| --- | --- | --- |
| `RoomStore` | one slot of `Store.rooms` (store.go, room.go, tokens.go) and the requests of rooms.go | MCRoomStore |
| `RoundContract` | the abstract promise of a round; implemented by `RoomStore` (`KeepsContract`) | MCRoomStore |
| `RoomView` | `RoomStore` with view.go and ranking.go, and a history of who was shown the target and who left | MCRoomView, MCSixGuesses |
| `Realtime` | `RoomStore` composed with the life of its connections | MCRealtime |
| `RealtimeAudit` | `Realtime` with a history of who was connected | MCGhost |
| `Hub` | hubs, registry, pumps, broadcasts between their locks | MCHub, MCHubInitial |
| `Seeder` | seeder.go on several instances with crashes | MCServer |
| `Shutdown` | main from the signal on, and `HubRegistry.Shutdown` | MCServer |
| `Server` | the composition of the two: main.go over several starts | MCServer |
| `Scoring` | `Score` | MCScoring |
| `GameStore` | game/store.go and games.go under concurrent requests | MCGameStore |
| `GameContract` | the abstract promise of a single-player game; implemented by `GameStore` (`KeepsGame`) | MCGameStore |
| `Keyboard` | the helpers of Game.tsx that colour tiles and keys, over `Scoring` | MCScoring |
| `RoomPanels` | FinishModal.tsx, Scoreboard.tsx, lobby and board of the room page, over `RoomView` | MCRoomView |
| `RoomService` | the room under one code as a browser sees it, with the calls of api.ts | MCBrowser |
| `RoomSocket` | useRoomSocket.ts, over `RoomService` | MCBrowser |
| `RoomPage` | room/[code]/page.tsx with tokens.ts, over `RoomSocket` | MCBrowser |
| `WakeUpGuard` | useWakeUpGuard.ts | MCBrowser |
| `LandingPage` | page.tsx and WakeUpOverlay.tsx: `RoomPage` and `WakeUpGuard` in one tab | MCBrowser |
| `PlayPage` | play/page.tsx, with other tabs on its game and restarts of the server | MCBrowser |
| `Browser` | a tab: `LandingPage` or `PlayPage` | MCBrowser |
| `RoundShown` | from which state of a room's rounds to which other a player is taken | MCBoard |
| `Board` | Game.tsx and what the room page does around it, with one room of several rounds, over `RoundShown` | MCBoard |
| `RoomStoreProofs`, `RoomProofs`, `HubProofs`, `GameStoreProofs`, `ServerProofs`, `BrowserProofs`, `BoardProofs`, `ScoringProofs` | theorems | |

`MCHub`, `MCGameStore` and `MCScoring` add symmetry sets or the inputs of the
runs; the other runs name the module itself. Definitions commented "Mutant:" are
not part of any specification: each is
a plausible bug in the definition that follows it, kept to show that the
properties notice it.

### How they correspond to the code

`RoomStore`. A call of a method is one action, because its change of state lies
under `Store.mu`. Calls that return an error change nothing and are no steps; the
three calls of the registry answer "nothing changed" instead, which is their
second disjunct. `status`, `host`, `players`, `pstatus`, `guesses`, `solvedAt`,
`away`, `idle` stand for `Room.Status`, `HostToken`, the keys of `Players`,
`Player.Status`, `len(Guesses)`, `SolvedAt`, the time since `DisconnectedAt` and
the time since `LastTouchedAt`; `"none"` is a free code. Tokens are numbered in
the order they are generated, which is the order of `JoinedAt`. Time is a
`Tick`; an age saturates where the code stops distinguishing ages. Names, codes
and words are abstracted: a guess is all green or not. The room of a code that
was swept may be followed by another one under the same code. `Used` names the steps that count
as a use of the room by what they show, not by the call of `touch`. `GuessCap` is a
bound of the model, not of the code: nobody is followed past that many guesses.

`Realtime`. A connection is a slot that goes through validated (after
`wsUpgrade`), restored (after `OnClientReconnect`), live (registered, pumps
running), closing (after `Unregister` in `close`), marked (after
`MarkPlayerDisconnected` in `OnClientDisconnect`, its broadcast under way), grace (after the
goroutine has started, `graceStarts`), and free again when that goroutine ends. `sleep` is
what remains of its `time.After`; it begins after the age of the drop, which is why the
goroutine never wakes up too early for its own drop. The room's clock and these timers advance
together, so "the goroutine may wake late" is that `graceExpires` need not
happen at once. A player may hold several slots at any stage.

`Hub`. `Connect`, `Broadcast`, `Client.close` are split at every lock and at
every view that is read. Views are abstracted to the number of the room's last
mutation. Each client connects once; whoever mutates and broadcasts is one of
`Broadcasters`. `Client.close` of the hub module omits `OnClientDisconnect`, whose
broadcast is one of `Broadcasters`. Closing the channels of evicted clients is
one step: no other goroutine can tell the order. A send on a closed channel would
be a panic: `sendToOne` has no step then. `BroadcastsDoNotPanic` says that no
broadcast gets there; that `sendToOne` does is what MCHubInitial shows.

`RoomPanels`. Functions of the room and of whose page it is; they are checked in
the rooms `RoomView` reaches, so that what a panel tells is compared with what the
server goes by (`isBlockingRound`, the ranking).

`RoomView`. `GetView` stands for every view that is given out, in a response or in
a broadcast, at any time and to anybody, strangers included. `bestRow` and
`solves` add the rows' best score and the order of `SolvedAt`.

`GameStore`. One game; a request is received, checked in the dictionary (or fails
there), then written under the lock, and its answer stays on its way until `Done`.
Words are model values; malformed guesses are answered without a step.

`Seeder`. `COPY` and `UPDATE` take effect wholly or not at all; the primary key
refuses the copy of a second instance. `Crash` is also a failing statement, since
`main` exits then.

`Server`. An instance is down, seeding or serving; one of them is followed through
its connections and its shutdown, which may begin once it has seeded, and is
started again after it.

`Shutdown`. Time is measured from the signal and stops for a timer of `main` that
is due, since `main` then goes on. The context of the grace goroutines does not
appear: `main` cancels it when it returns, and the process ends there.

`RoomService`. What a tab can tell of a room is the order of its states, to which
room under the code a state belongs, and whether a token is of that room. A
request is asked, reaches the server or not, and has an answer or loses it:
`"failed"` is everything `request()` throws that is not `not_found`. `RoomStore`
never removes a player, so a token is good as long as its room is stored (section 4,
`SeatsLastWithRooms`).

`RoomSocket`. A run of the effect is a slot with its own socket, timer and check;
`cancelled` is "not the current run". The stages of a run are the places in
`connect` where it waits. The hook is a record changed by functions, because React
batches: the page applies several of them in one render. A socket's messages
come in order and may skip states (overlapping broadcasts are `Hub`'s matter).

`RoomPage`. The tab is a record: route, storage, token, flags, hook, requests. An
event changes it and the effects of the render that follows (`rendered`: the room
is gone, the token is stale) are part of the same step. A request outlives the
page that made it with `live` FALSE: its answer still writes the storage or moves
the router. `keeps` is whether the storage works. `CanRun` bounds the slots of
runs, `MayCall` the requests a user has under way; the initial fetches and the
checks are not bounded by it.

`WakeUpGuard`, `LandingPage`. A guard's three timers end together, so that a
watch is off, armed or tripped. `RoomIsLeft` is a bound of the model: the landing
page is used when what the room page had under way has ended, but for a leave.
Which of the two forms is open is not kept, since each leads to the other.

`PlayPage`. Of a game its rows and whether it is over. `mine` tells the requests
of the board that is mounted from those of an earlier one. `twice` is a history
variable: New Game was pressed again before its answer; the two requests differ in a
number (`AskAgain`).

`RoundContract`. Of a player it keeps whether it acts, dropped a moment ago, or is gone, and
`RoomStore` maps its statuses and ages to these three (`Acting`, `Dropped`, `Gone`).
`EndsWithLast` says of a guess, a leave and the notice of a drop that the round is over
exactly when nobody acts and nobody may still be back in time; it is about the players after
the step, so that a step that ends the round under somebody who plays, or leaves it running
with nobody, is none of the contract.

`RoundShown`, `Board`. The room is the history of what this player is shown, in
which rounds begin, this player guesses, and others make a round end or the host
change, at once when the host leaves as the last who was playing. Answers carry the
state after their work, messages any later one than the last. One column of a row
of tiles is followed, since the columns differ in their delays only, and scored
colours are one, `"scored"`: the colours of a row never change. The flip effect,
its timer and the two halves of its animation are kept, pops and shakes are not. `word` is a history
variable: of the word that was submitted, which row of the round it became on the server, and
whether the answer to it was lost. Typing or another Enter begins a new word.

`Keyboard`. `keyStates` takes the rows one after the other, and `keyAfterRow` the
letters of a row, as the loops of Game.tsx do, for the key of one letter.

## 3. Runs

All runs set `CHECK_DEADLOCK FALSE`, because the systems may really stop: tokens,
connections or states of a bounded instance are used up, a server exits, a tab is
left alone.

| Run | Checks and shows | Bounds |
| --- | --- | --- |
| MCRoomStore | Under every order of the calls: types, with ages that are none of the future (`TypeOK`), a host among the players (`HostIsPlayer`), absences (`DisconnectedAtSet`), nobody playing in a round that is over (`RoundOverSettled`), fresh lobbies (`LobbyFresh`), boards the ranking can read (`ScoreConsistent`), the handover of the host (`HostHandover`), the contract of a round, which ends exactly when nobody acts or may still be back in time (`KeepsContract`), what keeps a room alive (`OnlyUseTouches`) and the end of a room that is not used any more, however often players drop and return (`AbandonedRoomGoes`) | 3 tokens, 2 guesses, grace 2, idle 1 |
| MCRoomView | Players who leave excepted, the ranking is in its documented order (`RankingIsFair`) and a finished board takes no guess (`BoardsClose`); nobody guesses after seeing the target (`NoGuessAfterReveal`); what lobby, board, scoreboard and modal tell agrees with what the server goes by (`PanelsTell`) | 2 tokens, 2 guesses and a third if the code lets one through, rows scoring 0..2 |
| MCRealtime | Whoever is in its grace period has a goroutine, about to start or asleep, that does not wake up before it is over (`GraceIsTimed`); a running round with somebody in it is being played or will be looked at again (`RoundIsWatched`); a host who drops out of a round is replaced or back (`HostSettles`) | 2 tokens, 2 connections, 1 guess, grace 2, idle 1 |
| MCHub | Overlapping broadcasts use no closed channel (`BroadcastsDoNotPanic`); no hub is left behind (`NoHubLeaks`); no client of the registered hub misses the latest view (`EveryMutationReaches`) | 2 clients, 2 broadcasters, 2 hubs, a channel of 1, 3 versions |
| MCScoring | `Score` follows the rule of the game (`ScoreFollowsRule`); after two guesses every key tells the best that is known of its letter (`KeyboardTellsTruth`) | words of 4 letters over 3 letters: all targets and guesses, and pairs of guesses |
| MCGameStore | Concurrent requests write one game: its status tells its board (`StatusTellsBoard`), answers agree whatever their order (`AnswersAgree`), and the game keeps its contract (`KeepsGame`) | 3 requests, 3 words of the dictionary, 1 other, 2 rows |
| MCServer | One instance at a time is past the copy (`OneSeeds`); without a crash a table without answers is about to be marked (`HalfSeededIsPassing`) and a server gets its words (`ServersGetWords`); a server that was told to stop does (`Stops`) | 3 instances, 2 crashes, 2 connections, timeouts 1 and 2, grace 3 |
| MCBrowser | A page that stays open lets go of a live seat in no order of joins, answers, broadcasts, reconnects and reuse of the code, but by the late answer to a fetch for another token (`DiscardsOnlyDeadTokens`); nothing but a check outlives its run (`NoLeak`); a broken line is mended, or the room is found gone, or belongs to others (`LineSettles`); the overlay tells of a watch (`PhaseTellsWatch`); the address names the game, unless New Game was pressed twice (`UrlNamesGame`), and a board never shrinks (`BoardNeverShrinks`) | 2 tokens, 4 states, 2 rooms under the code, 2 runs of the effect, 1 request of the user, 2 guards; 3 games of 2 rows, 2 requests |
| MCBoard | No tile is left uncoloured, whatever cuts its flip short (`TileSettles`); while its answer is awaited a word is not typed below the row it has become, also when the broadcast comes first (`NoDuplicateRow`); once answered, a word that has become a row is typed no more, unless its answer got lost (`AnsweredWordGoes`) | words of 2 letters, 2 rows, 4 states, 2 rounds |

Why the bounds suffice: three players are the least with which "the oldest of
those who are there" is a choice; two guesses tell the last from another one, and
in `RoomView` a bound of three shows a guess too many; a grace of two ticks
has a beginning, a middle and an end; two connections let an old one close or
sleep in its grace period while its successor comes; a channel of one is full after one
payload; two broadcasters are enough to overtake one another; two hubs are the one
a client holds and the one that replaced it. In the browser two tokens are the one
a page holds and the one that replaces it, four states in two rooms allow an old
answer of either to meet a new message of the other; two runs are the current one
and the last, whose check is still under way; two guards are a request and its retry; a
third game is one whose answer comes after that of the second. On the board, two rows
let the reveal of one meet the submission of the next, two rounds let an answer
come after its round, and a word of two letters may be half typed. The idle timeout is shorter than in
the code, where it is hours beside a grace of seconds: a room may then be swept at
any point of a grace period, which only adds behaviours to the safety properties.

Fairness. The clock ticks, the sweeper's goroutine runs and goroutines that can go
on do so (Go's scheduler is preemptive and its mutexes are starvation-free).
Nothing is assumed of players or networks: no request need ever be made, no
connection need be opened or lost. `Seeder` assumes that an instance that is down
is started again, as a hosting platform does. `Hub` needs no fairness: its
properties speak of the moments at which nothing is under way. `LineFairness`
says of the browser that timers fire, that a check ends, with an answer at least
now and then, that a socket opens or is given up, and that one that can open again
and again some day does (strong fairness: every attempt may fail, but not all of
them for ever). That is the assumption under which a backoff makes sense; users,
rooms and servers are assumed nothing of, and `LineSettles` excepts who
reloads the page for ever.

### What the documents say and the code does not do

Each of these runs checks one property that a document or a comment states, and
ends in a counterexample:

| Run | The counterexample |
| --- | --- |
| MCSixGuesses | A player who is solved or out leaves, reconnects while the round runs, is playing again and guesses once more than the round allows. |
| MCGhost | A player who is solved or out drops, and the drop is not recorded (store.go:341); the next round deals a board to somebody who is gone and waits for it, until the sweeper takes the room. |
| MCHubInitial | Broadcasts fill and close the channel of a client between its entry into the hub and its initial payload; the send panics. |

Also seen while the modules were written, and described in them, without a run of
their own:

- `Leave` after a drop changes nothing, so the round waits for the grace period of
  a player who has left (store.go:309; `Leave`'s second disjunct).
- The changes of the realtime layer do not touch the room, though FOLLOWUPS.md:18
  says "updated on every mutation" (store.go:345; `MarkPlayerDisconnected` leaves
  `idle` alone).
- The close of an old connection may fall between the reconnect and the
  registration of its successor, whose initial view then shows the player
  disconnected (registry.go:79; `OnClientDisconnect` between `OnClientReconnect` and
  `Register`).
- The goroutine of an earlier drop may finalise a later one before its grace
  period is over, and replace the host (registry.go:108; `graceExpires` does not
  look at which drop it was started for).
- A host who is solved or out and drops is not replaced (store.go:341).
- A host who is away, its grace over and nobody else there, may still start a
  round over HTTP; nobody plays it and nothing ends it until somebody returns
  (store.go:171, 189-195; why `RoundIsWatched` asks for somebody who is there).
- A hub may be removed between `GetOrCreate` and `Register`; the client then sits in a
  hub that gets no broadcast (registry.go:81; `CleanupIfEmpty`).
- A player who solves and leaves is ranked as unsolved (ranking.go:29; the
  exception in `RankingIsFair`).
- A process that dies between the two statements of the seeding leaves words
  without answers, for good (seeder.go:22, 53; the exception in `ServersGetWords`).
- `Shutdown` waits for the goroutines that sleep in their grace period, until it
  times out: the context they look at is cancelled when `main` returns
  (registry.go:129-130; `AllClosed` in `Shutdown`).
- A client may connect after `Shutdown` has collected the clients (main.go:83-86;
  `Accepting`).
- Of two overlapping broadcasts the one that read the older room may deliver last
  (hub.go:67; DECISIONS.md:105 has it that every client gets the latest view).

And in the frontend:

- An answer to a request may come after a newer message and take the page back to
  an older room until the next message (useRoomSocket.ts:27-31); the answer to a guess
  may bring an earlier round back (page.tsx:209; `Shown` in `RoomPage`,
  `guessConfirmed` in `Board`).
- When the code of a tab's room has been given to another room, the check before a
  reconnect succeeds and the upgrade is refused, over and over
  (useRoomSocket.ts:73-80; `CodeReused` in `LineSettles`).
- If the initial fetch fails and the token is dead, the page stays blank: nothing
  is loading, and there is a token but no view (`ShowsForm`, `ShowsRoom`).
- The late answer to a fetch for an earlier token can make the page drop a live one
  (page.tsx:110-118; `LateFetch`). So can a `leave` that is answered late: it
  clears whatever the storage holds by then (`leaveAnswered`).
- `leaveRoom` gets a 204 without a body, which the client reads as a failure; the
  page goes home in either case (`leaveRoom` in `RoomService`).
- A retry of create or join is not awaited by its form: its seat is taken and
  nobody sits in it (useWakeUpGuard.ts:36; `awaited`). The overlay stays timed out
  when the action settles after the ceiling.
- With a storage that is disabled, a reload loses the seat (`keeps`).
- The notice to a new host may stay for good: the next state cancels the timer that
  would hide it (page.tsx:91-102; `hostEffect`).
- A guess whose answer was lost stays typed for another try, below the row it has already
  become, although Game.tsx:234-236 wants it nowhere in the next row: the layout effect looks
  at guesses under way only (Game.tsx:238, 300-306; `word.lost` in `AnsweredWordGoes`). It may be
  entered again and take a second row (`guessFailed`).
- The timer of a revealed row may cut the reveal of the next one short
  (`revealEnds`; `TileSettles` says that its colours come all the same).
- Pressing New Game twice can leave the address and the board at different games
  (play/page.tsx:80-82; `twice`).
- During a grace period the modal may say that it waits for nobody
  (FinishModal.tsx:20; `PanelsTell` excepts it). That the host is away is told in the
  lobby only.

## 4. Proofs

Assumptions, each named in the module that declares the constant: tokens, slots
of runs and of guards, and games are positive naturals; `MaxGuesses`, `Grace`, the
length of the board's words, the score of an all-green row, the capacity of a channel, the
number of hubs and that of rows are positive; the length of the words that are scored
and the bounds of the model are natural numbers; the instance that is followed is one of the
instances; the shutdown's timeouts are in the order of main.go. Nothing is assumed of how
many tokens, connections, clients, broadcasts, requests, instances, runs, guards, letters or
words there are.

- `RoomStoreProofs`: `Invariance` (`Spec => []IInv`). `IInv` is the conjunction of the six
  checked invariants and of `NothingElse`, what the model keeps of a free code and of those who
  have not joined; they are inductive together and not one by one. That nobody plays in a
  finished room needs that nobody waits in a running one (a return reads the
  status of the room), that `checkAllDone` ends a round only when nobody plays,
  and the types; that the host is a player needs that nobody is ever taken out of a stored room. There is one lemma per action, and one about each of
  `checkAllDone` and `migrateHost`. `Typing`, `RoundsSettle`, `RoomsHaveHosts`,
  `DropsAreTimed`, `LobbiesAreFresh` and `ScoresAreThere` follow.
  `Implements` (`Spec => KeepsContract`) maps every action to a step of
  `RoundContract` or a stutter: a drop is `Drop`, a tick that ends grace periods `GiveUp`, a
  finalisation `Notice`, a leave `Leave`, a return `Return`, a sweep `Close`. Its core is that
  whom `checkAllDone` looks for are those who act or have dropped in time. `UseTouches` goes
  through the actions for what sets `idle` back. `Handover` proves the action
  property `HostHandover`, `SeatsLastWithRooms` that a token is good exactly as long as its
  room is stored, which is what the browser's modules go by.
- `RoomProofs`, the connections: `RTImplementsStore` (`RTSpec => Spec`): the room under its connections
  is a room of `RoomStore`, so its theorems carry over. `GraceTimed`: the age of a
  drop and the timer of some goroutine add up to `Grace` or more, since the age begins
  with the mark and the timer with the start of the goroutine; a return ends the absence, and
  a tick moves both. `RTInvariance` is the inductive invariant behind it, with the types. `RoundsAreWatched`: whatever
  `checkAllDone` leaves running, somebody blocks, and whoever blocks it without
  playing has a goroutine by `GraceTimed`; so no running round with somebody in it
  is forgotten.
- `RoomProofs`, the views: `RVImplementsStore` (`RVSpec => Spec`); `RVInvariance` adds to `IInv` who can still guess (`BoardsOpen`), that the
  times of solving are an order (`SolvesOrdered`), that a running round waits for
  somebody (`Awaited`), and that nobody has been shown the target while a round
  runs. `BoardsStayClosed` and the action property `InformedDoNotGuess` follow from it.
  `RankingsAreFair` is about every list that the sort may return: that there is one is shown by
  counting how many players come before each, which puts them in places without a
  gap. `PanelsAlwaysTell` rests on `Awaited`: while a round runs the modal has somebody to
  name. `RoundsAreShown` ties `Board` to the store: what a player who does not leave is shown
  of its room moves as `RoundShown` lets it, so the room under the board is one of
  `RoomStore` and nothing is left out of it.
- `HubProofs`: `HubInvariance`, between any two locks. A client that is served is in its hub,
  or closed, or on the eviction list of some broadcast (`Accounted`), and whoever is on a
  list of a broadcast belongs to its hub (`TasksPlaced`); so no channel is
  closed under a sender (`BroadcastsNeverPanic`). While a hub is registered some connection is
  left that will clean up after it (`Attended`), whence `HubsDoNotLeak`. Of every client of the
  registered hub, it has been sent the last mutation or some broadcast that will
  build its view no earlier is on its way to it (`AllCovered`, with `Ordered`: views are of the
  past); at rest only the first is left (`MutationsReach`). `HubTyping` is the type invariant.
- `GameStoreProofs`: `GameInvariance` is about the board, its status and every answer on
  its way. Inductive is that no row follows a winning one together with what the
  status says of the board, and that an answer holds a prefix of the board: a row
  is written only in play, when no answer shows a target yet. `GameTyping`, `StatusTells`,
  `AnswersTell` and the refinement `Implements` (`Spec => KeepsGame`) follow. `GamesAreShown`
  ties `PlayPage` to the store: each step of a game is its `createGame` or its `submitGuess`.
- `ServerProofs`: `SeedInvariance`, of which `OneSeeder` and `HalfSeededPasses` are parts: who is
  past the copy has found an empty table, and its rows refuse everybody else.
- `BrowserProofs`, for a whole tab, in four parts:
  - `OneSocket`. A run that does something else than checking is the current one; each
    function of the hook keeps that, the clean-up because it stops whatever the
    current run does, and the end of a check because it looks at `cancelled` once
    more. The page then only has to be shown to change its hook by these functions.
  - `OverlayTells`. The overlay and the watches agree because only the guard that
    `cleanupRef` names can have timers (`WakeInvariance`): a guard that was superseded is off,
    and stays off however late its request settles.
  - `UrlsNameGames` and `BoardsNeverShrink`, from `PlayInvariance`: the tab knows no more of
    a game than the server has (`TabOK`), a page that loads has asked for nothing
    else (`LoadsAlone`), a game on its way is neither shown nor asked for (`NewIsNew`), and one guess
    at a time is under way on a game, whose answer has all the rows that are shown
    (`OneGuess`). As long as New Game was not pressed twice, one request at a time is
    under way (`OneAtATime`), and the address follows the board.
  - `SeatsAreKept`. A page drops its token when the view it shows is not that of a
    player. So the proof follows every view on its way, in an answer, in a socket or on the
    page, back to the token it was asked with (`Shape`: a run is for the page's token, a
    page that loads waits for its own fetch only, and joins one at a time), and shows that
    none is older than that token (`Facts`). The states of the room only grow, so the view
    of a token of the stored room is always its player's: after a render no
    page has a stale token (`Tells`), and none is dropped that is not dead. For the landing
    page it takes that its seats were issued (`SeatsHeld`) and that it is used when the hook
    of the room page is idle (`HomeAlone`).
- `BoardProofs`: `TilesSettle`, `NoRowTwice` and `AnsweredWordsGo`. The flip effect leaves every tile settled or with a
  flip ahead; what remains is that whenever the effect does not run, neither the
  tile nor the colour it should have has changed, for earlier rows and late states
  alike (`BoardInvariance`). A word that has become a row and is still typed has its guess under
  way and fewer rows shown than its own, or its answer was lost (`WordOK` in `WordInv`). It is so
  because the Game last rendered as many rows as the page shows, so that the render that brings
  the row takes the word; because a guess under way keeps its guard up, and no other one is under
  way with it; and because the states of a room are in the order of its rounds and rows
  (`Ordered`), so that what the server answers is no older than the row.

- `ScoringProofs`, for words of any length over any alphabet. `Score` and `keyStates` are
  recursive functions. Each is unfolded once (`Recursion`, `Consumed`), and
  what it has computed after `i` places is found by counting: by the least place at which it
  would be something else (`Counting`). After the first `i` letters of a guess as
  many copies of a letter are used up as were tried or are there, whichever is less
  (`TakenCounts`). So a letter is yellow exactly when a copy is left for it, which is the
  rule of the game (`ScoringFollowsRule`), and as many copies of each letter are coloured as
  guess and target have in common (`HintsAreExact`); letter by letter that number is the same
  the other way round (`ScoringIsSymmetric`). `OnlyTargetScoresFull` is what `RoomView` and
  `GameStore` take for granted: a row is all green, or has the full score, only when it is
  the target. A row moves the key of a letter to what it tells of the letter
  and to nothing less than before (`RowKeepsTruth`); so do any number of rows
  (`KeysTellTruth`, of which `KeyboardsTellTruth` is the case that is run).

Only model-checked: liveness (`AbandonedRoomGoes`, `HostSettles`,
`ServersGetWords`, `Stops`, `LineSettles`), which rests on fairness and `ENABLED`.

## 5. Not modelled

Configuration of the database and migrations, routing, CORS and logging;
validation and spelling of names, codes and words; JSON. Of the frontend: layout, icons and
texts, toasts other than the notice to a new host, and the animations nothing
reads (pop, bounce, shake); how long a backoff lasts. `game.Store` never forgets a
game (FOLLOWUPS.md, FU-4), so there is nothing to check of its removal. A restart
of the server forgets all rooms and games; nothing of them is persisted, so that
for the server `Init` is the state after a restart, and for a browser it is `Vanish`
or `Restart`.

The order in which the effects of one render run is kept where it is visible; that
React may run an effect twice in development is not. Two tabs of one browser share
the storage; `RoomService` has the other people of a room but not the other tab, so
that one tab removing the token of another is not covered. The dictionary look-up
before a room's guess (store.go:208) is not split from its row in `RoomStore`: in which
round a guess lands is left open there, as `GameStore` shows it for one game.

## 6. Plan

1. `RoomRequests` over `RoomStore`: the look-ups before the lock as steps of their own.
2. A second tab on the same storage in `RoomPage`.
3. `Browser` over `Hub` in the place of `RoomService`, so that overlapping broadcasts reach the
   page.

Next theorems: that the room as `RoomService` shows it to a browser, with its histories,
is a room of `RoomStore`, of which `SeatsLastWithRooms` is the core; that the clients of
`Hub` which are told the latest view are those of `Realtime`.
