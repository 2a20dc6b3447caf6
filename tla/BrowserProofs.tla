----------------------------- MODULE BrowserProofs -----------------------------
(***************************************************************************)
(* One tab of the frontend, part by part: the wake-up guard of the landing *)
(* page, the sockets of the room page, the single-player page, and the     *)
(* tokens of the room page.  Each part has an inductive invariant of its   *)
(* own, which the steps of the other parts do not touch; the last builds   *)
(* on the types of the first two.                                          *)
(***************************************************************************)
EXTENDS Browser, WellFoundedInduction, TLAPS

--------------------------------------------------------------------------------
(* The wake-up guard, for any number of guards whose requests overlap: the *)
(* overlay tells whether somebody watches.  What makes it inductive is that *)
(* only the guard that cleanupRef names can have timers: a guard that has  *)
(* been superseded is off, and stays so however late its request settles.  *)

WatchType ==
    [action : Actions \union {"none"}, request : {"none", "asked", "ok", "not_found", "failed"},
     seat : Tokens \union {NoToken}, awaited : BOOLEAN, watch : {"off", "armed", "tripped"}]

WakeType ==
    [phase : Phases, cleanup : Nat, action : Actions \union {"none"}, guard : [Guards -> WatchType]]

\* Only the last guard watches, and without one the overlay is down.
OneWatches(w) ==
    /\ \A g \in Guards : w.guard[g].watch # "off" => g = w.cleanup
    /\ w.cleanup = 0 => w.phase = "idle"

WakeInv(w) == w \in WakeType /\ OneWatches(w) /\ PhaseTells(w)

--------------------------------------------------------------------------------
(* The functions of the hook.                                              *)

LEMMA NewGuards ==
    /\ NoGuard \in WatchType /\ NoGuard.watch = "off"
    /\ \A action \in Actions \union {"none"}, awaited \in BOOLEAN :
        /\ NewGuard(action, awaited) \in WatchType
        /\ NewGuard(action, awaited).watch = "armed"
<1>1. \A action \in Actions \union {"none"}, awaited \in BOOLEAN :
        /\ NewGuard(action, awaited) \in WatchType
        /\ NewGuard(action, awaited).watch = "armed"
  BY DEF NewGuard, WatchType, NoToken
<1>2. NewGuard("none", FALSE) \in WatchType
  BY <1>1
<1>3. NoGuard \in WatchType /\ NoGuard.watch = "off"
  BY <1>2 DEF NoGuard, WatchType
<1>. QED BY <1>1, <1>3

\* In u the timers of guard g, if it is one, and the phase are other than in w.
Rewatched(w, g, x, y, u) ==
    /\ u \in WakeType
    /\ u.phase = y /\ u.cleanup = w.cleanup /\ u.action = w.action
    /\ \A h \in Guards : /\ u.guard[h].watch = IF h = g THEN x ELSE w.guard[h].watch
                         /\ u.guard[h].request = w.guard[h].request
                         /\ u.guard[h].seat = w.guard[h].seat

LEMMA WatchStep ==
    ASSUME NEW w \in WakeType, NEW g, NEW x \in {"off", "armed", "tripped"}, NEW y \in Phases,
           NEW u, \/ u = [[w EXCEPT !.guard[g].watch = x] EXCEPT !.phase = y]
                  \/ u = [w EXCEPT !.phase = y, !.guard[g].watch = x]
    PROVE  Rewatched(w, g, x, y, u)
<1>. DEFINE f == [w.guard EXCEPT ![g].watch = x]
<1>1. \/ u = [[w EXCEPT !.guard = f] EXCEPT !.phase = y]
      \/ u = [[w EXCEPT !.phase = y] EXCEPT !.guard = [@ EXCEPT ![g].watch = x]]
  BY Zenon
<1>2. w.guard \in [Guards -> WatchType]
  BY DEF WakeType
<1>3. /\ f \in [Guards -> WatchType]
      /\ \A h \in Guards : /\ f[h].watch = IF h = g THEN x ELSE w.guard[h].watch
                           /\ f[h].request = w.guard[h].request
                           /\ f[h].seat = w.guard[h].seat
  <2>1. CASE g \in Guards
    <3>1. DEFINE r == [w.guard[g] EXCEPT !.watch = x]
    <3>2. /\ r \in WatchType /\ r.watch = x
          /\ r.request = w.guard[g].request /\ r.seat = w.guard[g].seat
      BY <1>2, <2>1 DEF WatchType
    <3>3. f = [w.guard EXCEPT ![g] = r]
      BY Zenon
    <3>. HIDE DEF r, f
    <3>. QED BY <1>2, <2>1, <3>2, <3>3
  <2>2. CASE g \notin Guards
    <3>1. f = w.guard
      BY <1>2, <2>2, Zenon
    <3>. HIDE DEF f
    <3>. QED BY <1>2, <2>2, <3>1
  <2>. QED BY <2>1, <2>2
<1>4. [w EXCEPT !.phase = y].guard = w.guard
  BY DEF WakeType
<1>5. \/ u = [[w EXCEPT !.guard = f] EXCEPT !.phase = y]
      \/ u = [[w EXCEPT !.phase = y] EXCEPT !.guard = f]
  BY <1>1, <1>4, Zenon
<1>. HIDE DEF f
<1>. QED BY <1>3, <1>5 DEF WakeType, Rewatched

LEMMA Smallest ==
    ASSUME NEW S \in SUBSET Nat, S # {}
    PROVE  \E h \in S : \A k \in S : h <= k
<1>1. IsWellFoundedOn(OpToRel(<, Nat), Nat)
  BY NatLessThanWellFounded
<1>2. PICK h \in S : \A k \in S : ~(<<k, h>> \in OpToRel(<, Nat))
  BY <1>1, WFMin
<1>3. \A k \in S : k \in Nat /\ h \in Nat /\ ~(k < h)
  BY <1>2 DEF OpToRel
<1>. QED BY <1>3

LEMMA AwakeInv == WakeInv(Awake)
<1>1. Awake.guard = [g \in Guards |-> NoGuard] /\ Awake.phase = "idle" /\ Awake.cleanup = 0
      /\ Awake.action = "none"
  BY DEF Awake
<1>2. NoGuard \in WatchType /\ NoGuard.watch = "off"
  BY NewGuards
<1>3. Awake \in WakeType
  BY <1>1, <1>2 DEF WakeType, Awake, Phases, Actions
<1>. QED BY <1>1, <1>2, <1>3 DEF WakeInv, OneWatches, PhaseTells

LEMMA DismissInv ==
    ASSUME NEW w, WakeInv(w), NEW g \in Guards, w.guard[g].watch # "off"
    PROVE  WakeInv(dismiss(w, g))
<1>1. dismiss(w, g) = [[w EXCEPT !.guard[g].watch = "off"] EXCEPT !.phase = "idle"]
  BY DEF dismiss, stopAll
<1>2. Rewatched(w, g, "off", "idle", dismiss(w, g))
  BY <1>1, WatchStep DEF WakeInv, Phases
<1>. QED BY <1>2 DEF WakeInv, OneWatches, PhaseTells, Rewatched

LEMMA TripWireInv ==
    ASSUME NEW w, WakeInv(w), NEW g \in Guards, w.guard[g].watch = "armed"
    PROVE  WakeInv(tripWire(w, g))
<1>1. tripWire(w, g) = [w EXCEPT !.phase = "overlay", !.guard[g].watch = "tripped"]
  BY DEF tripWire
<1>2. Rewatched(w, g, "tripped", "overlay", tripWire(w, g))
  BY <1>1, WatchStep DEF WakeInv, Phases
<1>. QED BY <1>2, GuardsAssumption DEF WakeInv, OneWatches, PhaseTells, Rewatched

LEMMA CeilingInv ==
    ASSUME NEW w, WakeInv(w), NEW g \in Guards, w.guard[g].watch = "tripped"
    PROVE  WakeInv(ceiling(w, g))
<1>1. ceiling(w, g) = [[w EXCEPT !.guard[g].watch = "off"] EXCEPT !.phase = "timedout"]
  BY DEF ceiling, stopAll
<1>2. Rewatched(w, g, "off", "timedout", ceiling(w, g))
  BY <1>1, WatchStep DEF WakeInv, Phases
<1>. QED BY <1>2, GuardsAssumption DEF WakeInv, OneWatches, PhaseTells, Rewatched

\* The guard before is dismissed, also when its slot is another's by now, and then
\* nobody watches but the new one.
LEMMA GuardInv ==
    ASSUME NEW w, WakeInv(w), NEW action \in Actions \union {"none"}, NEW awaited \in BOOLEAN,
           Free(w) # {}
    PROVE  WakeInv(guard(w, action, awaited))
<1>. DEFINE v == IF w.cleanup = 0 THEN w ELSE dismiss(w, w.cleanup)
            g == CHOOSE h \in Free(v) : \A k \in Free(v) : h <= k
            u == guard(w, action, awaited)
<1>1. /\ v \in WakeType /\ v.phase = "idle"
      /\ \A h \in Guards : v.guard[h].watch = "off" /\ v.guard[h].request = w.guard[h].request
  <2>1. CASE w.cleanup = 0
    BY <2>1, GuardsAssumption DEF WakeInv, OneWatches
  <2>2. CASE w.cleanup # 0
    <3>1. v = [[w EXCEPT !.guard[w.cleanup].watch = "off"] EXCEPT !.phase = "idle"]
      BY <2>2 DEF dismiss, stopAll
    <3>. HIDE DEF v
    <3>2. Rewatched(w, w.cleanup, "off", "idle", v)
      BY <3>1, WatchStep DEF WakeInv, Phases
    <3>. QED BY <3>2 DEF WakeInv, OneWatches, Rewatched
  <2>. QED BY <2>1, <2>2
<1>2. u = [v EXCEPT !.cleanup = g, !.action = action, !.guard[g] = NewGuard(action, awaited)]
  BY DEF guard
<1>. HIDE DEF v
<1>3. Free(v) # {} /\ Free(v) \subseteq Guards
  BY <1>1 DEF Free
<1>4. g \in Guards /\ g \in Nat \ {0}
  BY <1>3, Smallest, GuardsAssumption
<1>. HIDE DEF g, u
<1>5. NewGuard(action, awaited) \in WatchType /\ NewGuard(action, awaited).watch = "armed"
  BY NewGuards
<1>6. /\ u \in WakeType /\ u.phase = "idle" /\ u.cleanup = g
      /\ \A h \in Guards : u.guard[h].watch = IF h = g THEN "armed" ELSE "off"
  BY <1>1, <1>2, <1>4, <1>5 DEF WakeType
<1>. QED BY <1>4, <1>6 DEF WakeInv, OneWatches, PhaseTells, u

\* The slot of a request that has settled is empty; nobody watched from it, or
\* nobody does any more.
LEMMA SettleInv ==
    ASSUME NEW w, WakeInv(w), NEW g \in Guards
    PROVE  WakeInv(settle(w, g))
<1>. DEFINE v == IF w.guard[g].watch = "off" THEN w ELSE dismiss(w, g)
            u == settle(w, g)
<1>1. WakeInv(v) /\ v.guard[g].watch = "off"
  <2>1. CASE w.guard[g].watch = "off"
    BY <2>1
  <2>2. CASE w.guard[g].watch # "off"
    <3>1. dismiss(w, g) = [[w EXCEPT !.guard[g].watch = "off"] EXCEPT !.phase = "idle"]
      BY DEF dismiss, stopAll
    <3>2. Rewatched(w, g, "off", "idle", dismiss(w, g))
      BY <3>1, WatchStep DEF WakeInv, Phases
    <3>. QED BY <2>2, <3>2, DismissInv DEF Rewatched
  <2>. QED BY <2>1, <2>2
<1>2. u = [v EXCEPT !.guard[g] = NoGuard]
  BY DEF settle
<1>. HIDE DEF v, u
<1>3. /\ u \in WakeType /\ u.phase = v.phase /\ u.cleanup = v.cleanup
      /\ \A h \in Guards : u.guard[h].watch = v.guard[h].watch
  BY <1>1, <1>2, NewGuards DEF WakeInv, WakeType
<1>. QED BY <1>1, <1>3 DEF WakeInv, OneWatches, PhaseTells, u

\* An answer of the server is kept in its guard.
LEMMA WorksInv ==
    ASSUME NEW w, WakeInv(w), NEW g \in Guards, NEW answer \in Answers
    PROVE  WakeInv([w EXCEPT !.guard[g].request = answer.is,
                             !.guard[g].seat = IF answer.is = "ok" THEN answer.view.as ELSE NoToken])
<1>. DEFINE seat == IF answer.is = "ok" THEN answer.view.as ELSE NoToken
            u == [w EXCEPT !.guard[g].request = answer.is, !.guard[g].seat = seat]
            r == [w.guard[g] EXCEPT !.request = answer.is, !.seat = seat]
<1>1. answer.is \in {"ok", "not_found", "failed"} /\ seat \in Tokens \union {NoToken}
  BY DEF Answers, Ok, NotFound, Failed
<1>. HIDE DEF seat
<1>2. r \in WatchType /\ r.watch = w.guard[g].watch
  BY <1>1 DEF WakeInv, WakeType, WatchType
<1>3. u = [w EXCEPT !.guard = [w.guard EXCEPT ![g] = r]]
  BY DEF WakeInv, WakeType
<1>. HIDE DEF r, u
<1>4. /\ u \in WakeType /\ u.phase = w.phase /\ u.cleanup = w.cleanup
      /\ \A h \in Guards : u.guard[h].watch = w.guard[h].watch
  BY <1>2, <1>3 DEF WakeInv, WakeType
<1>5. WakeInv(u)
  BY <1>4 DEF WakeInv, OneWatches, PhaseTells
<1>. QED BY <1>5 DEF u, seat

--------------------------------------------------------------------------------
(* The landing page.                                                       *)

HomeInv == home = [loading |-> home.loading, wake |-> home.wake] /\ WakeInv(home.wake)

LEMMA FreshInv ==
    ASSUME home' = Fresh
    PROVE  HomeInv'
BY AwakeInv DEF HomeInv, Fresh

LEMMA LandingInv ==
    ASSUME HomeInv, Landing
    PROVE  HomeInv'
<1>. USE DEF HomeInv
<1>1. ASSUME NEW action \in Actions, submit(action)
      PROVE  HomeInv'
  <2>1. home'.wake = guard(home.wake, action, TRUE)
        /\ home' = [loading |-> home'.loading, wake |-> home'.wake]
    BY <1>1 DEF submit, Home
  <2>. QED BY <1>1, <2>1, GuardInv DEF submit
<1>2. CASE onRetry
  <2>1. home'.wake = guard(home.wake, home.wake.action, FALSE)
        /\ home' = [loading |-> home'.loading, wake |-> home'.wake]
    BY <1>2 DEF onRetry, Home, retry
  <2>2. home.wake.action \in Actions \union {"none"}
    BY DEF WakeInv, WakeType
  <2>. QED BY <1>2, <2>1, <2>2, GuardInv DEF onRetry
<1>3. ASSUME NEW next, WakeInv(next), Wakes(next)
      PROVE  HomeInv'
  BY <1>3 DEF Wakes, Home
<1>4. ASSUME NEW g \in Guards, Trips(g) \/ TimesOut(g) \/ IsHealthy(g)
      PROVE  HomeInv'
  <2>1. CASE Trips(g)
    BY <2>1, <1>3, TripWireInv DEF Trips, Watching
  <2>2. CASE TimesOut(g)
    BY <2>2, <1>3, CeilingInv DEF TimesOut, Watching
  <2>3. CASE IsHealthy(g)
    BY <2>3, <1>3, DismissInv DEF IsHealthy, Watching
  <2>. QED BY <1>4, <2>1, <2>2, <2>3
<1>5. ASSUME NEW g \in Guards, Works(g)
      PROVE  HomeInv'
  <2>1. PICK answer \in Answers :
            home' = [home EXCEPT
                        !.wake.guard[g].request = answer.is,
                        !.wake.guard[g].seat = IF answer.is = "ok" THEN answer.view.as ELSE NoToken]
    BY <1>5 DEF Works
  <2>. DEFINE next == [home.wake EXCEPT
                          !.guard[g].request = answer.is,
                          !.guard[g].seat = IF answer.is = "ok" THEN answer.view.as ELSE NoToken]
  <2>2. home' = [loading |-> home.loading, wake |-> next]
    BY <2>1
  <2>3. WakeInv(next)
    BY WorksInv
  <2>. HIDE DEF next
  <2>. QED BY <2>2, <2>3
<1>6. ASSUME NEW g \in Guards, Settles(g)
      PROVE  HomeInv'
  <2>1. CASE home' = Fresh
    BY <2>1, FreshInv
  <2>2. CASE home' = [home EXCEPT !.loading = @ /\ ~home.wake.guard[g].awaited,
                                  !.wake = settle(@, g)]
    <3>1. home'.wake = settle(home.wake, g)
          /\ home' = [loading |-> home'.loading, wake |-> home'.wake]
      BY <2>2
    <3>. QED BY <3>1, SettleInv
  <2>. QED BY <1>6, <2>1, <2>2 DEF Settles
<1>. QED BY <1>1, <1>2, <1>4, <1>5, <1>6 DEF Landing

LEMMA HomeNextInv ==
    ASSUME HomeInv, [Next]_vars
    PROVE  HomeInv'
<1>1. CASE Landing
  BY <1>1, LandingInv
<1>2. CASE InRoom
  BY <1>2, FreshInv DEF InRoom, HomeInv
<1>3. CASE UNCHANGED home
  BY <1>3 DEF HomeInv
<1>. QED BY <1>1, <1>2, <1>3 DEF Next, TabNext, vars, tabVars

\* Only the last guard watches, in every reachable state of the tab.
THEOREM WakeInvariance == FairSpec => []HomeInv
<1>1. Init => HomeInv
  BY AwakeInv DEF Init, TabInit, Fresh, HomeInv
<1>2. HomeInv /\ [Next]_vars => HomeInv'
  BY HomeNextInv
<1>. QED BY <1>1, <1>2, PTL DEF FairSpec

\* The overlay is up exactly as long as a guard watches that will take it down, for
\* any number of overlapping requests (useWakeUpGuard.ts:14-15, 41-69).
THEOREM OverlayTells == FairSpec => []PhaseTellsWatch
<1>1. HomeInv => PhaseTellsWatch
  BY DEF HomeInv, WakeInv, PhaseTellsWatch
<1>. QED BY <1>1, WakeInvariance, PTL

--------------------------------------------------------------------------------
(* The sockets of a tab, for any number of runs of the effect: whatever    *)
(* the page does, and in whatever order joins, answers, messages, timers   *)
(* and reloads come, only the current run has a socket or a timer.         *)

\* A run that is not the current one.
Quiet == {"none", "checking", "checked"}

RunOK(r) == r \in [stage : Stages, token : {r.token}, seen : {r.seen}, answer : {r.answer}]

SocketOK(s) ==
    /\ s \in [run : {s.run}, current : {s.current}, view : {s.view}, connected : {s.connected},
              reconnecting : {s.reconnecting}, gone : {s.gone}]
    /\ s.run = [i \in Runs |-> s.run[i]]
    /\ \A i \in Runs : RunOK(s.run[i])
    /\ NoLeakedSocket(s)

--------------------------------------------------------------------------------
(* The hook.                                                               *)

LEMMA Runs0 == NoRun \notin Runs
BY RunsAssumption DEF NoRun

LEMMA NewRuns == \A t : RunOK(NewRun(t)) /\ NewRun(t).stage = "connecting"
BY DEF RunOK, NewRun, Stages

LEMMA EmptyRuns == RunOK(EmptyRun) /\ EmptyRun.stage = "none"
BY DEF RunOK, EmptyRun, NewRun, Stages

LEMMA UnusedOK == SocketOK(Unused) /\ Unused.current = NoRun
<1>1. /\ Unused.run = [i \in Runs |-> EmptyRun] /\ Unused.current = NoRun
      /\ Unused \in [run : {Unused.run}, current : {Unused.current}, view : {Unused.view},
                     connected : {Unused.connected}, reconnecting : {Unused.reconnecting},
                     gone : {Unused.gone}]
  BY DEF Unused
<1>. QED BY <1>1, EmptyRuns DEF SocketOK, NoLeakedSocket, cancelled

\* Other runs, and another current one.
LEMMA OtherRuns ==
    ASSUME NEW s, SocketOK(s), NEW f, f = [i \in Runs |-> f[i]], \A i \in Runs : RunOK(f[i]),
           NEW j, \A i \in Runs : i # j => f[i].stage \in Quiet,
           NEW u, u \in [run : {f}, current : {j}, view : {u.view}, connected : {u.connected},
                         reconnecting : {u.reconnecting}, gone : {u.gone}]
    PROVE  SocketOK(u)
<1>1. u.run = f /\ u.current = j
  OBVIOUS
<1>. QED BY <1>1 DEF SocketOK, NoLeakedSocket, cancelled, Quiet

LEMMA CleanupOK ==
    ASSUME NEW s, SocketOK(s)
    PROVE  SocketOK(cleanup(s)) /\ cleanup(s).current = NoRun
<1>. DEFINE f == [i \in Runs |->
                    IF cancelled(s, i) \/ s.run[i].stage \in {"checking", "checked"}
                    THEN s.run[i] ELSE EmptyRun]
            u == cleanup(s)
<1>1. u = [s EXCEPT !.current = NoRun, !.run = f]
  BY DEF cleanup
<1>2. \A i \in Runs : RunOK(f[i]) /\ f[i].stage \in Quiet
  BY EmptyRuns DEF SocketOK, NoLeakedSocket, Quiet
<1>3. f = [i \in Runs |-> f[i]]
  OBVIOUS
<1>. HIDE DEF f, u
<1>4. u \in [run : {f}, current : {NoRun}, view : {u.view}, connected : {u.connected},
             reconnecting : {u.reconnecting}, gone : {u.gone}]
  BY <1>1 DEF SocketOK
<1>5. SocketOK(u)
  BY <1>2, <1>3, <1>4, OtherRuns
<1>. QED BY <1>4, <1>5 DEF u

\* Which slot the new run gets does not matter.
LEMMA EffectOK ==
    ASSUME NEW s, SocketOK(s), s.current = NoRun, NEW t
    PROVE  SocketOK(effect(s, t))
<1>1. CASE t = NoToken
  BY <1>1 DEF effect
<1>2. CASE t # NoToken
  <2>. DEFINE j == CHOOSE i \in FreeRuns(s) : \A k \in FreeRuns(s) : i <= k
              f == [s.run EXCEPT ![j] = NewRun(t)]
              u == effect(s, t)
  <2>1. u = [s EXCEPT !.current = j, !.run = [s.run EXCEPT ![j] = NewRun(t)]]
    <3>1. u = [s EXCEPT !.current = j, !.run[j] = NewRun(t)]
      BY <1>2 DEF effect
    <3>2. [s EXCEPT !.current = j].run = s.run
      BY DEF SocketOK
    <3>. HIDE DEF j
    <3>. QED BY <3>1, <3>2
  <2>. HIDE DEF j
  <2>2. \A i \in Runs : f[i] = IF i = j THEN NewRun(t) ELSE s.run[i]
    BY DEF SocketOK
  <2>3. f = [i \in Runs |-> f[i]]
    BY DEF SocketOK
  <2>. HIDE DEF f, u
  <2>4. u \in [run : {f}, current : {j}, view : {u.view}, connected : {u.connected},
               reconnecting : {u.reconnecting}, gone : {u.gone}]
    BY <2>1 DEF SocketOK, f
  <2>5. \A i \in Runs : RunOK(f[i]) /\ (i # j => f[i].stage \in Quiet)
    BY <2>2, NewRuns, Runs0 DEF SocketOK, NoLeakedSocket, cancelled, Quiet
  <2>. QED BY <2>3, <2>4, <2>5, OtherRuns DEF u
<1>. QED BY <1>1, <1>2

LEMMA UnmountedOK ==
    ASSUME NEW s, SocketOK(s)
    PROVE  SocketOK(unmounted(s))
<1>. DEFINE c == cleanup(s)
            u == unmounted(s)
<1>1. SocketOK(c) /\ c.current = NoRun
  BY CleanupOK
<1>2. u = [Unused EXCEPT !.run = c.run]
  BY DEF unmounted
<1>. HIDE DEF c, u
<1>3. u \in [run : {c.run}, current : {NoRun}, view : {u.view}, connected : {u.connected},
             reconnecting : {u.reconnecting}, gone : {u.gone}]
  <2>1. /\ Unused.current = NoRun
        /\ Unused \in [run : {Unused.run}, current : {Unused.current}, view : {Unused.view},
                       connected : {Unused.connected}, reconnecting : {Unused.reconnecting},
                       gone : {Unused.gone}]
    BY DEF Unused
  <2>. QED BY <1>2, <2>1
<1>4. \A i \in Runs : c.run[i].stage \in Quiet
  BY <1>1, Runs0 DEF SocketOK, NoLeakedSocket, cancelled, Quiet
<1>5. SocketOK(u)
  <2>. DEFINE f == c.run
  <2>1. f = [i \in Runs |-> f[i]] /\ \A i \in Runs : RunOK(f[i])
    BY <1>1 DEF SocketOK
  <2>2. \A i \in Runs : i # NoRun => f[i].stage \in Quiet
    BY <1>4
  <2>3. u \in [run : {f}, current : {NoRun}, view : {u.view}, connected : {u.connected},
               reconnecting : {u.reconnecting}, gone : {u.gone}]
    BY <1>3
  <2>. HIDE DEF f
  <2>. QED BY <2>1, <2>2, <2>3, OtherRuns
<1>. QED BY <1>5 DEF u

LEMMA AppliesOK ==
    ASSUME NEW s, SocketOK(s), NEW view
    PROVE  SocketOK(applyServerResponse(s, view))
<1>. DEFINE u == [s EXCEPT !.view = view]
<1>1. u \in [run : {s.run}, current : {s.current}, view : {u.view}, connected : {u.connected},
             reconnecting : {u.reconnecting}, gone : {u.gone}]
  BY DEF SocketOK
<1>. HIDE DEF u
<1>2. \A i \in Runs : i # s.current => s.run[i].stage \in Quiet
  BY DEF SocketOK, NoLeakedSocket, cancelled, Quiet
<1>3. SocketOK(u)
  BY <1>1, <1>2, OtherRuns DEF SocketOK
<1>. QED BY <1>3 DEF applyServerResponse, u

\* An event of run i that leaves it the current one, or quiet.
LEMMA EventOK ==
    ASSUME NEW s, SocketOK(s), NEW i \in Runs, NEW r, RunOK(r),
           r.stage \in Quiet \/ ~cancelled(s, i),
           NEW u, u \in [run : {[s.run EXCEPT ![i] = r]}, current : {s.current}, view : {u.view},
                         connected : {u.connected}, reconnecting : {u.reconnecting}, gone : {u.gone}]
    PROVE  SocketOK(u)
<1>. DEFINE f == [s.run EXCEPT ![i] = r]
<1>1. f = [j \in Runs |-> f[j]] /\ \A j \in Runs : f[j] = IF j = i THEN r ELSE s.run[j]
  BY DEF SocketOK
<1>2. u \in [run : {f}, current : {s.current}, view : {u.view}, connected : {u.connected},
             reconnecting : {u.reconnecting}, gone : {u.gone}]
  OBVIOUS
<1>. HIDE DEF f
<1>3. \A j \in Runs : RunOK(f[j]) /\ (j # s.current => f[j].stage \in Quiet)
  BY <1>1 DEF SocketOK, NoLeakedSocket, cancelled, Quiet
<1>. QED BY <1>1, <1>2, <1>3, OtherRuns

\* A run that does something else than checking is the current one.
LEMMA LoudIsCurrent ==
    ASSUME NEW s, SocketOK(s), NEW i \in Runs, s.run[i].stage \notin Quiet
    PROVE  ~cancelled(s, i)
BY DEF SocketOK, NoLeakedSocket, Quiet

LEMMA onopenOK ==
    ASSUME NEW s, SocketOK(s), NEW i \in Runs, canOpen(s, i)
    PROVE  SocketOK(onopen(s, i))
<1>. DEFINE r == [s.run[i] EXCEPT !.stage = "open", !.seen = Latest - 1]
            u == onopen(s, i)
<1>1. RunOK(r) /\ ~cancelled(s, i)
  BY LoudIsCurrent DEF canOpen, Quiet, SocketOK, RunOK, Stages
<1>2. u = [s EXCEPT !.run = [s.run EXCEPT ![i] = r],
                    !.connected = TRUE, !.reconnecting = FALSE, !.gone = FALSE]
  BY DEF onopen, SocketOK
<1>. HIDE DEF r, u
<1>3. u \in [run : {[s.run EXCEPT ![i] = r]}, current : {s.current}, view : {u.view},
             connected : {u.connected}, reconnecting : {u.reconnecting}, gone : {u.gone}]
  BY <1>2 DEF SocketOK
<1>. QED BY <1>1, <1>3, EventOK DEF u

LEMMA onmessageOK ==
    ASSUME NEW s, SocketOK(s), NEW i \in Runs, NEW v, canReceive(s, i, v)
    PROVE  SocketOK(onmessage(s, i, v))
<1>. DEFINE r == [s.run[i] EXCEPT !.seen = v]
            u == onmessage(s, i, v)
<1>1. RunOK(r) /\ ~cancelled(s, i)
  BY LoudIsCurrent DEF canReceive, Quiet, SocketOK, RunOK, Stages
<1>2. u = [s EXCEPT !.run = [s.run EXCEPT ![i] = r], !.view = View(v, s.run[i].token)]
  BY DEF onmessage, SocketOK
<1>. HIDE DEF r, u
<1>3. u \in [run : {[s.run EXCEPT ![i] = r]}, current : {s.current}, view : {u.view},
             connected : {u.connected}, reconnecting : {u.reconnecting}, gone : {u.gone}]
  BY <1>2 DEF SocketOK
<1>. QED BY <1>1, <1>3, EventOK DEF u

LEMMA oncloseOK ==
    ASSUME NEW s, SocketOK(s), NEW i \in Runs, canClose(s, i)
    PROVE  SocketOK(onclose(s, i))
<1>. DEFINE r == [s.run[i] EXCEPT !.stage = "waiting", !.seen = 0]
            u == onclose(s, i)
<1>1. RunOK(r) /\ ~cancelled(s, i)
  BY LoudIsCurrent DEF canClose, Quiet, SocketOK, RunOK, Stages
<1>2. u = [s EXCEPT !.run = [s.run EXCEPT ![i] = r], !.connected = FALSE, !.reconnecting = TRUE]
  BY DEF onclose, SocketOK
<1>. HIDE DEF r, u
<1>3. u \in [run : {[s.run EXCEPT ![i] = r]}, current : {s.current}, view : {u.view},
             connected : {u.connected}, reconnecting : {u.reconnecting}, gone : {u.gone}]
  BY <1>2 DEF SocketOK
<1>. QED BY <1>1, <1>3, EventOK DEF u

\* Steps of a check: it may be under way for a run that is cancelled.
LEMMA ChecksOK ==
    ASSUME NEW s, SocketOK(s), NEW i \in Runs, NEW stage \in {"checking", "checked"}, NEW answer,
           NEW r, r = [s.run[i] EXCEPT !.stage = stage, !.answer = answer]
    PROVE  SocketOK([s EXCEPT !.run = [s.run EXCEPT ![i] = r]])
<1>. DEFINE u == [s EXCEPT !.run = [s.run EXCEPT ![i] = r]]
<1>1. RunOK(r) /\ r.stage \in Quiet
  BY DEF Quiet, SocketOK, RunOK, Stages
<1>2. u \in [run : {[s.run EXCEPT ![i] = r]}, current : {s.current}, view : {u.view},
             connected : {u.connected}, reconnecting : {u.reconnecting}, gone : {u.gone}]
  BY DEF SocketOK
<1>. HIDE DEF u
<1>3. SocketOK(u)
  BY <1>1, <1>2, EventOK
<1>. QED BY <1>3 DEF u

LEMMA timerFiresOK ==
    ASSUME NEW s, SocketOK(s), NEW i \in Runs
    PROVE  SocketOK(timerFires(s, i))
<1>. DEFINE r == [s.run[i] EXCEPT !.stage = "checking", !.answer = s.run[i].answer]
<1>1. timerFires(s, i) = [s EXCEPT !.run = [s.run EXCEPT ![i] = r]]
  BY DEF timerFires, SocketOK, RunOK
<1>2. r = [s.run[i] EXCEPT !.stage = "checking", !.answer = s.run[i].answer]
  OBVIOUS
<1>. HIDE DEF r
<1>3. SocketOK([s EXCEPT !.run = [s.run EXCEPT ![i] = r]])
  BY <1>2, ChecksOK
<1>. QED BY <1>1, <1>3

LEMMA checkAnsweredOK ==
    ASSUME NEW s, SocketOK(s), NEW i \in Runs, NEW answer
    PROVE  SocketOK(checkAnswered(s, i, answer))
<1>. DEFINE r == [s.run[i] EXCEPT !.stage = "checked", !.answer = answer.is]
<1>1. checkAnswered(s, i, answer) = [s EXCEPT !.run = [s.run EXCEPT ![i] = r]]
  BY DEF checkAnswered, SocketOK, RunOK
<1>2. r = [s.run[i] EXCEPT !.stage = "checked", !.answer = answer.is]
  OBVIOUS
<1>. HIDE DEF r
<1>3. SocketOK([s EXCEPT !.run = [s.run EXCEPT ![i] = r]])
  BY <1>2, ChecksOK
<1>. QED BY <1>1, <1>3

\* The second look at cancelled is what this rests on.
LEMMA resumesOK ==
    ASSUME NEW s, SocketOK(s), NEW i \in Runs
    PROVE  SocketOK(resumes(s, i))
<1>. DEFINE u == resumes(s, i)
<1>1. CASE cancelled(s, i)
  <2>1. u = [s EXCEPT !.run = [s.run EXCEPT ![i] = EmptyRun]]
    BY <1>1 DEF resumes, SocketOK
  <2>. HIDE DEF u
  <2>2. u \in [run : {[s.run EXCEPT ![i] = EmptyRun]}, current : {s.current}, view : {u.view},
               connected : {u.connected}, reconnecting : {u.reconnecting}, gone : {u.gone}]
    BY <2>1 DEF SocketOK
  <2>. QED BY <2>2, EmptyRuns, EventOK DEF Quiet, u
<1>2. CASE ~cancelled(s, i) /\ s.run[i].answer = "not_found"
  <2>. DEFINE r == [s.run[i] EXCEPT !.stage = "stopped"]
  <2>1. RunOK(r)
    BY DEF SocketOK, RunOK, Stages
  <2>2. u = [s EXCEPT !.run = [s.run EXCEPT ![i] = r], !.reconnecting = FALSE, !.gone = TRUE]
    BY <1>2 DEF resumes, SocketOK
  <2>. HIDE DEF r, u
  <2>3. u \in [run : {[s.run EXCEPT ![i] = r]}, current : {s.current}, view : {u.view},
               connected : {u.connected}, reconnecting : {u.reconnecting}, gone : {u.gone}]
    BY <2>2 DEF SocketOK
  <2>. QED BY <1>2, <2>1, <2>3, EventOK DEF u
<1>3. CASE ~cancelled(s, i) /\ s.run[i].answer # "not_found"
  <2>. DEFINE r == NewRun(s.run[i].token)
  <2>1. RunOK(r)
    BY NewRuns
  <2>2. u = [s EXCEPT !.run = [s.run EXCEPT ![i] = r]]
    BY <1>3 DEF resumes, SocketOK
  <2>. HIDE DEF r, u
  <2>3. u \in [run : {[s.run EXCEPT ![i] = r]}, current : {s.current}, view : {u.view},
               connected : {u.connected}, reconnecting : {u.reconnecting}, gone : {u.gone}]
    BY <2>2 DEF SocketOK
  <2>. QED BY <1>3, <2>1, <2>3, EventOK DEF u
<1>. QED BY <1>1, <1>2, <1>3

--------------------------------------------------------------------------------
(* The page.                                                               *)

Page(q, u) ==
    /\ q \in [route : {q.route}, keeps : {q.keeps}, storage : {q.storage}, token : {q.token},
              loading : {q.loading}, joining : {q.joining}, socket : {u}, calls : {q.calls}]
    /\ SocketOK(u)

PageOK(q) == Page(q, q.socket)

LEMMA StoresOK == ASSUME NEW q, PageOK(q), NEW t PROVE PageOK(setRoomToken(q, t))
BY DEF PageOK, Page, setRoomToken

LEMMA SetsTokenOK == ASSUME NEW q, PageOK(q), NEW t PROVE PageOK(setToken(q, t))
<1>1. CASE t = q.token
  BY <1>1 DEF setToken
<1>2. CASE t # q.token
  <2>. DEFINE u == effect(cleanup(q.socket), t)
              r == setToken(q, t)
  <2>1. SocketOK(cleanup(q.socket)) /\ cleanup(q.socket).current = NoRun
    BY CleanupOK DEF PageOK, Page
  <2>. DEFINE c == cleanup(q.socket)
  <2>2. SocketOK(u)
    <3>. HIDE DEF c
    <3>1. SocketOK(effect(c, t))
      BY <2>1, EffectOK DEF c
    <3>. QED BY <3>1 DEF c
  <2>3. r = [q EXCEPT !.token = t, !.socket = u, !.loading = q.loading /\ t # NoToken,
                      !.calls = IF t = NoToken THEN q.calls ELSE q.calls \union {Call("fetch", t)}]
    BY <1>2 DEF setToken, PageOK, Page
  <2>. HIDE DEF u, r
  <2>4. Page(r, u)
    BY <2>2, <2>3 DEF PageOK, Page
  <2>5. r.socket = u
    BY <2>4 DEF Page
  <2>. QED BY <2>4, <2>5 DEF PageOK, r
<1>. QED BY <1>1, <1>2

LEMMA MountOK == ASSUME NEW q, PageOK(q) PROVE PageOK(mount(q))
<1>. DEFINE b == [q EXCEPT !.route = "room", !.token = NoToken, !.loading = TRUE, !.joining = FALSE]
<1>1. PageOK(b) /\ PageOK([b EXCEPT !.loading = FALSE])
  BY DEF PageOK, Page
<1>2. mount(q) = IF q.storage = NoToken THEN [b EXCEPT !.loading = FALSE] ELSE setToken(b, q.storage)
  BY DEF mount
<1>. HIDE DEF b
<1>3. PageOK(setToken(b, q.storage))
  BY <1>1, SetsTokenOK
<1>. QED BY <1>1, <1>2, <1>3

LEMMA GoesHomeOK == ASSUME NEW q, PageOK(q) PROVE PageOK(goHome(q))
<1>1. CASE q.route # "room"
  BY <1>1 DEF goHome
<1>2. CASE q.route = "room"
  <2>. DEFINE u == unmounted(q.socket)
              left == {[c EXCEPT !.live = FALSE] : c \in {d \in q.calls : d.kind # "act"}}
              r == goHome(q)
  <2>1. SocketOK(u)
    BY UnmountedOK DEF PageOK, Page
  <2>2. r = [q EXCEPT !.route = "home", !.token = NoToken, !.loading = FALSE, !.joining = FALSE,
                      !.socket = u, !.calls = left]
    BY <1>2 DEF goHome
  <2>. HIDE DEF u, left, r
  <2>3. Page(r, u)
    BY <2>1, <2>2 DEF PageOK, Page
  <2>4. r.socket = u
    BY <2>3 DEF Page
  <2>. QED BY <2>3, <2>4 DEF PageOK, r
<1>. QED BY <1>1, <1>2

LEMMA RendersOK == ASSUME NEW q, PageOK(q) PROVE PageOK(rendered(q))
<1>1. PageOK(goHome(q))
  BY GoesHomeOK
<1>. DEFINE r == clearRoomToken(q)
<1>2. PageOK(r)
  BY StoresOK DEF clearRoomToken
<1>. HIDE DEF r
<1>3. PageOK(setToken(r, NoToken))
  BY <1>2, SetsTokenOK
<1>. QED BY <1>1, <1>3 DEF rendered, r

\* A tab with another socket.
LEMMA SocketsOK ==
    ASSUME NEW q, PageOK(q), NEW u, SocketOK(u)
    PROVE  PageOK([q EXCEPT !.socket = u])
BY DEF PageOK, Page

--------------------------------------------------------------------------------
(* The steps of the tab.                                                   *)

LEMMA PageStarts == PageInit => PageOK(p)
<1>. SUFFICES ASSUME PageInit PROVE PageOK(p)
  OBVIOUS
<1>. PICK keeps \in BOOLEAN, route \in {"home", "room"} :
        p = LET tab == [route |-> "home", keeps |-> keeps, storage |-> NoToken, token |-> NoToken,
                        loading |-> FALSE, joining |-> FALSE, socket |-> Unused, calls |-> {}]
            IN  IF route = "room" THEN mount(tab) ELSE tab
  BY DEF PageInit
<1>. DEFINE tab == [route |-> "home", keeps |-> keeps, storage |-> NoToken, token |-> NoToken,
                    loading |-> FALSE, joining |-> FALSE, socket |-> Unused, calls |-> {}]
<1>1. PageOK(tab)
  BY UnusedOK DEF PageOK, Page
<1>2. p = IF route = "room" THEN mount(tab) ELSE tab
  OBVIOUS
<1>. HIDE DEF tab
<1>3. PageOK(mount(tab))
  BY <1>1, MountOK
<1>. QED BY <1>1, <1>2, <1>3

LEMMA UserOK == ASSUME PageOK(p), User PROVE PageOK(p')
<1>1. ASSUME handleJoin PROVE PageOK(p')
  BY <1>1 DEF handleJoin, PageOK, Page
<1>2. ASSUME handleAct \/ handleBack PROVE PageOK(p')
  BY <1>2 DEF handleAct, handleBack, Asks, PageOK, Page
<1>3. ASSUME Back PROVE PageOK(p')
  BY <1>3, GoesHomeOK DEF Back
<1>4. ASSUME Load PROVE PageOK(p')
  <2>. DEFINE q == [p EXCEPT !.socket = Unused, !.calls = {}]
  <2>1. PageOK(q)
    BY UnusedOK DEF PageOK, Page
  <2>2. p' = mount(q)
    BY <1>4 DEF Load
  <2>. HIDE DEF q
  <2>. QED BY <2>1, <2>2, MountOK
<1>. QED BY <1>1, <1>2, <1>3, <1>4 DEF User

LEMMA ServesOK == ASSUME PageOK(p), NEW c, Serve(c) PROVE PageOK(p')
BY DEF Serve, Answered, PageOK, Page

LEMMA WithoutOK == ASSUME PageOK(p), NEW c PROVE PageOK(Without(c))
BY DEF Without, PageOK, Page

LEMMA ShownOK == ASSUME NEW q, PageOK(q), NEW c PROVE PageOK(Shown(q, c))
<1>. DEFINE u == applyServerResponse(q.socket, c.answer.view)
            r == [q EXCEPT !.socket = u]
<1>1. SocketOK(u)
  BY AppliesOK DEF PageOK, Page
<1>2. PageOK(r)
  <2>. HIDE DEF u
  <2>. QED BY <1>1, SocketsOK
<1>3. Shown(q, c) = IF c.live /\ c.answer.is = "ok" THEN r ELSE q
  BY DEF Shown
<1>. QED BY <1>2, <1>3

LEMMA FlagsOK ==
    ASSUME NEW q, PageOK(q), NEW b
    PROVE  PageOK([q EXCEPT !.loading = b]) /\ PageOK([q EXCEPT !.joining = b])
BY DEF PageOK, Page

LEMMA AnswerOK == ASSUME PageOK(p), NEW c, Answer(c) PROVE PageOK(p')
<1>. DEFINE w == Without(c)
<1>1. PageOK(w)
  BY WithoutOK
<1>2. ASSUME fetchAnswered(c) PROVE PageOK(p')
  <2>. DEFINE s == Shown(w, c)
              q == [s EXCEPT !.loading = s.loading /\ ~c.live]
  <2>1. IF c.answer = NotFound THEN p' = goHome(w) ELSE p' = rendered(q)
    BY <1>2 DEF fetchAnswered, Renders
  <2>. HIDE DEF w
  <2>2. PageOK(s)
    BY <1>1, ShownOK
  <2>. HIDE DEF s
  <2>3. PageOK(q)
    BY <2>2, FlagsOK
  <2>. HIDE DEF q
  <2>4. PageOK(goHome(w)) /\ PageOK(rendered(q))
    BY <1>1, <2>3, GoesHomeOK, RendersOK
  <2>. QED BY <2>1, <2>4
<1>3. ASSUME joinAnswered(c) PROVE PageOK(p')
  <2>. DEFINE q == [w EXCEPT !.joining = w.joining /\ ~c.live]
              t == c.answer.view.as
              r == setRoomToken(q, t)
              m == setToken(r, t)
              s == Shown(m, c)
  <2>1. p' \in {rendered(q), rendered(s), rendered(r)}
    BY <1>3 DEF joinAnswered, Renders
  <2>. HIDE DEF w
  <2>2. PageOK(q)
    BY <1>1, FlagsOK
  <2>. HIDE DEF q, t
  <2>3. PageOK(r)
    BY <2>2, StoresOK
  <2>. HIDE DEF r
  <2>4. PageOK(m)
    BY <2>3, SetsTokenOK
  <2>. HIDE DEF m
  <2>5. PageOK(s)
    BY <2>4, ShownOK
  <2>. HIDE DEF s
  <2>6. PageOK(rendered(q)) /\ PageOK(rendered(s)) /\ PageOK(rendered(r))
    BY <2>2, <2>3, <2>5, RendersOK
  <2>. QED BY <2>1, <2>6
<1>4. ASSUME actAnswered(c) PROVE PageOK(p')
  <2>. DEFINE s == Shown(w, c)
  <2>1. p' = rendered(s)
    BY <1>4 DEF actAnswered, Renders
  <2>. HIDE DEF w
  <2>2. PageOK(s)
    BY <1>1, ShownOK
  <2>. HIDE DEF s
  <2>. QED BY <2>1, <2>2, RendersOK
<1>5. ASSUME leaveAnswered(c) PROVE PageOK(p')
  <2>. DEFINE q == clearRoomToken(w)
  <2>1. p' = goHome(q)
    BY <1>5 DEF leaveAnswered
  <2>. HIDE DEF w
  <2>2. PageOK(q)
    BY <1>1, StoresOK DEF clearRoomToken
  <2>. HIDE DEF q
  <2>. QED BY <2>1, <2>2, GoesHomeOK
<1>. HIDE DEF w
<1>. QED BY <1>2, <1>3, <1>4, <1>5 DEF Answer

\* An event of a run, and the render after it.
LEMMA EventRenders ==
    ASSUME PageOK(p), NEW u, SocketOK(u), Socket(u)
    PROVE  PageOK(p')
<1>. DEFINE q == [p EXCEPT !.socket = u]
<1>1. PageOK(q)
  BY SocketsOK
<1>2. p' = rendered(q)
  BY DEF Socket, Renders
<1>. HIDE DEF q
<1>. QED BY <1>1, <1>2, RendersOK

LEMMA LineOK == ASSUME PageOK(p), NEW i \in Runs, Line(i) PROVE PageOK(p')
<1>. DEFINE s == p.socket
<1>0. SocketOK(s)
  BY DEF PageOK, Page
<1>1. ASSUME Opens(i) PROVE PageOK(p')
  <2>. DEFINE u == onopen(s, i)
  <2>1. canOpen(s, i) /\ Socket(u)
    BY <1>1 DEF Opens
  <2>. HIDE DEF s
  <2>2. SocketOK(u)
    BY <1>0, <2>1, onopenOK
  <2>. HIDE DEF u
  <2>. QED BY <2>1, <2>2, EventRenders
<1>2. ASSUME Closes(i) PROVE PageOK(p')
  <2>. DEFINE u == onclose(s, i)
  <2>1. canClose(s, i) /\ Socket(u)
    BY <1>2 DEF Closes
  <2>. HIDE DEF s
  <2>2. SocketOK(u)
    BY <1>0, <2>1, oncloseOK
  <2>. HIDE DEF u
  <2>. QED BY <2>1, <2>2, EventRenders
<1>3. ASSUME TimerFires(i) PROVE PageOK(p')
  <2>. DEFINE u == timerFires(s, i)
  <2>1. Socket(u)
    BY <1>3 DEF TimerFires
  <2>. HIDE DEF s
  <2>2. SocketOK(u)
    BY <1>0, timerFiresOK
  <2>. HIDE DEF u
  <2>. QED BY <2>1, <2>2, EventRenders
<1>4. ASSUME Checks(i) PROVE PageOK(p')
  <2>1. PICK answer : p' = [p EXCEPT !.socket = checkAnswered(p.socket, i, answer)]
    BY <1>4 DEF Checks, ChecksRoom
  <2>. DEFINE u == checkAnswered(p.socket, i, answer)
  <2>2. SocketOK(u)
    BY <1>0, checkAnsweredOK
  <2>. HIDE DEF u
  <2>3. PageOK([p EXCEPT !.socket = u])
    BY <2>2, SocketsOK
  <2>. QED BY <2>1, <2>3 DEF u
<1>5. ASSUME Resumes(i) PROVE PageOK(p')
  <2>. DEFINE u == resumes(s, i)
  <2>1. Socket(u)
    BY <1>5 DEF Resumes
  <2>. HIDE DEF s
  <2>2. SocketOK(u)
    BY <1>0, resumesOK
  <2>. HIDE DEF u
  <2>. QED BY <2>1, <2>2, EventRenders
<1>. QED BY <1>1, <1>2, <1>3, <1>4, <1>5 DEF Line

LEMMA ReceivesOK == ASSUME PageOK(p), NEW i \in Runs, NEW v, Receives(i, v) PROVE PageOK(p')
<1>. DEFINE s == p.socket
            u == onmessage(s, i, v)
<1>1. SocketOK(s) /\ canReceive(s, i, v) /\ Socket(u)
  BY DEF PageOK, Page, Receives
<1>. HIDE DEF s
<1>2. SocketOK(u)
  BY <1>1, onmessageOK
<1>. HIDE DEF u
<1>. QED BY <1>1, <1>2, EventRenders

LEMMA PageSteps == ASSUME PageOK(p), PageNext PROVE PageOK(p')
<1>1. ASSUME Others /\ UNCHANGED p PROVE PageOK(p')
  BY <1>1
<1>. QED BY <1>1, UserOK, ServesOK, AnswerOK, LineOK, ReceivesOK DEF PageNext

LEMMA LandingSteps == ASSUME PageOK(p), Landing PROVE PageOK(p')
<1>1. ASSUME NEW g \in Guards, Settles(g) PROVE PageOK(p')
  <2>. DEFINE r == setRoomToken(p, home.wake.guard[g].seat)
  <2>1. PageOK(r)
    BY StoresOK
  <2>2. p' = mount(r) \/ UNCHANGED p
    BY <1>1 DEF Settles
  <2>. HIDE DEF r
  <2>. QED BY <2>1, <2>2, MountOK
<1>2. CASE UNCHANGED p
  BY <1>2
<1>. QED BY <1>1, <1>2 DEF Landing, submit, onRetry, Trips, TimesOut, IsHealthy, Works, Wakes, Home,
                            pageVars

--------------------------------------------------------------------------------
\* Only the current run has a socket or a timer, whatever the page does
\* (useRoomSocket.ts:42, 76, 88, 108-113).
THEOREM OneSocket == FairSpec => []NoLeak
<1>1. Init => PageOK(p)
  BY PageStarts DEF Init, TabInit
<1>2. PageOK(p) /\ [Next]_vars => PageOK(p')
  BY PageSteps, LandingSteps DEF Next, TabNext, InRoom, vars, tabVars, pageVars
<1>3. PageOK(p) => NoLeak
  BY DEF PageOK, Page, SocketOK, NoLeak
<1>. DEFINE OK == PageOK(p)
<1>4. Init => OK
  BY <1>1
<1>5. OK /\ [Next]_vars => OK'
  BY <1>2 DEF PageOK, Page
<1>6. OK => NoLeak
  BY <1>3
<1>. HIDE DEF OK
<1>. QED BY <1>4, <1>5, <1>6, PTL DEF FairSpec

--------------------------------------------------------------------------------
(* The single-player page, for any number of games and requests under way. *)
(* The board can only grow since an answer of a guess has all rows that    *)
(* are shown: nobody else has shown this board in between (OneGuess), and a *)
(* new game is nobody else's (NewIsNew).                                   *)

\* A game as the tab knows it.
Boards == [id : Games \union {NoGame}, rows : Nat, over : BOOLEAN]

ServerOK ==
    /\ game \in [Games -> [is : {"unused", "stored", "lost"}, rows : Nat, over : BOOLEAN]]
    /\ \A g \in Games : game[g].is = "unused" => game[g].rows = 0

\* What the tab knows of a game the server has known.
Known(b) == b.id \in Games => game[b.id].is # "unused" /\ b.rows <= game[b.id].rows

Old(a) == a.kind \in {"get", "guess"}

AskedType(a) ==
    a \in [kind : PlayKinds, id : {a.id}, mine : BOOLEAN,
           answer : {"asked", "ok", "not_found", "failed"}, state : Boards]

AskedOK(a) ==
    /\ AskedType(a)
    /\ Known(a.state)
    /\ Old(a) => a.id \in Games /\ game[a.id].is # "unused"
    /\ a.answer = "ok" => a.state.id \in Games /\ (Old(a) => a.state.id = a.id)

TabType(q) ==
    q \in [url : Games \union {NoGame}, shown : Boards, loading : BOOLEAN,
           submitting : BOOLEAN, twice : BOOLEAN, asked : {q.asked}]

TabOK ==
    /\ TabType(play)
    /\ Known(play.shown)
    /\ play.shown.id = NoGame <=> play.shown = Nothing
    /\ play.url \in Games => game[play.url].is # "unused"
    /\ \A a \in play.asked : AskedOK(a)

\* Nothing else is asked while the page loads.
LoadsAlone ==
    \A a \in play.asked : a.kind \in {"get", "create"} =>
        play.loading /\ play.asked = {a} /\ play.shown = Nothing

\* A new game on its way is nobody else's.
NewIsNew ==
    \A a \in play.asked : ~Old(a) /\ a.answer = "ok" =>
        /\ a.state.id # play.shown.id /\ a.state.id # play.url
        /\ \A b \in play.asked \ {a} :
            /\ Old(b) => b.id # a.state.id
            /\ ~Old(b) /\ b.answer = "ok" => b.state.id # a.state.id

\* One guess at a time is under way on a game, and the board shown knows of
\* its own: the answer has all of its rows.
OneGuess ==
    \A a \in play.asked : a.kind = "guess" =>
        /\ \A b \in play.asked : b.kind = "guess" /\ b.id = a.id => b = a
        /\ a.id = play.shown.id => play.submitting
        /\ a.mine => a.id = play.shown.id
        /\ a.id = play.shown.id /\ a.answer = "ok" => a.state.rows >= play.shown.rows

\* As long as New Game has not been pressed again, one thing at a time is
\* under way.
OneAtATime ==
    ~play.twice =>
        /\ play.shown # Nothing => play.url = play.shown.id
        /\ \A a, b \in play.asked : a = b
        /\ \A a \in play.asked :
            /\ a.kind = "guess" => a.id = play.shown.id /\ ~play.shown.over
            /\ a.kind = "reset" => play.shown.over

PlayInv == ServerOK /\ TabOK /\ LoadsAlone /\ NewIsNew /\ OneGuess /\ OneAtATime

--------------------------------------------------------------------------------
(* Tabs and requests.                                                      *)

LEMMA NoGames == NoGame \notin Games /\ Nothing \in Boards /\ Nothing.id = NoGame /\ Nothing.rows = 0
BY PlayAssumption DEF NoGame, Nothing, Boards

LEMMA Requests ==
    ASSUME NEW kind \in PlayKinds, NEW id
    PROVE  /\ AskedType(Ask(kind, id))
           /\ Ask(kind, id).kind = kind /\ Ask(kind, id).id = id /\ Ask(kind, id).mine = TRUE
           /\ Ask(kind, id).answer = "asked" /\ Ask(kind, id).state = Nothing
BY NoGames DEF Ask, AskedType

LEMMA OpenedTab ==
    ASSUME NEW url \in Games \union {NoGame}
    PROVE  /\ TabType(Opened(url))
           /\ Opened(url).url = url /\ Opened(url).shown = Nothing /\ Opened(url).loading = TRUE
           /\ Opened(url).submitting = FALSE /\ Opened(url).twice = FALSE
           /\ Opened(url).asked = {IF url = NoGame THEN Ask("create", NoGame) ELSE Ask("get", url)}
BY NoGames DEF Opened, TabType

\* A request without its board.
Orphan(a) == [a EXCEPT !.mine = FALSE]

LEMMA Orphans ==
    ASSUME NEW a, AskedOK(a)
    PROVE  /\ AskedOK(Orphan(a))
           /\ Orphan(a).kind = a.kind /\ Orphan(a).id = a.id /\ Orphan(a).mine = FALSE
           /\ Orphan(a).answer = a.answer /\ Orphan(a).state = a.state
BY DEF AskedOK, AskedType, Orphan, Old, Known

LEMMA SettledTab ==
    ASSUME TabType(play), NEW a
    PROVE  /\ TabType(Settle(a))
           /\ Settle(a).asked = play.asked \ {a}
           /\ Settle(a).url = play.url /\ Settle(a).shown = play.shown
           /\ Settle(a).loading = play.loading /\ Settle(a).submitting = play.submitting
           /\ Settle(a).twice = play.twice
BY DEF Settle, TabType

LEMMA NamesURL ==
    ASSUME NEW q, TabType(q), NEW b \in Boards
    PROVE  /\ TabType(Names(q, b))
           /\ Names(q, b).asked = q.asked
           /\ Names(q, b).url = b.id /\ Names(q, b).shown = q.shown
           /\ Names(q, b).loading = q.loading /\ Names(q, b).submitting = q.submitting
           /\ Names(q, b).twice = q.twice
BY DEF Names, TabType, Boards

LEMMA ShowsIt ==
    ASSUME NEW q, TabType(q), NEW b \in Boards
    PROVE  /\ TabType(Shows(q, b))
           /\ Shows(q, b).url = q.url /\ Shows(q, b).shown = b
           /\ Shows(q, b).loading = q.loading /\ Shows(q, b).twice = q.twice
           /\ b.id = q.shown.id => /\ Shows(q, b).submitting = q.submitting
                                   /\ Shows(q, b).asked = q.asked
           /\ b.id # q.shown.id => /\ Shows(q, b).submitting = FALSE
                                   /\ Shows(q, b).asked = {Orphan(a) : a \in q.asked}
<1>1. CASE b.id = q.shown.id
  BY <1>1 DEF Shows, TabType
<1>2. CASE b.id # q.shown.id
  <2>. DEFINE A == {[a EXCEPT !.mine = FALSE] : a \in q.asked}
  <2>1. Shows(q, b) = [q EXCEPT !.shown = b, !.submitting = FALSE, !.asked = A]
    BY <1>2 DEF Shows, TabType
  <2>2. A = {Orphan(a) : a \in q.asked}
    BY DEF Orphan
  <2>. HIDE DEF A
  <2>. QED BY <1>2, <2>1, <2>2 DEF TabType
<1>. QED BY <1>1, <1>2

LEMMA LoadedIt ==
    ASSUME NEW q, TabType(q), NEW r, r = [q EXCEPT !.loading = FALSE]
    PROVE  /\ TabType(r)
           /\ r.asked = q.asked
           /\ r.url = q.url /\ r.shown = q.shown
           /\ r.loading = FALSE /\ r.submitting = q.submitting
           /\ r.twice = q.twice
BY DEF TabType

--------------------------------------------------------------------------------
(* The server never forgets that it had a game, nor a row of it.           *)

Grown ==
    \A g \in Games : game[g].is # "unused" => game'[g].is # "unused" /\ game[g].rows <= game'[g].rows

LEMMA SameGrown == ASSUME ServerOK, game' = game PROVE ServerOK' /\ Grown
BY DEF ServerOK, Grown

LEMMA CreateGrown ==
    ASSUME ServerOK, NEW g \in Games, createGame(g)
    PROVE  /\ ServerOK' /\ Grown
           /\ game[g].is = "unused" /\ game'[g].is # "unused"
<1>. DEFINE r == [game[g] EXCEPT !.is = "stored"]
<1>1. game' = [game EXCEPT ![g] = r]
  BY DEF createGame
<1>2. game[g].is = "unused" /\ game[g].rows = 0
  BY DEF createGame, ServerOK
<1>3. /\ r \in [is : {"unused", "stored", "lost"}, rows : Nat, over : BOOLEAN]
      /\ r.is = "stored" /\ r.rows = game[g].rows
  BY DEF ServerOK
<1>. HIDE DEF r
<1>. QED BY <1>1, <1>2, <1>3 DEF ServerOK, Grown

LEMMA RowWritten ==
    ASSUME NEW x \in [is : {"unused", "stored", "lost"}, rows : Nat, over : BOOLEAN],
           NEW n \in Nat, NEW over \in BOOLEAN
    PROVE  LET r == [x EXCEPT !.rows = n, !.over = over]
           IN  /\ r \in [is : {"unused", "stored", "lost"}, rows : Nat, over : BOOLEAN]
               /\ r.is = x.is /\ r.rows = n
<1>1. [x EXCEPT !.rows = n, !.over = over] \in [is : {"unused", "stored", "lost"}, rows : Nat, over : BOOLEAN]
  OBVIOUS
<1>. QED BY <1>1

LEMMA SubmitGrown ==
    ASSUME ServerOK, NEW g \in Games, submitGuess(g)
    PROVE  ServerOK' /\ Grown /\ game'[g].is = "stored"
<1>1. PICK over \in BOOLEAN : game' = [game EXCEPT ![g].rows = @ + 1, ![g].over = over]
  BY DEF submitGuess
<1>. DEFINE r == [game[g] EXCEPT !.rows = game[g].rows + 1, !.over = over]
<1>2. game' = [game EXCEPT ![g] = r]
  BY <1>1 DEF ServerOK
<1>3. game[g] \in [is : {"unused", "stored", "lost"}, rows : Nat, over : BOOLEAN]
  BY DEF ServerOK
<1>4. game[g].is = "stored"
  BY DEF submitGuess
<1>5. /\ r \in [is : {"unused", "stored", "lost"}, rows : Nat, over : BOOLEAN]
      /\ r.is = "stored" /\ r.rows = game[g].rows + 1
  <2>1. game[g].rows + 1 \in Nat
    BY <1>3
  <2>. QED BY <1>3, <1>4, <2>1, RowWritten
<1>. HIDE DEF r
<1>. QED BY <1>2, <1>5 DEF ServerOK, Grown

LEMMA RestartGrown == ASSUME ServerOK, Restart PROVE ServerOK' /\ Grown
<1>. DEFINE r(g) == [game[g] EXCEPT !.is = IF @ = "stored" THEN "lost" ELSE @]
<1>1. game' = [g \in Games |-> r(g)]
  BY DEF Restart
<1>2. ASSUME NEW g \in Games
      PROVE  /\ r(g) \in [is : {"unused", "stored", "lost"}, rows : Nat, over : BOOLEAN]
             /\ r(g).is = "unused" <=> game[g].is = "unused"
             /\ r(g).rows = game[g].rows
  BY DEF ServerOK
<1>. HIDE DEF r
<1>. QED BY <1>1, <1>2 DEF ServerOK, Grown

LEMMA StaysKnown ==
    ASSUME ServerOK, ServerOK', Grown, NEW b \in Boards, Known(b)
    PROVE  Known(b)'
BY DEF Known, Grown, ServerOK, Boards

LEMMA StaysAsked ==
    ASSUME ServerOK, ServerOK', Grown, NEW a, AskedOK(a)
    PROVE  AskedOK(a)'
<1>1. a.state \in Boards /\ Known(a.state)
  BY DEF AskedOK, AskedType
<1>2. Known(a.state)'
  BY <1>1, StaysKnown
<1>. QED BY <1>2 DEF AskedOK, AskedType, Grown, Old

\* A game that was not known to anybody is not known to the tab.
LEMMA Unheard ==
    ASSUME PlayInv, NEW g \in Games, game[g].is = "unused"
    PROVE  /\ play.shown.id # g /\ play.url # g
           /\ \A c \in play.asked : /\ Old(c) => c.id # g
                                    /\ c.answer = "ok" => c.state.id # g
BY DEF PlayInv, TabOK, AskedOK, Known

--------------------------------------------------------------------------------
(* What happens to the tab.                                                *)

\* The page stays as it is.
LEMMA Unmoved == ASSUME PlayInv, ServerOK', Grown, play' = play PROVE PlayInv'
<1>1. \A a \in play.asked : AskedOK(a)'
  BY StaysAsked DEF PlayInv, TabOK
<1>2. Known(play.shown)'
  <2>1. play.shown \in Boards /\ Known(play.shown) /\ ServerOK
    BY DEF PlayInv, TabOK, TabType
  <2>2. \A b \in Boards : Known(b) => Known(b)'
    BY <2>1, StaysKnown
  <2>. QED BY <2>1, <2>2 DEF Known
<1>3. TabOK'
  BY <1>1, <1>2 DEF PlayInv, TabOK, TabType, AskedOK, AskedType, Known, Old, Grown
<1>4. (LoadsAlone /\ NewIsNew /\ OneGuess /\ OneAtATime)'
  BY DEF PlayInv, LoadsAlone, NewIsNew, OneGuess, OneAtATime, Old
<1>. QED BY <1>3, <1>4 DEF PlayInv

\* A request is answered.
LEMMA AnswersOK ==
    ASSUME PlayInv, ServerOK', Grown, NEW a \in play.asked, a.answer = "asked",
           NEW b, AskedOK(b)', b.kind = a.kind, b.id = a.id, b.mine = a.mine, b.answer # "asked",
           ~Old(a) /\ b.answer = "ok" => game[b.state.id].is = "unused",
           Old(a) /\ b.answer = "ok" => b.state.rows = game'[a.id].rows,
           play' = [play EXCEPT !.asked = (@ \ {a}) \union {b}]
    PROVE  PlayInv'
<1>. USE DEF PlayInv
<1>1. /\ TabType(play')
      /\ play'.asked = (play.asked \ {a}) \union {b}
      /\ play'.url = play.url /\ play'.shown = play.shown /\ play'.loading = play.loading
      /\ play'.submitting = play.submitting /\ play'.twice = play.twice
  BY DEF TabOK, TabType
<1>2. \A c \in play.asked : AskedOK(c)'
  BY StaysAsked DEF TabOK
<1>3. play.shown \in Boards /\ Known(play.shown) /\ Known(play.shown)'
  <2>1. play.shown \in Boards /\ Known(play.shown) /\ ServerOK
    BY DEF TabOK, TabType
  <2>2. \A c \in Boards : Known(c) => Known(c)'
    BY <2>1, StaysKnown
  <2>. QED BY <1>1, <2>1, <2>2 DEF Known
<1>4. TabOK'
  <2>1. \A c \in play'.asked : AskedOK(c)'
    BY <1>1, <1>2
  <2>. QED BY <1>1, <1>3, <2>1 DEF TabOK, Known, Grown, TabType, AskedOK, AskedType, Old
<1>5. LoadsAlone'
  BY <1>1 DEF LoadsAlone
<1>6. NewIsNew'
  <2>1. CASE ~Old(b) /\ b.answer = "ok"
    <3>1. b.state.id \in Games /\ game[b.state.id].is = "unused"
      BY <2>1 DEF AskedOK, Old
    <3>2. /\ play.shown.id # b.state.id /\ play.url # b.state.id
          /\ \A c \in play.asked : /\ Old(c) => c.id # b.state.id
                                   /\ c.answer = "ok" => c.state.id # b.state.id
      BY <3>1, Unheard
    <3>. QED BY <1>1, <2>1, <3>2 DEF NewIsNew, Old
  <2>2. CASE Old(b) \/ b.answer # "ok"
    BY <1>1, <2>2 DEF NewIsNew, Old
  <2>. QED BY <2>1, <2>2
<1>7. OneGuess'
  <2>1. ASSUME NEW c \in play'.asked, c.kind = "guess"
        PROVE  \A d \in play'.asked : d.kind = "guess" /\ d.id = c.id => d = c
    BY <1>1, <2>1 DEF OneGuess
  <2>2. ASSUME b.kind = "guess", b.id = play.shown.id, b.answer = "ok"
        PROVE  b.state.rows >= play.shown.rows
    <3>1. b.state.rows = game'[a.id].rows /\ a.id \in Games /\ a.id = play.shown.id
      BY <2>2 DEF Old, TabOK, AskedOK
    <3>2. play.shown.rows <= game'[a.id].rows
      BY <1>1, <1>3, <3>1 DEF Known
    <3>. QED BY <1>3, <3>1, <3>2 DEF Boards, ServerOK
  <2>3. ASSUME NEW c \in play'.asked, c.kind = "guess"
        PROVE  /\ c.id = play.shown.id => play.submitting
               /\ c.mine => c.id = play.shown.id
    BY <1>1, <2>3 DEF OneGuess
  <2>4. ASSUME NEW c \in play'.asked, c.kind = "guess", c.id = play.shown.id, c.answer = "ok"
        PROVE  c.state.rows >= play.shown.rows
    BY <1>1, <2>2, <2>4 DEF OneGuess
  <2>. QED BY <1>1, <2>1, <2>3, <2>4 DEF OneGuess
<1>8. OneAtATime'
  BY <1>1 DEF OneAtATime
<1>. QED BY <1>4, <1>5, <1>6, <1>7, <1>8

\* A request is done with, and nothing new is shown.
LEMMA Drops ==
    ASSUME PlayInv, game' = game, NEW a \in play.asked, TabType(play'),
           play'.asked = play.asked \ {a},
           play'.url = play.url, play'.shown = play.shown, play'.twice = play.twice,
           play'.loading = play.loading \/ a.kind \in {"get", "create"},
           play'.submitting = play.submitting \/ (a.kind = "guess" /\ a.mine)
    PROVE  PlayInv'
<1>. USE DEF PlayInv
<1>1. TabOK' /\ ServerOK'
  BY DEF TabOK, ServerOK, AskedOK, Known, Old, AskedType
<1>2. LoadsAlone'
  BY DEF LoadsAlone
<1>3. NewIsNew'
  BY DEF NewIsNew, Old
<1>4. OneGuess'
  <2>1. ASSUME NEW c \in play'.asked, c.kind = "guess", c.id = play.shown.id
        PROVE  play'.submitting
    BY <2>1 DEF OneGuess
  <2>. QED BY <2>1 DEF OneGuess
<1>5. OneAtATime'
  BY DEF OneAtATime
<1>. QED BY <1>1, <1>2, <1>3, <1>4, <1>5

\* The game that was asked for first is shown.
LEMMA Loads ==
    ASSUME PlayInv, game' = game, NEW a \in play.asked, a.kind \in {"get", "create"},
           a.answer = "ok", TabType(play'), play'.asked = {},
           play'.url = a.state.id, play'.shown = a.state
    PROVE  PlayInv' /\ play'.shown.id # play.shown.id
<1>. USE DEF PlayInv
<1>1. a.state \in Boards /\ a.state.id \in Games /\ Known(a.state)
  BY DEF TabOK, AskedOK, AskedType
<1>2. ServerOK' /\ TabOK'
  BY <1>1, NoGames DEF ServerOK, TabOK, Known
<1>3. (LoadsAlone /\ NewIsNew /\ OneGuess /\ OneAtATime)'
  BY DEF LoadsAlone, NewIsNew, OneGuess, OneAtATime
<1>4. play.shown = Nothing
  BY DEF LoadsAlone
<1>. QED BY <1>1, <1>2, <1>3, <1>4, NoGames

\* A new game is shown instead of the old one.
LEMMA Renews ==
    ASSUME PlayInv, game' = game, NEW a \in play.asked, a.kind = "reset",
           a.answer = "ok", TabType(play'),
           play'.asked = IF a.state.id = play.shown.id THEN play.asked \ {a}
                         ELSE {Orphan(c) : c \in play.asked \ {a}},
           play'.url = a.state.id, play'.shown = a.state, play'.twice = play.twice
    PROVE  PlayInv' /\ play'.shown.id # play.shown.id
<1>. USE DEF PlayInv
<1>1. a.state \in Boards /\ a.state.id \in Games /\ Known(a.state)
  BY DEF TabOK, AskedOK, AskedType
<1>2. a.state.id # play.shown.id
  BY DEF NewIsNew, Old
<1>3. ASSUME NEW d \in play'.asked
      PROVE  \E c \in play.asked \ {a} : d = Orphan(c)
  BY <1>2
<1>4. \A c \in play.asked : AskedOK(c) => /\ AskedOK(Orphan(c))
           /\ Orphan(c).kind = c.kind /\ Orphan(c).id = c.id /\ Orphan(c).mine = FALSE
           /\ Orphan(c).answer = c.answer /\ Orphan(c).state = c.state
  BY Orphans
<1>5. \A c \in play.asked : AskedOK(c)
  BY DEF TabOK
<1>6. ServerOK' /\ TabOK'
  <2>1. \A d \in play'.asked : AskedOK(d)
    BY <1>3, <1>4, <1>5
  <2>2. \A d \in play'.asked : AskedOK(d)'
    BY <2>1 DEF AskedOK, AskedType, Known, Old
  <2>. QED BY <1>1, <2>2, NoGames DEF ServerOK, TabOK, Known
<1>7. LoadsAlone'
  <2>1. \A c \in play.asked : c.kind \notin {"get", "create"}
    BY DEF LoadsAlone
  <2>. QED BY <1>3, <1>4, <1>5, <2>1 DEF LoadsAlone
<1>8. NewIsNew'
  <2>1. ASSUME NEW d \in play'.asked, ~Old(d), d.answer = "ok"
        PROVE  d.state.id # a.state.id
    BY <1>3, <1>4, <1>5, <2>1 DEF NewIsNew, Old
  <2>2. ASSUME NEW d \in play'.asked, ~Old(d), d.answer = "ok", NEW e \in play'.asked \ {d}
        PROVE  /\ Old(e) => e.id # d.state.id
               /\ ~Old(e) /\ e.answer = "ok" => e.state.id # d.state.id
    <3>1. PICK c \in play.asked, b \in play.asked : d = Orphan(c) /\ e = Orphan(b)
      BY <1>3
    <3>2. /\ ~Old(c) /\ c.answer = "ok" /\ b # c /\ d.state = c.state
          /\ e.state = b.state /\ e.id = b.id /\ e.answer = b.answer /\ (Old(e) <=> Old(b))
      BY <1>4, <1>5, <2>2, <3>1 DEF Old
    <3>. QED BY <3>1, <3>2 DEF NewIsNew
  <2>. QED BY <2>1, <2>2 DEF NewIsNew, Old
<1>9. OneGuess'
  <2>1. ASSUME NEW d \in play'.asked, d.kind = "guess"
        PROVE  d.id # a.state.id /\ ~d.mine
    BY <1>3, <1>4, <1>5, <2>1 DEF NewIsNew, Old
  <2>2. ASSUME NEW d \in play'.asked, d.kind = "guess", NEW e \in play'.asked, e.kind = "guess",
               e.id = d.id
        PROVE  e = d
    BY <1>3, <1>4, <1>5, <2>2 DEF OneGuess
  <2>. QED BY <2>1, <2>2 DEF OneGuess
<1>10. OneAtATime'
  <2>1. ~play.twice => play'.asked = {}
    BY <1>3 DEF OneAtATime
  <2>. QED BY <2>1 DEF OneAtATime
<1>. QED BY <1>2, <1>6, <1>7, <1>8, <1>9, <1>10

\* The answer of a guess is shown, on its board or instead of another one.
LEMMA Reveals ==
    ASSUME PlayInv, game' = game, NEW a \in play.asked, a.kind = "guess",
           a.answer = "ok", TabType(play'),
           play'.asked = IF a.state.id = play.shown.id THEN play.asked \ {a}
                         ELSE {Orphan(c) : c \in play.asked \ {a}},
           play'.url = play.url, play'.shown = a.state, play'.twice = play.twice
    PROVE  /\ PlayInv'
           /\ play'.shown.id = play.shown.id => play'.shown.rows >= play.shown.rows
<1>. USE DEF PlayInv
<1>1. /\ a.state \in Boards /\ a.state.id \in Games /\ Known(a.state)
      /\ a.state.id = a.id /\ Old(a)
  BY DEF TabOK, AskedOK, AskedType, Old
<1>2. \A c \in play.asked : AskedOK(c) => /\ AskedOK(Orphan(c))
           /\ Orphan(c).kind = c.kind /\ Orphan(c).id = c.id /\ Orphan(c).mine = FALSE
           /\ Orphan(c).answer = c.answer /\ Orphan(c).state = c.state
  BY Orphans
<1>3. \A c \in play.asked : AskedOK(c)
  BY DEF TabOK
\* What is left of the requests under way.
<1>4. ASSUME NEW d \in play'.asked
      PROVE  \E c \in play.asked \ {a} :
                /\ d.kind = c.kind /\ d.id = c.id /\ d.answer = c.answer /\ d.state = c.state
                /\ d.mine => c.mine /\ a.id = play.shown.id
                /\ d = IF a.id = play.shown.id THEN c ELSE Orphan(c)
  BY <1>1, <1>2, <1>3
<1>5. ServerOK' /\ TabOK'
  <2>1. \A d \in play'.asked : AskedOK(d)
    BY <1>2, <1>3, <1>4
  <2>2. \A d \in play'.asked : AskedOK(d)'
    BY <2>1 DEF AskedOK, AskedType, Known, Old
  <2>. QED BY <1>1, <2>2, NoGames DEF ServerOK, TabOK, Known
<1>6. LoadsAlone'
  <2>1. \A c \in play.asked : c.kind \notin {"get", "create"}
    BY DEF LoadsAlone
  <2>. QED BY <1>4, <2>1 DEF LoadsAlone
<1>7. NewIsNew'
  <2>1. ASSUME NEW d \in play'.asked, ~Old(d), d.answer = "ok"
        PROVE  d.state.id # a.state.id /\ d.state.id # play.url
    BY <1>1, <1>4, <2>1 DEF NewIsNew, Old
  <2>2. ASSUME NEW d \in play'.asked, ~Old(d), d.answer = "ok", NEW e \in play'.asked \ {d}
        PROVE  /\ Old(e) => e.id # d.state.id
               /\ ~Old(e) /\ e.answer = "ok" => e.state.id # d.state.id
    <3>1. PICK c \in play.asked :
                /\ d.kind = c.kind /\ d.answer = c.answer /\ d.state = c.state
                /\ d = IF a.id = play.shown.id THEN c ELSE Orphan(c)
      BY <1>4
    <3>2. PICK b \in play.asked :
                /\ e.kind = b.kind /\ e.id = b.id /\ e.answer = b.answer /\ e.state = b.state
                /\ e = IF a.id = play.shown.id THEN b ELSE Orphan(b)
      BY <1>4
    <3>3. b # c
      BY <2>2, <3>1, <3>2
    <3>. QED BY <2>2, <3>1, <3>2, <3>3 DEF NewIsNew, Old
  <2>. QED BY <2>1, <2>2 DEF NewIsNew
<1>8. OneGuess'
  <2>1. ASSUME NEW d \in play'.asked, d.kind = "guess"
        PROVE  d.id # a.state.id /\ ~d.mine
    BY <1>1, <1>4, <2>1 DEF OneGuess
  <2>2. ASSUME NEW d \in play'.asked, d.kind = "guess", NEW e \in play'.asked, e.kind = "guess",
               e.id = d.id
        PROVE  e = d
    BY <1>4, <2>2 DEF OneGuess
  <2>. QED BY <2>1, <2>2 DEF OneGuess
<1>9. OneAtATime'
  <2>1. ~play.twice => play'.asked = {} /\ a.id = play.shown.id
    BY <1>4 DEF OneAtATime
  <2>2. ~play.twice => play.url = play.shown.id
    BY <1>1, <2>1, NoGames DEF OneAtATime
  <2>. QED BY <1>1, <2>1, <2>2 DEF OneAtATime
<1>10. play'.shown.id = play.shown.id => play'.shown.rows >= play.shown.rows
  BY <1>1 DEF OneGuess
<1>. QED BY <1>5, <1>6, <1>7, <1>8, <1>9, <1>10

\* Nothing of the loading is under way when a board is shown.
LEMMA NotLoading ==
    ASSUME PlayInv, ShowsBoard
    PROVE  /\ \A a \in play.asked : a.kind \in {"guess", "reset"}
           /\ play.shown.id \in Games /\ game[play.shown.id].is # "unused"
BY DEF PlayInv, ShowsBoard, LoadsAlone, TabOK, TabType, Boards, AskedOK, AskedType, PlayKinds, Known

LEMMA SubmitsOK == ASSUME PlayInv, handleSubmit PROVE PlayInv' /\ play'.shown = play.shown
<1>. USE DEF PlayInv
<1>. DEFINE b == Ask("guess", play.shown.id)
<1>1. /\ AskedType(b) /\ b.kind = "guess" /\ b.id = play.shown.id /\ b.mine = TRUE
      /\ b.answer = "asked" /\ b.state = Nothing
  BY Requests DEF PlayKinds
<1>2. play' = [play EXCEPT !.submitting = TRUE, !.asked = @ \union {b}] /\ game' = game
  BY DEF handleSubmit
<1>3. ShowsBoard /\ ~play.shown.over /\ ~play.submitting
  BY DEF handleSubmit
<1>. HIDE DEF b
<1>4. /\ TabType(play')
      /\ play'.asked = play.asked \union {b}
      /\ play'.url = play.url /\ play'.shown = play.shown /\ play'.loading = play.loading
      /\ play'.submitting = TRUE /\ play'.twice = play.twice
  BY <1>2 DEF TabOK, TabType
<1>5. /\ \A a \in play.asked : a.kind \in {"guess", "reset"}
      /\ play.shown.id \in Games /\ game[play.shown.id].is # "unused"
  BY <1>3, NotLoading
<1>6. ServerOK' /\ TabOK'
  <2>1. AskedOK(b)
    BY <1>1, <1>5, NoGames DEF AskedOK, Known
  <2>2. \A a \in play'.asked : AskedOK(a)'
    BY <1>2, <1>4, <2>1 DEF TabOK, AskedOK, AskedType, Known, Old
  <2>. QED BY <1>2, <1>4, <2>2 DEF ServerOK, TabOK, Known
<1>7. LoadsAlone'
  BY <1>1, <1>4, <1>5 DEF LoadsAlone
<1>8. NewIsNew'
  BY <1>1, <1>4 DEF NewIsNew, Old
<1>9. OneGuess'
  <2>1. \A a \in play.asked : a.kind = "guess" => a.id # play.shown.id
    BY <1>3 DEF OneGuess
  <2>. QED BY <1>1, <1>4, <2>1 DEF OneGuess
<1>10. OneAtATime'
  <2>1. ~play.twice => play.asked = {}
    BY <1>3, <1>5 DEF OneAtATime, OneGuess
  <2>. QED BY <1>1, <1>3, <1>4, <2>1 DEF OneAtATime
<1>. QED BY <1>4, <1>6, <1>7, <1>8, <1>9, <1>10

LEMMA ResetsOK == ASSUME PlayInv, resetGame PROVE PlayInv' /\ play'.shown = play.shown
<1>. USE DEF PlayInv
<1>. DEFINE b == AskAgain
            t == play.twice \/ Resets # {}
<1>1. /\ AskedType(b) /\ b.kind = "reset" /\ b.answer = "asked" /\ b.state = Nothing
  BY Requests DEF PlayKinds, AskAgain
<1>2. play' = [play EXCEPT !.asked = @ \union {b}, !.twice = t] /\ game' = game
  BY DEF resetGame
<1>3. ShowsBoard /\ play.shown.over
  BY DEF resetGame
<1>4. t \in BOOLEAN /\ (~t => ~play.twice /\ \A a \in play.asked : a.kind # "reset")
  BY DEF Resets, TabOK, TabType
<1>. HIDE DEF b, t
<1>5. /\ TabType(play')
      /\ play'.asked = play.asked \union {b}
      /\ play'.url = play.url /\ play'.shown = play.shown /\ play'.loading = play.loading
      /\ play'.submitting = play.submitting /\ play'.twice = t
  BY <1>2, <1>4 DEF TabOK, TabType
<1>6. /\ \A a \in play.asked : a.kind \in {"guess", "reset"}
      /\ play.shown.id \in Games /\ game[play.shown.id].is # "unused"
  BY <1>3, NotLoading
<1>7. ServerOK' /\ TabOK'
  <2>1. AskedOK(b)
    BY <1>1, NoGames DEF AskedOK, Known, Old
  <2>2. \A a \in play'.asked : AskedOK(a)'
    BY <1>2, <1>5, <2>1 DEF TabOK, AskedOK, AskedType, Known, Old
  <2>. QED BY <1>2, <1>5, <2>2 DEF ServerOK, TabOK, Known
<1>8. LoadsAlone'
  BY <1>1, <1>5, <1>6 DEF LoadsAlone
<1>9. NewIsNew'
  BY <1>1, <1>5 DEF NewIsNew, Old
<1>10. OneGuess'
  BY <1>1, <1>5 DEF OneGuess
<1>11. OneAtATime'
  <2>1. ~t => play.asked = {}
    BY <1>3, <1>4, <1>6 DEF OneAtATime
  <2>. QED BY <1>1, <1>3, <1>4, <1>5, <2>1 DEF OneAtATime
<1>. QED BY <1>5, <1>7, <1>8, <1>9, <1>10, <1>11

\* A document that is opened with an address the server has named.
LEMMA OpensOK ==
    \A url \in Games \union {NoGame} :
        ServerOK /\ (url \in Games => game[url].is # "unused") /\ play = Opened(url) => PlayInv
<1>. SUFFICES ASSUME NEW url \in Games \union {NoGame}, ServerOK,
                     url \in Games => game[url].is # "unused", play = Opened(url)
              PROVE  PlayInv
  OBVIOUS
<1>1. /\ TabType(play)
      /\ play.url = url /\ play.shown = Nothing /\ play.loading = TRUE
      /\ play.asked = {IF url = NoGame THEN Ask("create", NoGame) ELSE Ask("get", url)}
  BY OpenedTab
<1>2. PICK a : /\ play.asked = {a} /\ AskedType(a) /\ a.kind \in {"get", "create"}
               /\ a.answer = "asked" /\ a.state = Nothing
               /\ a.kind = "get" => a.id \in Games /\ game[a.id].is # "unused"
  <2>1. CASE url = NoGame
    <3>. DEFINE a == Ask("create", NoGame)
    <3>1. AskedType(a) /\ a.kind = "create" /\ a.answer = "asked" /\ a.state = Nothing
      BY Requests DEF PlayKinds
    <3>. HIDE DEF a
    <3>2. play.asked = {a}
      BY <1>1, <2>1 DEF a
    <3>. QED BY <3>1, <3>2
  <2>2. CASE url # NoGame
    <3>. DEFINE a == Ask("get", url)
    <3>1. AskedType(Ask("get", url)) /\ Ask("get", url).kind = "get" /\ Ask("get", url).id = url
      BY NoGames DEF Ask, AskedType, PlayKinds
    <3>2. /\ AskedType(a) /\ a.kind = "get" /\ a.id = url
          /\ a.answer = "asked" /\ a.state = Nothing
      BY <3>1 DEF Ask
    <3>. HIDE DEF a
    <3>3. play.asked = {a}
      BY <1>1, <2>2 DEF a
    <3>4. a.id \in Games /\ game[a.id].is # "unused"
      BY <2>2, <3>2
    <3>. QED BY <3>2, <3>3, <3>4
  <2>. QED BY <2>1, <2>2
<1>3. TabOK
  BY <1>1, <1>2, NoGames DEF TabOK, Known, AskedOK, Old
<1>4. LoadsAlone /\ NewIsNew /\ OneGuess /\ OneAtATime
  BY <1>1, <1>2 DEF LoadsAlone, NewIsNew, OneGuess, OneAtATime
<1>. QED BY <1>3, <1>4 DEF PlayInv

LEMMA PlayStarts == PlayInit => PlayInv
<1>. SUFFICES ASSUME PlayInit PROVE PlayInv
  OBVIOUS
<1>1. ServerOK
  BY DEF PlayInit, ServerOK
<1>. QED BY <1>1, OpensOK, NoGames DEF PlayInit

LEMMA ReloadsOK == ASSUME PlayInv, Reload PROVE PlayInv'
<1>1. ServerOK' /\ game' = game
  BY DEF PlayInv, Reload, ServerOK
<1>2. /\ play.url \in Games \union {NoGame}
      /\ play.url \in Games => game'[play.url].is # "unused"
      /\ play' = Opened(play.url)
  BY <1>1 DEF PlayInv, TabOK, TabType, Reload
<1>3. (\A url \in Games \union {NoGame} :
        ServerOK /\ (url \in Games => game[url].is # "unused") /\ play = Opened(url) => PlayInv)'
  BY OpensOK, PTL
<1>. QED BY <1>1, <1>2, <1>3 DEF Opened, Ask

\* The answers.
LEMMA GetsOK ==
    ASSUME PlayInv, NEW a \in play.asked, getAnswered(a)
    PROVE  PlayInv' /\ (play'.shown = play.shown \/ play'.shown.id # play.shown.id)
<1>. USE DEF PlayInv
<1>1. game' = game /\ a.kind = "get" /\ a.answer \in {"ok", "not_found", "failed"} /\ a.state \in Boards
  BY DEF getAnswered, Comes, TabOK, AskedOK, AskedType
<1>2. play.asked = {a} /\ play.shown = Nothing /\ play.loading = TRUE
  BY <1>1 DEF LoadsAlone, TabOK, TabType
<1>3. /\ TabType(Settle(a)) /\ Settle(a).asked = {}
      /\ Settle(a).url = play.url /\ Settle(a).shown = play.shown
      /\ Settle(a).loading = play.loading /\ Settle(a).submitting = play.submitting
      /\ Settle(a).twice = play.twice
  BY <1>2, SettledTab DEF TabOK
<1>4. CASE a.answer = "ok"
  <2>. DEFINE q == Names(Settle(a), a.state)
              r == Shows(q, a.state)
  <2>1. play' = [r EXCEPT !.loading = FALSE]
    BY <1>4 DEF getAnswered
  <2>2. TabType(q) /\ q.asked = {} /\ q.url = a.state.id
    BY <1>1, <1>3, NamesURL
  <2>. HIDE DEF q
  <2>3. TabType(r) /\ r.asked = {} /\ r.url = a.state.id /\ r.shown = a.state
    <3>1. /\ TabType(r) /\ r.url = q.url /\ r.shown = a.state
          /\ r.asked = q.asked \/ r.asked = {Orphan(c) : c \in q.asked}
      BY <1>1, <2>2, ShowsIt
    <3>. QED BY <2>2, <3>1
  <2>. HIDE DEF r
  <2>4. /\ TabType(play') /\ play'.asked = {}
        /\ play'.url = a.state.id /\ play'.shown = a.state
    BY <2>1, <2>3, LoadedIt
  <2>. QED BY <1>1, <1>4, <2>4, Loads
<1>5. CASE a.answer = "not_found"
  <2>1. play' = [Settle(a) EXCEPT !.asked = @ \union {Ask("create", NoGame)}]
    BY <1>5 DEF getAnswered
  <2>2. /\ TabType(play') /\ play'.asked = {Ask("create", NoGame)}
        /\ play'.url = play.url /\ play'.shown = Nothing /\ play'.loading = TRUE
    BY <1>2, <1>3, <2>1 DEF TabType
  <2>3. PICK b : /\ play'.asked = {b} /\ AskedType(b) /\ b.kind = "create"
                 /\ b.answer = "asked" /\ b.state = Nothing
    <3>. DEFINE b == Ask("create", NoGame)
    <3>1. /\ AskedType(b) /\ b.kind = "create" /\ b.answer = "asked" /\ b.state = Nothing
      BY Requests DEF PlayKinds
    <3>. HIDE DEF b
    <3>2. play'.asked = {b}
      BY <2>2 DEF b
    <3>. QED BY <3>1, <3>2
  <2>4. ServerOK' /\ TabOK'
    BY <1>1, <2>2, <2>3, NoGames DEF ServerOK, TabOK, Known, AskedOK, AskedType, Old
  <2>5. (LoadsAlone /\ NewIsNew /\ OneGuess /\ OneAtATime)'
    BY <2>2, <2>3 DEF LoadsAlone, NewIsNew, OneGuess, OneAtATime
  <2>. QED BY <1>2, <2>2, <2>4, <2>5
<1>6. CASE a.answer = "failed"
  <2>1. play' = [Settle(a) EXCEPT !.loading = FALSE]
    BY <1>6 DEF getAnswered
  <2>2. /\ TabType(play') /\ play'.asked = {} /\ play'.loading = FALSE
        /\ play'.url = play.url /\ play'.shown = play.shown /\ play'.twice = play.twice
        /\ play'.submitting = play.submitting
    BY <1>3, <2>1, LoadedIt
  <2>3. PlayInv'
    BY <1>1, <1>2, <2>2, Drops DEF TabOK, TabType
  <2>. QED BY <2>2, <2>3
<1>. QED BY <1>1, <1>4, <1>5, <1>6

\* The address is named and the game is shown.
LEMMA NamesAndShows ==
    ASSUME TabOK, NEW a \in play.asked, a.state \in Boards,
           NEW r, r = Shows(Names(Settle(a), a.state), a.state)
    PROVE  /\ TabType(r)
           /\ r.asked = IF a.state.id = play.shown.id THEN play.asked \ {a}
                        ELSE {Orphan(c) : c \in play.asked \ {a}}
           /\ r.url = a.state.id /\ r.shown = a.state /\ r.twice = play.twice
<1>. DEFINE q == Names(Settle(a), a.state)
<1>1. /\ TabType(q) /\ q.asked = play.asked \ {a}
      /\ q.url = a.state.id /\ q.shown = play.shown /\ q.twice = play.twice
  <2>1. /\ TabType(Settle(a)) /\ Settle(a).asked = play.asked \ {a}
        /\ Settle(a).shown = play.shown /\ Settle(a).twice = play.twice
    BY SettledTab DEF TabOK
  <2>. QED BY <2>1, NamesURL
<1>2. r = Shows(q, a.state)
  OBVIOUS
<1>. HIDE DEF q
<1>3. /\ TabType(r) /\ r.url = q.url /\ r.shown = a.state /\ r.twice = q.twice
      /\ a.state.id = q.shown.id => r.asked = q.asked
      /\ a.state.id # q.shown.id => r.asked = {Orphan(c) : c \in q.asked}
  <2>1. TabType(q)
    BY <1>1
  <2>. QED BY ONLY <1>2, <2>1, a.state \in Boards, ShowsIt
<1>4. q.asked = play.asked \ {a} /\ q.shown = play.shown
  BY <1>1
<1>5. CASE a.state.id = play.shown.id
  BY <1>1, <1>3, <1>5
<1>6. CASE a.state.id # play.shown.id
  BY <1>1, <1>3, <1>4, <1>6
<1>. QED BY <1>5, <1>6

LEMMA CreatesOK ==
    ASSUME PlayInv, NEW a \in play.asked, createAnswered(a)
    PROVE  PlayInv' /\ (play'.shown = play.shown \/ play'.shown.id # play.shown.id)
<1>. USE DEF PlayInv
<1>1. game' = game /\ a.kind = "create" /\ a.state \in Boards
  BY DEF createAnswered, Comes, TabOK, AskedOK, AskedType
<1>2. play.asked = {a}
  BY <1>1 DEF LoadsAlone
<1>3. CASE a.answer = "ok"
  <2>. DEFINE r == Shows(Names(Settle(a), a.state), a.state)
  <2>1. play' = [r EXCEPT !.loading = FALSE]
    BY <1>3 DEF createAnswered
  <2>2. /\ TabType(r)
        /\ r.asked = IF a.state.id = play.shown.id THEN play.asked \ {a}
                     ELSE {Orphan(c) : c \in play.asked \ {a}}
        /\ r.url = a.state.id /\ r.shown = a.state
    BY <1>1, NamesAndShows
  <2>. HIDE DEF r
  <2>3. /\ TabType(play') /\ play'.asked = {}
        /\ play'.url = a.state.id /\ play'.shown = a.state
    <3>1. r.asked = {}
      BY <1>2, <2>2
    <3>. QED BY <2>1, <2>2, <3>1, LoadedIt
  <2>. QED BY <1>1, <1>3, <2>3, Loads
<1>4. CASE a.answer # "ok"
  <2>1. play' = [Settle(a) EXCEPT !.loading = FALSE]
    BY <1>4 DEF createAnswered
  <2>2. /\ TabType(Settle(a)) /\ Settle(a).asked = play.asked \ {a}
        /\ Settle(a).url = play.url /\ Settle(a).shown = play.shown
        /\ Settle(a).submitting = play.submitting /\ Settle(a).twice = play.twice
    BY SettledTab DEF TabOK
  <2>3. /\ TabType(play') /\ play'.asked = play.asked \ {a}
        /\ play'.url = play.url /\ play'.shown = play.shown /\ play'.twice = play.twice
        /\ play'.submitting = play.submitting
    BY <2>1, <2>2, LoadedIt
  <2>4. PlayInv'
    <3>1. \A c \in play'.asked : FALSE
      BY <1>2, <2>3
    <3>2. ServerOK' /\ TabOK'
      BY <1>1, <2>3, <3>1 DEF ServerOK, TabOK, Known
    <3>3. (LoadsAlone /\ NewIsNew /\ OneGuess /\ OneAtATime)'
      BY <2>3, <3>1 DEF LoadsAlone, NewIsNew, OneGuess, OneAtATime
    <3>. QED BY <3>2, <3>3
  <2>. QED BY <2>3, <2>4
<1>. QED BY <1>3, <1>4

LEMMA ResetAnsweredOK ==
    ASSUME PlayInv, NEW a \in play.asked, resetAnswered(a)
    PROVE  PlayInv' /\ (play'.shown = play.shown \/ play'.shown.id # play.shown.id)
<1>. USE DEF PlayInv
<1>1. game' = game /\ a.kind = "reset" /\ a.state \in Boards
  BY DEF resetAnswered, Comes, TabOK, AskedOK, AskedType
<1>2. CASE a.answer = "ok"
  <2>1. play' = Shows(Names(Settle(a), a.state), a.state)
    BY <1>2 DEF resetAnswered
  <2>2. /\ TabType(play')
        /\ play'.asked = IF a.state.id = play.shown.id THEN play.asked \ {a}
                         ELSE {Orphan(c) : c \in play.asked \ {a}}
        /\ play'.url = a.state.id /\ play'.shown = a.state /\ play'.twice = play.twice
    BY <1>1, <2>1, NamesAndShows
  <2>. QED BY <1>1, <1>2, <2>2, Renews
<1>3. CASE a.answer # "ok"
  <2>1. play' = Settle(a)
    BY <1>3 DEF resetAnswered
  <2>2. /\ TabType(play') /\ play'.asked = play.asked \ {a}
        /\ play'.url = play.url /\ play'.shown = play.shown
        /\ play'.loading = play.loading /\ play'.submitting = play.submitting
        /\ play'.twice = play.twice
    BY <2>1, SettledTab DEF TabOK
  <2>3. play.loading \in BOOLEAN /\ play.submitting \in BOOLEAN
    BY DEF TabOK, TabType
  <2>4. PlayInv'
    BY <1>1, <2>2, <2>3, Drops
  <2>. QED BY <2>2, <2>4
<1>. QED BY <1>2, <1>3

LEMMA GuessAnsweredOK ==
    ASSUME PlayInv, NEW a \in play.asked, guessAnswered(a)
    PROVE  PlayInv' /\ (play'.shown.id = play.shown.id => play'.shown.rows >= play.shown.rows)
<1>. USE DEF PlayInv
<1>1. /\ game' = game /\ a.kind = "guess" /\ a.state \in Boards
      /\ a.mine \in BOOLEAN /\ play.submitting \in BOOLEAN /\ play.shown.rows \in Nat
  BY DEF guessAnswered, Comes, TabOK, TabType, Boards, AskedOK, AskedType
<1>. DEFINE b == play.submitting /\ ~a.mine
            q == [Settle(a) EXCEPT !.submitting = b]
<1>2. b \in BOOLEAN
  BY <1>1
<1>3. /\ TabType(Settle(a)) /\ Settle(a).asked = play.asked \ {a}
      /\ Settle(a).url = play.url /\ Settle(a).shown = play.shown
      /\ Settle(a).loading = play.loading /\ Settle(a).submitting = play.submitting
      /\ Settle(a).twice = play.twice
  BY SettledTab DEF TabOK
<1>4. play' = IF a.answer = "ok" THEN Shows(q, a.state) ELSE q
  BY <1>3 DEF guessAnswered
<1>. HIDE DEF b
<1>5. /\ TabType(q) /\ q.asked = play.asked \ {a}
      /\ q.url = play.url /\ q.shown = play.shown /\ q.loading = play.loading
      /\ q.submitting = b /\ q.twice = play.twice
  BY <1>2, <1>3 DEF TabType
<1>. HIDE DEF q
<1>6. CASE a.answer = "ok"
  <2>1. /\ TabType(play') /\ play'.url = q.url /\ play'.shown = a.state /\ play'.twice = q.twice
        /\ a.state.id = q.shown.id => play'.asked = q.asked
        /\ a.state.id # q.shown.id => play'.asked = {Orphan(c) : c \in q.asked}
    BY <1>1, <1>4, <1>5, <1>6, ShowsIt
  <2>2. play'.asked = IF a.state.id = play.shown.id THEN play.asked \ {a}
                      ELSE {Orphan(c) : c \in play.asked \ {a}}
    BY <1>5, <2>1
  <2>. QED BY <1>1, <1>5, <1>6, <2>1, <2>2, Reveals
<1>7. CASE a.answer # "ok"
  <2>1. play' = q
    BY <1>4, <1>7
  <2>2. play'.submitting = play.submitting \/ (a.kind = "guess" /\ a.mine)
    BY <1>1, <1>5, <2>1 DEF b
  <2>3. PlayInv'
    <3>1. play.loading \in BOOLEAN
      BY DEF TabOK, TabType
    <3>. QED BY <1>1, <1>5, <2>1, <2>2, <3>1, Drops
  <2>. QED BY <1>1, <1>5, <2>1, <2>3
<1>. QED BY <1>6, <1>7

LEMMA RepliedOK ==
    ASSUME PlayInv, NEW a \in play.asked, Replied(a)
    PROVE  PlayInv' /\ play'.shown = play.shown
<1>. USE DEF PlayInv
<1>1. AskedOK(a) /\ a.answer = "asked" /\ ServerOK
  BY DEF Replied, TabOK
<1>2. ASSUME ServerOK', Grown, NEW reply \in {"ok", "not_found", "failed"},
             NEW s \in Boards, Known(s)',
             play' = [play EXCEPT !.asked = (@ \ {a}) \union {[a EXCEPT !.answer = reply, !.state = s]}],
             reply = "ok" => /\ s.id \in Games
                             /\ Old(a) => s.id = a.id /\ s.rows = game'[a.id].rows
                             /\ ~Old(a) => game[s.id].is = "unused"
      PROVE  PlayInv' /\ play'.shown = play.shown
  <2>. DEFINE b == [a EXCEPT !.answer = reply, !.state = s]
  <2>1. play' = [play EXCEPT !.asked = (@ \ {a}) \union {b}]
    BY <1>2
  <2>2. /\ AskedType(b) /\ b.kind = a.kind /\ b.id = a.id /\ b.mine = a.mine
        /\ b.answer = reply /\ b.state = s
    BY <1>1, <1>2 DEF AskedOK, AskedType
  <2>. HIDE DEF b
  <2>3. AskedOK(b)'
    <3>1. AskedOK(a)'
      BY <1>1, <1>2, StaysAsked
    <3>2. b.answer = "ok" => b.state.id \in Games /\ (Old(a) => b.state.id = b.id)
      BY <1>2, <2>2
    <3>3. Known(b.state)'
      BY <1>2, <2>2 DEF Known
    <3>. QED BY <2>2, <3>1, <3>2, <3>3 DEF AskedOK, AskedType, Old
  <2>4. /\ ~Old(a) /\ b.answer = "ok" => game[b.state.id].is = "unused"
        /\ Old(a) /\ b.answer = "ok" => b.state.rows = game'[a.id].rows
        /\ b.answer # "asked"
    BY <1>2, <2>2
  <2>5. PlayInv'
    BY <1>1, <1>2, <2>1, <2>2, <2>3, <2>4, AnswersOK
  <2>6. play'.shown = play.shown
    BY <2>1 DEF TabOK, TabType
  <2>. QED BY <2>5, <2>6
<1>3. ASSUME ServerOK', Grown, NEW reply \in {"not_found", "failed"}, NEW g, Replies(a, reply, g)
      PROVE  PlayInv' /\ play'.shown = play.shown
  <2>1. play' = [play EXCEPT !.asked = (@ \ {a}) \union
                                {[a EXCEPT !.answer = reply, !.state = Nothing]}]
    BY <1>3 DEF Replies, Snapshot
  <2>2. Nothing \in Boards /\ Known(Nothing)'
    BY NoGames DEF Known
  <2>. QED BY <1>2, <1>3, <2>1, <2>2
<1>4. ASSUME ServerOK', Grown, NEW g \in Games, Replies(a, "ok", g), game'[g].is # "unused",
             IF Old(a) THEN g = a.id ELSE game[g].is = "unused"
      PROVE  PlayInv' /\ play'.shown = play.shown
  <2>. PICK s : s = [id |-> g, rows |-> game'[g].rows, over |-> game'[g].over]
    OBVIOUS
  <2>1. play' = [play EXCEPT !.asked = (@ \ {a}) \union {[a EXCEPT !.answer = "ok", !.state = s]}]
    BY <1>4 DEF Replies, Snapshot
  <2>2. s \in Boards /\ s.id = g /\ s.rows = game'[g].rows
    BY <1>4 DEF Boards, ServerOK
  <2>3. Known(s)'
    BY <1>4, <2>2 DEF Known, ServerOK
  <2>. QED BY <1>2, <1>4, <2>1, <2>2, <2>3
<1>5. CASE UNCHANGED game /\ Replies(a, "failed", NoGame)
  BY <1>1, <1>5, <1>3, SameGrown
<1>6. CASE a.kind = "get" /\ UNCHANGED game
           /\ Replies(a, IF game[a.id].is = "stored" THEN "ok" ELSE "not_found", a.id)
  <2>1. ServerOK' /\ Grown /\ a.id \in Games /\ game'[a.id].is # "unused" /\ Old(a)
    BY <1>1, <1>6, SameGrown DEF AskedOK, Old
  <2>. QED BY <1>6, <1>3, <1>4, <2>1
<1>7. ASSUME a.kind \in {"create", "reset"}, NEW g \in Games, NEW reply \in {"ok", "failed"},
             createGame(g), Replies(a, reply, g)
      PROVE  PlayInv' /\ play'.shown = play.shown
  <2>1. ServerOK' /\ Grown /\ game[g].is = "unused" /\ game'[g].is # "unused"
    BY <1>1, <1>7, CreateGrown
  <2>2. ~Old(a)
    BY <1>7 DEF Old
  <2>. QED BY <1>7, <1>3, <1>4, <2>1, <2>2
<1>8. ASSUME a.kind = "guess", submitGuess(a.id), NEW reply \in {"ok", "failed"},
             Replies(a, reply, a.id)
      PROVE  PlayInv' /\ play'.shown = play.shown
  <2>1. a.id \in Games /\ Old(a)
    BY <1>1, <1>8 DEF AskedOK, Old
  <2>2. ServerOK' /\ Grown /\ game'[a.id].is = "stored"
    BY <1>1, <1>8, <2>1, SubmitGrown
  <2>. QED BY <1>8, <1>3, <1>4, <2>1, <2>2
<1>. QED BY <1>5, <1>6, <1>7, <1>8 DEF Replied

--------------------------------------------------------------------------------
(* Every step.                                                             *)

LEMMA PlaySteps ==
    ASSUME PlayInv, PlayNext
    PROVE  /\ PlayInv'
           /\ play'.shown.id = play.shown.id => play'.shown.rows >= play.shown.rows \/ Reload
<1>. USE DEF PlayInv
<1>1. ServerOK /\ play.shown.rows \in Nat
  BY DEF TabOK, TabType, Boards
<1>2. CASE handleSubmit
  BY <1>1, <1>2, SubmitsOK
<1>3. CASE resetGame
  BY <1>1, <1>3, ResetsOK
<1>4. CASE Reload
  BY <1>4, ReloadsOK
<1>5. CASE Restart
  <2>1. ServerOK' /\ Grown /\ play' = play
    BY <1>1, <1>5, RestartGrown DEF Restart
  <2>. QED BY <1>1, <2>1, Unmoved
<1>6. ASSUME NEW g \in Games, OtherTab(g)
      PROVE  /\ PlayInv'
             /\ play'.shown.id = play.shown.id => play'.shown.rows >= play.shown.rows \/ Reload
  <2>1. ServerOK' /\ Grown /\ play' = play
    BY <1>1, <1>6, SubmitGrown DEF OtherTab
  <2>. QED BY <1>1, <2>1, Unmoved
<1>7. ASSUME NEW a \in play.asked,
             Replied(a) \/ getAnswered(a) \/ createAnswered(a) \/ resetAnswered(a) \/ guessAnswered(a)
      PROVE  /\ PlayInv'
             /\ play'.shown.id = play.shown.id => play'.shown.rows >= play.shown.rows \/ Reload
  <2>1. CASE Replied(a)
    BY <1>1, <2>1, RepliedOK
  <2>2. CASE getAnswered(a)
    BY <1>1, <2>2, GetsOK
  <2>3. CASE createAnswered(a)
    BY <1>1, <2>3, CreatesOK
  <2>4. CASE resetAnswered(a)
    BY <1>1, <2>4, ResetAnsweredOK
  <2>5. CASE guessAnswered(a)
    BY <2>5, GuessAnsweredOK
  <2>. QED BY <1>7, <2>1, <2>2, <2>3, <2>4, <2>5
<1>. QED BY <1>2, <1>3, <1>4, <1>5, <1>6, <1>7 DEF PlayNext

LEMMA PlayStutters == PlayInv /\ UNCHANGED playVars => PlayInv'
<1>. SUFFICES ASSUME PlayInv, UNCHANGED playVars PROVE PlayInv'
  OBVIOUS
<1>1. ServerOK /\ play' = play /\ game' = game
  BY DEF PlayInv, playVars
<1>. QED BY <1>1, SameGrown, Unmoved

--------------------------------------------------------------------------------
(* The theorems about the single-player page.                              *)

\* What holds of the tab and its game, in every reachable state.
THEOREM PlayInvariance == FairSpec => []PlayInv
<1>1. Init => PlayInv
  BY PlayStarts DEF Init
<1>2. PlayInv /\ [Next]_vars => PlayInv'
  <2>. SUFFICES ASSUME PlayInv, [Next]_vars PROVE PlayInv'
    OBVIOUS
  <2>1. PlayNext \/ UNCHANGED playVars
    BY DEF Next, vars
  <2>2. CASE PlayNext
    BY <2>2, PlaySteps
  <2>3. CASE UNCHANGED playVars
    BY <2>3, PlayStutters
  <2>. QED BY <2>1, <2>2, <2>3
<1>. QED BY <1>1, <1>2, PTL DEF FairSpec

\* The address names the board that is shown, however answers, reloads, other tabs
\* and restarts of the server come, unless New Game was pressed again before it had
\* answered (play/page.tsx:64-65, 80-82, 144).
THEOREM UrlsNameGames == FairSpec => []UrlNamesGame
<1>1. PlayInv => UrlNamesGame
  BY DEF PlayInv, OneAtATime, UrlNamesGame
<1>. QED BY <1>1, PlayInvariance, PTL

\* No answer takes rows off the board that is shown, although it replaces the board
\* and other tabs write the same game (play/page.tsx:65; Game.tsx:264, 281).
THEOREM BoardsNeverShrink == FairSpec => BoardNeverShrinks
<1>1. PlayInv /\ [Next]_vars =>
        [play'.shown.id = play.shown.id => play'.shown.rows >= play.shown.rows \/ Reload]_playVars
  <2>. SUFFICES ASSUME PlayInv, [Next]_vars, ~UNCHANGED playVars
                PROVE  play'.shown.id = play.shown.id =>
                            play'.shown.rows >= play.shown.rows \/ Reload
    OBVIOUS
  <2>1. PlayNext
    BY DEF Next, vars
  <2>. QED BY <2>1, PlaySteps
<1>. QED BY <1>1, PlayInvariance, PTL DEF FairSpec, BoardNeverShrinks

--------------------------------------------------------------------------------
(* The token of the room page: it is let go of only when it is dead.  A    *)
(* page whose view is not its own drops its token; so the proof follows    *)
(* who every view on its way was asked for, and by which token (Shape),    *)
(* and that no view is older than the token it was asked with (Facts): a   *)
(* room that took over the code has later states, and a token of the room  *)
(* that is stored is one of the last.                                      *)

Issued(t, iss) == t \in Tokens /\ iss[t] # NoRoom
Held(t, iss) == t = NoToken \/ Issued(t, iss)

\* The v-th state is not older than the token.
Seen(v, t, h, iss) == v \in 1 .. Len(h) /\ Issued(t, iss) /\ iss[t] <= h[v]
Honest(view, h, iss) == view = NoView \/ Seen(view.state, view.as, h, iss)

\* The view is that of a player.
Mine(view, h, iss) == view # NoView /\ view.as # NoToken /\ iss[view.as] = h[view.state]

CallType(c) == c \in [kind : Kinds, token : {c.token}, live : BOOLEAN, answer : {c.answer}]

AnswerFits(c, answer, h, iss) ==
    answer.is = "ok" =>
        /\ answer.view # NoView /\ Honest(answer.view, h, iss)
        /\ c.kind = "fetch" => answer.view.as = c.token
        /\ c.kind # "fetch" => Mine(answer.view, h, iss)

CallOK(c, h, iss) ==
    /\ CallType(c)
    /\ c.kind \in {"fetch", "act"} => Issued(c.token, iss)
    /\ AnswerFits(c, c.answer, h, iss)

\* What an open socket will bring is not older than its token.
OpenOK(r, h, iss) ==
    r.stage = "open" =>
        /\ Issued(r.token, iss) /\ r.seen \in Nat
        /\ \A v \in 1 .. Len(h) : v > r.seen => iss[r.token] <= h[v]

Facts(q, h, iss) ==
    /\ Held(q.storage, iss) /\ Held(q.token, iss)
    /\ Honest(q.socket.view, h, iss)
    /\ \A c \in q.calls : CallOK(c, h, iss)
    /\ \A i \in Runs : OpenOK(q.socket.run[i], h, iss)

\* The run of the hook is for the token of the page.
RunIsOurs(s, t) == \A i \in Runs : i = s.current => s.run[i].token = t

AtHome(q) ==
    q.route = "home" =>
        /\ q.token = NoToken /\ q.socket.view = NoView /\ q.socket.current = NoRun
        /\ \A c \in q.calls : ~c.live

\* While the page loads, nothing but the fetch for its token is under way.
LoadsOwn(q) ==
    q.loading =>
        /\ q.socket.view = NoView \/ q.socket.view.as = q.token
        /\ \A c \in q.calls : c.live => c.kind = "fetch" /\ c.token = q.token

\* One join at a time, by a page without a token.
JoinsAlone(q) ==
    \A c \in q.calls : c.kind = "join" /\ c.live =>
        /\ q.joining /\ q.token = NoToken
        /\ \A d \in q.calls : d.kind = "join" /\ d.live => d = c

Shape(q) ==
    /\ q.route \in {"home", "room"} /\ q.loading \in BOOLEAN /\ q.joining \in BOOLEAN
    /\ RunIsOurs(q.socket, q.token)
    /\ AtHome(q) /\ LoadsOwn(q) /\ JoinsAlone(q)

\* The page has no stale token: see tokenStale.
Tells(q, h, iss) ==
    ~q.loading /\ q.token # NoToken /\ q.socket.view # NoView => Mine(q.socket.view, h, iss)

Fits(q, h, iss) == Facts(q, h, iss) /\ Shape(q) /\ Tells(q, h, iss)

--------------------------------------------------------------------------------
(* The server only adds to what it has said.                               *)

ServiceOK(h, iss) ==
    /\ h \in Seq(Nat \ {0}) /\ Len(h) > 0
    /\ \A v \in 1 .. Len(h) : h[v] <= h[Len(h)]
    /\ iss \in [Tokens -> Nat]
    /\ \A t \in Tokens : iss[t] <= h[Len(h)]

OnlyAdds(h, iss, h2, iss2) ==
    /\ Len(h2) >= Len(h)
    /\ \A v \in 1 .. Len(h) : h2[v] = h[v]
    /\ \A v \in Len(h) + 1 .. Len(h2) : h2[v] >= h[Len(h)]
    /\ \A t \in Tokens : iss[t] # NoRoom => iss2[t] = iss[t]

\* What Append does to a list, element by element.
LEMMA Lists ==
    ASSUME NEW S, NEW h \in Seq(S)
    PROVE  /\ Len(h) \in Nat
           /\ \A v \in 1 .. Len(h) : h[v] \in S
           /\ \A x \in S : /\ Append(h, x) \in Seq(S)
                          /\ Len(Append(h, x)) = Len(h) + 1
                          /\ Append(h, x)[Len(h) + 1] = x
                          /\ \A v \in 1 .. Len(h) : Append(h, x)[v] = h[v]
OBVIOUS

\* A new state of room x, and perhaps a token of it.
LEMMA Appends ==
    ASSUME NEW h, NEW iss, ServiceOK(h, iss), NEW x \in Nat, x >= h[Len(h)],
           NEW iss2, \/ iss2 = iss
                     \/ \E t \in Tokens : iss[t] = NoRoom /\ iss2 = [iss EXCEPT ![t] = x]
    PROVE  /\ ServiceOK(Append(h, x), iss2) /\ OnlyAdds(h, iss, Append(h, x), iss2)
           /\ Len(Append(h, x)) = Len(h) + 1 /\ Append(h, x)[Len(h) + 1] = x
<1>. DEFINE h2 == Append(h, x)
<1>1. h \in Seq(Nat \ {0}) /\ Len(h) > 0
  BY DEF ServiceOK
<1>2. Len(h) \in Nat /\ \A v \in 1 .. Len(h) : h[v] \in Nat \ {0} /\ h[v] <= h[Len(h)]
  BY <1>1, Lists DEF ServiceOK
<1>3. h[Len(h)] \in Nat
  BY <1>1, <1>2
<1>4. h2 \in Seq(Nat \ {0}) /\ Len(h2) = Len(h) + 1 /\ h2[Len(h) + 1] = x
  BY <1>1, <1>2, Lists
<1>5. \A v \in 1 .. Len(h) : h2[v] = h[v]
  BY <1>1, <1>2, Lists
<1>. HIDE DEF h2
<1>6. \A v \in 1 .. Len(h2) : h2[v] <= h2[Len(h2)]
  <2>. SUFFICES ASSUME NEW v \in 1 .. Len(h2) PROVE h2[v] <= x
    BY <1>4
  <2>1. CASE v = Len(h) + 1
    BY <2>1, <1>4
  <2>2. CASE v \in 1 .. Len(h)
    <3>1. h2[v] = h[v] /\ h[v] \in Nat /\ h[v] <= h[Len(h)] /\ h[Len(h)] \in Nat
      BY <2>2, <1>1, <1>2, <1>5
    <3>. QED BY <3>1
  <2>. QED BY <2>1, <2>2, <1>1, <1>4
<1>7. iss2 \in [Tokens -> Nat] /\ \A t \in Tokens : iss2[t] <= x /\ (iss[t] # NoRoom => iss2[t] = iss[t])
  <2>1. iss \in [Tokens -> Nat] /\ \A t \in Tokens : iss[t] <= x
    <3>1. \A t \in Tokens : iss[t] \in Nat /\ iss[t] <= h[Len(h)]
      BY DEF ServiceOK
    <3>2. \A t \in Tokens : iss[t] <= x
      <4>. SUFFICES ASSUME NEW t \in Tokens PROVE iss[t] <= x
        OBVIOUS
      <4>1. iss[t] \in Nat /\ iss[t] <= h[Len(h)]
        BY <3>1
      <4>. QED BY <4>1, <1>3
    <3>. QED BY <3>2 DEF ServiceOK
  <2>2. CASE iss2 = iss
    BY <2>1, <2>2
  <2>3. ASSUME NEW t \in Tokens, iss[t] = NoRoom, iss2 = [iss EXCEPT ![t] = x]
        PROVE  iss2 \in [Tokens -> Nat] /\ \A u \in Tokens : iss2[u] = IF u = t THEN x ELSE iss[u]
    BY <2>1, <2>3
  <2>4. CASE \E t \in Tokens : iss[t] = NoRoom /\ iss2 = [iss EXCEPT ![t] = x]
    <3>1. PICK t \in Tokens : iss[t] = NoRoom /\ iss2 = [iss EXCEPT ![t] = x]
      BY <2>4
    <3>2. iss2 \in [Tokens -> Nat] /\ \A u \in Tokens : iss2[u] = IF u = t THEN x ELSE iss[u]
      BY <3>1, <2>3
    <3>3. \A u \in Tokens : iss2[u] <= x
      <4>. SUFFICES ASSUME NEW u \in Tokens PROVE iss2[u] <= x
        OBVIOUS
      <4>. QED BY <2>1, <3>2
    <3>4. \A u \in Tokens : iss[u] # NoRoom => iss2[u] = iss[u]
      BY <3>1, <3>2
    <3>. QED BY <3>2, <3>3, <3>4
  <2>. QED BY <2>2, <2>4
<1>8. \A v \in Len(h) + 1 .. Len(h2) : h2[v] >= h[Len(h)]
  BY <1>1, <1>4
<1>. QED BY <1>1, <1>4, <1>5, <1>6, <1>7, <1>8 DEF ServiceOK, OnlyAdds, h2

\* A service that does nothing only adds to what it has said.
LEMMA Stays ==
    ASSUME NEW h, NEW iss, ServiceOK(h, iss)
    PROVE  OnlyAdds(h, iss, h, iss)
<1>1. Len(h) \in Nat
  BY DEF ServiceOK
<1>. QED BY <1>1 DEF OnlyAdds

\* What was issued, seen or told stays so while the service goes on.
LEMMA SeenGrows ==
    ASSUME NEW h, NEW iss, ServiceOK(h, iss), NEW h2, NEW iss2, ServiceOK(h2, iss2),
           OnlyAdds(h, iss, h2, iss2)
    PROVE  /\ \A t : Issued(t, iss) => Issued(t, iss2) /\ iss2[t] = iss[t]
           /\ \A t : Held(t, iss) => Held(t, iss2)
           /\ \A v, t : Seen(v, t, h, iss) => Seen(v, t, h2, iss2) /\ h2[v] = h[v]
           /\ \A view : Honest(view, h, iss) => Honest(view, h2, iss2)
           /\ \A view : Honest(view, h, iss) /\ Mine(view, h, iss) => Mine(view, h2, iss2)
<1>1. \A t : Issued(t, iss) => Issued(t, iss2) /\ iss2[t] = iss[t]
  BY DEF Issued, OnlyAdds
<1>2. Len(h) \in Nat /\ Len(h2) \in Nat /\ Len(h) <= Len(h2)
  BY DEF ServiceOK, OnlyAdds
<1>3. \A v, t : Seen(v, t, h, iss) => Seen(v, t, h2, iss2) /\ h2[v] = h[v]
  BY <1>1, <1>2 DEF Seen, OnlyAdds
<1>4. \A view : Honest(view, h, iss) /\ Mine(view, h, iss) => Mine(view, h2, iss2)
  BY <1>1, <1>3 DEF Honest, Mine, Seen
<1>. QED BY <1>1, <1>3, <1>4 DEF Held, Honest

\* A tab that fits the service fits it when it has gone on.
LEMMA FactsGrow ==
    ASSUME NEW q, NEW h, NEW iss, ServiceOK(h, iss), NEW h2, NEW iss2, ServiceOK(h2, iss2),
           OnlyAdds(h, iss, h2, iss2), Fits(q, h, iss)
    PROVE  Fits(q, h2, iss2)
<1>1. Held(q.storage, iss2) /\ Held(q.token, iss2) /\ Honest(q.socket.view, h2, iss2)
  BY SeenGrows DEF Fits, Facts
<1>2. ASSUME NEW c, CallOK(c, h, iss) PROVE CallOK(c, h2, iss2)
  <2>1. c.kind \in {"fetch", "act"} => Issued(c.token, iss2)
    BY <1>2, SeenGrows DEF CallOK
  <2>2. AnswerFits(c, c.answer, h2, iss2)
    BY <1>2, SeenGrows DEF CallOK, AnswerFits
  <2>. QED BY <1>2, <2>1, <2>2 DEF CallOK
<1>3. ASSUME NEW r, OpenOK(r, h, iss) PROVE OpenOK(r, h2, iss2)
  <2>. SUFFICES ASSUME r.stage = "open"
                PROVE  /\ Issued(r.token, iss2) /\ r.seen \in Nat
                       /\ \A v \in 1 .. Len(h2) : v > r.seen => iss2[r.token] <= h2[v]
    BY DEF OpenOK
  <2>1. Issued(r.token, iss) /\ r.seen \in Nat
    BY <1>3 DEF OpenOK
  <2>2. Issued(r.token, iss2) /\ iss2[r.token] = iss[r.token]
    BY <2>1, SeenGrows
  <2>3. /\ Len(h) \in Nat /\ Len(h) > 0 /\ Len(h2) \in Nat
        /\ iss[r.token] \in Nat /\ h[Len(h)] \in Nat /\ iss[r.token] <= h[Len(h)]
    BY <2>1 DEF ServiceOK, Issued
  <2>4. \A v \in 1 .. Len(h2) : h2[v] \in Nat
    BY <2>3 DEF ServiceOK
  <2>5. ASSUME NEW v \in 1 .. Len(h2), v > r.seen PROVE iss2[r.token] <= h2[v]
    <3>1. CASE v \in 1 .. Len(h)
      BY <1>3, <2>2, <2>5, <3>1 DEF OpenOK, OnlyAdds
    <3>2. CASE v \in Len(h) + 1 .. Len(h2)
      BY <2>2, <2>3, <2>4, <3>2 DEF OnlyAdds
    <3>. QED BY <2>3, <3>1, <3>2
  <2>. QED BY <2>1, <2>2, <2>5
<1>4. Tells(q, h2, iss2)
  BY SeenGrows DEF Fits, Facts, Tells
<1>. QED BY <1>1, <1>2, <1>3, <1>4 DEF Fits, Facts

\* What the others do.
LEMMA OthersGrow ==
    ASSUME ServiceOK(history, issuedIn), Others
    PROVE  ServiceOK(history, issuedIn)' /\ OnlyAdds(history, issuedIn, history', issuedIn')
<1>1. Room \in Nat /\ Latest \in Nat
  BY Lists DEF ServiceOK, Room, Latest
<1>2. CASE Change
  BY <1>1, <1>2, Appends DEF Change, Changes, Room, Latest
<1>3. CASE Vanish
  BY <1>3, Stays DEF Vanish
<1>4. CASE Recreate
  BY <1>1, <1>4, Appends DEF Recreate, Begins, Room, Latest
<1>. QED BY <1>2, <1>3, <1>4 DEF Others

\* A request that is served, by a member or for a new one.
LEMMA RequestGrows ==
    ASSUME ServiceOK(history, issuedIn), NEW answer,
           \/ \E t : getRoom(t, answer) \/ act(t, answer) \/ leaveRoom(t, answer)
           \/ joinRoom(answer) \/ createRoom(answer)
    PROVE  ServiceOK(history, issuedIn)' /\ OnlyAdds(history, issuedIn, history', issuedIn')
<1>1. Room \in Nat /\ Latest \in Nat
  BY Lists DEF ServiceOK, Room, Latest
<1>2. CASE UNCHANGED serviceVars
  BY <1>2, Stays DEF serviceVars
<1>3. CASE Change
  BY <1>3, OthersGrow DEF Others
<1>4. ASSUME NEW t \in Tokens, NEW x \in {Room, Room + 1}, Issues(t, x), history' = Append(history, x)
      PROVE  ServiceOK(history, issuedIn)' /\ OnlyAdds(history, issuedIn, history', issuedIn')
  <2>1. x \in Nat /\ x >= history[Len(history)]
    BY <1>1 DEF Room, Latest
  <2>. QED BY <1>4, <2>1, Appends DEF Issues
<1>. QED BY <1>2, <1>3, <1>4 DEF getRoom, act, leaveRoom, joinRoom, createRoom, Changes, Begins

\* An answer is a member's, or tells the token that asked.
LEMMA AnswersFit ==
    ASSUME ServiceOK(history, issuedIn), NEW c, NEW answer,
           c.kind \in {"fetch", "act"} => Issued(c.token, issuedIn),
           \/ c.kind = "fetch" /\ getRoom(c.token, answer)
           \/ c.kind # "fetch" /\ (joinRoom(answer) \/ createRoom(answer))
           \/ c.kind = "act" /\ act(c.token, answer)
           \/ c.kind = "leave" /\ leaveRoom(c.token, answer)
    PROVE  AnswerFits(c, answer, history', issuedIn')
<1>0. SUFFICES ASSUME answer.is = "ok"
               PROVE  /\ answer.view # NoView /\ Honest(answer.view, history', issuedIn')
                      /\ c.kind = "fetch" => answer.view.as = c.token
                      /\ c.kind # "fetch" => Mine(answer.view, history', issuedIn')
  BY DEF AnswerFits
<1>1. /\ Latest \in Nat \ {0} /\ Room \in Nat \ {0} /\ history \in Seq(Nat \ {0})
      /\ issuedIn \in [Tokens -> Nat] /\ \A t \in Tokens : issuedIn[t] <= Room
  BY Lists DEF ServiceOK, Room, Latest
<1>2. answer \notin {Failed, NotFound}
  BY <1>0 DEF Failed, NotFound
<1>3. \A t \in Tokens : t # NoToken
  BY ServiceAssumption DEF NoToken
<1>4. \A v, t : /\ Ok(View(v, t)).view.state = v /\ Ok(View(v, t)).view.as = t
                /\ v # 0 => Ok(View(v, t)).view # NoView
  BY DEF Ok, View, NoView
<1>5. CASE c.kind = "fetch" /\ getRoom(c.token, answer)
  <2>1. answer = Ok(View(Latest, c.token)) /\ UNCHANGED serviceVars
    BY <1>2, <1>5 DEF getRoom
  <2>2. Seen(Latest, c.token, history', issuedIn')
    BY <1>1, <1>5, <2>1 DEF Seen, Issued, Room, Latest, serviceVars
  <2>. QED BY <1>1, <1>4, <1>5, <2>1, <2>2 DEF Honest
\* A new state of room x, shown to a member of it.
<1>6. ASSUME NEW t \in Tokens, NEW x \in Nat \ {0}, history' = Append(history, x), issuedIn'[t] = x,
             answer = Ok(View(Latest + 1, t)), c.kind # "fetch"
      PROVE  /\ answer.view # NoView /\ Honest(answer.view, history', issuedIn')
             /\ c.kind = "fetch" => answer.view.as = c.token
             /\ c.kind # "fetch" => Mine(answer.view, history', issuedIn')
  <2>1. Len(history') = Latest + 1 /\ history'[Latest + 1] = x
    BY <1>1, <1>6, Lists DEF Latest
  <2>2. Seen(Latest + 1, t, history', issuedIn')
    BY <1>1, <1>6, <2>1 DEF Seen, Issued, NoRoom
  <2>. QED BY <1>1, <1>3, <1>4, <1>6, <2>1, <2>2 DEF Honest, Mine
<1>7. CASE c.kind # "fetch" /\ joinRoom(answer)
  <2>1. PICK t \in Tokens : Changes /\ Issues(t, Room) /\ answer = Ok(View(Latest + 1, t))
    BY <1>2, <1>7 DEF joinRoom
  <2>2. history' = Append(history, Room) /\ issuedIn'[t] = Room
    BY <1>1, <2>1 DEF Changes, Issues
  <2>. QED BY <1>1, <1>6, <1>7, <2>1, <2>2
<1>8. CASE c.kind # "fetch" /\ createRoom(answer)
  <2>1. PICK t \in Tokens : Begins /\ Issues(t, Room + 1) /\ answer = Ok(View(Latest + 1, t))
    BY <1>2, <1>8 DEF createRoom
  <2>2. history' = Append(history, Room + 1) /\ issuedIn'[t] = Room + 1 /\ Room + 1 \in Nat \ {0}
    BY <1>1, <2>1 DEF Begins, Issues
  <2>. QED BY <1>6, <1>8, <2>1, <2>2
<1>9. CASE c.kind = "act" /\ act(c.token, answer)
  <2>1. Member(c.token) /\ Change /\ answer = Ok(View(Latest + 1, c.token))
    BY <1>2, <1>9 DEF act
  <2>2. c.token \in Tokens /\ history' = Append(history, Room) /\ issuedIn'[c.token] = Room
    BY <1>9, <2>1 DEF Member, Change, Changes, Issued
  <2>. QED BY <1>1, <1>6, <1>9, <2>1, <2>2
<1>10. CASE c.kind = "leave" /\ leaveRoom(c.token, answer)
  BY <1>2, <1>10 DEF leaveRoom
<1>. QED BY <1>5, <1>7, <1>8, <1>9, <1>10

--------------------------------------------------------------------------------
(* The functions of the hook and of the page.                              *)

\* A run that is not open brings nothing.
LEMMA ClosedRuns ==
    \A h, iss : OpenOK(EmptyRun, h, iss) /\ \A t : OpenOK(NewRun(t), h, iss) /\ NewRun(t).token = t
BY DEF OpenOK, EmptyRun, NewRun

\* The cleanup of the effect empties runs and leaves the view.
LEMMA CleanupRuns ==
    ASSUME NEW s, SocketOK(s), NEW c, c = cleanup(s)
    PROVE  /\ c.view = s.view /\ c.current = NoRun
           /\ \A i \in Runs : c.run[i] \in {s.run[i], EmptyRun}
           /\ \A i \in Runs : s.run[i].stage = "none" => c.run[i].stage = "none"
<1>. DEFINE f == [i \in Runs |->
                    IF cancelled(s, i) \/ s.run[i].stage \in {"checking", "checked"}
                    THEN s.run[i] ELSE EmptyRun]
<1>1. c = [s EXCEPT !.current = NoRun, !.run = f]
  BY DEF cleanup
<1>2. \A i \in Runs : f[i] \in {s.run[i], EmptyRun}
  OBVIOUS
<1>. HIDE DEF f
<1>3. c.view = s.view /\ c.current = NoRun /\ c.run = f
  BY <1>1 DEF SocketOK
<1>. QED BY <1>2, <1>3, EmptyRuns

\* The effect starts a run for the token it is given, and only that one.
LEMMA EffectRuns ==
    ASSUME NEW s, SocketOK(s), NEW t, t # NoToken, FreeRuns(s) # {} \/ Runs = {},
           NEW u, u = effect(s, t)
    PROVE  /\ u.view = s.view
           /\ \A i \in Runs : u.run[i] \in {s.run[i], NewRun(t)}
           /\ RunIsOurs(u, t)
<1>. DEFINE j == CHOOSE i \in FreeRuns(s) : \A k \in FreeRuns(s) : i <= k
            f == [s.run EXCEPT ![j] = NewRun(t)]
<1>1. Runs # {} => j \in Runs
  <2>. SUFFICES ASSUME FreeRuns(s) # {} PROVE j \in Runs
    OBVIOUS
  <2>1. FreeRuns(s) \in SUBSET Nat /\ FreeRuns(s) \subseteq Runs
    BY RunsAssumption DEF FreeRuns
  <2>2. j \in FreeRuns(s)
    BY <2>1, Smallest
  <2>. QED BY <2>1, <2>2
<1>2. u = [s EXCEPT !.current = j, !.run[j] = NewRun(t)]
  BY DEF effect
<1>3. [s EXCEPT !.current = j].run = s.run
  BY DEF SocketOK
<1>. HIDE DEF j
<1>4. u = [s EXCEPT !.current = j, !.run = f]
  BY <1>2, <1>3
<1>5. \A i \in Runs : f[i] = IF i = j THEN NewRun(t) ELSE s.run[i]
  BY DEF SocketOK
<1>. HIDE DEF f
<1>6. u.view = s.view /\ u.current = j /\ u.run = f
  BY <1>4 DEF SocketOK
<1>. QED BY <1>1, <1>5, <1>6, ClosedRuns DEF RunIsOurs

\* The hook of a page that is gone has no view and no run.
LEMMA UnmountedRuns ==
    ASSUME NEW s, SocketOK(s), NEW u, u = unmounted(s)
    PROVE  /\ u.view = NoView /\ u.current = NoRun
           /\ \A i \in Runs : u.run[i] \in {s.run[i], EmptyRun}
<1>. DEFINE c == cleanup(s)
<1>1. \A i \in Runs : c.run[i] \in {s.run[i], EmptyRun}
  BY CleanupRuns
<1>2. u = [Unused EXCEPT !.run = c.run]
  BY DEF unmounted
<1>. HIDE DEF c
<1>3. u.view = NoView /\ u.current = NoRun /\ u.run = c.run
  BY <1>2 DEF Unused
<1>. QED BY <1>1, <1>3

\* The fields of a tab that stores a token.
LEMMA StoreFields ==
    ASSUME NEW q, PageOK(q), NEW t, NEW r, r = setRoomToken(q, t)
    PROVE  /\ r.route = q.route /\ r.token = q.token /\ r.loading = q.loading
           /\ r.joining = q.joining /\ r.socket = q.socket /\ r.calls = q.calls
           /\ r.storage \in {t, q.storage}
BY DEF PageOK, Page, setRoomToken

\* Of a tab that holds another token.
LEMMA TokenFields ==
    ASSUME NEW q, PageOK(q), NEW t, t # q.token, NEW r, r = setToken(q, t)
    PROVE  /\ r.route = q.route /\ r.storage = q.storage /\ r.token = t
           /\ r.joining = q.joining
           /\ r.socket = effect(cleanup(q.socket), t)
           /\ t = NoToken => r.calls = q.calls
           /\ t # NoToken => r.calls = q.calls \union {Call("fetch", t)}
<1>. DEFINE u == effect(cleanup(q.socket), t)
            l == q.loading /\ t # NoToken
            k == IF t = NoToken THEN q.calls ELSE q.calls \union {Call("fetch", t)}
<1>1. r = [q EXCEPT !.token = t, !.socket = u, !.loading = l, !.calls = k]
  BY DEF setToken, PageOK, Page
<1>. HIDE DEF u, l, k
<1>2. r.route = q.route /\ r.storage = q.storage /\ r.token = t
      /\ r.joining = q.joining /\ r.socket = u /\ r.calls = k
  BY <1>1 DEF PageOK, Page
<1>. QED BY <1>2 DEF u, k

\* It is loading if it was, and the token is one.
Loading(q) == q.loading \in BOOLEAN
LoadsAs(q, t, r) == (t = NoToken => r.loading = FALSE) /\ (t # NoToken => r.loading = q.loading)

LEMMA TokenLoads ==
    ASSUME NEW q, PageOK(q), Loading(q), NEW t, t # q.token, NEW r, r = setToken(q, t)
    PROVE  LoadsAs(q, t, r)
<1>. DEFINE u == effect(cleanup(q.socket), t)
            l == q.loading /\ t # NoToken
            k == IF t = NoToken THEN q.calls ELSE q.calls \union {Call("fetch", t)}
<1>1. r = [q EXCEPT !.token = t, !.socket = u, !.loading = l, !.calls = k]
  BY DEF setToken, PageOK, Page
<1>2. (t = NoToken => l = FALSE) /\ (t # NoToken => l = q.loading)
  BY DEF Loading
<1>. HIDE DEF u, l, k
<1>3. r.loading = l
  BY <1>1 DEF PageOK, Page
<1>. QED BY <1>2, <1>3 DEF LoadsAs

\* Of a tab that has left the room.
LEMMA HomeFields ==
    ASSUME NEW q, PageOK(q), q.route = "room", NEW r, r = goHome(q)
    PROVE  /\ r.route = "home" /\ r.storage = q.storage /\ r.token = NoToken
           /\ r.joining = FALSE /\ r.loading = FALSE /\ r.socket = unmounted(q.socket)
           /\ r.calls = {[c EXCEPT !.live = FALSE] : c \in {d \in q.calls : d.kind # "act"}}
<1>. DEFINE u == unmounted(q.socket)
            left == {[c EXCEPT !.live = FALSE] : c \in {d \in q.calls : d.kind # "act"}}
<1>1. r = [q EXCEPT !.route = "home", !.token = NoToken, !.loading = FALSE, !.joining = FALSE,
                    !.socket = u, !.calls = left]
  BY DEF goHome
<1>. HIDE DEF u, left
<1>2. r.route = "home" /\ r.storage = q.storage /\ r.token = NoToken
      /\ r.joining = FALSE /\ r.loading = FALSE /\ r.socket = u /\ r.calls = left
  BY <1>1 DEF PageOK, Page
<1>. QED BY <1>2 DEF u, left

--------------------------------------------------------------------------------
(* The facts of a tab that has other fields.                               *)

\* A request just sent has no answer yet.
LEMMA FetchOK ==
    ASSUME NEW h, NEW iss, NEW kind \in Kinds, NEW t,
           kind \in {"fetch", "act"} => Issued(t, iss)
    PROVE  CallOK(Call(kind, t), h, iss)
BY DEF CallOK, CallType, Call, Kinds, AnswerFits, Asked

\* Storing a token that was issued.
LEMMA StoresFacts ==
    ASSUME NEW q, NEW h, NEW iss, PageOK(q), Facts(q, h, iss), NEW t, Held(t, iss)
    PROVE  Facts(setRoomToken(q, t), h, iss)
<1>. DEFINE r == setRoomToken(q, t)
<1>1. r.token = q.token /\ r.socket = q.socket /\ r.calls = q.calls /\ r.storage \in {t, q.storage}
  BY StoreFields
<1>. HIDE DEF r
<1>2. Facts(r, h, iss)
  BY <1>1 DEF Facts
<1>. QED BY <1>2 DEF r

\* A tab with another token, a run for it if it is one, and a fetch for it.
LEMMA TokenFacts ==
    ASSUME NEW q, NEW h, NEW iss, PageOK(q), Facts(q, h, iss),
           NEW t, t # q.token, Held(t, iss), t = NoToken \/ CanRun(q) \/ Runs = {},
           NEW r, r = setToken(q, t)
    PROVE  Facts(r, h, iss) /\ RunIsOurs(r.socket, t) /\ r.socket.view = q.socket.view
<1>. DEFINE c == cleanup(q.socket)
            u == effect(c, t)
<1>1. SocketOK(q.socket)
  BY DEF PageOK, Page
<1>2. SocketOK(c) /\ c.view = q.socket.view /\ c.current = NoRun
      /\ \A i \in Runs : c.run[i] \in {q.socket.run[i], EmptyRun}
  BY <1>1, CleanupRuns, CleanupOK
<1>3. t # NoToken => FreeRuns(c) # {} \/ Runs = {}
  BY DEF CanRun
<1>4. /\ r.storage = q.storage /\ r.token = t /\ r.socket = u
      /\ t = NoToken => r.calls = q.calls
      /\ t # NoToken => r.calls = q.calls \union {Call("fetch", t)}
  BY TokenFields
<1>. HIDE DEF c
<1>5. /\ u.view = q.socket.view /\ RunIsOurs(u, t)
      /\ \A i \in Runs : u.run[i] \in {q.socket.run[i], EmptyRun, NewRun(t)}
  <2>1. CASE t = NoToken
    BY <1>2, <2>1, Runs0 DEF effect, RunIsOurs
  <2>2. CASE t # NoToken
    <3>1. /\ u.view = c.view /\ RunIsOurs(u, t)
          /\ \A i \in Runs : u.run[i] \in {c.run[i], NewRun(t)}
      BY <1>2, <1>3, <2>2, EffectRuns
    <3>. HIDE DEF u
    <3>. QED BY <1>2, <3>1
  <2>. QED BY <2>1, <2>2
<1>. HIDE DEF u
<1>6. \A i \in Runs : OpenOK(u.run[i], h, iss)
  <2>. SUFFICES ASSUME NEW i \in Runs PROVE OpenOK(u.run[i], h, iss)
    OBVIOUS
  <2>1. u.run[i] \in {q.socket.run[i], EmptyRun, NewRun(t)}
    BY <1>5
  <2>2. OpenOK(q.socket.run[i], h, iss)
    BY DEF Facts
  <2>. QED BY <2>1, <2>2, ClosedRuns
<1>7. \A d \in r.calls : CallOK(d, h, iss)
  <2>1. t # NoToken => CallOK(Call("fetch", t), h, iss)
    BY FetchOK DEF Held, Kinds
  <2>. QED BY <1>4, <2>1 DEF Facts
<1>. QED BY <1>4, <1>5, <1>6, <1>7 DEF Facts

\* A request whose page is gone keeps its answer.
LEMMA LeftCalls ==
    ASSUME NEW h, NEW iss, NEW c, CallOK(c, h, iss), NEW d, d = [c EXCEPT !.live = FALSE]
    PROVE  CallOK(d, h, iss) /\ ~d.live
<1>1. CallType(d) /\ d.live = FALSE /\ d.kind = c.kind /\ d.token = c.token /\ d.answer = c.answer
  BY DEF CallOK, CallType
<1>. QED BY <1>1 DEF CallOK, AnswerFits

\* A page that is left.
LEMMA HomeFits ==
    ASSUME NEW q, NEW h, NEW iss, PageOK(q), Facts(q, h, iss), q.route = "room",
           NEW r, r = goHome(q)
    PROVE  Fits(r, h, iss) /\ r.route = "home"
<1>1. /\ r.route = "home" /\ r.storage = q.storage /\ r.token = NoToken
      /\ r.joining = FALSE /\ r.loading = FALSE /\ r.socket = unmounted(q.socket)
      /\ r.calls = {[c EXCEPT !.live = FALSE] : c \in {d \in q.calls : d.kind # "act"}}
  BY HomeFields
<1>2. /\ r.socket.view = NoView /\ r.socket.current = NoRun
      /\ \A i \in Runs : r.socket.run[i] \in {q.socket.run[i], EmptyRun}
  BY <1>1, UnmountedRuns DEF PageOK, Page
<1>3. \A c \in r.calls : CallOK(c, h, iss) /\ ~c.live
  BY <1>1, LeftCalls DEF Facts
<1>4. Facts(r, h, iss)
  BY <1>1, <1>2, <1>3, ClosedRuns DEF Facts, Held, Honest
<1>5. Shape(r)
  BY <1>1, <1>2, <1>3, Runs0 DEF Shape, RunIsOurs, AtHome, LoadsOwn, JoinsAlone
<1>. QED BY <1>1, <1>4, <1>5 DEF Fits, Tells

\* A tab that nothing but requests of an earlier page are left of.
Blank(q) ==
    /\ q.socket.view = NoView /\ q.socket.current = NoRun
    /\ \A i \in Runs : q.socket.run[i].stage = "none"
    /\ \A c \in q.calls : ~c.live

LEMMA MountFits ==
    ASSUME NEW q, NEW h, NEW iss, PageOK(q), Facts(q, h, iss), Blank(q),
           NEW m, m = mount(q)
    PROVE  Fits(m, h, iss) /\ m.route = "room"
<1>. DEFINE b == [q EXCEPT !.route = "room", !.token = NoToken, !.loading = TRUE, !.joining = FALSE]
            e == [b EXCEPT !.loading = FALSE]
<1>1. PageOK(b) /\ PageOK(e)
  BY DEF PageOK, Page
<1>2. /\ b.route = "room" /\ b.token = NoToken /\ b.loading = TRUE /\ b.joining = FALSE
      /\ b.storage = q.storage /\ b.socket = q.socket /\ b.calls = q.calls
  BY DEF PageOK, Page
<1>3. /\ e.route = "room" /\ e.token = NoToken /\ e.loading = FALSE /\ e.joining = FALSE
      /\ e.storage = q.storage /\ e.socket = q.socket /\ e.calls = q.calls
  BY DEF PageOK, Page
<1>4. m = IF b.storage = NoToken THEN e ELSE setToken(b, b.storage)
  BY <1>2 DEF mount
<1>. HIDE DEF b, e
<1>5. Facts(b, h, iss) /\ Facts(e, h, iss)
  BY <1>2, <1>3 DEF Facts, Held
<1>6. CASE b.storage = NoToken
  <2>1. Shape(e)
    BY <1>3, Runs0 DEF Shape, RunIsOurs, AtHome, LoadsOwn, JoinsAlone, Blank
  <2>. QED BY <1>3, <1>4, <1>5, <1>6, <2>1 DEF Fits, Tells
<1>7. CASE b.storage # NoToken
  <2>. DEFINE t == b.storage
  <2>1. m = setToken(b, t) /\ t # b.token /\ b.loading \in BOOLEAN /\ Held(t, iss)
    BY <1>2, <1>4, <1>5, <1>7 DEF Facts
  <2>2. CanRun(b) \/ Runs = {}
    <3>. DEFINE c == cleanup(b.socket)
    <3>1. c.current = NoRun /\ \A i \in Runs : c.run[i].stage = "none"
      BY <1>1, <1>2, CleanupRuns DEF PageOK, Page, Blank
    <3>2. FreeRuns(c) = Runs
      BY <3>1, Runs0 DEF FreeRuns, cancelled
    <3>. QED BY <3>2 DEF CanRun
  <2>. HIDE DEF t
  <2>3. Facts(m, h, iss) /\ RunIsOurs(m.socket, t) /\ m.socket.view = b.socket.view
    BY <1>1, <1>5, <2>1, <2>2, TokenFacts
  <2>4. /\ m.route = b.route /\ m.token = t /\ m.joining = b.joining
        /\ t # NoToken => m.calls = b.calls \union {Call("fetch", t)}
    BY <1>1, <2>1, TokenFields
  <2>5. LoadsAs(b, t, m)
    <3>1. Loading(b)
      BY <2>1 DEF Loading
    <3>. QED BY <1>1, <2>1, <3>1, TokenLoads
  <2>6. /\ m.route = "room" /\ m.token = t /\ m.joining = FALSE
        /\ m.calls = b.calls \union {Call("fetch", t)}
    BY <1>2, <1>7, <2>4 DEF t
  <2>7. m.loading = TRUE
    BY <1>2, <1>7, <2>5 DEF t, LoadsAs
  <2>8. \A d \in m.calls : d.live => d.kind = "fetch" /\ d.token = t
    BY <1>2, <2>6 DEF Blank, Call
  <2>9. Shape(m)
    BY <1>2, <2>3, <2>6, <2>8, <2>7 DEF Shape, AtHome, LoadsOwn, JoinsAlone, Blank
  <2>. QED BY <2>3, <2>6, <2>9, <2>7 DEF Fits, Tells
<1>. QED BY <1>6, <1>7

\* After a render the page has no stale token.
LEMMA RendersFit ==
    ASSUME NEW q, PageOK(q), Facts(q, history, issuedIn), Shape(q)
    PROVE  Fits(rendered(q), history, issuedIn)
<1>1. CASE q.route = "room" /\ q.socket.gone
  BY <1>1, HomeFits DEF rendered
<1>2. CASE q.route = "room" /\ ~q.socket.gone /\ tokenStale(q)
  <2>. DEFINE c == clearRoomToken(q)
              r == setToken(c, NoToken)
  <2>1. rendered(q) = r
    BY <1>2 DEF rendered
  <2>2. PageOK(c) /\ Facts(c, history, issuedIn)
    BY StoresOK, StoresFacts DEF clearRoomToken, Held
  <2>3. c.route = q.route /\ c.token = q.token /\ c.loading = q.loading
        /\ c.joining = q.joining /\ c.socket = q.socket /\ c.calls = q.calls
    BY StoreFields DEF clearRoomToken
  <2>4. q.token # NoToken /\ q.loading = FALSE
    BY <1>2 DEF tokenStale, Shape
  <2>. HIDE DEF c
  <2>5. r = setToken(c, NoToken)
    OBVIOUS
  <2>6. NoToken # c.token /\ c.loading \in BOOLEAN
    BY <2>3, <2>4
  <2>7. Facts(r, history, issuedIn) /\ RunIsOurs(r.socket, NoToken)
    BY <2>2, <2>6, TokenFacts DEF Held
  <2>8. r.route = q.route /\ r.token = NoToken /\ r.joining = q.joining
        /\ r.calls = q.calls
    <3>. HIDE DEF r
    <3>1. r.route = c.route /\ r.token = NoToken /\ r.joining = c.joining /\ r.calls = c.calls
      BY <2>2, <2>6, <2>5, TokenFields
    <3>. QED BY <2>3, <3>1
  <2>9. r.loading = FALSE
    <3>. HIDE DEF r
    <3>1. Loading(c)
      BY <2>6 DEF Loading
    <3>2. LoadsAs(c, NoToken, r)
      BY <2>2, <2>6, <2>5, <3>1, TokenLoads
    <3>. QED BY <3>2 DEF LoadsAs
  <2>. HIDE DEF r
  <2>10. Shape(r)
    BY <1>2, <2>4, <2>7, <2>8, <2>9 DEF Shape, AtHome, LoadsOwn, JoinsAlone
  <2>. QED BY <2>1, <2>7, <2>8, <2>10 DEF Fits, Tells
<1>3. CASE rendered(q) = q /\ ~(q.route = "room" /\ tokenStale(q))
  <2>1. Tells(q, history, issuedIn)
    BY <1>3 DEF Shape, AtHome, Tells, tokenStale, IsYou, Mine
  <2>. QED BY <1>3, <2>1 DEF Fits
<1>. QED BY <1>1, <1>2, <1>3 DEF rendered

--------------------------------------------------------------------------------
(* Which seats a step keeps.                                               *)

HoldsIn(q, t) ==
    \/ q.token = t
    \/ \E c \in q.calls : c.kind = "join" /\ c.live /\ c.answer.is = "ok" /\ c.answer.view.as = t

\* A seat that the page may not let go of.
Due(t) == t \in Tokens /\ Holds(t) /\ Member(t) /\ ~LateFetch(t)

Kept(q) ==
    /\ Fits(q, history, issuedIn)
    /\ \A t : Due(t) /\ q.route = "room" => HoldsIn(q, t)

\* A tab whose next render keeps them.
Safe(q) ==
    /\ PageOK(q) /\ Facts(q, history, issuedIn) /\ Shape(q)
    /\ \A t : Due(t) => HoldsIn(q, t) /\ (q.token = t => ~tokenStale(q))

\* The render of a safe tab keeps the seats.
LEMMA SafeRenders ==
    ASSUME NEW q, Safe(q)
    PROVE  Kept(rendered(q))
<1>1. Fits(rendered(q), history, issuedIn)
  BY RendersFit DEF Safe
<1>2. ASSUME NEW t, Due(t), rendered(q).route = "room"
      PROVE  HoldsIn(rendered(q), t)
  <2>1. CASE q.route = "room" /\ q.socket.gone
    BY <1>2, <2>1, HomeFits DEF rendered, Safe
  <2>2. CASE tokenStale(q)
    <3>1. HoldsIn(q, t) /\ q.token # t
      BY <1>2, <2>2 DEF Safe
    <3>2. q.token = NoToken
      BY <3>1 DEF HoldsIn, Safe, Shape, JoinsAlone
    <3>. QED BY <2>2, <3>2 DEF tokenStale
  <2>3. CASE rendered(q) = q
    BY <1>2, <2>3 DEF Safe
  <2>. QED BY <2>1, <2>2, <2>3 DEF rendered
<1>. QED BY <1>1, <1>2 DEF Kept

\* A view that was asked for with a token of the stored room is its player's.
LEMMA OwnIsMine ==
    ASSUME ServiceOK(history, issuedIn), NEW view, Seen(view.state, view.as, history, issuedIn),
           Member(view.as)
    PROVE  Mine(view, history, issuedIn)
<1>. DEFINE x == history[view.state]
            y == issuedIn[view.as]
<1>1. x \in Nat /\ x <= Room /\ view.state \in 1 .. Len(history)
  BY Lists DEF ServiceOK, Seen, Room, Latest
<1>2. y \in Nat /\ y <= x /\ y = Room
  BY DEF ServiceOK, Seen, Issued, Member
<1>3. x = y
  BY <1>1, <1>2
<1>4. view # NoView /\ view.as # NoToken
  BY <1>1 DEF Member, NoView, View
<1>. QED BY <1>3, <1>4 DEF Mine

\* A page that shows a player's view does not drop its token.
LEMMA MineIsFresh == ASSUME NEW q, Mine(q.socket.view, history, issuedIn) PROVE ~tokenStale(q)
BY DEF Mine, tokenStale, IsYou

\* A page that shows what it did has no stale token, unless it waits for its
\* first view with another one than the seat in question.
LEMMA StillFresh ==
    ASSUME ServiceOK(history, issuedIn), Fits(p, history, issuedIn),
           NEW q, q.token = p.token, q.socket.view = p.socket.view, Member(q.token)
    PROVE  ~tokenStale(q)
<1>1. CASE p.socket.view = NoView
  BY <1>1 DEF tokenStale
<1>2. CASE ~p.loading /\ p.socket.view # NoView
  BY <1>2, MineIsFresh DEF Fits, Tells, Member
<1>3. CASE p.loading /\ p.socket.view # NoView
  <2>1. p.socket.view.as = p.token /\ Seen(p.socket.view.state, p.socket.view.as, history, issuedIn)
    BY <1>3 DEF Fits, Facts, Honest, Shape, LoadsOwn
  <2>. QED BY <2>1, OwnIsMine, MineIsFresh
<1>. QED BY <1>1, <1>2, <1>3

\* What it takes for a seat to be due.
LEMMA DueIs ==
    ASSUME NEW t, Due(t)
    PROVE  /\ t # NoToken /\ Member(t) /\ p.route = "room" /\ HoldsIn(p, t)
           /\ \A c \in p.calls : c.kind = "fetch" /\ c.live => c.token = t
BY DEF Due, Member, Holds, HoldsIn, OnRoom, LateFetch

--------------------------------------------------------------------------------
(* What the user does.                                                     *)

PageReady == PageOK(p) /\ ServiceOK(history, issuedIn) /\ Fits(p, history, issuedIn)

\* One more request under way.
LEMMA AsksFit ==
    ASSUME PageReady, NEW kind \in Kinds \ {"fetch"}, NEW t, kind = "act" => Issued(t, issuedIn),
           p.route = "room", ~p.loading,
           NEW q, q.route = p.route, q.storage = p.storage, q.token = p.token, q.loading = p.loading,
           q.joining \in BOOLEAN, q.socket = p.socket, q.calls = p.calls \union {Call(kind, t)},
           IF kind = "join" THEN p.token = NoToken /\ ~p.joining /\ q.joining
           ELSE q.joining = p.joining
    PROVE  Kept(q)
<1>1. CallOK(Call(kind, t), history, issuedIn)
  BY FetchOK
<1>2. Facts(q, history, issuedIn)
  BY <1>1 DEF PageReady, Fits, Facts
<1>3. Call(kind, t).kind = kind
  BY DEF Call
<1>4. JoinsAlone(q)
  <2>1. CASE kind = "join"
    <3>1. \A d \in p.calls : ~(d.kind = "join" /\ d.live)
      BY <2>1 DEF PageReady, Fits, Shape, JoinsAlone
    <3>. QED BY <2>1, <3>1 DEF JoinsAlone
  <2>2. CASE kind # "join"
    BY <1>3, <2>2 DEF PageReady, Fits, Shape, JoinsAlone
  <2>. QED BY <2>1, <2>2
<1>5. Shape(q)
  BY <1>4 DEF PageReady, Fits, Shape, AtHome, LoadsOwn
<1>6. Tells(q, history, issuedIn)
  BY DEF PageReady, Fits, Tells
<1>7. \A s : Due(s) => HoldsIn(q, s)
  BY DueIs DEF HoldsIn
<1>. QED BY <1>2, <1>5, <1>6, <1>7 DEF Kept, Fits

\* The user joins, acts, goes back or loads the page anew.
LEMMA UserKeeps ==
    ASSUME PageReady, User
    PROVE  Fits(p', history, issuedIn) /\ (~Load => Kept(p'))
<1>1. CASE handleJoin
  <2>1. /\ p'.route = p.route /\ p'.storage = p.storage /\ p'.token = p.token
        /\ p'.loading = p.loading /\ p'.socket = p.socket /\ p'.joining = TRUE
        /\ p'.calls = p.calls \union {Call("join", NoToken)}
    BY <1>1 DEF handleJoin, PageReady, PageOK, Page
  <2>2. p.route = "room" /\ ~p.loading /\ p.token = NoToken /\ ~p.joining
    BY <1>1 DEF handleJoin, ShowsForm, OnRoom
  <2>3. "join" \in Kinds \ {"fetch"}
    BY DEF Kinds
  <2>4. Kept(p')
    BY <2>1, <2>2, <2>3, AsksFit
  <2>. QED BY <2>4 DEF Kept
<1>2. ASSUME NEW kind \in {"act", "leave"}, ShowsRoom, Asks(kind)
      PROVE  Kept(p')
  <2>1. /\ p'.route = p.route /\ p'.storage = p.storage /\ p'.token = p.token
        /\ p'.loading = p.loading /\ p'.socket = p.socket /\ p'.joining = p.joining
        /\ p'.calls = p.calls \union {Call(kind, p.token)}
    BY <1>2 DEF Asks, PageReady, PageOK, Page
  <2>2. p.route = "room" /\ ~p.loading /\ Issued(p.token, issuedIn) /\ p.joining \in BOOLEAN
    BY <1>2 DEF ShowsRoom, OnRoom, PageReady, Fits, Facts, Held, Shape
  <2>3. kind \in Kinds \ {"fetch"} /\ kind # "join"
    BY DEF Kinds
  <2>. QED BY <2>1, <2>2, <2>3, AsksFit
<1>3. CASE Back
  <2>1. p' = goHome(p) /\ p.route = "room"
    BY <1>3 DEF Back, OnRoom
  <2>2. Fits(p', history, issuedIn) /\ p'.route = "home"
    BY <2>1, HomeFits DEF PageReady, Fits
  <2>. QED BY <2>2 DEF Kept
<1>4. CASE Load
  <2>. DEFINE q == [p EXCEPT !.socket = Unused, !.calls = {}]
  <2>1. PageOK(q)
    BY UnusedOK DEF PageReady, PageOK, Page
  <2>2. p' = mount(q)
    BY <1>4 DEF Load
  <2>3. q.storage = p.storage /\ q.token = p.token /\ q.socket = Unused /\ q.calls = {}
    BY DEF PageReady, PageOK, Page
  <2>. HIDE DEF q
  <2>4. /\ Unused.view = NoView /\ Unused.current = NoRun
        /\ \A i \in Runs : Unused.run[i] = EmptyRun
    BY DEF Unused
  <2>5. Facts(q, history, issuedIn) /\ Blank(q)
    BY <2>3, <2>4, ClosedRuns, EmptyRuns DEF PageReady, Fits, Facts, Blank, Honest
  <2>6. Fits(p', history, issuedIn)
    BY <2>1, <2>2, <2>5, MountFits
  <2>. QED BY <1>4, <2>6
<1>. QED BY <1>1, <1>2, <1>3, <1>4 DEF User, handleAct, handleBack, Kept

--------------------------------------------------------------------------------
(* Requests and answers.                                                   *)

\* The server gets a request.
LEMMA ServeFits ==
    ASSUME PageReady, NEW c \in p.calls, Serve(c)
    PROVE  /\ Fits(p', history', issuedIn') /\ ServiceOK(history, issuedIn)'
           /\ OnlyAdds(history, issuedIn, history', issuedIn')
           /\ \A t : Due(t) => HoldsIn(p', t)
<1>1. PICK answer \in Answers :
            /\ \/ c.kind = "fetch" /\ getRoom(c.token, answer)
               \/ c.kind = "join" /\ joinRoom(answer)
               \/ c.kind = "act" /\ act(c.token, answer)
               \/ c.kind = "leave" /\ leaveRoom(c.token, answer)
            /\ Answered(c, answer)
  BY DEF Serve
<1>2. ServiceOK(history, issuedIn)' /\ OnlyAdds(history, issuedIn, history', issuedIn')
  BY <1>1, RequestGrows DEF PageReady
<1>3. ServiceOK(history', issuedIn')
  BY <1>2
<1>4. Fits(p, history', issuedIn')
  BY <1>2, <1>3, FactsGrow DEF PageReady
<1>. DEFINE d == [c EXCEPT !.answer = answer]
<1>5. CallOK(c, history, issuedIn) /\ CallOK(c, history', issuedIn') /\ c.answer = Asked
  BY <1>4 DEF PageReady, Fits, Facts, Serve
<1>6. AnswerFits(c, answer, history', issuedIn')
  BY <1>1, <1>5, AnswersFit DEF PageReady, CallOK
<1>7. CallType(d) /\ d.kind = c.kind /\ d.token = c.token /\ d.live = c.live /\ d.answer = answer
  BY <1>5 DEF CallOK, CallType
<1>8. p' = [p EXCEPT !.calls = (p.calls \ {c}) \union {d}]
  BY <1>1 DEF Answered
<1>. HIDE DEF d
<1>9. CallOK(d, history', issuedIn')
  BY <1>5, <1>6, <1>7 DEF CallOK, AnswerFits
<1>10. /\ p'.route = p.route /\ p'.storage = p.storage /\ p'.token = p.token
       /\ p'.loading = p.loading /\ p'.joining = p.joining /\ p'.socket = p.socket
       /\ p'.calls = (p.calls \ {c}) \union {d}
  BY <1>8 DEF PageReady, PageOK, Page
<1>11. Facts(p', history', issuedIn')
  BY <1>4, <1>9, <1>10 DEF Fits, Facts
<1>12. JoinsAlone(p')
  <2>1. JoinsAlone(p)
    BY DEF PageReady, Fits, Shape
  <2>. QED BY <1>7, <1>10, <2>1 DEF JoinsAlone
<1>13. AtHome(p') /\ LoadsOwn(p')
  BY <1>7, <1>10 DEF PageReady, Fits, Shape, AtHome, LoadsOwn
<1>14. Shape(p')
  BY <1>10, <1>12, <1>13 DEF PageReady, Fits, Shape
<1>15. Tells(p', history', issuedIn')
  BY <1>4, <1>10 DEF Fits, Tells
<1>16. \A t : Due(t) => HoldsIn(p', t)
  BY <1>5, <1>10, DueIs DEF HoldsIn, Asked
<1>. QED BY <1>2, <1>11, <1>14, <1>15, <1>16 DEF Fits

\* The tab without a request that has been answered.
LEMMA WithoutFits ==
    ASSUME PageReady, NEW c \in p.calls, NEW w, w = Without(c)
    PROVE  /\ PageOK(w) /\ Fits(w, history, issuedIn)
           /\ w.route = p.route /\ w.storage = p.storage /\ w.token = p.token
           /\ w.loading = p.loading /\ w.joining = p.joining /\ w.socket = p.socket
           /\ w.calls = p.calls \ {c}
<1>1. PageOK(w)
  BY WithoutOK DEF PageReady
<1>2. /\ w.route = p.route /\ w.storage = p.storage /\ w.token = p.token
      /\ w.loading = p.loading /\ w.joining = p.joining /\ w.socket = p.socket
      /\ w.calls = p.calls \ {c}
  BY DEF Without, PageReady, PageOK, Page
<1>3. Facts(w, history, issuedIn) /\ Shape(w) /\ Tells(w, history, issuedIn)
  BY <1>2 DEF PageReady, Fits, Facts, Shape, Tells, AtHome, LoadsOwn, JoinsAlone
<1>. QED BY <1>1, <1>2, <1>3 DEF Fits

\* A tab at home, or one that goes there, has nothing to keep.
LEMMA LeavesKept ==
    ASSUME NEW q, PageOK(q), Facts(q, history, issuedIn), Shape(q)
    PROVE  Kept(goHome(q))
<1>1. CASE q.route = "room"
  BY <1>1, HomeFits DEF Kept
<1>2. CASE q.route = "home"
  <2>1. goHome(q) = q
    BY <1>2 DEF goHome
  <2>2. Tells(q, history, issuedIn)
    BY <1>2 DEF Shape, AtHome, Tells
  <2>. QED BY <1>2, <2>1, <2>2 DEF Kept, Fits
<1>. QED BY <1>1, <1>2 DEF Shape

\* s is tab q with the view of the answer of c, if it has one and is wanted.
ShownIn(q, c, s) ==
    /\ s.route = q.route /\ s.storage = q.storage /\ s.token = q.token
    /\ s.loading = q.loading /\ s.joining = q.joining /\ s.calls = q.calls
    /\ s.socket.run = q.socket.run /\ s.socket.current = q.socket.current
    /\ c.live /\ c.answer.is = "ok" => s.socket.view = c.answer.view
    /\ ~(c.live /\ c.answer.is = "ok") => s.socket.view = q.socket.view

\* Showing an answer changes the view alone.
LEMMA ShownFields ==
    ASSUME NEW q, PageOK(q), NEW c
    PROVE  PageOK(Shown(q, c)) /\ ShownIn(q, c, Shown(q, c))
<1>. DEFINE s == Shown(q, c)
<1>1. PageOK(s)
  BY ShownOK
<1>. DEFINE u == [q.socket EXCEPT !.view = c.answer.view]
<1>2. u.run = q.socket.run /\ u.current = q.socket.current /\ u.view = c.answer.view
  BY DEF PageOK, Page, SocketOK
<1>3. s = IF c.live /\ c.answer.is = "ok" THEN [q EXCEPT !.socket = u] ELSE q
  BY DEF Shown, applyServerResponse
<1>. HIDE DEF u, s
<1>4. ASSUME c.live /\ c.answer.is = "ok" PROVE ShownIn(q, c, s)
  <2>1. s = [q EXCEPT !.socket = u]
    BY <1>3, <1>4
  <2>2. /\ s.route = q.route /\ s.storage = q.storage /\ s.token = q.token
        /\ s.loading = q.loading /\ s.joining = q.joining /\ s.calls = q.calls
        /\ s.socket = u
    BY <2>1 DEF PageOK, Page
  <2>. QED BY <1>2, <1>4, <2>2 DEF ShownIn
<1>5. ASSUME ~(c.live /\ c.answer.is = "ok") PROVE ShownIn(q, c, s)
  <2>1. s = q
    BY <1>3, <1>5
  <2>. QED BY <1>5, <2>1 DEF ShownIn
<1>6. PageOK(s) /\ ShownIn(q, c, s)
  BY <1>1, <1>4, <1>5
<1>. QED BY <1>6 DEF s

\* A tab whose page loads or joins, or no longer does.
LEMMA FlagFields ==
    ASSUME NEW q, PageOK(q), NEW b
    PROVE  /\ LET r == [q EXCEPT !.loading = b]
              IN  /\ r.route = q.route /\ r.storage = q.storage /\ r.token = q.token
                  /\ r.loading = b /\ r.joining = q.joining /\ r.calls = q.calls
                  /\ r.socket = q.socket
           /\ LET r == [q EXCEPT !.joining = b]
              IN  /\ r.route = q.route /\ r.storage = q.storage /\ r.token = q.token
                  /\ r.loading = q.loading /\ r.joining = b /\ r.calls = q.calls
                  /\ r.socket = q.socket
BY DEF PageOK, Page

\* The answer to leaving (page.tsx, handleLeaveConfirmed).
LEMMA LeaveKeeps ==
    ASSUME PageReady, NEW c \in p.calls, leaveAnswered(c)
    PROVE  Kept(p')
<1>. DEFINE w == Without(c)
            q == clearRoomToken(w)
<1>1. p' = goHome(q)
  BY DEF leaveAnswered
<1>2. PageOK(w) /\ Fits(w, history, issuedIn)
  BY WithoutFits
<1>. HIDE DEF w
<1>3. /\ q.route = w.route /\ q.token = w.token /\ q.loading = w.loading
      /\ q.joining = w.joining /\ q.socket = w.socket /\ q.calls = w.calls
  BY <1>2, StoreFields DEF clearRoomToken
<1>4. PageOK(q) /\ Facts(q, history, issuedIn)
  BY <1>2, StoresOK, StoresFacts DEF clearRoomToken, Held, Fits
<1>. HIDE DEF q
<1>5. Shape(q)
  BY <1>2, <1>3 DEF Fits, Shape, AtHome, LoadsOwn, JoinsAlone
<1>. QED BY <1>1, <1>4, <1>5, LeavesKept

\* The answer to an action of a player.
LEMMA ActKeeps ==
    ASSUME PageReady, NEW c \in p.calls, actAnswered(c)
    PROVE  Kept(p')
<1>. DEFINE w == Without(c)
            s == Shown(w, c)
<1>1. p' = rendered(s) /\ c.kind = "act"
  BY DEF actAnswered, Renders, Arrives
<1>2. /\ PageOK(w) /\ Fits(w, history, issuedIn)
      /\ w.route = p.route /\ w.storage = p.storage /\ w.token = p.token
      /\ w.loading = p.loading /\ w.joining = p.joining /\ w.socket = p.socket
      /\ w.calls = p.calls \ {c}
  BY WithoutFits
<1>3. PageOK(s) /\ ShownIn(w, c, s)
  BY <1>2, ShownFields
<1>. HIDE DEF w, s
<1>4. /\ PageOK(s)
      /\ s.route = w.route /\ s.storage = w.storage /\ s.token = w.token
      /\ s.loading = w.loading /\ s.joining = w.joining /\ s.calls = w.calls
      /\ s.socket.run = w.socket.run /\ s.socket.current = w.socket.current
      /\ c.live /\ c.answer.is = "ok" => s.socket.view = c.answer.view
      /\ ~(c.live /\ c.answer.is = "ok") => s.socket.view = w.socket.view
  BY <1>3 DEF ShownIn
<1>5. c.answer.is = "ok" => Honest(c.answer.view, history, issuedIn)
                            /\ Mine(c.answer.view, history, issuedIn)
  BY <1>1 DEF PageReady, Fits, Facts, CallOK, AnswerFits
<1>6. Facts(s, history, issuedIn)
  BY <1>2, <1>4, <1>5 DEF Fits, Facts
<1>7. c.live => p.route = "room" /\ ~p.loading
  BY <1>1 DEF PageReady, Fits, Shape, AtHome, LoadsOwn
<1>8. Shape(s)
  BY <1>2, <1>4, <1>7 DEF Fits, Shape, RunIsOurs, AtHome, LoadsOwn, JoinsAlone
<1>9. ASSUME NEW t, Due(t)
      PROVE  HoldsIn(s, t) /\ (s.token = t => ~tokenStale(s))
  <2>1. HoldsIn(s, t)
    BY <1>1, <1>2, <1>4, <1>9, DueIs DEF HoldsIn
  <2>2. CASE c.live /\ c.answer.is = "ok"
    BY <1>4, <1>5, <2>1, <2>2, MineIsFresh
  <2>3. CASE ~(c.live /\ c.answer.is = "ok") /\ s.token = t
    BY <1>2, <1>4, <1>9, <2>1, <2>3, DueIs, StillFresh DEF PageReady
  <2>. QED BY <2>1, <2>2, <2>3
<1>. QED BY <1>1, <1>4, <1>6, <1>8, <1>9, SafeRenders DEF Safe

\* The answer to a fetch: the page may find that its token is not of the room.
LEMMA FetchKeeps ==
    ASSUME PageReady, NEW c \in p.calls, fetchAnswered(c)
    PROVE  Kept(p')
<1>. DEFINE w == Without(c)
            s == Shown(w, c)
            b == s.loading /\ ~c.live
            q == [s EXCEPT !.loading = b]
<1>1. c.kind = "fetch" /\ IF c.answer = NotFound THEN p' = goHome(w) ELSE p' = rendered(q)
  BY DEF fetchAnswered, Renders, Arrives
<1>2. /\ PageOK(w) /\ Fits(w, history, issuedIn)
      /\ w.route = p.route /\ w.storage = p.storage /\ w.token = p.token
      /\ w.loading = p.loading /\ w.joining = p.joining /\ w.socket = p.socket
      /\ w.calls = p.calls \ {c}
  BY WithoutFits
<1>3. CASE c.answer = NotFound
  BY <1>1, <1>2, <1>3, LeavesKept DEF Fits
<1>4. CASE c.answer # NotFound
  <2>1. PageOK(s) /\ ShownIn(w, c, s)
    BY <1>2, ShownFields
  <2>. HIDE DEF w, s
  <2>2. /\ PageOK(s)
        /\ s.route = w.route /\ s.storage = w.storage /\ s.token = w.token
        /\ s.loading = w.loading /\ s.joining = w.joining /\ s.calls = w.calls
        /\ s.socket.run = w.socket.run /\ s.socket.current = w.socket.current
        /\ c.live /\ c.answer.is = "ok" => s.socket.view = c.answer.view
        /\ ~(c.live /\ c.answer.is = "ok") => s.socket.view = w.socket.view
    BY <2>1 DEF ShownIn
  <2>3. b = IF c.live THEN FALSE ELSE p.loading
    <3>1. p.loading \in BOOLEAN /\ c.live \in BOOLEAN /\ s.loading = p.loading
      BY <1>2, <2>2 DEF PageReady, Fits, Shape, Facts, CallOK, CallType
    <3>. QED BY <3>1
  <2>. HIDE DEF b
  <2>4. /\ q.route = p.route /\ q.storage = p.storage /\ q.token = p.token
        /\ q.joining = p.joining /\ q.calls = p.calls \ {c} /\ q.socket = s.socket
    BY <1>2, <2>2, FlagFields
  <2>5. q.loading = b
    BY <2>2, FlagFields
  <2>6. PageOK(q)
    BY <2>2, FlagsOK
  <2>. HIDE DEF q
  <2>7. c.answer.is = "ok" => /\ Honest(c.answer.view, history, issuedIn)
                              /\ c.answer.view # NoView /\ c.answer.view.as = c.token
    BY <1>1 DEF PageReady, Fits, Facts, CallOK, AnswerFits
  <2>8. Facts(q, history, issuedIn)
    BY <1>2, <2>2, <2>4, <2>7 DEF PageReady, Fits, Facts
  <2>9. Shape(q)
    <3>1. CASE c.live
      <4>1. p.route = "room" /\ q.loading = FALSE
        BY <2>3, <2>5, <3>1 DEF PageReady, Fits, Shape, AtHome
      <4>. QED BY <1>2, <2>2, <2>4, <4>1 DEF PageReady, Fits, Shape, RunIsOurs, AtHome, LoadsOwn, JoinsAlone
    <3>2. CASE ~c.live
      <4>1. q.loading = p.loading
        BY <2>3, <2>5, <3>2
      <4>2. q.socket.view = p.socket.view
        BY <1>2, <2>2, <2>4, <3>2
      <4>. QED BY <1>2, <2>2, <2>4, <4>1, <4>2
               DEF PageReady, Fits, Shape, RunIsOurs, AtHome, LoadsOwn, JoinsAlone
    <3>. QED BY <3>1, <3>2
  <2>10. ASSUME NEW t, Due(t)
        PROVE  HoldsIn(q, t) /\ (q.token = t => ~tokenStale(q))
    <3>1. HoldsIn(q, t)
      BY <1>1, <2>4, <2>10, DueIs DEF HoldsIn
    <3>2. CASE c.live /\ c.answer.is = "ok"
      <4>1. c.token = t /\ Member(t)
        BY <1>1, <2>10, <3>2, DueIs
      <4>2. Seen(q.socket.view.state, t, history, issuedIn) /\ q.socket.view.as = t
        BY <2>2, <2>4, <2>7, <3>2, <4>1 DEF Honest
      <4>. QED BY <3>1, <4>1, <4>2, OwnIsMine, MineIsFresh DEF PageReady
    <3>3. CASE ~(c.live /\ c.answer.is = "ok") /\ q.token = t
      <4>1. q.socket.view = p.socket.view
        BY <1>2, <2>2, <2>4, <3>3
      <4>. QED BY <2>4, <2>10, <3>1, <3>3, <4>1, DueIs, StillFresh DEF PageReady
    <3>. QED BY <3>1, <3>2, <3>3
  <2>11. Kept(rendered(q))
    BY <2>6, <2>8, <2>9, <2>10, SafeRenders DEF Safe
  <2>. QED BY <1>1, <1>4, <2>11
<1>. QED BY <1>3, <1>4

\* A join that failed, or whose page is gone, may only have stored its token.
LEMMA LateJoinKeeps ==
    ASSUME PageReady, NEW c \in p.calls, c.kind = "join", c.answer.is = "ok" => ~c.live,
           NEW r, PageOK(r), r.route = p.route, Held(r.storage, issuedIn), r.token = p.token,
           r.loading = p.loading, r.joining = IF c.live THEN FALSE ELSE p.joining,
           r.socket = p.socket, r.calls = p.calls \ {c}
    PROVE  Kept(rendered(r))
<1>1. Facts(r, history, issuedIn)
  BY DEF PageReady, Fits, Facts
<1>2. JoinsAlone(r) /\ r.joining \in BOOLEAN
  <2>1. CASE c.live
    BY <2>1 DEF PageReady, Fits, Shape, JoinsAlone
  <2>2. CASE ~c.live
    BY <2>2 DEF PageReady, Fits, Shape, JoinsAlone
  <2>. QED BY <2>1, <2>2
<1>3. Shape(r)
  BY <1>2 DEF PageReady, Fits, Shape, AtHome, LoadsOwn
<1>4. ASSUME NEW t, Due(t)
      PROVE  HoldsIn(r, t) /\ (r.token = t => ~tokenStale(r))
  <2>1. HoldsIn(r, t)
    BY <1>4, DueIs DEF HoldsIn
  <2>2. r.token = t => ~tokenStale(r)
    BY <1>4, DueIs, StillFresh DEF PageReady
  <2>. QED BY <2>1, <2>2
<1>. QED BY <1>1, <1>3, <1>4, SafeRenders DEF Safe

\* A page that still waits for its join takes the seat and shows it in one render.
LEMMA LiveJoinKeeps ==
    ASSUME PageReady, NEW c \in p.calls, c.kind = "join", c.answer.is = "ok", c.live, CanRun(p),
           NEW r, PageOK(r), r.route = p.route, Held(r.storage, issuedIn), r.token = p.token,
           r.loading = p.loading, r.joining = FALSE, r.socket = p.socket, r.calls = p.calls \ {c},
           NEW t, t = c.answer.view.as
    PROVE  Kept(rendered(Shown(setToken(r, t), c)))
<1>. DEFINE m == setToken(r, t)
            s == Shown(m, c)
<1>1. /\ Seen(c.answer.view.state, t, history, issuedIn) /\ Issued(t, issuedIn)
      /\ Honest(c.answer.view, history, issuedIn) /\ Mine(c.answer.view, history, issuedIn)
  BY DEF PageReady, Fits, Facts, CallOK, AnswerFits, Honest, Seen
<1>2. /\ p.route = "room" /\ p.loading = FALSE /\ p.token = NoToken
      /\ \A d \in p.calls : d.kind = "join" /\ d.live => d = c
  BY DEF PageReady, Fits, Shape, AtHome, LoadsOwn, JoinsAlone
<1>3. t # NoToken
  BY <1>1, ServiceAssumption DEF Issued, NoToken
<1>4. Facts(r, history, issuedIn)
  BY DEF PageReady, Fits, Facts
<1>5. t # r.token /\ CanRun(r) /\ Held(t, issuedIn) /\ r.loading \in BOOLEAN
  BY <1>1, <1>2, <1>3 DEF CanRun, Held
<1>6. Facts(m, history, issuedIn) /\ RunIsOurs(m.socket, t)
  BY <1>4, <1>5, TokenFacts
<1>7. /\ m.route = r.route /\ m.token = t /\ m.joining = r.joining
      /\ m.calls = r.calls \union {Call("fetch", t)}
  BY <1>3, <1>5, TokenFields
<1>8. m.loading = r.loading
  <2>1. Loading(r)
    BY <1>5 DEF Loading
  <2>2. LoadsAs(r, t, m)
    BY <1>5, <2>1, TokenLoads
  <2>. QED BY <1>3, <2>2 DEF LoadsAs
<1>9. PageOK(m)
  BY SetsTokenOK
<1>10. PageOK(s) /\ ShownIn(m, c, s)
  BY <1>9, ShownFields
<1>. HIDE DEF m, s
<1>11. Facts(s, history, issuedIn)
  BY <1>1, <1>6, <1>10 DEF Facts, ShownIn
<1>12. /\ s.route = "room" /\ s.token = t /\ s.joining = FALSE
       /\ s.calls = (p.calls \ {c}) \union {Call("fetch", t)}
       /\ s.socket.view = c.answer.view
       /\ s.socket.run = m.socket.run /\ s.socket.current = m.socket.current
  BY <1>2, <1>7, <1>10 DEF ShownIn
<1>13. s.loading = FALSE
  BY <1>2, <1>8, <1>10 DEF ShownIn
<1>14. JoinsAlone(s)
  BY <1>2, <1>12 DEF JoinsAlone, Call
<1>15. Shape(s)
  BY <1>6, <1>12, <1>13, <1>14 DEF Shape, RunIsOurs, AtHome, LoadsOwn
<1>16. ~tokenStale(s)
  BY <1>1, <1>12, MineIsFresh
<1>17. ASSUME NEW x, Due(x)
       PROVE  HoldsIn(s, x)
  <2>1. x = t
    BY <1>2, <1>17, DueIs DEF HoldsIn
  <2>. QED BY <1>12, <2>1 DEF HoldsIn
<1>18. Kept(rendered(s))
  BY <1>10, <1>11, <1>15, <1>16, <1>17, SafeRenders DEF Safe
<1>. QED BY <1>18 DEF s, m

\* The answer to a join, in time or late.
LEMMA JoinKeeps ==
    ASSUME PageReady, NEW c \in p.calls, joinAnswered(c)
    PROVE  Kept(p')
<1>. DEFINE w == Without(c)
            b == w.joining /\ ~c.live
            q == [w EXCEPT !.joining = b]
            t == c.answer.view.as
            r == setRoomToken(q, t)
<1>1. /\ c.kind = "join" /\ CanRun(p)
      /\ c.answer.is # "ok" => p' = rendered(q)
      /\ c.answer.is = "ok" /\ c.live => p' = rendered(Shown(setToken(r, t), c))
      /\ c.answer.is = "ok" /\ ~c.live => p' = rendered(r)
  BY DEF joinAnswered, Renders, Arrives
<1>2. /\ PageOK(w)
      /\ w.route = p.route /\ w.storage = p.storage /\ w.token = p.token
      /\ w.loading = p.loading /\ w.joining = p.joining /\ w.socket = p.socket
      /\ w.calls = p.calls \ {c}
  BY WithoutFits
<1>. HIDE DEF w
<1>3. b = IF c.live THEN FALSE ELSE p.joining
  <2>1. p.joining \in BOOLEAN /\ c.live \in BOOLEAN
    BY DEF PageReady, Fits, Shape, Facts, CallOK, CallType
  <2>. QED BY <1>2, <2>1
<1>. HIDE DEF b
<1>4. /\ q.route = p.route /\ q.storage = p.storage /\ q.token = p.token
      /\ q.loading = p.loading /\ q.socket = p.socket /\ q.calls = p.calls \ {c}
  BY <1>2, FlagFields
<1>5. q.joining = b
  BY <1>2, FlagFields
<1>6. PageOK(q)
  BY <1>2, FlagsOK
<1>7. q.joining = IF c.live THEN FALSE ELSE p.joining
  BY <1>3, <1>5
<1>. HIDE DEF q
<1>8. Held(q.storage, issuedIn)
  BY <1>4 DEF PageReady, Fits, Facts
<1>9. CASE c.answer.is # "ok"
  BY <1>1, <1>4, <1>6, <1>7, <1>8, <1>9, LateJoinKeeps
<1>10. CASE c.answer.is = "ok"
  <2>1. Held(t, issuedIn)
    BY <1>10 DEF PageReady, Fits, Facts, CallOK, AnswerFits, Honest, Seen, Held
  <2>. HIDE DEF t
  <2>2. PageOK(r)
    BY <1>6, StoresOK
  <2>3. /\ r.route = q.route /\ r.token = q.token /\ r.loading = q.loading
        /\ r.joining = q.joining /\ r.socket = q.socket /\ r.calls = q.calls
        /\ r.storage \in {t, q.storage}
    BY <1>6, StoreFields
  <2>. HIDE DEF r
  <2>4. Held(r.storage, issuedIn)
    BY <1>8, <2>1, <2>3
  <2>5. CASE ~c.live
    <3>1. Kept(rendered(r))
      BY <1>1, <1>4, <1>7, <2>2, <2>3, <2>4, <2>5, LateJoinKeeps
    <3>. QED BY <1>1, <1>10, <2>5, <3>1
  <2>6. CASE c.live
    <3>1. r.joining = FALSE /\ t = c.answer.view.as
      BY <1>7, <2>3, <2>6 DEF t
    <3>2. Kept(rendered(Shown(setToken(r, t), c)))
      BY <1>1, <1>4, <1>10, <2>2, <2>3, <2>4, <2>6, <3>1, LiveJoinKeeps
    <3>. QED BY <1>1, <1>10, <2>6, <3>2
  <2>. QED BY <2>5, <2>6
<1>. QED BY <1>9, <1>10

--------------------------------------------------------------------------------
(* The events of the hook.                                                 *)

\* In u run i has become r, and the view is view.
Stepped(s, i, r, view, u) ==
    /\ SocketOK(u) /\ u.current = s.current /\ u.view = view
    /\ \A j \in Runs : u.run[j] = IF j = i THEN r ELSE s.run[j]

\* A run that goes on is for the token of the page, and so is what it shows.
LEMMA EventSafe ==
    ASSUME PageReady, NEW i \in Runs, NEW r, NEW view, NEW u, Stepped(p.socket, i, r, view, u),
           OpenOK(r, history, issuedIn), i = p.socket.current => r.token = p.token,
           \/ view = p.socket.view
           \/ p.route = "room" /\ view.as = p.token /\ Seen(view.state, view.as, history, issuedIn)
    PROVE  Safe([p EXCEPT !.socket = u])
<1>. DEFINE q == [p EXCEPT !.socket = u]
<1>1. PageOK(q)
  BY SocketsOK DEF PageReady, Stepped
<1>2. /\ q.route = p.route /\ q.storage = p.storage /\ q.token = p.token
      /\ q.loading = p.loading /\ q.joining = p.joining /\ q.calls = p.calls /\ q.socket = u
  BY DEF PageReady, PageOK, Page
<1>. HIDE DEF q
<1>3. Honest(view, history, issuedIn)
  BY DEF Honest, PageReady, Fits, Facts
<1>4. \A j \in Runs : OpenOK(u.run[j], history, issuedIn)
  BY DEF Stepped, PageReady, Fits, Facts
<1>5. Facts(q, history, issuedIn)
  BY <1>2, <1>3, <1>4 DEF Stepped, PageReady, Fits, Facts
<1>6. RunIsOurs(u, p.token)
  BY DEF Stepped, PageReady, Fits, Shape, RunIsOurs
<1>7. Shape(q)
  BY <1>2, <1>6 DEF Stepped, PageReady, Fits, Shape, AtHome, LoadsOwn, JoinsAlone
<1>8. ASSUME NEW t, Due(t)
      PROVE  HoldsIn(q, t) /\ (q.token = t => ~tokenStale(q))
  <2>1. HoldsIn(q, t)
    BY <1>2, <1>8, DueIs DEF HoldsIn
  <2>2. CASE view = p.socket.view /\ q.token = t
    BY <1>2, <1>8, <2>1, <2>2, DueIs, StillFresh DEF Stepped, PageReady
  <2>3. CASE view.as = p.token /\ Seen(view.state, view.as, history, issuedIn) /\ q.token = t
    <3>1. Mine(view, history, issuedIn)
      BY <1>2, <1>8, <2>3, DueIs, OwnIsMine DEF PageReady
    <3>. QED BY <1>2, <2>1, <3>1, MineIsFresh DEF Stepped
  <2>. QED BY <2>1, <2>2, <2>3
<1>9. Safe(q)
  BY <1>1, <1>5, <1>7, <1>8 DEF Safe
<1>. QED BY <1>9 DEF q

\* An event of the hook whose tab is safe, with the render after it.
LEMMA EventKeeps ==
    ASSUME PageReady, NEW i \in Runs, NEW r, NEW view, NEW u, Stepped(p.socket, i, r, view, u),
           OpenOK(r, history, issuedIn), i = p.socket.current => r.token = p.token,
           \/ view = p.socket.view
           \/ p.route = "room" /\ view.as = p.token /\ Seen(view.state, view.as, history, issuedIn),
           Socket(u)
    PROVE  Kept(p')
<1>1. Safe([p EXCEPT !.socket = u])
  BY EventSafe
<1>. QED BY <1>1, SafeRenders DEF Socket, Renders

\* What is known of a run before its step.
LEMMA RunFacts ==
    ASSUME PageReady, NEW i \in Runs
    PROVE  /\ SocketOK(p.socket) /\ RunOK(p.socket.run[i])
           /\ OpenOK(p.socket.run[i], history, issuedIn)
           /\ i = p.socket.current => p.socket.run[i].token = p.token
           /\ p.socket.run[i].stage \notin Quiet => i = p.socket.current /\ p.route = "room"
<1>1. SocketOK(p.socket) /\ RunOK(p.socket.run[i])
  BY DEF PageReady, PageOK, Page, SocketOK
<1>2. p.socket.run[i].stage \notin Quiet => i = p.socket.current
  BY <1>1, LoudIsCurrent DEF cancelled
<1>. QED BY <1>1, <1>2, Runs0 DEF PageReady, Fits, Facts, Shape, RunIsOurs, AtHome

\* What an event makes of the hook, from what it makes of its run.
LEMMA Steps ==
    ASSUME NEW s, SocketOK(s), NEW i \in Runs, NEW r, NEW u, SocketOK(u),
           u.current = s.current, u.run = [s.run EXCEPT ![i] = r]
    PROVE  Stepped(s, i, r, u.view, u)
BY DEF SocketOK, Stepped

\* A socket opens.
LEMMA OpensKeeps ==
    ASSUME PageReady, NEW i \in Runs, Opens(i)
    PROVE  Kept(p')
<1>. DEFINE s == p.socket
            r == [s.run[i] EXCEPT !.stage = "open", !.seen = Latest - 1]
            u == onopen(s, i)
<1>1. canOpen(s, i) /\ Socket(u)
  BY DEF Opens
<1>2. SocketOK(s) /\ RunOK(s.run[i]) /\ i = s.current /\ s.run[i].token = p.token
  BY <1>1, RunFacts DEF canOpen, Quiet
<1>3. SocketOK(u)
  BY <1>1, <1>2, onopenOK
<1>4. u = [s EXCEPT !.run = [s.run EXCEPT ![i] = r],
                    !.connected = TRUE, !.reconnecting = FALSE, !.gone = FALSE]
  BY DEF onopen, PageReady, PageOK, Page, SocketOK
<1>5. r.token = p.token /\ r.seen = Latest - 1
  BY <1>2 DEF RunOK
<1>. HIDE DEF r, u
<1>6. u.current = s.current /\ u.view = s.view /\ u.run = [s.run EXCEPT ![i] = r]
  BY <1>2, <1>4 DEF SocketOK
<1>7. Stepped(s, i, r, s.view, u)
  BY <1>2, <1>3, <1>6, Steps
<1>8. OpenOK(r, history, issuedIn)
  <2>1. Member(p.token) /\ Issued(p.token, issuedIn)
    BY <1>1, <1>2 DEF canOpen, PageReady, Fits, Facts, Held, Member
  <2>2. Latest \in Nat \ {0} /\ Room \in Nat
    BY Lists DEF PageReady, ServiceOK, Room, Latest
  <2>3. \A v \in 1 .. Latest : v > Latest - 1 => issuedIn[p.token] <= history[v]
    <3>. SUFFICES ASSUME NEW v \in 1 .. Latest, v > Latest - 1
                  PROVE  issuedIn[p.token] <= history[v]
      OBVIOUS
    <3>1. v = Latest
      BY <2>2
    <3>. QED BY <2>1, <2>2, <3>1 DEF Member, Room
  <2>. QED BY <1>5, <2>1, <2>2, <2>3 DEF OpenOK, Latest
<1>. QED BY <1>1, <1>5, <1>7, <1>8, EventKeeps

\* A socket brings a state: it is shown unless its run was cancelled.
LEMMA ReceivesKeeps ==
    ASSUME PageReady, NEW i \in Runs, NEW v, Receives(i, v)
    PROVE  Kept(p')
<1>. DEFINE s == p.socket
            r == [s.run[i] EXCEPT !.seen = v]
            view == View(v, s.run[i].token)
            u == onmessage(s, i, v)
<1>1. canReceive(s, i, v) /\ Socket(u)
  BY DEF Receives
<1>2. /\ SocketOK(s) /\ RunOK(s.run[i]) /\ i = s.current /\ s.run[i].token = p.token
      /\ p.route = "room" /\ OpenOK(s.run[i], history, issuedIn) /\ s.run[i].stage = "open"
  BY <1>1, RunFacts DEF canReceive, Quiet
<1>3. SocketOK(u)
  BY <1>1, <1>2, onmessageOK
<1>4. u = [s EXCEPT !.run = [s.run EXCEPT ![i] = r], !.view = view]
  BY DEF onmessage, PageReady, PageOK, Page, SocketOK
<1>5. r.token = p.token /\ r.seen = v /\ r.stage = "open"
  BY <1>2 DEF RunOK
<1>6. view.state = v /\ view.as = p.token
  BY <1>2 DEF View
<1>. HIDE DEF r, u, view
<1>7. u.current = s.current /\ u.view = view /\ u.run = [s.run EXCEPT ![i] = r]
  BY <1>2, <1>4 DEF SocketOK
<1>8. Stepped(s, i, r, view, u)
  BY <1>2, <1>3, <1>7, Steps
<1>9. /\ v \in Nat /\ v \in 1 .. Len(history) /\ v > s.run[i].seen
      /\ s.run[i].seen \in Nat /\ Issued(p.token, issuedIn)
  <2>1. Len(history) \in Nat
    BY Lists DEF PageReady, ServiceOK
  <2>. QED BY <1>1, <1>2, <2>1 DEF canReceive, OpenOK, Latest
<1>10. OpenOK(r, history, issuedIn)
  BY <1>2, <1>5, <1>9 DEF OpenOK
<1>11. Seen(v, p.token, history, issuedIn)
  BY <1>2, <1>9 DEF Seen, OpenOK
<1>. QED BY <1>1, <1>2, <1>5, <1>6, <1>8, <1>10, <1>11, EventKeeps

\* A socket closes, and its run waits or checks the room.
LEMMA ClosesKeeps ==
    ASSUME PageReady, NEW i \in Runs, Closes(i)
    PROVE  Kept(p')
<1>. DEFINE s == p.socket
            r == [s.run[i] EXCEPT !.stage = "waiting", !.seen = 0]
            u == onclose(s, i)
<1>1. canClose(s, i) /\ Socket(u)
  BY DEF Closes
<1>2. SocketOK(s) /\ RunOK(s.run[i]) /\ s.run[i].token = p.token
  BY <1>1, RunFacts DEF canClose, Quiet
<1>3. SocketOK(u)
  BY <1>1, <1>2, oncloseOK
<1>4. u = [s EXCEPT !.run = [s.run EXCEPT ![i] = r], !.connected = FALSE, !.reconnecting = TRUE]
  BY DEF onclose, PageReady, PageOK, Page, SocketOK
<1>5. r.token = p.token /\ r.stage = "waiting"
  BY <1>2 DEF RunOK
<1>. HIDE DEF r, u
<1>6. u.current = s.current /\ u.view = s.view /\ u.run = [s.run EXCEPT ![i] = r]
  BY <1>2, <1>4 DEF SocketOK
<1>7. Stepped(s, i, r, s.view, u)
  BY <1>2, <1>3, <1>6, Steps
<1>8. OpenOK(r, history, issuedIn)
  BY <1>5 DEF OpenOK
<1>. QED BY <1>1, <1>5, <1>7, <1>8, EventKeeps

\* A step of a check, of the current run or of one that was cancelled.
LEMMA CheckSteps ==
    ASSUME PageReady, NEW i \in Runs, NEW stage \in {"checking", "checked"}, NEW answer,
           NEW u, u = [p.socket EXCEPT !.run[i].stage = stage, !.run[i].answer = answer]
    PROVE  Safe([p EXCEPT !.socket = u])
<1>. DEFINE s == p.socket
            r == [s.run[i] EXCEPT !.stage = stage, !.answer = answer]
<1>1. SocketOK(s) /\ RunOK(s.run[i]) /\ (i = s.current => s.run[i].token = p.token)
  BY RunFacts
<1>2. u = [s EXCEPT !.run = [s.run EXCEPT ![i] = r]]
  BY <1>1 DEF SocketOK, RunOK
<1>3. r.token = s.run[i].token /\ r.stage = stage
  BY <1>1 DEF RunOK
<1>4. r = [s.run[i] EXCEPT !.stage = stage, !.answer = answer]
  OBVIOUS
<1>. HIDE DEF r
<1>5. SocketOK(u)
  <2>1. SocketOK([s EXCEPT !.run = [s.run EXCEPT ![i] = r]])
    BY <1>1, <1>4, ChecksOK
  <2>. QED BY <1>2, <2>1
<1>6. u.current = s.current /\ u.view = s.view /\ u.run = [s.run EXCEPT ![i] = r]
  BY <1>1, <1>2 DEF SocketOK
<1>7. Stepped(s, i, r, s.view, u)
  BY <1>1, <1>5, <1>6, Steps
<1>8. OpenOK(r, history, issuedIn)
  BY <1>3 DEF OpenOK
<1>. QED BY <1>1, <1>3, <1>7, <1>8, EventSafe

\* The timer of the backoff goes off.
LEMMA TimerKeeps ==
    ASSUME PageReady, NEW i \in Runs, TimerFires(i)
    PROVE  Kept(p')
<1>. DEFINE u == timerFires(p.socket, i)
            a == p.socket.run[i].answer
<1>1. u = [p.socket EXCEPT !.run[i].stage = "checking", !.run[i].answer = a]
  <2>1. SocketOK(p.socket) /\ RunOK(p.socket.run[i])
    BY RunFacts
  <2>. QED BY <2>1 DEF timerFires, SocketOK, RunOK
<1>. HIDE DEF u
<1>2. Safe([p EXCEPT !.socket = u])
  BY <1>1, CheckSteps
<1>3. p' = rendered([p EXCEPT !.socket = u])
  BY DEF TimerFires, Socket, Renders, u
<1>. QED BY <1>2, <1>3, SafeRenders

\* The check of a closed run reaches the server.
LEMMA ChecksKeep ==
    ASSUME PageReady, NEW i \in Runs, Checks(i)
    PROVE  Kept(p')
<1>1. PICK answer : p' = [p EXCEPT !.socket = checkAnswered(p.socket, i, answer)]
  BY DEF Checks, ChecksRoom
<1>. DEFINE u == checkAnswered(p.socket, i, answer)
<1>2. u = [p.socket EXCEPT !.run[i].stage = "checked", !.run[i].answer = answer.is]
  BY DEF checkAnswered
<1>3. p' = [p EXCEPT !.socket = u]
  BY <1>1
<1>4. u.view = p.socket.view
  BY <1>2, RunFacts DEF SocketOK
<1>. HIDE DEF u
<1>5. Safe(p')
  BY <1>2, <1>3, CheckSteps
<1>6. p'.token = p.token /\ p'.loading = p.loading /\ p'.socket = u
  BY <1>3 DEF PageReady, PageOK, Page
<1>7. Tells(p', history, issuedIn)
  BY <1>4, <1>6 DEF PageReady, Fits, Tells
<1>. QED BY <1>5, <1>7 DEF Safe, Kept, Fits

\* The check of a closed run is answered.
LEMMA ResumesKeep ==
    ASSUME PageReady, NEW i \in Runs, Resumes(i)
    PROVE  Kept(p')
<1>. DEFINE s == p.socket
            u == resumes(s, i)
<1>1. Socket(u) /\ SocketOK(s) /\ RunOK(s.run[i]) /\ (i = s.current => s.run[i].token = p.token)
  BY RunFacts DEF Resumes
<1>2. SocketOK(u)
  BY <1>1, resumesOK
<1>3. ASSUME NEW r, NEW x, NEW y, u = [s EXCEPT !.run = [s.run EXCEPT ![i] = r],
                                               !.reconnecting = x, !.gone = y],
             r.stage # "open", i = s.current => r.token = p.token
      PROVE  Kept(p')
  <2>. HIDE DEF u
  <2>1. u.current = s.current /\ u.view = s.view /\ u.run = [s.run EXCEPT ![i] = r]
    BY <1>1, <1>3 DEF SocketOK
  <2>2. Stepped(s, i, r, s.view, u)
    BY <1>1, <1>2, <2>1, Steps
  <2>3. OpenOK(r, history, issuedIn)
    BY <1>3 DEF OpenOK
  <2>. QED BY <1>1, <1>3, <2>2, <2>3, EventKeeps
<1>4. CASE cancelled(s, i)
  <2>1. u = [s EXCEPT !.run = [s.run EXCEPT ![i] = EmptyRun],
                      !.reconnecting = s.reconnecting, !.gone = s.gone]
    BY <1>1, <1>4 DEF resumes, SocketOK
  <2>. QED BY <1>3, <1>4, <2>1, EmptyRuns DEF cancelled
<1>5. CASE ~cancelled(s, i) /\ s.run[i].answer = "not_found"
  <2>. DEFINE r == [s.run[i] EXCEPT !.stage = "stopped"]
  <2>1. u = [s EXCEPT !.run = [s.run EXCEPT ![i] = r], !.reconnecting = FALSE, !.gone = TRUE]
    BY <1>1, <1>5 DEF resumes, SocketOK
  <2>2. r.stage = "stopped" /\ r.token = s.run[i].token
    BY <1>1 DEF RunOK
  <2>. HIDE DEF r, u
  <2>. QED BY <1>1, <1>3, <2>1, <2>2
<1>6. CASE ~cancelled(s, i) /\ s.run[i].answer # "not_found"
  <2>. DEFINE r == NewRun(s.run[i].token)
  <2>1. u = [s EXCEPT !.run = [s.run EXCEPT ![i] = r],
                      !.reconnecting = s.reconnecting, !.gone = s.gone]
    BY <1>1, <1>6 DEF resumes, SocketOK
  <2>2. r.stage = "connecting" /\ r.token = s.run[i].token
    BY NewRuns, ClosedRuns
  <2>. HIDE DEF r, u
  <2>. QED BY <1>1, <1>3, <2>1, <2>2
<1>. QED BY <1>4, <1>5, <1>6

--------------------------------------------------------------------------------
(* The steps of the room page.                                             *)

\* What a step of the page keeps and sees to.
PageGoes ==
    /\ Fits(p', history', issuedIn') /\ ServiceOK(history, issuedIn)'
    /\ OnlyAdds(history, issuedIn, history', issuedIn')
    /\ ~Load => \A t : Due(t) /\ p'.route = "room" => HoldsIn(p', t)

\* A step that the service has no part in.
LEMMA KeptGoes ==
    ASSUME PageReady, Kept(p'), UNCHANGED serviceVars
    PROVE  PageGoes
<1>1. OnlyAdds(history, issuedIn, history', issuedIn')
  BY Stays DEF PageReady, serviceVars
<1>. QED BY <1>1 DEF PageReady, Kept, PageGoes, ServiceOK, serviceVars

\* Every step of the room page.
LEMMA PageKeeps ==
    ASSUME PageReady, PageNext
    PROVE  PageGoes
<1>1. CASE User
  <2>1. UNCHANGED serviceVars
    BY <1>1 DEF User, handleJoin, handleAct, handleBack, Back, Load
  <2>2. Fits(p', history, issuedIn) /\ (~Load => Kept(p'))
    BY <1>1, UserKeeps
  <2>3. OnlyAdds(history, issuedIn, history', issuedIn')
    BY <2>1, Stays DEF PageReady, serviceVars
  <2>. QED BY <2>1, <2>2, <2>3 DEF PageReady, Kept, PageGoes, ServiceOK, serviceVars
<1>2. ASSUME NEW c \in p.calls, Serve(c)
      PROVE  PageGoes
  BY <1>2, ServeFits DEF PageGoes
<1>3. ASSUME NEW c \in p.calls, Answer(c)
      PROVE  PageGoes
  <2>1. Kept(p')
    BY <1>3, FetchKeeps, JoinKeeps, ActKeeps, LeaveKeeps DEF Answer
  <2>2. UNCHANGED serviceVars
    BY <1>3 DEF Answer, fetchAnswered, joinAnswered, actAnswered, leaveAnswered, Arrives
  <2>. QED BY <2>1, <2>2, KeptGoes
<1>4. ASSUME NEW i \in Runs, Line(i)
      PROVE  PageGoes
  <2>1. Kept(p')
    BY <1>4, OpensKeeps, ClosesKeeps, TimerKeeps, ChecksKeep, ResumesKeep DEF Line
  <2>2. UNCHANGED serviceVars
    BY <1>4 DEF Line, Opens, Closes, TimerFires, Checks, ChecksRoom, Resumes, Socket, getRoom
  <2>. QED BY <2>1, <2>2, KeptGoes
<1>5. ASSUME NEW i \in Runs, NEW v, Receives(i, v)
      PROVE  PageGoes
  <2>1. UNCHANGED serviceVars
    BY <1>5 DEF Receives, Socket
  <2>. QED BY <1>5, <2>1, ReceivesKeeps, KeptGoes
<1>6. CASE Others /\ UNCHANGED p
  <2>1. ServiceOK(history, issuedIn)' /\ OnlyAdds(history, issuedIn, history', issuedIn')
    BY <1>6, OthersGrow DEF PageReady
  <2>2. ServiceOK(history', issuedIn')
    BY <2>1
  <2>3. Fits(p, history', issuedIn')
    BY <2>1, <2>2, FactsGrow DEF PageReady
  <2>. QED BY <1>6, <2>1, <2>3, DueIs DEF PageGoes
<1>. QED BY <1>1, <1>2, <1>3, <1>4, <1>5, <1>6 DEF PageNext

\* At home with an idle hook, the hook stays as it is.
LEMMA HomeStays ==
    ASSUME PageReady, PageNext, p.route = "home", \A i \in Runs : p.socket.run[i].stage = "none",
           p'.route # "room"
    PROVE  p'.socket = p.socket
<1>1. CASE User
  <2>1. ~Load
    <3>. SUFFICES ASSUME Load PROVE FALSE
      OBVIOUS
    <3>. DEFINE q == [p EXCEPT !.socket = Unused, !.calls = {}]
                b == [q EXCEPT !.route = "room", !.token = NoToken, !.loading = TRUE, !.joining = FALSE]
    <3>1. PageOK(q)
      BY UnusedOK DEF PageReady, PageOK, Page
    <3>2. p' = mount(q)
      BY DEF Load
    <3>3. q.storage = p.storage /\ q.token = p.token /\ q.socket = Unused /\ q.calls = {}
      BY DEF PageReady, PageOK, Page
    <3>. HIDE DEF q
    <3>4. /\ Unused.view = NoView /\ Unused.current = NoRun
          /\ \A i \in Runs : Unused.run[i] = EmptyRun
      BY DEF Unused
    <3>5. Facts(q, history, issuedIn) /\ Blank(q)
      BY <3>3, <3>4, ClosedRuns, EmptyRuns DEF PageReady, Fits, Facts, Blank, Honest
    <3>. QED BY <3>1, <3>2, <3>5, MountFits
  <2>. QED BY <1>1, <2>1 DEF User, handleJoin, handleAct, handleBack, Back, ShowsForm, ShowsRoom, OnRoom
<1>2. ASSUME NEW c \in p.calls, Serve(c)
      PROVE  p'.socket = p.socket
  BY <1>2 DEF Serve, Answered, PageReady, PageOK, Page
<1>3. ASSUME NEW c \in p.calls, Answer(c)
      PROVE  p'.socket = p.socket
  <2>. DEFINE w == Without(c)
  <2>1. PageOK(w) /\ w.route = "home" /\ w.socket = p.socket /\ ~c.live
    BY WithoutFits DEF PageReady, Fits, Shape, AtHome
  <2>. HIDE DEF w
  <2>2. ASSUME NEW q, q.route = "home"
        PROVE  rendered(q) = q /\ goHome(q) = q
    BY <2>2 DEF rendered, goHome
  <2>3. ASSUME NEW q, PageOK(q), NEW b
        PROVE  /\ [q EXCEPT !.loading = b].route = q.route
               /\ [q EXCEPT !.loading = b].socket = q.socket
               /\ [q EXCEPT !.joining = b].route = q.route
               /\ [q EXCEPT !.joining = b].socket = q.socket
    BY <2>3, FlagFields
  <2>4. ASSUME NEW q, PageOK(q), NEW t
        PROVE  setRoomToken(q, t).route = q.route /\ setRoomToken(q, t).socket = q.socket
    BY <2>4, StoreFields
  <2>5. Shown(w, c) = w
    BY <2>1 DEF Shown
  <2>6. CASE fetchAnswered(c)
    <3>. DEFINE q == [w EXCEPT !.loading = w.loading /\ ~c.live]
    <3>1. p' = goHome(w) \/ p' = rendered(q)
      BY <2>5, <2>6 DEF fetchAnswered, Renders, w
    <3>2. q.route = "home" /\ q.socket = p.socket
      BY <2>1, <2>3
    <3>. HIDE DEF q
    <3>. QED BY <2>1, <2>2, <3>1, <3>2
  <2>7. CASE joinAnswered(c)
    <3>. DEFINE q == [w EXCEPT !.joining = w.joining /\ ~c.live]
                r == setRoomToken(q, c.answer.view.as)
    <3>1. p' = rendered(q) \/ p' = rendered(r)
      BY <2>1, <2>7 DEF joinAnswered, Renders, w
    <3>2. q.route = "home" /\ q.socket = p.socket /\ PageOK(q)
      BY <2>1, <2>3, FlagsOK
    <3>. HIDE DEF q
    <3>3. r.route = "home" /\ r.socket = p.socket
      BY <2>4, <3>2
    <3>. HIDE DEF r
    <3>. QED BY <2>2, <3>1, <3>2, <3>3
  <2>8. CASE actAnswered(c)
    BY <2>1, <2>2, <2>5, <2>8 DEF actAnswered, Renders, w
  <2>9. CASE leaveAnswered(c)
    <3>. DEFINE r == setRoomToken(w, NoToken)
    <3>1. p' = goHome(r)
      BY <2>9 DEF leaveAnswered, clearRoomToken, w
    <3>2. r.route = "home" /\ r.socket = p.socket
      BY <2>1, <2>4
    <3>. HIDE DEF r
    <3>. QED BY <2>2, <3>1, <3>2
  <2>. QED BY <1>3, <2>6, <2>7, <2>8, <2>9 DEF Answer
<1>4. ASSUME NEW i \in Runs, Line(i) \/ \E v : Receives(i, v)
      PROVE  FALSE
  BY <1>4 DEF Line, Opens, Closes, TimerFires, Checks, ChecksRoom, Resumes, Receives,
              canOpen, canClose, canFire, canReceive
<1>5. CASE Others /\ UNCHANGED p
  BY <1>5
<1>. QED BY <1>1, <1>2, <1>3, <1>4, <1>5 DEF PageNext

--------------------------------------------------------------------------------
(* The landing page: the seats its requests got are real, and it is used   *)
(* when the hook of the room page is idle.                                 *)

SeatsHeld == \A g \in Guards : Held(home.wake.guard[g].seat, issuedIn)

HomeAlone ==
    home.wake # Awake => p.route = "home" /\ \A i \in Runs : p.socket.run[i].stage = "none"

SeatsKept(w, u) == \A h \in Guards : u.guard[h].seat \in {w.guard[h].seat, NoToken}

\* The watch of a guard does not touch the seats.
LEMMA WatchesKeepSeats ==
    ASSUME NEW w, WakeInv(w), NEW g
    PROVE  /\ SeatsKept(w, dismiss(w, g)) /\ SeatsKept(w, tripWire(w, g)) /\ SeatsKept(w, ceiling(w, g))
           /\ dismiss(w, g) \in WakeType
<1>1. dismiss(w, g) = [[w EXCEPT !.guard[g].watch = "off"] EXCEPT !.phase = "idle"]
  BY DEF dismiss, stopAll
<1>2. tripWire(w, g) = [w EXCEPT !.phase = "overlay", !.guard[g].watch = "tripped"]
  BY DEF tripWire
<1>3. ceiling(w, g) = [[w EXCEPT !.guard[g].watch = "off"] EXCEPT !.phase = "timedout"]
  BY DEF ceiling, stopAll
<1>4. /\ Rewatched(w, g, "off", "idle", dismiss(w, g))
      /\ Rewatched(w, g, "tripped", "overlay", tripWire(w, g))
      /\ Rewatched(w, g, "off", "timedout", ceiling(w, g))
  BY <1>1, <1>2, <1>3, WatchStep DEF WakeInv, Phases
<1>. QED BY <1>4 DEF Rewatched, SeatsKept

\* A new guard has no seat, and the others keep theirs.
LEMMA GuardKeepsSeats ==
    ASSUME NEW w, WakeInv(w), NEW action, NEW awaited
    PROVE  SeatsKept(w, guard(w, action, awaited))
<1>. DEFINE v == IF w.cleanup = 0 THEN w ELSE dismiss(w, w.cleanup)
            g == CHOOSE h \in Free(v) : \A k \in Free(v) : h <= k
            u == guard(w, action, awaited)
<1>1. v \in WakeType /\ SeatsKept(w, v)
  BY WatchesKeepSeats DEF WakeInv, SeatsKept
<1>2. u = [v EXCEPT !.cleanup = g, !.action = action, !.guard[g] = NewGuard(action, awaited)]
  BY DEF guard
<1>3. NewGuard(action, awaited).seat = NoToken
  BY DEF NewGuard, NoToken
<1>. HIDE DEF v, g, u
<1>4. u.guard = [v.guard EXCEPT ![g] = NewGuard(action, awaited)]
  BY <1>1, <1>2 DEF WakeType
<1>5. SeatsKept(w, u)
  BY <1>1, <1>3, <1>4 DEF SeatsKept, WakeType
<1>. QED BY <1>5 DEF u

\* A guard that settles drops its seat.
LEMMA SettleKeepsSeats ==
    ASSUME NEW w, WakeInv(w), NEW g
    PROVE  SeatsKept(w, settle(w, g))
<1>. DEFINE v == IF w.guard[g].watch = "off" THEN w ELSE dismiss(w, g)
            u == settle(w, g)
<1>1. v \in WakeType /\ SeatsKept(w, v)
  BY WatchesKeepSeats DEF WakeInv, SeatsKept
<1>2. u = [v EXCEPT !.guard[g] = NoGuard]
  BY DEF settle
<1>3. NoGuard.seat = NoToken
  BY DEF NoGuard, NewGuard, NoToken
<1>. HIDE DEF v, u
<1>4. u.guard = [v.guard EXCEPT ![g] = NoGuard]
  BY <1>1, <1>2 DEF WakeType
<1>5. SeatsKept(w, u)
  BY <1>1, <1>3, <1>4 DEF SeatsKept, WakeType
<1>. QED BY <1>5 DEF u

LandingReady == PageReady /\ HomeInv /\ SeatsHeld /\ HomeAlone

\* Steps in which the page does not matter to the room.
LEMMA WakeSteps ==
    ASSUME LandingReady, NEW u, home'.wake = u, SeatsKept(home.wake, u), UNCHANGED pageVars,
           p.route = "home", \A i \in Runs : p.socket.run[i].stage = "none"
    PROVE  Fits(p', history', issuedIn') /\ ServiceOK(history, issuedIn)' /\ SeatsHeld' /\ HomeAlone'
<1>1. UNCHANGED <<history, issuedIn, p>>
  BY DEF pageVars, serviceVars
<1>2. SeatsHeld'
  BY <1>1 DEF LandingReady, SeatsHeld, SeatsKept, Held, Issued
<1>3. HomeAlone'
  BY <1>1 DEF HomeAlone
<1>. QED BY <1>1, <1>2, <1>3 DEF LandingReady, PageReady, ServiceOK

\* Every step of the landing page.
LEMMA LandingKeeps ==
    ASSUME LandingReady, Landing
    PROVE  /\ Fits(p', history', issuedIn') /\ ServiceOK(history, issuedIn)' /\ SeatsHeld' /\ HomeAlone'
           /\ p.route = "home"
<1>. DEFINE Goal == /\ Fits(p', history', issuedIn') /\ ServiceOK(history, issuedIn)'
                    /\ SeatsHeld' /\ HomeAlone'
            Idle == p.route = "home" /\ \A i \in Runs : p.socket.run[i].stage = "none"
<1>1. WakeInv(home.wake) /\ home = [loading |-> home.loading, wake |-> home.wake]
  BY DEF LandingReady, HomeInv
<1>2. /\ Awake.phase = "idle"
      /\ \A g \in Guards : Awake.guard[g].watch = "off" /\ Awake.guard[g].request = "none"
  BY DEF Awake, NoGuard, NewGuard
<1>3. ASSUME NEW action \in Actions, submit(action)
      PROVE  Goal /\ p.route = "home"
  <2>1. home'.wake = guard(home.wake, action, TRUE) /\ UNCHANGED pageVars
    BY <1>1, <1>3 DEF submit, Home
  <2>2. Idle
    BY <1>3 DEF submit, OnHome, RoomIsLeft
  <2>. QED BY <1>1, <2>1, <2>2, GuardKeepsSeats, WakeSteps
<1>4. CASE onRetry
  <2>1. home'.wake = guard(home.wake, home.wake.action, FALSE) /\ UNCHANGED pageVars
    BY <1>1, <1>4 DEF onRetry, Home, retry
  <2>2. Idle
    BY <1>4, <1>2 DEF onRetry, LandingReady, HomeAlone
  <2>. QED BY <1>1, <2>1, <2>2, GuardKeepsSeats, WakeSteps
<1>5. ASSUME NEW g \in Guards, Trips(g) \/ TimesOut(g) \/ IsHealthy(g)
      PROVE  Goal /\ p.route = "home"
  <2>1. home.wake.guard[g].watch \in {"armed", "tripped"}
    BY <1>5 DEF Trips, TimesOut, IsHealthy, Watching
  <2>2. Idle
    BY <1>2, <2>1 DEF LandingReady, HomeAlone
  <2>3. /\ home'.wake \in {tripWire(home.wake, g), ceiling(home.wake, g), dismiss(home.wake, g)}
        /\ UNCHANGED pageVars
    BY <1>1, <1>5 DEF Trips, TimesOut, IsHealthy, Wakes, Home
  <2>. QED BY <1>1, <2>2, <2>3, WatchesKeepSeats, WakeSteps
<1>6. ASSUME NEW g \in Guards, Works(g)
      PROVE  Goal /\ p.route = "home"
  <2>1. Idle
    BY <1>6, <1>2 DEF Works, LandingReady, HomeAlone
  <2>2. PICK answer \in Answers :
            /\ joinRoom(answer) \/ createRoom(answer)
            /\ home' = [home EXCEPT
                        !.wake.guard[g].request = answer.is,
                        !.wake.guard[g].seat = IF answer.is = "ok" THEN answer.view.as ELSE NoToken]
    BY <1>6 DEF Works
  <2>3. ServiceOK(history, issuedIn)' /\ OnlyAdds(history, issuedIn, history', issuedIn')
    BY <2>2, RequestGrows DEF LandingReady, PageReady
  <2>4. ServiceOK(history', issuedIn')
    BY <2>3
  <2>5. Fits(p, history', issuedIn') /\ UNCHANGED p
    BY <1>6, <2>3, <2>4, FactsGrow DEF LandingReady, PageReady, Works
  <2>. DEFINE seat == IF answer.is = "ok" THEN answer.view.as ELSE NoToken
              c == Call("join", NoToken)
  <2>6. AnswerFits(c, answer, history', issuedIn')
    <3>1. c.kind = "join"
      BY DEF Call
    <3>. HIDE DEF c
    <3>. QED BY <2>2, <3>1, AnswersFit DEF LandingReady, PageReady
  <2>7. Held(seat, issuedIn')
    BY <2>6 DEF AnswerFits, Honest, Seen, Held
  <2>8. \A h \in Guards : home'.wake.guard[h].seat = IF h = g THEN seat ELSE home.wake.guard[h].seat
    <3>. HIDE DEF seat
    <3>. DEFINE f == [home.wake.guard EXCEPT ![g].request = answer.is, ![g].seat = seat]
                r == [home.wake.guard[g] EXCEPT !.request = answer.is, !.seat = seat]
    <3>1. r.seat = seat
      BY <1>1 DEF WakeInv, WakeType, WatchType
    <3>2. f = [home.wake.guard EXCEPT ![g] = r]
      BY <1>1 DEF WakeInv, WakeType
    <3>3. home'.wake.guard = f
      BY <1>1, <2>2 DEF seat, WakeInv, WakeType
    <3>. HIDE DEF f, r
    <3>. QED BY <1>1, <3>1, <3>2, <3>3 DEF WakeInv, WakeType
  <2>9. SeatsHeld'
    <3>1. \A h \in Guards : Held(home.wake.guard[h].seat, issuedIn')
      BY <2>3, <2>4, SeenGrows DEF LandingReady, PageReady, SeatsHeld
    <3>. HIDE DEF seat
    <3>. QED BY <2>7, <2>8, <3>1 DEF SeatsHeld
  <2>10. HomeAlone'
    BY <2>1, <2>5 DEF HomeAlone
  <2>. QED BY <2>1, <2>3, <2>5, <2>9, <2>10
<1>7. ASSUME NEW g \in Guards, Settles(g)
      PROVE  Goal /\ p.route = "home"
  <2>. DEFINE seat == home.wake.guard[g].seat
  <2>1. Idle
    BY <1>7, <1>2 DEF Settles, LandingReady, HomeAlone
  <2>2. UNCHANGED serviceVars
    BY <1>7 DEF Settles
  <2>3. CASE p' = mount(setRoomToken(p, seat)) /\ home' = Fresh
    <3>. DEFINE q == setRoomToken(p, seat)
    <3>1. PageOK(q) /\ Facts(q, history, issuedIn)
      BY StoresOK, StoresFacts DEF LandingReady, PageReady, SeatsHeld, Fits
    <3>2. q.socket = p.socket /\ q.calls = p.calls
      BY StoreFields DEF LandingReady, PageReady
    <3>. HIDE DEF q
    <3>3. Blank(q)
      BY <2>1, <3>2 DEF LandingReady, PageReady, Fits, Shape, AtHome, Blank
    <3>4. Fits(p', history, issuedIn)
      BY <2>3, <3>1, <3>3, MountFits DEF q
    <3>5. home'.wake = Awake
      BY <2>3 DEF Fresh
    <3>6. \A h \in Guards : Awake.guard[h].seat = NoToken
      BY DEF Awake, NoGuard, NewGuard, NoToken
    <3>7. SeatsHeld' /\ HomeAlone'
      BY <3>5, <3>6 DEF SeatsHeld, HomeAlone, Held
    <3>. QED BY <2>1, <2>2, <3>4, <3>7 DEF LandingReady, PageReady, ServiceOK, serviceVars
  <2>4. CASE UNCHANGED p /\ home' = [home EXCEPT !.loading = @ /\ ~home.wake.guard[g].awaited,
                                                 !.wake = settle(@, g)]
    <3>1. home'.wake = settle(home.wake, g)
      BY <1>1, <2>4
    <3>2. UNCHANGED pageVars
      BY <2>2, <2>4 DEF pageVars
    <3>. QED BY <1>1, <2>1, <3>1, <3>2, SettleKeepsSeats, WakeSteps
  <2>. QED BY <1>7, <2>3, <2>4 DEF Settles
<1>. QED BY <1>3, <1>4, <1>5, <1>6, <1>7 DEF Landing

--------------------------------------------------------------------------------
(* The tab.                                                                *)

SeatInv == LandingReady

\* The first states of a tab.
LEMMA SeatStarts == Init => SeatInv
<1>. SUFFICES ASSUME Init PROVE SeatInv
  OBVIOUS
<1>1. PageOK(p) /\ home = Fresh /\ ServiceInit /\ PageInit
  BY PageStarts DEF Init, TabInit, PageInit
<1>2. HomeInv
  BY <1>1, AwakeInv DEF Fresh, HomeInv
<1>3. ServiceOK(history, issuedIn)
  <2>1. history = <<1>> /\ issuedIn = [t \in Tokens |-> NoRoom] /\ NoRoom = 0
    BY <1>1 DEF ServiceInit, NoRoom
  <2>2. history \in Seq(Nat \ {0}) /\ Len(history) = 1 /\ history[1] = 1
    BY <2>1
  <2>. QED BY <2>1, <2>2 DEF ServiceOK
<1>4. Fits(p, history, issuedIn)
  <2>. PICK keeps \in BOOLEAN, route \in {"home", "room"} :
        p = LET tab == [route |-> "home", keeps |-> keeps, storage |-> NoToken, token |-> NoToken,
                        loading |-> FALSE, joining |-> FALSE, socket |-> Unused, calls |-> {}]
            IN  IF route = "room" THEN mount(tab) ELSE tab
    BY <1>1 DEF PageInit
  <2>. DEFINE tab == [route |-> "home", keeps |-> keeps, storage |-> NoToken, token |-> NoToken,
                      loading |-> FALSE, joining |-> FALSE, socket |-> Unused, calls |-> {}]
  <2>1. PageOK(tab)
    BY UnusedOK DEF PageOK, Page
  <2>2. p = IF route = "room" THEN mount(tab) ELSE tab
    OBVIOUS
  <2>3. /\ tab.route = "home" /\ tab.storage = NoToken /\ tab.token = NoToken /\ tab.loading = FALSE
        /\ tab.joining = FALSE /\ tab.socket = Unused /\ tab.calls = {}
    OBVIOUS
  <2>. HIDE DEF tab
  <2>4. /\ Unused.view = NoView /\ Unused.current = NoRun
        /\ \A i \in Runs : Unused.run[i] = EmptyRun
    BY DEF Unused
  <2>5. Facts(tab, history, issuedIn) /\ Blank(tab)
    BY <2>3, <2>4, ClosedRuns, EmptyRuns DEF Facts, Blank, Held, Honest
  <2>6. Fits(mount(tab), history, issuedIn)
    BY <2>1, <2>5, MountFits
  <2>7. Fits(tab, history, issuedIn)
    BY <2>3, <2>4, <2>5, Runs0
       DEF Fits, Shape, Tells, RunIsOurs, AtHome, LoadsOwn, JoinsAlone
  <2>. QED BY <2>2, <2>6, <2>7
<1>5. SeatsHeld /\ HomeAlone
  <2>1. home.wake = Awake /\ \A g \in Guards : Awake.guard[g].seat = NoToken
    BY <1>1 DEF Fresh, Awake, NoGuard, NewGuard, NoToken
  <2>. QED BY <2>1 DEF SeatsHeld, HomeAlone, Held
<1>. QED BY <1>1, <1>2, <1>3, <1>4, <1>5 DEF SeatInv, LandingReady, PageReady

\* Every step of a tab.
LEMMA SeatNext ==
    ASSUME SeatInv, [Next]_vars
    PROVE  SeatInv' /\ [\A t \in Tokens :
        Holds(t) /\ p'.route = "room" /\ ~Holds(t)' => ~Member(t) \/ LateFetch(t) \/ Load]_pageVars
<1>0. HomeInv'
  BY HomeNextInv DEF SeatInv, LandingReady
<1>1. CASE Landing
  <2>1. /\ Fits(p', history', issuedIn') /\ ServiceOK(history, issuedIn)' /\ SeatsHeld' /\ HomeAlone'
        /\ p.route = "home"
    BY <1>1, LandingKeeps DEF SeatInv
  <2>2. PageOK(p')
    BY <1>1, LandingSteps DEF SeatInv, LandingReady, PageReady
  <2>3. PageOK(p)' /\ Fits(p, history, issuedIn)'
    BY <2>1, <2>2 DEF PageOK, Page, Fits, Facts, Shape, Tells, AtHome, LoadsOwn, JoinsAlone
  <2>. QED BY <1>0, <2>1, <2>3 DEF SeatInv, LandingReady, PageReady, Holds, OnRoom
<1>2. CASE InRoom
  <2>1. PageNext /\ home' = IF p'.route = "room" THEN Fresh ELSE home
    BY <1>2 DEF InRoom
  <2>2. PageGoes
    BY <2>1, PageKeeps DEF SeatInv, LandingReady
  <2>3. PageOK(p')
    BY <2>1, PageSteps DEF SeatInv, LandingReady, PageReady
  <2>4. PageOK(p)' /\ Fits(p, history, issuedIn)'
    BY <2>2, <2>3 DEF PageGoes, PageOK, Page, Fits, Facts, Shape, Tells, AtHome, LoadsOwn, JoinsAlone
  <2>5. SeatsHeld'
    <3>1. CASE p'.route = "room"
      <4>1. home'.wake = Awake /\ \A g \in Guards : Awake.guard[g].seat = NoToken
        BY <2>1, <3>1 DEF Fresh, Awake, NoGuard, NewGuard, NoToken
      <4>. QED BY <4>1 DEF SeatsHeld, Held
    <3>2. CASE p'.route # "room"
      <4>1. ServiceOK(history', issuedIn') /\ OnlyAdds(history, issuedIn, history', issuedIn')
        BY <2>2 DEF PageGoes
      <4>2. \A g \in Guards : Held(home.wake.guard[g].seat, issuedIn')
        BY <4>1, SeenGrows DEF SeatInv, LandingReady, PageReady, SeatsHeld
      <4>. QED BY <2>1, <3>2, <4>2 DEF SeatsHeld
    <3>. QED BY <3>1, <3>2
  <2>6. HomeAlone'
    <3>1. CASE p'.route = "room"
      BY <2>1, <3>1 DEF Fresh, HomeAlone
    <3>2. CASE p'.route # "room" /\ home.wake # Awake
      <4>1. p'.socket = p.socket
        BY <2>1, <3>2, HomeStays DEF SeatInv, LandingReady, HomeAlone
      <4>2. p'.route = "home"
        BY <2>2, <3>2 DEF PageGoes, Fits, Shape
      <4>. QED BY <2>1, <3>2, <4>1, <4>2 DEF SeatInv, LandingReady, HomeAlone
    <3>3. CASE p'.route # "room" /\ home.wake = Awake
      BY <2>1, <3>3 DEF HomeAlone
    <3>. QED BY <3>1, <3>2, <3>3
  <2>7. ASSUME NEW t \in Tokens, Holds(t), p'.route = "room", Member(t), ~LateFetch(t), ~Load
        PROVE  Holds(t)'
    BY <2>2, <2>7 DEF PageGoes, Due, HoldsIn, Holds, OnRoom
  <2>. QED BY <1>0, <2>2, <2>4, <2>5, <2>6, <2>7 DEF SeatInv, LandingReady, PageReady, PageGoes
<1>3. CASE UNCHANGED tabVars
  BY <1>0, <1>3 DEF tabVars, pageVars, serviceVars, SeatInv, LandingReady, PageReady, SeatsHeld, HomeAlone,
                    PageOK, Page, Fits, Facts, Shape, Tells, AtHome, LoadsOwn, JoinsAlone, ServiceOK
<1>. QED BY <1>1, <1>2, <1>3 DEF Next, TabNext, vars

\* A page that stays open lets go of a token only when it is dead, or when the answer
\* of a fetch for another token makes it believe so, or when it is loaded anew, for
\* any number of tokens, states of the room and rooms under the code
\* (page.tsx:110-118, 142-144).
THEOREM SeatsAreKept == FairSpec => DiscardsOnlyDeadTokens
<1>. DEFINE Keeps == \A t \in Tokens :
                        Holds(t) /\ p'.route = "room" /\ ~Holds(t)' => ~Member(t) \/ LateFetch(t) \/ Load
<1>1. SeatInv /\ [Next]_vars => SeatInv' /\ [Keeps]_pageVars
  BY SeatNext
<1>2. DiscardsOnlyDeadTokens <=> [][Keeps]_pageVars
  BY DEF DiscardsOnlyDeadTokens
<1>. HIDE DEF Keeps
<1>. QED BY SeatStarts, <1>1, <1>2, PTL DEF FairSpec
================================================================================
