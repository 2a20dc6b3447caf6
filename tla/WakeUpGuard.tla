------------------------------ MODULE WakeUpGuard ------------------------------
(***************************************************************************)
(* frontend/src/lib/useWakeUpGuard.ts: the watch over a request that may   *)
(* have to wake the server up.  Every call of guard has a closure with its *)
(* timers; they end together (stopAll), so that a watch is off, armed (the *)
(* overlay is not up yet) or tripped (the overlay is up, /api/health is    *)
(* polled).  The ceiling comes long after the trip wire.                   *)
(*                                                                         *)
(* The hook's state is a record w, changed by functions of it.             *)
(***************************************************************************)
EXTENDS Integers

CONSTANT Guards     \* slots for the calls of guard

ASSUME GuardsAssumption == Guards \subseteq Nat \ {0}

Phases == {"idle", "overlay", "timedout"}

\* A guard whose request is asked or answered; awaited tells the form's own
\* call from one that retry has made.
NewGuard(action, awaited) ==
    [action |-> action, request |-> "asked", seat |-> 0, awaited |-> awaited, watch |-> "armed"]
NoGuard == [NewGuard("none", FALSE) EXCEPT !.request = "none", !.watch = "off"]

\* phase, cleanupRef (none yet when it is 0), and the action of retryRef.
Awake == [phase |-> "idle", cleanup |-> 0, action |-> "none",
          guard |-> [g \in Guards |-> NoGuard]]

Free(w) == {g \in Guards : w.guard[g].request = "none" /\ w.guard[g].watch = "off"}

--------------------------------------------------------------------------------
stopAll(w, g) == [w EXCEPT !.guard[g].watch = "off"]
dismiss(w, g) == [stopAll(w, g) EXCEPT !.phase = "idle"]

\* Mutant: the guard of the call before is left to itself.
guardKeeping(w, action, awaited) ==
    LET g == CHOOSE h \in Free(w) : \A k \in Free(w) : h <= k
    IN  [w EXCEPT !.cleanup = g, !.action = action, !.guard[g] = NewGuard(action, awaited)]

\* guard: the one before is dismissed, whatever it is doing, and the action is
\* started.
guard(w, action, awaited) ==
    LET v == IF w.cleanup = 0 THEN w ELSE dismiss(w, w.cleanup)
        g == CHOOSE h \in Free(v) : \A k \in Free(v) : h <= k
    IN  [v EXCEPT !.cleanup = g, !.action = action, !.guard[g] = NewGuard(action, awaited)]

\* Three seconds have passed.
tripWire(w, g) == [w EXCEPT !.phase = "overlay", !.guard[g].watch = "tripped"]

\* Ninety have.
ceiling(w, g) == [stopAll(w, g) EXCEPT !.phase = "timedout"]

\* The request is over: its own watch, if it is on, ends with it.
settle(w, g) ==
    [(IF w.guard[g].watch = "off" THEN w ELSE dismiss(w, g)) EXCEPT !.guard[g] = NoGuard]

\* The action is run again, and what comes of it reaches nobody.
retry(w) == guard(w, w.action, FALSE)

--------------------------------------------------------------------------------
\* The overlay is up exactly as long as somebody watches who will take it down,
\* and no two watch at once: neither a late answer nor a retry takes down, or
\* leaves up, the overlay of another request (useWakeUpGuard.ts:14-15, 41-69).
PhaseTells(w) ==
    /\ w.phase = "overlay" <=> \E g \in Guards : w.guard[g].watch = "tripped"
    /\ w.phase = "timedout" => \A g \in Guards : w.guard[g].watch = "off"
    /\ \A g, h \in Guards : w.guard[g].watch # "off" /\ w.guard[h].watch # "off" => g = h
================================================================================
