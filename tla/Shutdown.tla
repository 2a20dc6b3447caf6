-------------------------------- MODULE Shutdown --------------------------------
(***************************************************************************)
(* The end of a server: main in backend/cmd/server/main.go from the signal *)
(* on, HubRegistry.Shutdown in realtime/registry.go, and the connections   *)
(* and grace goroutines that are still there.                              *)
(*                                                                         *)
(* The context of the grace goroutines is cancelled by main's deferred     *)
(* cancel, when main has returned: no step of this module is taken then.   *)
(***************************************************************************)
EXTENDS Integers

CONSTANTS
    Conns,          \* connection slots
    WsTimeout,      \* wsCtx: 5 s, in ticks
    HttpTimeout,    \* shutCtx: 10 s
    Grace           \* the grace goroutine's time.After: 15 s

ASSUME TimeoutsAssumption ==
    /\ WsTimeout \in Nat /\ HttpTimeout \in Nat /\ Grace \in Nat
    /\ WsTimeout <= HttpTimeout /\ HttpTimeout < Grace

VARIABLES
    main,       \* where main is
    timedOut,   \* Registry.Shutdown returned because wsCtx was done
    clock,      \* time since the signal
    toClose,    \* the clients Shutdown has collected and not closed yet
    conn,       \* each connection
    left        \* what is left of its grace goroutine's time.After

stopVars == <<main, timedOut, clock, toClose, conn, left>>

StopInit ==
    /\ main = "serving"
    /\ timedOut = FALSE
    /\ clock = 0
    /\ toClose = {}
    /\ conn = [c \in Conns |-> "free"]
    /\ left = [c \in Conns |-> 0]

Running == main # "exited"
Stopping == main \in {"closing", "stopping"}

\* The listener is closed by srv.Shutdown and not before.
Accepting == main \in {"serving", "signalled", "closing"}

--------------------------------------------------------------------------------
\* Client.close: OnClientDisconnect starts a grace goroutine.
Closed(c) ==
    /\ conn[c] = "live"
    /\ conn' = [conn EXCEPT ![c] = "grace"]
    /\ left' = [left EXCEPT ![c] = Grace]

Connect(c) ==
    /\ Accepting
    /\ conn[c] = "free"
    /\ conn' = [conn EXCEPT ![c] = "live"]
    /\ UNCHANGED <<main, timedOut, clock, toClose, left>>

\* A connection ends by itself; the once of Client.close leaves Shutdown
\* nothing to do for it.
Drop(c) ==
    /\ Running
    /\ Closed(c)
    /\ toClose' = toClose \ {c}
    /\ UNCHANGED <<main, timedOut, clock>>

graceExpires(c) ==
    /\ Running
    /\ conn[c] = "grace" /\ left[c] = 0
    /\ conn' = [conn EXCEPT ![c] = "free"]
    /\ UNCHANGED <<main, timedOut, clock, toClose, left>>

Signal ==
    /\ main = "serving"
    /\ main' = "signalled"
    /\ UNCHANGED <<timedOut, clock, toClose, conn, left>>

\* Shutdown collects the clients of every hub under the locks.
collect ==
    /\ main = "signalled"
    /\ main' = "closing"
    /\ toClose' = {c \in Conns : conn[c] = "live"}
    /\ UNCHANGED <<timedOut, clock, conn, left>>

\* Its goroutine closes one after the other, until the process ends.
closeNext(c) ==
    /\ Stopping
    /\ c \in toClose
    /\ Closed(c)
    /\ toClose' = toClose \ {c}
    /\ UNCHANGED <<main, timedOut, clock>>

AllClosed == toClose = {} /\ \A c \in Conns : conn[c] # "grace"

\* Mutant: Shutdown does not look at its context.
ShutdownUntilClosed ==
    /\ main = "closing"
    /\ AllClosed /\ timedOut' = FALSE
    /\ main' = "stopping"
    /\ UNCHANGED <<clock, toClose, conn, left>>

\* Shutdown returns when wg.Wait has, or when wsCtx is done.
ShutdownReturns ==
    /\ main = "closing"
    /\ \/ AllClosed /\ timedOut' = FALSE
       \/ clock >= WsTimeout /\ timedOut' = TRUE
    /\ main' = "stopping"
    /\ UNCHANGED <<clock, toClose, conn, left>>

\* srv.Shutdown returns when no handler runs, at the latest when shutCtx is done.
\* Hijacked connections are not its business; main returns.
Exit ==
    /\ main = "stopping"
    /\ main' = "exited"
    /\ UNCHANGED <<timedOut, clock, toClose, conn, left>>

\* While the timers of main run, time does not run past them.
Tick ==
    /\ Running
    /\ ~(main = "stopping" /\ clock = HttpTimeout)
    /\ ~(main \in {"signalled", "closing"} /\ clock = WsTimeout)
    /\ clock' = IF main = "serving" THEN clock ELSE clock + 1
    /\ left' = [c \in Conns |-> IF left[c] > 0 THEN left[c] - 1 ELSE 0]
    /\ UNCHANGED <<main, timedOut, toClose, conn>>

Main == collect \/ ShutdownReturns

Serving ==
    \/ \E c \in Conns : Connect(c) \/ Drop(c) \/ graceExpires(c) \/ closeNext(c)
    \/ Signal \/ Main \/ Tick

--------------------------------------------------------------------------------
\* A server that was told to stop does, whatever connections come and go
\* meanwhile and whoever is in a grace period (registry.go:131; main.go:77-91).
Stops == main = "signalled" ~> main = "exited"
================================================================================
