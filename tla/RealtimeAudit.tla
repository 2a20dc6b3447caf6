----------------------------- MODULE RealtimeAudit -----------------------------
(***************************************************************************)
(* What README.md says of players who are gone for good, and the history   *)
(* needed to say it: who has ever had a connection.                        *)
(***************************************************************************)
EXTENDS Realtime

VARIABLE seen       \* the tokens some connection has carried

raVars == <<rtVars, seen>>

RAInit == RTInit /\ seen = {}
RANext == RTNext /\ seen' = seen \union {token'[c] : c \in Conns}

RASpec == RAInit /\ [][RANext]_raVars
RAFairSpec == RASpec /\ RTFairness

--------------------------------------------------------------------------------
\* The players the round waits for (store.go:428-443).
Blocking == {p \in players : status = "playing" /\ isBlockingRound(pstatus[p], away[p])}

Ghost(t) == t \in seen /\ t \in Blocking /\ \A c \in Conns : token[c] # t

\* Nobody whose connections are all gone, their grace periods over, holds up a
\* round until the room itself is swept (README.md:34, the server "finalises the
\* drop").
DropsAreFinalised ==
    \A t \in Tokens :
        Ghost(t) ~> \/ status # "none" /\ t \in players /\ t \notin Blocking
                    \/ ConnsOf(t) # {}
================================================================================
