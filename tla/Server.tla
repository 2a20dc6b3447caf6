--------------------------------- MODULE Server ---------------------------------
(***************************************************************************)
(* backend/cmd/server/main.go: processes that seed the database when they  *)
(* start (Seeder), serve, and stop when they are told to (Shutdown).  One  *)
(* of them, Followed, is followed through its connections and its shutdown; *)
(* of the others only the seeding matters.                                 *)
(***************************************************************************)
EXTENDS Seeder, Shutdown

CONSTANT Followed   \* an instance

ASSUME FollowedAssumption == Followed \in Instances

vars == <<seedVars, stopVars>>

Init == SeedInit /\ StopInit

\* An instance starts; the one that is followed begins with no connection.
Starts(i) ==
    /\ Start(i)
    /\ IF i = Followed
       THEN /\ main' = "serving" /\ timedOut' = FALSE /\ clock' = 0 /\ toClose' = {}
            /\ conn' = [c \in Conns |-> "free"] /\ left' = [c \in Conns |-> 0]
       ELSE UNCHANGED stopVars

Seeds(i) == Seed(i) /\ UNCHANGED stopVars
Dies(i) == Crash(i) /\ UNCHANGED stopVars

\* A deployment replaces an instance that is not followed.
Stop(i) ==
    /\ i # Followed
    /\ Goes(i, "serving", "down")
    /\ UNCHANGED <<words, crashes, stopVars>>

\* The instance that is followed listens once it has seeded.
Takes(A) == pc[Followed] = "serving" /\ A /\ UNCHANGED seedVars
Exits == Exit /\ Goes(Followed, "serving", "down") /\ UNCHANGED <<words, crashes>>

Next ==
    \/ \E i \in Instances : Starts(i) \/ Seeds(i) \/ Dies(i) \/ Stop(i)
    \/ Takes(Serving) \/ Exits

\* An instance that is down is started again; goroutines that can go on do so and
\* time passes.  Nobody need connect, drop out or stop a server.
FairSpec ==
    /\ Init /\ [][Next]_vars
    /\ \A i \in Instances : WF_vars(Seeds(i)) /\ WF_vars(Starts(i))
    /\ WF_vars(Takes(Main)) /\ WF_vars(Takes(Tick)) /\ WF_vars(Exits)
    /\ \A c \in Conns : WF_vars(Takes(graceExpires(c) \/ closeNext(c)))
================================================================================
