------------------------------- MODULE RoomPanels -------------------------------
(***************************************************************************)
(* What the pages of a room's players tell them: the lobby and the board in *)
(* frontend/src/app/room/[code]/page.tsx, components/Scoreboard.tsx and     *)
(* components/FinishModal.tsx, as functions of the view the server sends   *)
(* (RoomView).  me is the player whose page it is; Board says when a modal *)
(* has been dismissed.                                                     *)
(***************************************************************************)
EXTENDS RoomView

\* myPlayer, by isYou.
Seated(me) == me \in players

ShowsLobby(me) == Seated(me) /\ status = "lobby"
ShowsBoard(me) == Seated(me) /\ status \in {"playing", "finished"}

\* Start Round, or the wait for somebody else to press it.
lobby(me) ==
    [names    |-> players,
     mayStart |-> PlayerView(me).youAreHost,
     hostAway |-> \E p \in players : p = host /\ pstatus[p] = "disconnected"]

\* What Game is told of the player's status, and whether it takes input.
myStatus(me) == IF pstatus[me] \in {"solved", "out"} THEN pstatus[me] ELSE "playing"
disabled(me) == myStatus(me) # "playing" \/ status = "finished"

\* The line of a player on the scoreboard.
Scoreboard(p) ==
    CASE pstatus[p] = "solved" -> "guesses"
      [] pstatus[p] = "out" -> IF status = "finished" THEN "cross" ELSE "Out"
      [] pstatus[p] = "disconnected" -> "Away"
      [] pstatus[p] = "playing" -> "Playing"
      [] pstatus[p] = "waiting" -> "Waiting"

showModal(me) == ShowsBoard(me) /\ pstatus[me] \in {"solved", "out"}

\* Mutant: who has not guessed yet is not counted.
stillPlayingBegun(me) == {p \in players \ {me} : pstatus[p] = "playing" /\ guesses[p] > 0}

\* The players the modal counts as those it waits for.
stillPlaying(me) == {p \in players \ {me} : pstatus[p] = "playing"}

\* A line of the final ranking.
entry(p, rank) ==
    [place  |-> IF pstatus[p] = "out" THEN "DNF" ELSE ToString(rank),
     result |-> CASE pstatus[p] = "solved" -> "guesses"
                  [] pstatus[p] = "disconnected" -> "Left"
                  [] pstatus[p] = "waiting" -> "Waiting"
                  [] OTHER -> "Out"]

FinishModal(me) ==
    LET r == PlayerView(me).ranking
    IN  [resultLine |-> IF pstatus[me] = "solved" THEN "solved" ELSE "ran out",
         word       |-> status = "finished" /\ PlayerView(me).target,
         waiting    |-> IF status = "finished" THEN {} ELSE stillPlaying(me),
         live       |-> IF status = "finished" THEN {} ELSE players,
         ranking    |-> [i \in DOMAIN r |-> entry(r[i], i)],
         nextRound  |-> status = "finished" /\ PlayerView(me).youAreHost]

\* The page under it; open says that the modal is.
board(me, open) ==
    [status    |-> myStatus(me),
     disabled  |-> disabled(me),
     lines     |-> [p \in players |-> Scoreboard(p)],
     word      |-> status = "finished" /\ ~open /\ PlayerView(me).target,
     nextRound |-> status = "finished" /\ ~open /\ PlayerView(me).youAreHost]

--------------------------------------------------------------------------------
\* Nobody is left with a page that tells nothing to wait for: in a lobby somebody
\* who is there may start, or the host's absence is shown; while the round runs, a
\* modal waits for players whose boards are open, and for nobody only in the grace
\* period of a drop, until it is finalised; when it is over, exactly the host has
\* the next round to start, in the modal or under it, everybody has the word, and
\* a modal's ranking says of its player what its first line says
\* (FinishModal.tsx:20-26, 70-108, 132-145; page.tsx:299, 323-340, 402-420;
\* store.go:428-443).
PanelsTell ==
    \A me \in players :
        /\ ShowsLobby(me) =>
            lobby(me).hostAway \/ \E p \in players : lobby(p).mayStart /\ ~IsAway(p)
        /\ showModal(me) /\ status = "playing" =>
            LET waiting == FinishModal(me).waiting
            IN  /\ \A p \in waiting : ~board(p, FALSE).disabled
                /\ waiting = {} => \E p \in players : board(me, TRUE).lines[p] = "Away"
        /\ ShowsBoard(me) /\ status = "finished" =>
            \A open \in {FALSE, showModal(me)} :
                LET panel == IF open THEN FinishModal(me) ELSE board(me, FALSE)
                IN  panel.word /\ (panel.nextRound <=> me = host)
        /\ showModal(me) /\ status = "finished" =>
            \E i \in DOMAIN FinishModal(me).ranking :
                /\ PlayerView(me).ranking[i] = me
                /\ FinishModal(me).ranking[i].result = "guesses"
                    <=> FinishModal(me).resultLine = "solved"
================================================================================
