-------------------------------- MODULE Browser --------------------------------
(***************************************************************************)
(* One tab of the frontend.  It is opened at the landing page, at the      *)
(* address of a room, or at the single-player page.  The first two lead to *)
(* each other; the third leads nowhere, and the link to it loads a new     *)
(* document, so that it begins as a tab that is opened there does.         *)
(***************************************************************************)
EXTENDS LandingPage, PlayPage

VARIABLE single     \* the tab is at the single-player page

vars == <<tabVars, playVars, single>>

Init ==
    /\ single \in BOOLEAN
    /\ TabInit
    /\ PlayInit
    /\ single => p.route = "home" /\ p.keeps

Next ==
    /\ UNCHANGED single
    /\ \/ ~single /\ TabNext /\ UNCHANGED playVars
       \/ single /\ PlayNext /\ UNCHANGED tabVars

FairSpec == Init /\ [][Next]_vars /\ LineFairness
================================================================================
