--------------------------------- MODULE MCHub ---------------------------------
(* Hub for TLC: clients are interchangeable, and so are broadcasters.      *)
EXTENDS Hub, TLC

HubSymmetry == Permutations(Clients) \union Permutations(Broadcasters)
================================================================================
