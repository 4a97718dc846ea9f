---------------------------- MODULE MCTeamSave ----------------------------
(* Instances of TeamSave: two players of one server, and one player on     *)
(* each of two servers, which are alike.                                   *)
EXTENDS TeamSave, TLC

CONSTANTS a, b, c1, c2

Together == (c1 :> a) @@ (c2 :> a)
Apart    == (c1 :> a) @@ (c2 :> b)

\* Exchanging the servers together with their players.
ServersAlike ==
    {p \in Permutations(Servers \cup Clients) :
       \A c \in Clients : p[c] \in Clients /\ p[Home[c]] = Home[p[c]]}
===========================================================================
