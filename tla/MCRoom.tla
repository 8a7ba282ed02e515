------------------------------- MODULE MCRoom -------------------------------
(* TLC's instance of Room: two sessions, two players, one item, one stage. *)
EXTENDS Room, TLC

CONSTANTS p1, p2, sword, s1, s2, c1, c2

MCPlayers  == {p1, p2}
MCItems    == {sword}
MCSessions == {s1, s2}
MCCallers  == {c1, c2}
OneCaller  == {c1}

\* Membership: joins (also of a player or session already bound), leaves, and
\* the reads of the World.
MembershipRequests ==
    [op : {"join"}, session : MCSessions, player : MCPlayers]
        \cup [op : {"leave"}, session : MCSessions]
        \cup {[op |-> "resumeState", session |-> s1], [op |-> "gameResult", outcome |-> "Defeat"]}

\* One session's run, from its join to its departure.
RunRequests ==
    {[op |-> "join", session |-> s1, player |-> p1], [op |-> "leave", session |-> s1],
     [op |-> "startStage", index |-> 1], [op |-> "startStage", index |-> 2],
     [op |-> "startReward"], [op |-> "completedStage"],
     [op |-> "chooseReward", session |-> s1, item |-> sword]}

CallerSymmetry == Permutations(MCCallers)
=============================================================================
