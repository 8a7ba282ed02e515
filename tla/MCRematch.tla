------------------------------ MODULE MCRematch ------------------------------
(* A team of two: TLC's instance of Rematch. *)
EXTENDS Rematch

CONSTANTS a, b

MCPlayers == {a, b}
MCLeavers == {b}

\* Room 1 ends its match.  Room 2 goes on long enough for a deferred sink to
\* overflow and for the connection to be sent another event before it is
\* closed; room 3 is the one of a second attempt.
MCEmits == <<4, 3, 1>>
=============================================================================
