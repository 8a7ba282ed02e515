------------------------------ MODULE MCWorld ------------------------------
(* Two players, two items, two stages: TLC's instance of World. *)
EXTENDS World, TLC

CONSTANTS p1, p2, sword, potion

MCPlayers == {p1, p2}
MCItems   == {sword, potion}
=============================================================================
