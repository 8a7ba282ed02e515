--------------------------- MODULE MCMatchmaking ---------------------------
(* Three players for two places: TLC's instance of Matchmaking. *)
EXTENDS Matchmaking, TLC

CONSTANTS a, b, c

MCPlayers  == {a, b, c}
BCSymmetry == Permutations({b, c})
=============================================================================
