--------------------------- MODULE MCResultWriter ---------------------------
(* Two matches with two possible results each: TLC's instance of ResultWriter. *)
EXTENDS ResultWriter

CONSTANTS m1, m2, none

MCMatches  == {m1, m2}
MCOutcomes == {"Victory", "Defeat"}
=============================================================================
