----------------------------- MODULE MCStageFlow -----------------------------
(* Two bots and three stages: TLC's instance of StageFlow. *)
EXTENDS StageFlow, TLC

CONSTANTS a, b

MCPlayers  == {a, b}
MCLeavers  == {b}
\* Every scenario, and the pairs whose messages meet in the room's queue.
MCPlayed == {(a :> "duplicate") @@ (b :> "timeout"), (a :> "normal") @@ (b :> "invalid"),
             (a :> "duplicate") @@ (b :> "duplicate")}
=============================================================================
