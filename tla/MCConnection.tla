---------------------------- MODULE MCConnection ----------------------------
(* Two senders, three frames, two snapshots: TLC's instance of Connection. *)
EXTENDS Connection, TLC

CONSTANTS a, b

MCSenders == {a, b}
=============================================================================
