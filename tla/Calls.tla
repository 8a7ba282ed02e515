-------------------------------- MODULE Calls --------------------------------
(***************************************************************************)
(* What a Room promises the goroutines that command it, without its        *)
(* queues: a command accepted while the room is open is answered exactly   *)
(* once, also when the room closes before it gets to it, and nothing is    *)
(* accepted after that.                                                    *)
(***************************************************************************)
CONSTANT Callers

VARIABLES open,     \* the room accepts commands
          pending,  \* callers whose command was accepted and not answered
          answered  \* callers whose answer is ready to be read

callVars == <<open, pending, answered>>

CallsInit == open = TRUE /\ pending = {} /\ answered = {}

Accept(c) ==
    /\ open
    /\ c \notin pending \cup answered
    /\ pending' = pending \cup {c}
    /\ UNCHANGED <<open, answered>>

Answer(c) ==
    /\ c \in pending
    /\ pending' = pending \ {c}
    /\ answered' = answered \cup {c}
    /\ UNCHANGED open

Read(c) ==
    /\ c \in answered
    /\ answered' = answered \ {c}
    /\ UNCHANGED <<open, pending>>

Shut ==
    /\ open
    /\ open' = FALSE
    /\ UNCHANGED <<pending, answered>>

CallsNext == Shut \/ \E c \in Callers : Accept(c) \/ Answer(c) \/ Read(c)

CallsSafe == CallsInit /\ [][CallsNext]_callVars
CallsSpec == CallsSafe /\ \A c \in Callers : WF_callVars(Answer(c))
=============================================================================
