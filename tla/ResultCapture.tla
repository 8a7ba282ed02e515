--------------------------- MODULE ResultCapture ---------------------------
(***************************************************************************)
(* How the end of a match is noticed and its result handed to the writer:  *)
(* submitGameResultAfterCapture (server/cmd/gameserver/results.go) and the *)
(* events that start it, for the room of one match.                        *)
(*                                                                         *)
(* A captor is a goroutine that runs it, named by the outcome it asks for. *)
(* The World is reduced to what World.GameResult looks at, a result to its *)
(* outcome, and the writer to what ResultWriter shows of it: it takes a    *)
(* result, is full for now, or is closed for good.                         *)
(***************************************************************************)
EXTENDS Naturals, Sequences

Outcomes == {"Victory", "Defeat", "Abandoned"}

\* The match waits for its first stage, is played, advances to its final stage,
\* plays and clears it, or its team has fallen.
Runs == {"waiting", "playing", "advancing", "final", "won", "lost"}

VARIABLES run,        \* the state of the World
          room,       \* open, closed
          crowd,      \* its connections: present, gone, leaving the room, left
          observed,   \* observeEvents has taken the final event
          captors,    \* where each captor is
          captured,   \* the outcome a captor has received
          submitting, \* activeRoom.resultSubmitting
          queued,     \* activeRoom.resultQueued
          stopping,   \* the application's ctx is done
          closed,     \* ResultWriter.closed
          accepted,   \* history: the results the writer took
          capturedIn  \* history: the state of the World the last capture saw

roomVars == <<run, room>>
flagVars == <<submitting, queued>>
endVars  == <<stopping, closed>>
seenVars == <<captured, capturedIn>>
vars == <<roomVars, crowd, observed, captors, seenVars, flagVars, endVars, accepted>>

Init ==
    /\ run = "waiting" /\ room = "open" /\ crowd = "present" /\ observed = FALSE
    /\ captors = [o \in Outcomes |-> "none"] /\ captured = "Abandoned"
    /\ submitting = FALSE /\ queued = FALSE
    /\ stopping = FALSE /\ closed = FALSE /\ accepted = <<>> /\ capturedIn = "waiting"

-----------------------------------------------------------------------------
(* The room and its players *)

RunGoes(from, to) ==
    /\ run = from /\ room = "open"
    /\ run' = to
    /\ UNCHANGED <<room, crowd, observed, captors, seenVars, flagVars, endVars, accepted>>

\* createMatch opens the first stage.
RunStarts == RunGoes("waiting", "playing")

\* The connected players are ready for the final stage ...
TryAdvance == crowd = "present" /\ RunGoes("playing", "advancing")

\* ... and advanceStage opens it.
FinalStarts == RunGoes("advancing", "final")

\* A tick clears the final stage with a living player ...
RunIsWon == crowd # "left" /\ RunGoes("final", "won")

\* ... or finds none, if only because all have left.
RunIsLost == RunGoes("playing", "lost") \/ RunGoes("final", "lost")

Goto(o, where) == captors' = [captors EXCEPT ![o] = where]

\* observeEvents takes TeamDefeated, or StageCleared of the final stage.
Observe ==
    /\ run \in {"won", "lost"} /\ ~observed
    /\ observed' = TRUE
    /\ Goto(IF run = "won" THEN "Victory" ELSE "Defeat", "start")
    /\ UNCHANGED <<roomVars, crowd, seenVars, flagVars, endVars, accepted>>

\* disconnected, for the last connection of the room: a captor that lets the
\* player leave afterwards.
LastDisconnects ==
    /\ crowd = "present"
    /\ crowd' = "gone"
    /\ Goto("Abandoned", "start")
    /\ UNCHANGED <<roomVars, observed, seenVars, flagVars, endVars, accepted>>

\* A rematch takes the players to another room.
Rematch ==
    /\ crowd = "present" /\ room = "open"
    /\ run = "lost" \/ (run = "won" /\ observed)
    /\ crowd' = "leaving"
    /\ UNCHANGED <<roomVars, observed, captors, seenVars, flagVars, endVars, accepted>>

\* The leave is applied.
Left ==
    /\ crowd = "leaving" /\ room = "open"
    /\ crowd' = "left"
    /\ UNCHANGED <<roomVars, observed, captors, seenVars, flagVars, endVars, accepted>>

\* A room closes when it is empty for long, overloaded, or told to.
RoomCloses ==
    /\ room = "open"
    /\ room' = "closed"
    /\ UNCHANGED <<run, crowd, observed, captors, seenVars, flagVars, endVars, accepted>>

\* The server stops, and then shuts the writer down.
Stop ==
    /\ ~stopping
    /\ stopping' = TRUE
    /\ UNCHANGED <<roomVars, crowd, observed, captors, seenVars, flagVars, closed, accepted>>

Shutdown ==
    /\ stopping /\ ~closed
    /\ closed' = TRUE
    /\ UNCHANGED <<roomVars, crowd, observed, captors, seenVars, flagVars, stopping, accepted>>

-----------------------------------------------------------------------------
(* submitGameResultAfterCapture *)

\* Captor o lets the last player leave, unless it did before.
AfterCapture(o) == crowd' = IF o = "Abandoned" /\ crowd = "gone" THEN "leaving" ELSE crowd

\* Mutant: that a result was queued before is not looked at.
Claimable_NotSubmitting == ~submitting

Claimable == ~submitting /\ ~queued

\* The flags are tested and set under a.mu.
Claim(o) ==
    /\ captors[o] = "start" /\ Claimable
    /\ submitting' = TRUE
    /\ Goto(o, "ask")
    /\ UNCHANGED <<roomVars, crowd, observed, seenVars, queued, endVars, accepted>>

\* Another captor was first, or the application has forgotten the closed room.
ClaimFails(o) ==
    /\ captors[o] = "start"
    /\ ~Claimable \/ room = "closed"
    /\ Goto(o, "done") /\ AfterCapture(o)
    /\ UNCHANGED <<roomVars, observed, seenVars, flagVars, endVars, accepted>>

\* Mutant: a cleared run can no longer be abandoned.
Confirmed_Uncleared(o) ==
    run \in CASE o = "Victory"   -> {"won"}
              [] o = "Defeat"    -> {"lost"}
              [] o = "Abandoned" -> {"playing", "advancing", "final"}

\* The outcomes World.GameResult confirms.
Confirmed(o) ==
    run \in CASE o = "Victory"   -> {"won"}
              [] o = "Defeat"    -> {"lost"}
              [] o = "Abandoned" -> {"playing", "advancing", "final", "won"}

\* Mutant: the outcome is the one that was asked for.
TerminalOutcome_AsAsked(o) == o

\* A run that was cleared was not abandoned.
TerminalOutcome(o) == IF o = "Abandoned" /\ run = "won" THEN "Victory" ELSE o

Capture(o) ==
    /\ captors[o] = "ask" /\ room = "open" /\ Confirmed(o)
    /\ captured' = TerminalOutcome(o) /\ capturedIn' = run
    /\ Goto(o, "submit") /\ AfterCapture(o)
    /\ UNCHANGED <<roomVars, observed, flagVars, endVars, accepted>>

\* The World refuses, the room closes, or the application stops.
CaptureFails(o) ==
    /\ captors[o] = "ask"
    /\ ~Confirmed(o) \/ room = "closed" \/ stopping
    /\ Goto(o, "refused")
    /\ UNCHANGED <<roomVars, crowd, observed, seenVars, flagVars, endVars, accepted>>

\* The writer takes the result; while it is full the captor asks again.
Submit(o) ==
    /\ captors[o] = "submit" /\ ~closed
    /\ accepted' = Append(accepted, captured)
    /\ Goto(o, "accepted")
    /\ UNCHANGED <<roomVars, crowd, observed, seenVars, flagVars, endVars>>

\* The writer is closed, or it was full for as long as the application ran.
SubmitFails(o) ==
    /\ captors[o] = "submit" /\ (closed \/ stopping)
    /\ Goto(o, "refused")
    /\ UNCHANGED <<roomVars, crowd, observed, seenVars, flagVars, endVars, accepted>>

\* Mutant: only a captor that succeeds gives the flag back.
FlagAfter_Kept(o) == captors[o] = "refused"

\* resultSubmitting when captor o ends.
FlagAfter(o) == FALSE

\* The deferred calls.
Release(o) ==
    /\ captors[o] \in {"accepted", "refused"}
    /\ submitting' = FlagAfter(o)
    /\ queued' = (queued \/ captors[o] = "accepted")
    /\ Goto(o, "done") /\ AfterCapture(o)
    /\ UNCHANGED <<roomVars, observed, seenVars, endVars, accepted>>

Captor(o) == \/ Claim(o) \/ ClaimFails(o) \/ Capture(o) \/ CaptureFails(o)
             \/ Submit(o) \/ SubmitFails(o) \/ Release(o)

Next == \/ RunStarts \/ TryAdvance \/ FinalStarts \/ RunIsWon \/ RunIsLost
        \/ Observe \/ LastDisconnects \/ Rematch \/ Left \/ RoomCloses
        \/ Stop \/ Shutdown \/ \E o \in Outcomes : Captor(o)

Spec == Init /\ [][Next]_vars

-----------------------------------------------------------------------------
(* Properties *)

\* Types.
CaptureTypeOK ==
    /\ run \in Runs /\ room \in {"open", "closed"}
    /\ crowd \in {"present", "gone", "leaving", "left"} /\ observed \in BOOLEAN
    /\ captors \in [Outcomes -> {"none", "start", "ask", "submit", "accepted", "refused", "done"}]
    /\ captured \in Outcomes /\ capturedIn \in Runs
    /\ submitting \in BOOLEAN /\ queued \in BOOLEAN
    /\ stopping \in BOOLEAN /\ closed \in BOOLEAN
    /\ accepted \in Seq(Outcomes)

\* A captor that claimed resultSubmitting and has not given it back.
Holds(o) == captors[o] \in {"ask", "submit", "accepted", "refused"}

\* The flags keep the captors apart: resultSubmitting is set exactly while one
\* of them, and no other, is at work - whichever way it ends - and none is once
\* the result is queued.
FlagsMatchCaptors ==
    /\ submitting => \E o \in Outcomes : Holds(o)
    /\ \A o \in Outcomes : Holds(o) => submitting
    /\ \A o, p \in Outcomes : Holds(o) /\ Holds(p) => o = p
    /\ queued => ~submitting

\* However the end of a match is noticed - by the event, by the last disconnect,
\* by both at once, before or after a shutdown - the writer takes one result.
OneResultPerMatch == Len(accepted) <= 1

\* Nobody is on the way to deliver the result of a run that is over, though
\* nothing has kept the application from it.
NobodyDelivers ==
    /\ observed /\ room = "open" /\ ~stopping
    /\ \A o \in Outcomes : captors[o] \in {"none", "done"}

\* results.go:91: the last disconnect may come before the final StageCleared is
\* observed.  The captor that is turned away is then the one that would ask for
\* the victory, and the one of the abandonment has to deliver the victory in its
\* place.  A cleared run is delivered as abandoned only if the last player had
\* gone, and the World been asked, before the tick that cleared it.
ClearedRunIsDelivered ==
    run = "won" /\ NobodyDelivers =>
        /\ queued
        /\ accepted = <<IF capturedIn = "won" THEN "Victory" ELSE "Abandoned">>

\* docs/plans/WEEK2-AD-FINALIZATION.md: the end of a fallen team is delivered
\* like any other ("团灭/离弃也必须向 D 交付结果").
EndedRunIsDelivered == run \in {"won", "lost"} /\ NobodyDelivers => queued
=============================================================================
