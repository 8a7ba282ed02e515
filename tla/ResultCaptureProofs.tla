------------------------ MODULE ResultCaptureProofs ------------------------
(***************************************************************************)
(* Proofs about ResultCapture: that a match has one result at most, and    *)
(* that of one that was cleared is the victory.                            *)
(***************************************************************************)
EXTENDS ResultCapture, SequenceTheorems, TLAPS

\* The writer has taken nothing, or the result of the captor that is about to
\* set resultQueued, or the one that did.
AcceptedInv ==
    /\ queued \/ (\E o \in Outcomes : captors[o] = "accepted") => accepted = <<captured>>
    /\ ~queued /\ (\A o \in Outcomes : captors[o] # "accepted") => accepted = <<>>

\* What starts a captor, and what it says of the run.
OriginInv ==
    /\ observed => run \in {"won", "lost"}
    /\ captors["Victory"] # "none" => observed /\ run = "won"
    /\ captors["Defeat"] # "none" => observed /\ run = "lost"
    /\ captors["Abandoned"] # "none" => crowd # "present"
    /\ closed => stopping

\* While the room and the application live, nobody is refused the result of a
\* run that came to its final stage ...
RefusedInv ==
    run \in {"advancing", "final", "won"} /\ room = "open" /\ ~stopping
        => \A o \in Outcomes : captors[o] # "refused"

\* ... and somebody delivers it if it was cleared.
DeliveryInv ==
    run = "won" /\ observed /\ room = "open" /\ ~stopping
        => queued \/ \E o \in Outcomes : captors[o] \in {"start", "ask", "submit", "accepted"}

\* The outcome captured is the one of the World that was asked: a run that was
\* won, or lost, stays so, and one that goes on can only be abandoned.
OutcomeInv ==
    /\ capturedIn = "won" => captured = "Victory"
    /\ capturedIn = "lost" => run = "lost"
    /\ capturedIn \notin {"won", "lost"} => captured = "Abandoned"

CaptureInv ==
    /\ CaptureTypeOK /\ FlagsMatchCaptors /\ AcceptedInv
    /\ OriginInv /\ OutcomeInv /\ RefusedInv /\ DeliveryInv

-----------------------------------------------------------------------------
(* Types *)

\* The initial state is typed.
LEMMA InitType == Init => CaptureTypeOK
<1> SUFFICES ASSUME Init
             PROVE  CaptureTypeOK
  OBVIOUS
<1>1. accepted \in Seq(Outcomes)
  <2>1. <<>> \in Seq(Outcomes)
    OBVIOUS
  <2> QED
    BY <2>1 DEF Init
<1>2. captors \in [Outcomes -> {"none", "start", "ask", "submit", "accepted", "refused", "done"}]
  BY DEF Init
<1>3. /\ run \in Runs /\ captured \in Outcomes /\ capturedIn \in Runs
      /\ observed \in BOOLEAN /\ submitting \in BOOLEAN /\ queued \in BOOLEAN
      /\ stopping \in BOOLEAN /\ closed \in BOOLEAN
  BY DEF Init, Runs, Outcomes
<1> QED
  BY <1>1, <1>2, <1>3 DEF Init, CaptureTypeOK

\* Every step keeps the types.
LEMMA NextType == CaptureTypeOK /\ [Next]_vars => CaptureTypeOK'
<1> SUFFICES ASSUME CaptureTypeOK, [Next]_vars
             PROVE  CaptureTypeOK'
  OBVIOUS
<1> USE DEF CaptureTypeOK, roomVars, flagVars, endVars, seenVars
<1>1. ASSUME NEW from \in Runs, NEW to \in Runs, RunGoes(from, to)
      PROVE  CaptureTypeOK'
  BY <1>1 DEF RunGoes
<1>2. CASE RunStarts \/ TryAdvance \/ FinalStarts \/ RunIsWon \/ RunIsLost
  BY <1>1, <1>2 DEF RunStarts, TryAdvance, FinalStarts, RunIsWon, RunIsLost, Runs
<1>3. CASE Observe
  BY <1>3 DEF Observe, Goto, Outcomes
<1>4. CASE LastDisconnects
  BY <1>4 DEF LastDisconnects, Goto, Outcomes
<1>5. CASE Rematch \/ Left \/ RoomCloses \/ Stop \/ Shutdown
  BY <1>5 DEF Rematch, Left, RoomCloses, Stop, Shutdown
<1>6. ASSUME NEW o \in Outcomes, Captor(o)
      PROVE  CaptureTypeOK'
  <2>1. CASE Claim(o) \/ ClaimFails(o)
    BY <2>1 DEF Claim, ClaimFails, Goto, AfterCapture
  <2>2. CASE Capture(o) \/ CaptureFails(o)
    BY <2>2 DEF Capture, CaptureFails, Goto, AfterCapture, TerminalOutcome, Outcomes
  <2>3. CASE Submit(o)
    <3>1. accepted' \in Seq(Outcomes)
      BY <2>3, AppendProperties DEF Submit
    <3> QED
      BY <2>3, <3>1 DEF Submit, Goto
  <2>4. CASE SubmitFails(o) \/ Release(o)
    BY <2>4 DEF SubmitFails, Release, Goto, AfterCapture, FlagAfter
  <2> QED
    BY <1>6, <2>1, <2>2, <2>3, <2>4 DEF Captor
<1>7. CASE UNCHANGED vars
  BY <1>7 DEF vars
<1> QED
  BY <1>2, <1>3, <1>4, <1>5, <1>6, <1>7 DEF Next

-----------------------------------------------------------------------------
(* One result *)

\* Steps outside the captors touch no flag and no captor that holds one; they
\* may start one, which holds nothing.
LEMMA OutsideStep ==
    ASSUME CaptureTypeOK, OriginInv,
           \/ RunStarts \/ TryAdvance \/ FinalStarts \/ RunIsWon \/ RunIsLost
           \/ Observe \/ LastDisconnects \/ Rematch \/ Left \/ RoomCloses
           \/ Stop \/ Shutdown \/ UNCHANGED vars
    PROVE  /\ UNCHANGED <<submitting, queued, accepted, seenVars>>
           /\ \A o \in Outcomes : captors'[o] = captors[o] \/ (captors[o] = "none" /\ captors'[o] = "start")
<1> USE DEF CaptureTypeOK, roomVars, flagVars, endVars, seenVars
<1>1. CASE \/ RunStarts \/ TryAdvance \/ FinalStarts \/ RunIsWon \/ RunIsLost
           \/ Rematch \/ Left \/ RoomCloses \/ Stop \/ Shutdown \/ UNCHANGED vars
  BY <1>1 DEF RunStarts, TryAdvance, FinalStarts, RunIsWon, RunIsLost, RunGoes,
              Rematch, Left, RoomCloses, Stop, Shutdown, vars
<1>2. CASE Observe
  BY <1>2 DEF Observe, Goto, OriginInv, Outcomes
<1>3. CASE LastDisconnects
  BY <1>3 DEF LastDisconnects, Goto, OriginInv, Outcomes
<1> QED
  BY <1>1, <1>2, <1>3

\* A captor changes no other one.
LEMMA CaptorStep ==
    ASSUME CaptureTypeOK, NEW o \in Outcomes, Captor(o)
    PROVE  \A p \in Outcomes \ {o} : captors'[p] = captors[p]
BY DEF CaptureTypeOK, Captor, Claim, ClaimFails, Capture, CaptureFails, Submit, SubmitFails,
       Release, Goto

\* Every step keeps the flags in agreement with the captors.
LEMMA NextFlags == CaptureTypeOK /\ OriginInv /\ FlagsMatchCaptors /\ [Next]_vars => FlagsMatchCaptors'
<1> SUFFICES ASSUME CaptureTypeOK, OriginInv, FlagsMatchCaptors, [Next]_vars
             PROVE  FlagsMatchCaptors'
  OBVIOUS
<1> USE DEF FlagsMatchCaptors, Holds
<1>1. ASSUME NEW o \in Outcomes, Captor(o)
      PROVE  FlagsMatchCaptors'
  <2>0. \A p \in Outcomes \ {o} : captors'[p] = captors[p]
    BY <1>1, CaptorStep
  <2>1. CASE Claim(o)
    BY <2>0, <2>1 DEF Claim, Claimable, Goto, CaptureTypeOK
  <2>2. CASE ClaimFails(o)
    BY <2>0, <2>2 DEF ClaimFails, Goto, CaptureTypeOK, flagVars
  <2>3. CASE Capture(o) \/ CaptureFails(o) \/ Submit(o) \/ SubmitFails(o)
    BY <2>0, <2>3 DEF Capture, CaptureFails, Submit, SubmitFails, Goto, CaptureTypeOK, flagVars
  <2>4. CASE Release(o)
    BY <2>0, <2>4 DEF Release, FlagAfter, Goto, CaptureTypeOK
  <2> QED
    BY <1>1, <2>1, <2>2, <2>3, <2>4 DEF Captor
<1>2. CASE ~\E o \in Outcomes : Captor(o)
  BY <1>2, OutsideStep DEF Next
<1> QED
  BY <1>1, <1>2

\* Every step keeps the count of the results: the writer takes one from the
\* captor that holds resultSubmitting, and only while none is queued.
LEMMA NextAccepted ==
    CaptureTypeOK /\ OriginInv /\ FlagsMatchCaptors /\ AcceptedInv /\ [Next]_vars => AcceptedInv'
<1> SUFFICES ASSUME CaptureTypeOK, OriginInv, FlagsMatchCaptors, AcceptedInv, [Next]_vars
             PROVE  AcceptedInv'
  OBVIOUS
<1>1. ASSUME NEW o \in Outcomes, Captor(o)
      PROVE  AcceptedInv'
  <2>0. \A p \in Outcomes \ {o} : captors'[p] = captors[p]
    BY <1>1, CaptorStep
  <2>1. CASE Claim(o) \/ ClaimFails(o) \/ CaptureFails(o) \/ SubmitFails(o)
    <3>1. /\ UNCHANGED <<queued, accepted, captured>>
          /\ captors[o] # "accepted" /\ captors'[o] # "accepted"
      BY <2>1 DEF Claim, ClaimFails, CaptureFails, SubmitFails, Goto, CaptureTypeOK,
                  flagVars, seenVars
    <3> QED
      BY <2>0, <3>1 DEF AcceptedInv
  <2>2. CASE Capture(o) \/ Submit(o)
    <3>1. ~queued /\ \A p \in Outcomes : captors[p] # "accepted"
      BY <2>2 DEF Capture, Submit, FlagsMatchCaptors, Holds
    <3>2. accepted = <<>>
      BY <3>1 DEF AcceptedInv
    <3>3. CASE Capture(o)
      <4>1. UNCHANGED <<queued, accepted>> /\ captors'[o] = "submit"
        BY <3>3 DEF Capture, Goto, CaptureTypeOK, flagVars
      <4> QED
        BY <2>0, <3>1, <3>2, <4>1 DEF AcceptedInv
    <3>4. CASE Submit(o)
      <4>1. accepted' = <<captured>> /\ UNCHANGED captured
        BY <3>2, <3>4 DEF Submit, seenVars
      <4>2. captors'[o] = "accepted"
        BY <3>4 DEF Submit, Goto, CaptureTypeOK
      <4> QED
        BY <4>1, <4>2 DEF AcceptedInv
    <3> QED
      BY <2>2, <3>3, <3>4
  <2>3. CASE Release(o)
    <3>1. UNCHANGED <<accepted, captured>> /\ captors'[o] = "done"
      BY <2>3 DEF Release, Goto, CaptureTypeOK, seenVars
    <3>2. captors[o] \in {"accepted", "refused"} /\ ~queued
      BY <2>3 DEF Release, FlagsMatchCaptors, Holds
    <3>3. \A p \in Outcomes \ {o} : captors[p] # "accepted"
      BY <3>2 DEF FlagsMatchCaptors, Holds
    <3>4. queued' = (captors[o] = "accepted")
      BY <2>3, <3>2 DEF Release
    <3> QED
      BY <2>0, <3>1, <3>2, <3>3, <3>4 DEF AcceptedInv
  <2> QED
    BY <1>1, <2>1, <2>2, <2>3 DEF Captor
<1>2. CASE ~\E o \in Outcomes : Captor(o)
  <2>1. /\ UNCHANGED <<queued, accepted, captured>>
        /\ \A o \in Outcomes : captors'[o] = captors[o]
                                  \/ (captors[o] # "accepted" /\ captors'[o] # "accepted")
    BY <1>2, OutsideStep DEF Next, seenVars
  <2> QED
    BY <2>1 DEF AcceptedInv
<1> QED
  BY <1>1, <1>2

-----------------------------------------------------------------------------
(* The result of a cleared run *)

\* Every step keeps what is known of the start of a captor.
LEMMA NextOrigin == CaptureTypeOK /\ OriginInv /\ [Next]_vars => OriginInv'
<1> SUFFICES ASSUME CaptureTypeOK, OriginInv, [Next]_vars
             PROVE  OriginInv'
  OBVIOUS
<1> USE DEF OriginInv, CaptureTypeOK, roomVars, endVars, seenVars
<1>1. ASSUME NEW o \in Outcomes, Captor(o)
      PROVE  OriginInv'
  <2>0. \A p \in Outcomes \ {o} : captors'[p] = captors[p]
    BY <1>1, CaptorStep
  <2>1. captors[o] # "none" /\ UNCHANGED <<run, observed, closed, stopping>>
    BY <1>1 DEF Captor, Claim, ClaimFails, Capture, CaptureFails, Submit, SubmitFails, Release
  <2>2. crowd # "present" => crowd' # "present"
    BY <1>1 DEF Captor, Claim, ClaimFails, Capture, CaptureFails, Submit, SubmitFails, Release,
                AfterCapture
  <2> QED
    BY <2>0, <2>1, <2>2 DEF Outcomes
<1>2. CASE RunStarts \/ TryAdvance \/ FinalStarts \/ RunIsWon \/ RunIsLost
  BY <1>2 DEF RunStarts, TryAdvance, FinalStarts, RunIsWon, RunIsLost, RunGoes
<1>3. CASE Observe \/ LastDisconnects
  BY <1>3 DEF Observe, LastDisconnects, Goto, Outcomes
<1>4. CASE Rematch \/ Left \/ RoomCloses \/ Stop \/ Shutdown \/ UNCHANGED vars
  BY <1>4 DEF Rematch, Left, RoomCloses, Stop, Shutdown, vars
<1> QED
  BY <1>1, <1>2, <1>3, <1>4 DEF Next

\* Every step keeps that the outcome captured is the World's: only a capture
\* changes it, and the World confirms to it the state it is in.
LEMMA NextOutcome ==
    CaptureTypeOK /\ OriginInv /\ OutcomeInv /\ [Next]_vars => OutcomeInv'
<1> SUFFICES ASSUME CaptureTypeOK, OriginInv, OutcomeInv, [Next]_vars
             PROVE  OutcomeInv'
  OBVIOUS
<1>1. run = "lost" => run' = "lost"
  BY DEF Next, RunStarts, TryAdvance, FinalStarts, RunIsWon, RunIsLost, RunGoes, Observe,
         LastDisconnects, Rematch, Left, RoomCloses, Stop, Shutdown, Captor, Claim, ClaimFails,
         Capture, CaptureFails, Submit, SubmitFails, Release, roomVars, vars
<1>2. ASSUME NEW o \in Outcomes, Capture(o)
      PROVE  OutcomeInv'
  <2>1. /\ captors[o] = "ask" /\ Confirmed(o)
        /\ captured' = TerminalOutcome(o) /\ capturedIn' = run
    BY <1>2 DEF Capture
  <2>2. CASE o = "Victory"
    BY <2>1, <2>2 DEF OutcomeInv, OriginInv, TerminalOutcome
  <2>3. CASE o = "Defeat"
    BY <1>1, <2>1, <2>3 DEF OutcomeInv, OriginInv
  <2>4. CASE o = "Abandoned"
    BY <2>1, <2>4 DEF OutcomeInv, Confirmed, TerminalOutcome
  <2> QED
    BY <2>2, <2>3, <2>4 DEF Outcomes
<1>3. CASE ~\E o \in Outcomes : Capture(o)
  <2>1. UNCHANGED <<captured, capturedIn>>
    BY <1>3 DEF Next, RunStarts, TryAdvance, FinalStarts, RunIsWon, RunIsLost, RunGoes, Observe,
                LastDisconnects, Rematch, Left, RoomCloses, Stop, Shutdown, Captor, Claim,
                ClaimFails, CaptureFails, Submit, SubmitFails, Release, seenVars, vars
  <2> QED
    BY <1>1, <2>1 DEF OutcomeInv
<1> QED
  BY <1>2, <1>3

\* Every step keeps that no captor is refused the result of a run in or after
\* its final stage: the World confirms what they can ask for there.
LEMMA NextRefused ==
    CaptureTypeOK /\ OriginInv /\ RefusedInv /\ [Next]_vars => RefusedInv'
<1> SUFFICES ASSUME CaptureTypeOK, OriginInv, RefusedInv, [Next]_vars
             PROVE  RefusedInv'
  OBVIOUS
<1> USE DEF RefusedInv, roomVars, endVars, seenVars
<1>1. ASSUME NEW o \in Outcomes, Captor(o)
      PROVE  RefusedInv'
  <2>0. /\ \A p \in Outcomes \ {o} : captors'[p] = captors[p]
        /\ UNCHANGED <<run, room, stopping>>
    BY <1>1, CaptorStep DEF Captor, Claim, ClaimFails, Capture, CaptureFails, Submit,
                            SubmitFails, Release
  <2>1. CASE CaptureFails(o) \/ SubmitFails(o)
    BY <2>0, <2>1 DEF CaptureFails, SubmitFails, Confirmed, OriginInv, Outcomes
  <2>2. CASE Claim(o) \/ ClaimFails(o) \/ Capture(o) \/ Submit(o) \/ Release(o)
    BY <2>0, <2>2 DEF Claim, ClaimFails, Capture, Submit, Release, Goto, CaptureTypeOK
  <2> QED
    BY <1>1, <2>1, <2>2 DEF Captor
<1>2. CASE TryAdvance
  BY <1>2 DEF TryAdvance, RunGoes, OriginInv, Outcomes
<1>3. CASE RunStarts \/ FinalStarts \/ RunIsWon \/ RunIsLost
  BY <1>3 DEF RunStarts, FinalStarts, RunIsWon, RunIsLost, RunGoes
<1>4. CASE Observe \/ LastDisconnects
  BY <1>4 DEF Observe, LastDisconnects, Goto, CaptureTypeOK
<1>5. CASE Rematch \/ Left \/ RoomCloses \/ Stop \/ Shutdown \/ UNCHANGED vars
  BY <1>5 DEF Rematch, Left, RoomCloses, Stop, Shutdown, vars
<1> QED
  BY <1>1, <1>2, <1>3, <1>4, <1>5 DEF Next

\* Every step keeps that somebody is on the way with the result of a cleared
\* run until it is queued.
LEMMA NextDelivery ==
    CaptureInv /\ [Next]_vars => DeliveryInv'
<1> SUFFICES ASSUME CaptureInv, [Next]_vars
             PROVE  DeliveryInv'
  OBVIOUS
<1> USE DEF CaptureInv, DeliveryInv, roomVars, endVars, flagVars, seenVars
<1>1. ASSUME NEW o \in Outcomes, Captor(o)
      PROVE  DeliveryInv'
  <2>0. /\ \A p \in Outcomes \ {o} : captors'[p] = captors[p]
        /\ UNCHANGED <<run, room, stopping, observed>>
    BY <1>1, CaptorStep DEF Captor, Claim, ClaimFails, Capture, CaptureFails, Submit,
                            SubmitFails, Release
  <2> SUFFICES ASSUME run = "won", observed, room = "open", ~stopping
               PROVE  queued' \/ \E p \in Outcomes :
                                     captors'[p] \in {"start", "ask", "submit", "accepted"}
    BY <2>0
  <2>1. CASE Claim(o) \/ Capture(o) \/ Submit(o)
    BY <2>1 DEF Claim, Capture, Submit, Goto, CaptureTypeOK
  <2>2. CASE ClaimFails(o)
    <3>1. queued \/ \E p \in Outcomes : Holds(p)
      BY <2>2 DEF ClaimFails, Claimable, FlagsMatchCaptors
    <3>2. \A p \in Outcomes : Holds(p) => p # o
      BY <2>2 DEF ClaimFails, Holds
    <3>3. UNCHANGED queued
      BY <2>2 DEF ClaimFails
    <3> QED
      BY <2>0, <3>1, <3>2, <3>3 DEF Holds, RefusedInv
  <2>3. CASE CaptureFails(o) \/ SubmitFails(o)
    BY <2>3 DEF CaptureFails, SubmitFails, Confirmed, OriginInv, Outcomes
  <2>4. CASE Release(o)
    BY <2>4 DEF Release, RefusedInv
  <2> QED
    BY <1>1, <2>1, <2>2, <2>3, <2>4 DEF Captor
<1>2. CASE RunStarts \/ TryAdvance \/ FinalStarts \/ RunIsWon \/ RunIsLost
  BY <1>2 DEF RunStarts, TryAdvance, FinalStarts, RunIsWon, RunIsLost, RunGoes, OriginInv
<1>3. CASE Observe
  <2>1. run = "won" => captors'["Victory"] = "start"
    BY <1>3 DEF Observe, Goto, CaptureTypeOK, Outcomes
  <2> QED
    BY <1>3, <2>1 DEF Observe, Outcomes
<1>4. CASE LastDisconnects
  <2>1. captors'["Abandoned"] = "start"
    BY <1>4 DEF LastDisconnects, Goto, CaptureTypeOK, Outcomes
  <2> QED
    BY <2>1 DEF Outcomes
<1>5. CASE Rematch \/ Left \/ RoomCloses \/ Stop \/ Shutdown \/ UNCHANGED vars
  BY <1>5 DEF Rematch, Left, RoomCloses, Stop, Shutdown, vars
<1> QED
  BY <1>1, <1>2, <1>3, <1>4, <1>5 DEF Next

-----------------------------------------------------------------------------
(* The theorems *)

\* The inductive invariant: types, the two flags of activeRoom, what the writer
\* took, what started each captor, and who delivers a cleared run.
THEOREM CaptureInvariant == Spec => []CaptureInv
<1>1. Init => CaptureInv
  <2> SUFFICES ASSUME Init
               PROVE  CaptureInv
    OBVIOUS
  <2>1. CaptureTypeOK
    BY InitType
  <2>2. FlagsMatchCaptors /\ AcceptedInv
    BY DEF Init, FlagsMatchCaptors, AcceptedInv, Holds
  <2>3. OriginInv /\ OutcomeInv /\ RefusedInv /\ DeliveryInv
    BY DEF Init, OriginInv, OutcomeInv, RefusedInv, DeliveryInv, Outcomes
  <2> QED
    BY <2>1, <2>2, <2>3 DEF CaptureInv
<1>2. CaptureInv /\ [Next]_vars => CaptureInv'
  BY NextType, NextFlags, NextAccepted, NextOrigin, NextOutcome, NextRefused, NextDelivery
     DEF CaptureInv
<1> QED
  BY <1>1, <1>2, PTL DEF Spec

\* Type correctness of the captors and their room.
THEOREM CaptureIsTyped == Spec => []CaptureTypeOK
<1>1. CaptureInv => CaptureTypeOK
  BY DEF CaptureInv
<1> QED
  BY <1>1, CaptureInvariant, PTL

\* The flags of activeRoom say what the captors do: a captor never leaves
\* resultSubmitting behind, and no two hold it.
THEOREM FlagsAreHeldByCaptors == Spec => []FlagsMatchCaptors
<1>1. CaptureInv => FlagsMatchCaptors
  BY DEF CaptureInv
<1> QED
  BY <1>1, CaptureInvariant, PTL

\* The writer is handed one result of a match at most, in whatever order the
\* final event, the last disconnect, the answers of the room and the end of the
\* server come.
THEOREM MatchHasOneResult == Spec => []OneResultPerMatch
<1>1. CaptureInv => OneResultPerMatch
  <2> SUFFICES ASSUME CaptureInv
               PROVE  Len(accepted) <= 1
    BY DEF OneResultPerMatch
  <2>1. CASE accepted = <<>>
    BY <2>1
  <2>2. CASE accepted = <<captured>>
    BY <2>2
  <2> QED
    BY <2>1, <2>2 DEF CaptureInv, AcceptedInv
<1> QED
  BY <1>1, CaptureInvariant, PTL

\* The result of a cleared run is delivered, and it is the victory, whichever of
\* the two captors comes first: the one of the abandonment delivers the victory
\* in the place of the other.  It is an abandonment only if the World was asked,
\* for a team that had gone, before the tick that cleared the run.
THEOREM ClearedRunsAreDelivered == Spec => []ClearedRunIsDelivered
<1>1. CaptureInv => ClearedRunIsDelivered
  <2> SUFFICES ASSUME CaptureInv, run = "won", NobodyDelivers
               PROVE  queued /\ accepted = <<IF capturedIn = "won" THEN "Victory" ELSE "Abandoned">>
    BY DEF ClearedRunIsDelivered
  <2>1. queued
    BY DEF CaptureInv, DeliveryInv, NobodyDelivers
  <2>2. accepted = <<captured>>
    BY <2>1 DEF CaptureInv, AcceptedInv
  <2>3. captured = IF capturedIn = "won" THEN "Victory" ELSE "Abandoned"
    BY DEF CaptureInv, OutcomeInv
  <2> QED
    BY <2>1, <2>2, <2>3
<1> QED
  BY <1>1, CaptureInvariant, PTL
=============================================================================
