----------------------------- MODULE Connection -----------------------------
(***************************************************************************)
(* server/internal/network: one Connection, its reader, its writer and     *)
(* run, with the goroutines that send to it or close it at the same time.  *)
(*                                                                         *)
(* A reliable frame is the number of frames accepted before it, plus one;  *)
(* a snapshot likewise.  The peer is `gone` once it closed or reset the    *)
(* connection, whatever the server still reads or writes afterwards.       *)
(***************************************************************************)
EXTENDS Integers, Sequences, FiniteSets

CONSTANTS Senders,      \* goroutines that call Send
          OutCapacity,  \* cap(out)
          MaxFrames,    \* bound: frames accepted
          MaxSnapshots, \* bound: snapshots offered
          Nothing       \* an empty hand

ASSUME ConnectionAssumption ==
    /\ OutCapacity \in Nat \ {0}
    /\ MaxFrames \in Nat /\ MaxSnapshots \in Nat
    /\ Nothing \notin [kind : {"frame", "snapshot"}, n : Nat]

VARIABLES out,         \* the buffered channel out
          queueClosed, \* close(out) happened
          dead,        \* close(closed) happened
          snapshot,    \* the snapshot slot, 0 when empty
          senders,     \* Send: a sender that has checked `closed` holds sendMu
          publisher,   \* SendSnapshot
          reader,      \* readLoop
          writer,      \* writeLoop
          hand,        \* what the writer took and has not written
          runner,      \* run
          closer,      \* Close, inside its closeOnce
          socketOpen,
          peerGone,
          accepted,    \* history: reliable frames accepted
          offered,     \* history: snapshots accepted
          wire,        \* history: reliable frames written
          shown        \* history: the last snapshot written

sendVars == <<senders, publisher, accepted, offered>>
hostVars == <<reader, runner, closer, socketOpen, peerGone>>
outVars  == <<out, queueClosed, dead>>
pipeVars == <<writer, hand, wire, shown>>
vars     == <<outVars, snapshot, sendVars, hostVars, pipeVars>>

Hand == [kind : {"frame", "snapshot"}, n : Nat]

Init ==
    /\ out = <<>> /\ queueClosed = FALSE /\ dead = FALSE /\ snapshot = 0
    /\ senders = [s \in Senders |-> "idle"] /\ publisher = "idle"
    /\ reader = "reading" /\ writer = "poll" /\ hand = Nothing
    /\ runner = "waitReader" /\ closer = "none"
    /\ socketOpen = TRUE /\ peerGone = FALSE
    /\ accepted = 0 /\ offered = 0 /\ wire = <<>> /\ shown = 0

-----------------------------------------------------------------------------
(* Senders *)

SendMuFree == \A s \in Senders : senders[s] = "idle"

\* Send takes sendMu and looks at `closed`.
SendCheck(s) ==
    /\ SendMuFree
    /\ ~dead
    /\ accepted < MaxFrames
    /\ senders' = [senders EXCEPT ![s] = "checked"]
    /\ UNCHANGED <<outVars, snapshot, publisher, accepted, offered, hostVars, pipeVars>>

HasRoom == Len(out) < OutCapacity

\* Mutant: a full queue makes room by dropping its oldest frame.
Rejected_DropOldest ==
    /\ out' = Append(Tail(out), accepted + 1)
    /\ accepted' = accepted + 1

\* Send refuses the frame; the caller closes the connection if it must.
Rejected == UNCHANGED <<out, accepted>>

SendPut(s) ==
    /\ senders[s] = "checked"
    /\ \/ HasRoom /\ out' = Append(out, accepted + 1) /\ accepted' = accepted + 1
       \/ ~HasRoom /\ Rejected
    /\ senders' = [senders EXCEPT ![s] = "idle"]
    /\ UNCHANGED <<queueClosed, dead, snapshot, publisher, offered, hostVars, pipeVars>>

\* SendSnapshot has found the connection alive.
OfferSnapshot ==
    /\ publisher = "idle"
    /\ ~dead
    /\ offered < MaxSnapshots
    /\ offered' = offered + 1
    /\ publisher' = "push"
    /\ UNCHANGED <<outVars, snapshot, senders, accepted, hostVars, pipeVars>>

\* Mutant: a full slot keeps what it has.
PushFull_GiveUp == "idle"

\* The slot is full: evict what it holds and try again.
PushFull == "evict"

PushSnapshot ==
    /\ publisher = "push"
    /\ \/ snapshot = 0 /\ snapshot' = offered /\ publisher' = "idle"
       \/ snapshot # 0 /\ publisher' = PushFull /\ UNCHANGED snapshot
    /\ UNCHANGED <<outVars, senders, accepted, offered, hostVars, pipeVars>>

EvictSnapshot ==
    /\ publisher = "evict"
    /\ snapshot' = 0
    /\ publisher' = "push"
    /\ UNCHANGED <<outVars, senders, accepted, offered, hostVars, pipeVars>>

-----------------------------------------------------------------------------
(* Closing *)

\* Mutant: the queue is closed under the sender.
MayCloseQueue_Unlocked == TRUE

\* closeQueue needs sendMu.
MayCloseQueue == SendMuFree

\* Mutant: closing marks the connection dead and leaves the queue open.
CloseQueue_DeadOnly ==
    /\ MayCloseQueue
    /\ dead' = TRUE
    /\ UNCHANGED <<out, queueClosed>>

CloseQueue ==
    /\ MayCloseQueue
    /\ dead' = TRUE /\ queueClosed' = TRUE
    /\ UNCHANGED out

\* CloseAfterFlush, by the handler or by any other goroutine.
CloseAfterFlush ==
    /\ CloseQueue
    /\ UNCHANGED <<snapshot, sendVars, hostVars, pipeVars>>

\* Close: its closeOnce lets one caller in and makes the others wait.
CloseMark ==
    /\ closer = "none"
    /\ dead' = TRUE
    /\ closer' = "dead"
    /\ UNCHANGED <<out, queueClosed, snapshot, sendVars, reader, runner, socketOpen, peerGone, pipeVars>>

SocketAfterClose == FALSE

CloseSocket ==
    /\ closer = "dead"
    /\ socketOpen' = SocketAfterClose
    /\ closer' = "socket"
    /\ UNCHANGED <<outVars, snapshot, sendVars, reader, runner, peerGone, pipeVars>>

\* onClose: untrack and the disconnect handler.
CloseNotify ==
    /\ closer = "socket"
    /\ closer' = "done"
    /\ UNCHANGED <<outVars, snapshot, sendVars, reader, runner, socketOpen, peerGone, pipeVars>>

-----------------------------------------------------------------------------
(* readLoop, run and the peer *)

\* A frame that arrived, or that the buffered reader still holds.
ReadFrame ==
    /\ reader = "reading"
    /\ reader' = "handling"
    /\ UNCHANGED <<outVars, snapshot, sendVars, runner, closer, socketOpen, peerGone, pipeVars>>

ReadFails ==
    /\ reader = "reading"
    /\ peerGone \/ ~socketOpen
    /\ reader' = "ended"
    /\ UNCHANGED <<outVars, snapshot, sendVars, runner, closer, socketOpen, peerGone, pipeVars>>

\* The handler returns; its error ends the reader.
HandlerReturns ==
    /\ reader = "handling"
    /\ reader' \in {"reading", "ended"}
    /\ UNCHANGED <<outVars, snapshot, sendVars, runner, closer, socketOpen, peerGone, pipeVars>>

RunClosesQueue ==
    /\ runner = "waitReader" /\ reader = "ended"
    /\ CloseQueue
    /\ runner' = "waitWriter"
    /\ UNCHANGED <<snapshot, sendVars, reader, closer, socketOpen, peerGone, pipeVars>>

RunAwaitsWriter ==
    /\ runner = "waitWriter" /\ writer = "ended"
    /\ runner' = "close"
    /\ UNCHANGED <<outVars, snapshot, sendVars, reader, closer, socketOpen, peerGone, pipeVars>>

\* run's own Close, or the end of the one it found under way.
RunCloses == runner = "close" /\ CloseMark

RunEnds ==
    /\ runner = "close" /\ closer = "done"
    /\ runner' = "done"
    /\ UNCHANGED <<outVars, snapshot, sendVars, reader, closer, socketOpen, peerGone, pipeVars>>

PeerGoes ==
    /\ ~peerGone
    /\ peerGone' = TRUE
    /\ UNCHANGED <<outVars, snapshot, sendVars, reader, runner, closer, socketOpen, pipeVars>>

-----------------------------------------------------------------------------
(* writeLoop *)

TakeSnapshot ==
    /\ snapshot # 0
    /\ hand' = [kind |-> "snapshot", n |-> snapshot]
    /\ snapshot' = 0
    /\ writer' = "write"
    /\ UNCHANGED <<outVars, sendVars, hostVars, wire, shown>>

\* The first select does not wait: a snapshot goes first.
Poll ==
    /\ writer = "poll"
    /\ \/ TakeSnapshot
       \/ /\ snapshot = 0
          /\ writer' = "wait"
          /\ UNCHANGED <<outVars, snapshot, sendVars, hostVars, hand, wire, shown>>

\* Mutant: the writer stops as soon as the connection is closing.
OutEnded_Dead == dead

\* A receive from a closed and empty channel.
OutEnded == queueClosed /\ out = <<>>

Wait ==
    /\ writer = "wait"
    /\ \/ TakeSnapshot
       \/ /\ out # <<>>
          /\ hand' = [kind |-> "frame", n |-> Head(out)]
          /\ out' = Tail(out)
          /\ writer' = "write"
          /\ UNCHANGED <<queueClosed, dead, snapshot, sendVars, hostVars, wire, shown>>
       \/ /\ OutEnded
          /\ writer' = "drain"
          /\ UNCHANGED <<outVars, snapshot, sendVars, hostVars, hand, wire, shown>>

\* The inner loop: after each snapshot the writer is back here, by way of Poll
\* and of the closed queue that Wait finds again.
Drain ==
    /\ writer = "drain"
    /\ \/ TakeSnapshot
       \/ /\ snapshot = 0
          /\ writer' = "ended"
          /\ UNCHANGED <<outVars, snapshot, sendVars, hostVars, hand, wire, shown>>

WriteFrame ==
    /\ writer = "write" /\ socketOpen
    /\ wire' = IF hand.kind = "frame" THEN Append(wire, hand.n) ELSE wire
    /\ shown' = IF hand.kind = "snapshot" THEN hand.n ELSE shown
    /\ hand' = Nothing
    /\ writer' = "poll"
    /\ UNCHANGED <<outVars, snapshot, sendVars, hostVars>>

\* A failed write ends the writer and leaves the queue and the socket alone.
WriteFails ==
    /\ writer = "write" /\ (peerGone \/ ~socketOpen)
    /\ writer' = "ended"
    /\ UNCHANGED <<outVars, snapshot, sendVars, hostVars, hand, wire, shown>>

Write == WriteFrame \/ WriteFails
Writer == Poll \/ Wait \/ Drain \/ Write
Closer == CloseSocket \/ CloseNotify
Runner == RunClosesQueue \/ RunAwaitsWriter \/ RunCloses \/ RunEnds
Publisher == PushSnapshot \/ EvictSnapshot

Next ==
    \/ \E s \in Senders : SendCheck(s) \/ SendPut(s)
    \/ OfferSnapshot \/ Publisher
    \/ CloseAfterFlush \/ CloseMark \/ Closer
    \/ ReadFrame \/ ReadFails \/ HandlerReturns \/ PeerGoes
    \/ Runner \/ Writer

Spec == Init /\ [][Next]_vars

\* A write that cannot be held up: its peer is gone or its socket is closed.
\* There is no write deadline, so a peer that stays and does not read holds the
\* writer in Flush for as long as it likes.
WriteReturns == Write /\ (peerGone \/ ~socketOpen)

\* Goroutines run; a handler returns, sooner or later; what the buffered reader
\* holds is finite, so on a closed socket it comes to an error; a mutex is
\* granted to the one that waits for it.  No fairness on a write to a peer that
\* stays.
FairSpec ==
    /\ Spec
    /\ \A s \in Senders : WF_vars(SendPut(s))
    /\ WF_vars(Publisher) /\ WF_vars(Closer)
    /\ WF_vars(Poll) /\ WF_vars(Wait) /\ WF_vars(Drain) /\ WF_vars(WriteReturns)
    /\ WF_vars(HandlerReturns) /\ SF_vars(ReadFails) /\ SF_vars(Runner)

-----------------------------------------------------------------------------
(* Properties *)

\* Types, and the capacity of the reliable queue.
ConnectionTypeOK ==
    /\ out \in Seq(Nat) /\ Len(out) <= OutCapacity
    /\ queueClosed \in BOOLEAN /\ dead \in BOOLEAN /\ snapshot \in Nat
    /\ senders \in [Senders -> {"idle", "checked"}]
    /\ publisher \in {"idle", "push", "evict"}
    /\ reader \in {"reading", "handling", "ended"}
    /\ writer \in {"poll", "wait", "write", "drain", "ended"}
    /\ hand \in Hand \cup {Nothing}
    /\ runner \in {"waitReader", "waitWriter", "close", "done"}
    /\ closer \in {"none", "dead", "socket", "done"}
    /\ socketOpen \in BOOLEAN /\ peerGone \in BOOLEAN
    /\ accepted \in Nat /\ offered \in Nat /\ wire \in Seq(Nat) /\ shown \in Nat

\* Send and the closing of the queue exclude each other: a sender past its
\* check never meets a closed channel (a send on it would panic), although
\* Close marks the connection dead without sendMu.
NoSendOnClosedQueue == queueClosed => SendMuFree

FrameInHand == IF hand # Nothing /\ hand.kind = "frame" THEN <<hand.n>> ELSE <<>>

\* Reliable frames are neither lost, nor repeated, nor reordered: what was
\* written, then what the writer holds, then the queue, are the frames accepted.
FramesInOrder == wire \o FrameInHand \o out = [i \in 1..accepted |-> i]

\* A writer that ended without an error has written every accepted frame, the
\* final Disconnect included: CloseAfterFlush flushes.
FlushDeliversAll ==
    (writer = "ended" /\ hand = Nothing) => wire = [i \in 1..accepted |-> i]

\* latest-wins: between two publications the newest snapshot is in the slot, in
\* the writer's hand or the last one written, and none goes back in time.
LatestSnapshotIsKept ==
    LET held == IF hand # Nothing /\ hand.kind = "snapshot" THEN hand.n ELSE 0
    IN  /\ publisher = "idle" => offered \in {snapshot, held, shown}
        /\ snapshot # 0 => snapshot > held /\ snapshot > shown
        /\ held # 0 => held > shown

\* The peer does not take what the writer is writing, and stays.
PeerStalls == writer = "write" /\ socketOpen /\ ~peerGone

\* A peer that goes, and a Close by anyone at any time, take the connection
\* apart: reader and writer end, onClose is called and run returns.  When the
\* reader ends for another reason (the handler's error), only a write that the
\* peer does not take, for ever, can keep run from closing: run waits for the
\* writer before its own Close.
EndedConnectionReleases ==
    /\ (peerGone \/ closer # "none") ~> (runner = "done")
    /\ (reader = "ended") ~> (runner = "done" \/ []PeerStalls)

\* server.go:309 on CloseAfterFlush: "Writer 排空后关闭 socket -> Reader 被唤醒",
\* the socket is closed once the writer has drained the queue.
FlushClosesSocket ==
    (queueClosed /\ writer = "ended" /\ hand = Nothing) ~> ~socketOpen
=============================================================================
