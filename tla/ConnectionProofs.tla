-------------------------- MODULE ConnectionProofs --------------------------
(***************************************************************************)
(* Proofs about Connection for every number of senders and every capacity  *)
(* of the reliable queue.                                                  *)
(***************************************************************************)
EXTENDS Connection, SequenceTheorems, TLAPS

\* sendMu has one holder, and a closed queue belongs to a dead connection.
MutexInv ==
    /\ \A s, t \in Senders : (senders[s] = "checked" /\ senders[t] = "checked") => s = t
    /\ queueClosed => dead
    /\ NoSendOnClosedQueue

\* The writer holds something exactly while it writes; a write that failed
\* leaves it there.  Once it found the queue closed there is nothing to write.
WriterInv ==
    /\ writer \in {"poll", "wait", "drain"} => hand = Nothing
    /\ writer = "write" => hand \in Hand
    /\ (writer \in {"drain", "ended"} /\ hand = Nothing) => queueClosed /\ out = <<>>

HoldsSnapshot == hand # Nothing /\ hand.kind = "snapshot"
Held == IF HoldsSnapshot THEN hand.n ELSE 0

\* A snapshot that is being published is newer than all others.
SnapshotInv ==
    /\ publisher = "idle" => offered \in {snapshot, Held, shown}
    /\ snapshot <= offered /\ Held <= offered /\ shown <= offered
    /\ publisher # "idle" => snapshot < offered /\ Held < offered /\ shown < offered
    /\ snapshot # 0 => snapshot > Held /\ snapshot > shown
    /\ Held # 0 => Held > shown
    /\ HoldsSnapshot => Held # 0

\* The inductive invariant of the Connection.
ConnectionInv ==
    ConnectionTypeOK /\ MutexInv /\ WriterInv /\ FramesInOrder /\ SnapshotInv

-----------------------------------------------------------------------------
(* Types *)

\* The initial state is typed.
LEMMA InitType == Init => ConnectionTypeOK
<1>1. OutCapacity \in Nat
  BY ConnectionAssumption
<1>2. ASSUME Init
      PROVE  /\ out \in Seq(Nat) /\ Len(out) <= OutCapacity
             /\ wire \in Seq(Nat)
  <2>1. out = <<>> /\ wire = <<>>
    BY <1>2 DEF Init
  <2>2. <<>> \in Seq(Nat) /\ Len(<<>>) = 0
    OBVIOUS
  <2> QED
    BY <1>1, <2>1, <2>2
<1>3. ASSUME Init
      PROVE  /\ snapshot \in Nat /\ accepted \in Nat /\ offered \in Nat /\ shown \in Nat
             /\ senders \in [Senders -> {"idle", "checked"}]
  BY <1>3 DEF Init
<1>4. ASSUME Init
      PROVE  queueClosed \in BOOLEAN /\ dead \in BOOLEAN
             /\ socketOpen \in BOOLEAN /\ peerGone \in BOOLEAN
  BY <1>4 DEF Init
<1> QED
  BY <1>2, <1>3, <1>4, Zenon DEF Init, ConnectionTypeOK

\* The senders and the publisher keep the types.
LEMMA SendersType ==
    ASSUME ConnectionTypeOK,
           \/ \E s \in Senders : SendCheck(s) \/ SendPut(s)
           \/ OfferSnapshot \/ Publisher
    PROVE  ConnectionTypeOK'
<1>0. OutCapacity \in Nat
  BY ConnectionAssumption
<1>1. ASSUME NEW s \in Senders, SendCheck(s)
      PROVE  ConnectionTypeOK'
  BY <1>1 DEF ConnectionTypeOK, SendCheck, outVars, hostVars, pipeVars
<1>2. ASSUME NEW s \in Senders, SendPut(s)
      PROVE  ConnectionTypeOK'
  <2>1. out' \in Seq(Nat) /\ Len(out') <= OutCapacity /\ accepted' \in Nat
    <3>0. out \in Seq(Nat) /\ Len(out) \in Nat /\ Len(out) <= OutCapacity /\ accepted \in Nat
      BY DEF ConnectionTypeOK
    <3>1. CASE HasRoom /\ out' = Append(out, accepted + 1) /\ accepted' = accepted + 1
      <4>1. accepted + 1 \in Nat
        BY <3>0
      <4>2. Append(out, accepted + 1) \in Seq(Nat) /\ Len(Append(out, accepted + 1)) = Len(out) + 1
        BY <3>0, <4>1, AppendProperties
      <4> QED
        BY <1>0, <3>0, <3>1, <4>1, <4>2 DEF HasRoom
    <3>2. CASE UNCHANGED <<out, accepted>>
      BY <3>0, <3>2
    <3> QED
      BY <1>2, <3>1, <3>2 DEF SendPut, Rejected
  <2> QED
    BY <1>2, <2>1 DEF ConnectionTypeOK, SendPut, hostVars, pipeVars
<1>3. CASE OfferSnapshot
  BY <1>3 DEF ConnectionTypeOK, OfferSnapshot, outVars, hostVars, pipeVars
<1>4. CASE PushSnapshot
  BY <1>4 DEF ConnectionTypeOK, PushSnapshot, PushFull, outVars, hostVars, pipeVars
<1>5. CASE EvictSnapshot
  BY <1>5 DEF ConnectionTypeOK, EvictSnapshot, outVars, hostVars, pipeVars
<1> QED
  BY <1>1, <1>2, <1>3, <1>4, <1>5 DEF Publisher

\* Closing, reading and run keep the types.
LEMMA HostType ==
    ASSUME ConnectionTypeOK,
           \/ CloseAfterFlush \/ CloseMark \/ Closer
           \/ ReadFrame \/ ReadFails \/ HandlerReturns \/ PeerGoes \/ Runner
    PROVE  ConnectionTypeOK'
<1>1. CASE CloseAfterFlush
  BY <1>1 DEF CloseAfterFlush, CloseQueue, ConnectionTypeOK, sendVars, hostVars, pipeVars
<1>2. CASE CloseMark
  BY <1>2 DEF CloseMark, ConnectionTypeOK, sendVars, pipeVars
<1>3. CASE CloseSocket
  BY <1>3 DEF CloseSocket, SocketAfterClose, ConnectionTypeOK, outVars, sendVars, pipeVars
<1>4. CASE CloseNotify
  BY <1>4 DEF CloseNotify, ConnectionTypeOK, outVars, sendVars, pipeVars
<1>5. CASE ReadFrame
  BY <1>5 DEF ReadFrame, ConnectionTypeOK, outVars, sendVars, pipeVars
<1>6. CASE ReadFails
  BY <1>6 DEF ReadFails, ConnectionTypeOK, outVars, sendVars, pipeVars
<1>7. CASE HandlerReturns
  BY <1>7 DEF HandlerReturns, ConnectionTypeOK, outVars, sendVars, pipeVars
<1>8. CASE PeerGoes
  BY <1>8 DEF PeerGoes, ConnectionTypeOK, outVars, sendVars, pipeVars
<1>9. CASE RunClosesQueue
  BY <1>9 DEF RunClosesQueue, CloseQueue, ConnectionTypeOK, sendVars, pipeVars
<1>10. CASE RunAwaitsWriter
  BY <1>10 DEF RunAwaitsWriter, ConnectionTypeOK, outVars, sendVars, pipeVars
<1>11. CASE RunCloses
  BY <1>2, <1>11 DEF RunCloses
<1>12. CASE RunEnds
  BY <1>12 DEF RunEnds, ConnectionTypeOK, outVars, sendVars, pipeVars
<1> QED
  BY <1>1, <1>2, <1>3, <1>4, <1>5, <1>6, <1>7, <1>8, <1>9, <1>10, <1>11, <1>12
     DEF Closer, Runner

\* The writer keeps the types.
LEMMA WriterType ==
    ASSUME ConnectionTypeOK, WriterInv, Writer
    PROVE  ConnectionTypeOK'
<1> USE DEF outVars, sendVars, hostVars
<1>0. OutCapacity \in Nat
  BY ConnectionAssumption
<1>1. CASE TakeSnapshot
  BY <1>1 DEF TakeSnapshot, ConnectionTypeOK, Hand
<1>2. CASE Poll /\ ~TakeSnapshot
  BY <1>2 DEF Poll, ConnectionTypeOK
<1>3. CASE Wait /\ out # <<>> /\ hand' = [kind |-> "frame", n |-> Head(out)] /\ out' = Tail(out)
                /\ writer' = "write"
                /\ UNCHANGED <<queueClosed, dead, snapshot, sendVars, hostVars, wire, shown>>
  <2>1. /\ Head(out) \in Nat /\ Tail(out) \in Seq(Nat) /\ Len(Tail(out)) <= OutCapacity
    BY <1>0, <1>3, HeadTailProperties DEF ConnectionTypeOK
  <2>2. hand' \in Hand
    BY <1>3, <2>1 DEF Hand
  <2> QED
    BY <1>3, <2>1, <2>2 DEF ConnectionTypeOK
<1>4. CASE Wait /\ OutEnded /\ writer' = "drain"
           /\ UNCHANGED <<outVars, snapshot, sendVars, hostVars, hand, wire, shown>>
  BY <1>4 DEF ConnectionTypeOK
<1>5. CASE Drain /\ ~TakeSnapshot
  BY <1>5 DEF Drain, ConnectionTypeOK
<1>6. CASE WriteFrame
  <2>1. hand \in Hand /\ hand.n \in Nat
    BY <1>6 DEF WriteFrame, WriterInv, Hand
  <2>2. wire' \in Seq(Nat) /\ shown' \in Nat
    BY <1>6, <2>1 DEF WriteFrame, ConnectionTypeOK
  <2> QED
    BY <1>6, <2>2 DEF WriteFrame, ConnectionTypeOK
<1>7. CASE WriteFails
  BY <1>7 DEF WriteFails, ConnectionTypeOK
<1> QED
  BY <1>1, <1>2, <1>3, <1>4, <1>5, <1>6, <1>7 DEF Writer, Poll, Wait, Drain, Write
-----------------------------------------------------------------------------
(* Safety *)

\* Steps that touch neither sendMu, nor the closing, nor what the invariants
\* about the writer and the queue look at.
Aside == ReadFrame \/ ReadFails \/ HandlerReturns \/ PeerGoes \/ CloseNotify
            \/ RunAwaitsWriter \/ RunEnds \/ CloseSocket

\* A connection starts in its invariant.
LEMMA InitSafe == Init => MutexInv /\ WriterInv /\ FramesInOrder /\ SnapshotInv
<1> SUFFICES ASSUME Init
             PROVE  MutexInv /\ WriterInv /\ FramesInOrder /\ SnapshotInv
  OBVIOUS
<1>1. MutexInv
  BY DEF Init, MutexInv, NoSendOnClosedQueue
<1>2. WriterInv
  BY DEF Init, WriterInv
<1>3. FramesInOrder
  <2>1. [i \in 1..0 |-> i] = <<>>
    OBVIOUS
  <2>2. <<>> \o <<>> \o <<>> = <<>>
    OBVIOUS
  <2> QED
    BY <2>1, <2>2 DEF Init, FramesInOrder, FrameInHand
<1>4. SnapshotInv
  BY DEF Init, SnapshotInv, Held, HoldsSnapshot
<1> QED
  BY <1>1, <1>2, <1>3, <1>4

\* The mutex: what a step does to sendMu, dead and queueClosed.
LEMMA NextMutex ==
    ASSUME ConnectionTypeOK, MutexInv, [Next]_vars
    PROVE  MutexInv'
<1> USE DEF MutexInv, NoSendOnClosedQueue, SendMuFree
<1>1. ASSUME NEW s \in Senders, SendCheck(s)
      PROVE  MutexInv'
  BY <1>1 DEF SendCheck, ConnectionTypeOK, outVars
<1>2. ASSUME NEW s \in Senders, SendPut(s)
      PROVE  MutexInv'
  BY <1>2 DEF SendPut, ConnectionTypeOK
<1>3. CASE CloseQueue /\ UNCHANGED senders
  BY <1>3 DEF CloseQueue, MayCloseQueue
<1>4. CASE CloseMark
  BY <1>4 DEF CloseMark, sendVars
<1>5. CASE UNCHANGED <<queueClosed, dead, senders>>
  BY <1>5
<1>6. CASE OfferSnapshot \/ Publisher \/ Aside \/ Writer \/ UNCHANGED vars
  BY <1>5, <1>6 DEF OfferSnapshot, Publisher, PushSnapshot, EvictSnapshot, Aside, ReadFrame,
        ReadFails, HandlerReturns, PeerGoes, CloseNotify, RunAwaitsWriter, RunEnds, CloseSocket,
        Writer, Poll, Wait, Drain, Write, WriteFrame, WriteFails, TakeSnapshot, vars, outVars, sendVars
<1> QED
  BY <1>1, <1>2, <1>3, <1>4, <1>6
     DEF Next, CloseAfterFlush, Closer, Runner, RunClosesQueue, RunCloses, Aside, sendVars

\* The writer's program counter and its hand.
LEMMA NextWriter ==
    ASSUME ConnectionTypeOK, MutexInv, WriterInv, [Next]_vars
    PROVE  WriterInv'
<1> USE DEF WriterInv
<1>1. ASSUME NEW s \in Senders, SendCheck(s)
      PROVE  WriterInv'
  BY <1>1 DEF SendCheck, outVars, pipeVars
<1>2. ASSUME NEW s \in Senders, SendPut(s)
      PROVE  WriterInv'
  <2>1. ~queueClosed
    BY <1>2 DEF SendPut, MutexInv, NoSendOnClosedQueue, SendMuFree
  <2> QED
    BY <1>2, <2>1 DEF SendPut, pipeVars
<1>3. CASE CloseQueue /\ UNCHANGED pipeVars
  BY <1>3 DEF CloseQueue, pipeVars
<1>4. CASE CloseMark
  BY <1>4 DEF CloseMark, pipeVars
<1>5. CASE UNCHANGED <<queueClosed, out, writer, hand>>
  BY <1>5
<1>6. CASE OfferSnapshot \/ Publisher \/ Aside \/ UNCHANGED vars
  BY <1>5, <1>6 DEF OfferSnapshot, Publisher, PushSnapshot, EvictSnapshot, Aside, ReadFrame,
        ReadFails, HandlerReturns, PeerGoes, CloseNotify, RunAwaitsWriter, RunEnds, CloseSocket,
        vars, outVars, pipeVars
<1>7. CASE TakeSnapshot
  BY <1>7, ConnectionAssumption DEF TakeSnapshot, ConnectionTypeOK, Hand
<1>8. ASSUME out # <<>>, hand' = [kind |-> "frame", n |-> Head(out)], writer' = "write"
      PROVE  WriterInv'
  <2>1. Head(out) \in Nat
    BY <1>8, HeadTailProperties DEF ConnectionTypeOK
  <2> QED
    BY <1>8, <2>1 DEF Hand
<1>9. CASE Poll \/ Wait \/ Drain
  BY <1>7, <1>8, <1>9 DEF Poll, Wait, Drain, OutEnded, outVars
<1>10. CASE Write
  BY <1>10, ConnectionAssumption DEF Write, WriteFrame, WriteFails, outVars, Hand
<1> QED
  BY <1>1, <1>2, <1>3, <1>4, <1>6, <1>9, <1>10
     DEF Next, Writer, CloseAfterFlush, Closer, Runner, RunClosesQueue, RunCloses, Aside

\* The frames accepted, as a sequence, grow by the one that is put in.
LEMMA OneMoreFrame ==
    ASSUME NEW n \in Nat
    PROVE  [i \in 1..(n + 1) |-> i] = Append([i \in 1..n |-> i], n + 1)
<1> DEFINE few  == [i \in 1..n |-> i]
           more == [i \in 1..(n + 1) |-> i]
<1>1. few \in Seq(Nat) /\ more \in Seq(Nat)
  OBVIOUS
<1>2. Len(few) = n /\ Len(more) = n + 1
  OBVIOUS
<1>3. /\ Append(few, n + 1) \in Seq(Nat)
      /\ Len(Append(few, n + 1)) = n + 1
      /\ \A i \in 1..n : Append(few, n + 1)[i] = i
      /\ Append(few, n + 1)[n + 1] = n + 1
  <2> HIDE DEF few
  <2>1. /\ Append(few, n + 1) \in Seq(Nat)
        /\ Len(Append(few, n + 1)) = Len(few) + 1
        /\ \A i \in 1..Len(few) : Append(few, n + 1)[i] = few[i]
        /\ Append(few, n + 1)[Len(few) + 1] = n + 1
    BY <1>1, AppendProperties
  <2>2. \A i \in 1..n : few[i] = i
    BY DEF few
  <2> QED
    BY <1>2, <2>1, <2>2
<1>4. \A i \in 1..(n + 1) : more[i] = i
  OBVIOUS
<1> HIDE DEF few, more
<1>5. \A i \in 1..Len(more) : more[i] = Append(few, n + 1)[i]
  BY <1>2, <1>3, <1>4
<1>6. more = Append(few, n + 1)
  BY <1>1, <1>2, <1>3, <1>5, SeqEqual
<1> QED
  BY <1>6 DEF few, more

\* Frames: a step puts one in at the end of the queue, moves one on, or none.
LEMMA NextFrames ==
    ASSUME ConnectionTypeOK, MutexInv, WriterInv, FramesInOrder, [Next]_vars
    PROVE  FramesInOrder'
<1>0. /\ out \in Seq(Nat) /\ wire \in Seq(Nat) /\ accepted \in Nat
      /\ FrameInHand \in Seq(Nat)
  BY DEF ConnectionTypeOK, FrameInHand, Hand
<1>a. wire \o FrameInHand \o out = [i \in 1..accepted |-> i]
  BY DEF FramesInOrder
<1>1. CASE UNCHANGED <<wire, out, accepted, hand>>
  BY <1>1, <1>a DEF FramesInOrder, FrameInHand
<1>2. ASSUME NEW s \in Senders, SendPut(s)
      PROVE  FramesInOrder'
  <2>1. CASE out' = Append(out, accepted + 1) /\ accepted' = accepted + 1
    <3>1. FrameInHand' = FrameInHand /\ wire' = wire
      BY <1>2 DEF SendPut, FrameInHand, pipeVars
    <3>2. (wire \o FrameInHand) \o Append(out, accepted + 1)
             = Append((wire \o FrameInHand) \o out, accepted + 1)
      <4>1. wire \o FrameInHand \in Seq(Nat)
        BY <1>0, ConcatProperties
      <4> QED
        BY <1>0, <4>1
    <3> QED
      BY <1>0, <1>a, <2>1, <3>1, <3>2, OneMoreFrame DEF FramesInOrder
  <2>2. CASE UNCHANGED <<out, accepted>>
    BY <1>1, <1>2, <2>2 DEF SendPut, pipeVars
  <2> QED
    BY <1>2, <2>1, <2>2 DEF SendPut, Rejected
<1>3. CASE TakeSnapshot /\ hand = Nothing
  <2>1. FrameInHand = <<>> /\ FrameInHand' = <<>>
    BY <1>3 DEF TakeSnapshot, FrameInHand
  <2> QED
    BY <1>3, <1>a, <2>1 DEF TakeSnapshot, FramesInOrder, outVars, sendVars
<1>4. ASSUME Wait, out # <<>>, hand' = [kind |-> "frame", n |-> Head(out)], out' = Tail(out),
             UNCHANGED <<sendVars, wire>>
      PROVE  FramesInOrder'
  <2>1. FrameInHand = <<>>
    BY <1>4 DEF Wait, WriterInv, FrameInHand
  <2>2. FrameInHand' = <<Head(out)>>
    <3>1. hand' # Nothing
      BY <1>0, <1>4, ConnectionAssumption, HeadTailProperties
    <3> QED
      BY <1>4, <3>1 DEF FrameInHand
  <2>3. wire \o <<Head(out)>> \o Tail(out) = wire \o <<>> \o out
    BY <1>0, <1>4
  <2> QED
    BY <1>4, <1>a, <2>1, <2>2, <2>3 DEF FramesInOrder, sendVars
<1>5. CASE WriteFrame
  <2>1. hand \in Hand
    BY <1>5 DEF WriteFrame, WriterInv
  <2>2. hand # Nothing
    BY <2>1, ConnectionAssumption DEF Hand
  <2>3. FrameInHand' = <<>> /\ UNCHANGED <<out, accepted>>
    BY <1>5 DEF WriteFrame, FrameInHand, outVars, sendVars
  <2>4. wire' = wire \o FrameInHand
    <3>1. CASE hand.kind = "frame"
      <4>1. hand.n \in Nat
        BY <2>1 DEF Hand
      <4> QED
        BY <1>0, <1>5, <2>2, <3>1, <4>1 DEF WriteFrame, FrameInHand
    <3>2. CASE hand.kind # "frame"
      BY <1>0, <1>5, <3>2 DEF WriteFrame, FrameInHand
    <3> QED
      BY <3>1, <3>2
  <2>5. wire' \o <<>> \o out = wire \o FrameInHand \o out
    <3>1. wire' \in Seq(Nat)
      BY <1>0, <2>4, ConcatProperties
    <3> QED
      BY <1>0, <2>4, <3>1
  <2> QED
    BY <1>a, <2>3, <2>5 DEF FramesInOrder
<1>6. CASE \/ \E s \in Senders : SendCheck(s)
           \/ OfferSnapshot \/ Publisher \/ Aside \/ CloseAfterFlush \/ CloseMark
           \/ RunClosesQueue \/ UNCHANGED vars
  BY <1>1, <1>6 DEF SendCheck, OfferSnapshot, Publisher, PushSnapshot, EvictSnapshot, Aside, ReadFrame,
        ReadFails, HandlerReturns, PeerGoes, CloseNotify, RunAwaitsWriter, RunEnds, CloseSocket,
        CloseAfterFlush, CloseQueue, CloseMark, RunClosesQueue, vars, outVars, sendVars, pipeVars
<1>7. CASE Writer
  <2>1. CASE Poll \/ Wait \/ Drain
    BY <1>1, <1>3, <1>4, <2>1 DEF Poll, Wait, Drain, WriterInv, outVars, sendVars
  <2>2. CASE Write
    BY <1>1, <1>5, <2>2 DEF Write, WriteFails, outVars, sendVars
  <2> QED
    BY <1>7, <2>1, <2>2 DEF Writer
<1> QED
  BY <1>2, <1>6, <1>7 DEF Next, Closer, Runner, RunCloses, Aside

\* Snapshots: only a new one enters the slot, and they move on in order.
LEMMA NextSnapshot ==
    ASSUME ConnectionTypeOK, WriterInv, SnapshotInv, [Next]_vars
    PROVE  SnapshotInv'
<1>0. snapshot \in Nat /\ offered \in Nat /\ shown \in Nat /\ Held \in Nat
  BY DEF ConnectionTypeOK, Held, HoldsSnapshot, Hand
<1>1. CASE UNCHANGED <<publisher, snapshot, offered, hand, shown>>
  BY <1>1 DEF SnapshotInv, Held, HoldsSnapshot
<1>2. CASE OfferSnapshot
  <2>1. Held' = Held /\ (HoldsSnapshot' <=> HoldsSnapshot) /\ shown' = shown /\ snapshot' = snapshot
    BY <1>2 DEF OfferSnapshot, Held, HoldsSnapshot, pipeVars
  <2> QED
    BY <1>0, <1>2, <2>1 DEF OfferSnapshot, SnapshotInv
<1>3. CASE Publisher
  <2>1. Held' = Held /\ (HoldsSnapshot' <=> HoldsSnapshot) /\ shown' = shown /\ offered' = offered
    BY <1>3 DEF Publisher, PushSnapshot, EvictSnapshot, Held, HoldsSnapshot, pipeVars
  <2>2. CASE PushSnapshot
    BY <1>0, <2>1, <2>2 DEF PushSnapshot, PushFull, SnapshotInv
  <2>3. CASE EvictSnapshot
    BY <1>0, <2>1, <2>3 DEF EvictSnapshot, SnapshotInv
  <2> QED
    BY <1>3, <2>2, <2>3 DEF Publisher
<1>4. CASE TakeSnapshot /\ hand = Nothing
  <2>1. Held = 0
    BY <1>4 DEF Held, HoldsSnapshot
  <2>2. Held' = snapshot /\ HoldsSnapshot'
    <3>1. hand' # Nothing
      BY <1>0, <1>4, ConnectionAssumption DEF TakeSnapshot
    <3> QED
      BY <1>4, <3>1 DEF TakeSnapshot, Held, HoldsSnapshot
  <2>3. shown' = shown /\ offered' = offered /\ publisher' = publisher /\ snapshot' = 0
    BY <1>4 DEF TakeSnapshot, sendVars
  <2> QED
    BY <1>0, <1>4, <2>1, <2>2, <2>3 DEF TakeSnapshot, SnapshotInv
<1>5. ASSUME Wait, out # <<>>, hand' = [kind |-> "frame", n |-> Head(out)],
             UNCHANGED <<snapshot, sendVars, shown>>
      PROVE  SnapshotInv'
  <2>1. Held = 0 /\ Held' = 0 /\ ~HoldsSnapshot'
    BY <1>5 DEF Wait, WriterInv, Held, HoldsSnapshot
  <2> QED
    BY <1>0, <1>5, <2>1 DEF SnapshotInv, sendVars
<1>6. CASE WriteFrame
  <2>1. hand \in Hand /\ hand # Nothing
    BY <1>6, ConnectionAssumption DEF WriteFrame, WriterInv, Hand
  <2>2. Held' = 0 /\ ~HoldsSnapshot'
    BY <1>6 DEF WriteFrame, Held, HoldsSnapshot
  <2>3. shown' = IF hand.kind = "snapshot" THEN Held ELSE shown
    BY <1>6, <2>1 DEF WriteFrame, Held, HoldsSnapshot
  <2>4. hand.kind # "snapshot" => Held = 0
    BY DEF Held, HoldsSnapshot
  <2>5. hand.kind = "snapshot" => Held = hand.n /\ Held # 0
    BY <2>1 DEF Held, HoldsSnapshot, SnapshotInv
  <2>6. publisher' = publisher /\ snapshot' = snapshot /\ offered' = offered
    BY <1>6 DEF WriteFrame, sendVars
  <2> QED
    BY <1>0, <2>2, <2>3, <2>4, <2>5, <2>6 DEF SnapshotInv
<1>7. CASE \/ \E s \in Senders : SendCheck(s) \/ SendPut(s)
           \/ Aside \/ CloseAfterFlush \/ CloseMark
           \/ RunClosesQueue \/ UNCHANGED vars
  BY <1>1, <1>7 DEF SendCheck, SendPut, Aside, ReadFrame, ReadFails, HandlerReturns, PeerGoes,
        CloseNotify, RunAwaitsWriter, RunEnds, CloseSocket, CloseAfterFlush, CloseMark,
        RunClosesQueue, vars, outVars, sendVars, pipeVars
<1>8. CASE Writer
  <2>1. CASE Poll \/ Wait \/ Drain
    BY <1>1, <1>4, <1>5, <2>1 DEF Poll, Wait, Drain, WriterInv, outVars, sendVars
  <2>2. CASE Write
    BY <1>1, <1>6, <2>2 DEF Write, WriteFails, outVars, sendVars
  <2> QED
    BY <1>8, <2>1, <2>2 DEF Writer
<1> QED
  BY <1>2, <1>3, <1>7, <1>8 DEF Next, Closer, Runner, RunCloses, Aside

-----------------------------------------------------------------------------
(* Theorems *)

\* Whatever the senders, the closers, the peer and the writer do in whatever
\* order, a connection stays in its inductive invariant.
THEOREM ConnectionInvariant == Spec => []ConnectionInv
<1>1. Init => ConnectionInv
  BY InitType, InitSafe DEF ConnectionInv
<1>2. ConnectionInv /\ [Next]_vars => ConnectionInv'
  <2> SUFFICES ASSUME ConnectionInv, [Next]_vars
               PROVE  ConnectionInv'
    OBVIOUS
  <2>1. ConnectionTypeOK'
    <3>1. CASE UNCHANGED vars
      BY <3>1 DEF ConnectionInv, ConnectionTypeOK, vars, outVars, sendVars, hostVars, pipeVars
    <3> QED
      BY <3>1, SendersType, HostType, WriterType DEF ConnectionInv, Next
  <2> QED
    BY <2>1, NextMutex, NextWriter, NextFrames, NextSnapshot DEF ConnectionInv
<1> QED
  BY <1>1, <1>2, PTL DEF Spec

\* Types, and the capacity of the reliable queue, whatever the capacity is.
THEOREM ConnectionIsTyped == Spec => []ConnectionTypeOK
<1>1. ConnectionInv => ConnectionTypeOK
  BY DEF ConnectionInv
<1> QED
  BY <1>1, ConnectionInvariant, PTL

\* No sender that has checked `closed` ever meets a closed queue.
THEOREM SendNeverPanics == Spec => []NoSendOnClosedQueue
<1>1. ConnectionInv => NoSendOnClosedQueue
  BY DEF ConnectionInv, MutexInv
<1> QED
  BY <1>1, ConnectionInvariant, PTL

\* Reliable frames are neither lost, nor repeated, nor reordered.
THEOREM FramesStayInOrder == Spec => []FramesInOrder
<1>1. ConnectionInv => FramesInOrder
  BY DEF ConnectionInv
<1> QED
  BY <1>1, ConnectionInvariant, PTL

\* A writer that ended without an error has written everything accepted.
THEOREM FlushIsComplete == Spec => []FlushDeliversAll
<1>1. ConnectionInv => FlushDeliversAll
  <2> SUFFICES ASSUME ConnectionInv, writer = "ended", hand = Nothing
               PROVE  wire = [i \in 1..accepted |-> i]
    BY DEF FlushDeliversAll
  <2>1. wire \in Seq(Nat) /\ out = <<>> /\ FrameInHand = <<>>
    BY DEF ConnectionInv, ConnectionTypeOK, WriterInv, FrameInHand
  <2>2. wire \o <<>> \o <<>> = wire
    BY <2>1
  <2> QED
    BY <2>1, <2>2 DEF ConnectionInv, FramesInOrder
<1> QED
  BY <1>1, ConnectionInvariant, PTL

\* Between two publications the newest snapshot is still on its way, or shown.
THEOREM NewestSnapshotSurvives == Spec => []LatestSnapshotIsKept
<1>1. ConnectionInv => LatestSnapshotIsKept
  BY Zenon DEF ConnectionInv, SnapshotInv, LatestSnapshotIsKept, Held, HoldsSnapshot
<1> QED
  BY <1>1, ConnectionInvariant, PTL
=============================================================================
