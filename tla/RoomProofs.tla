------------------------------ MODULE RoomProofs ------------------------------
(***************************************************************************)
(* Proofs about Room for every number of sessions, players and callers and *)
(* for every capacity: its goroutine drives the World only as World allows *)
(* (so what WorldProofs shows of a World holds of the World of a Room),    *)
(* its two queues and its membership table are kept consistent, and its    *)
(* stage events reach the dispatcher in order unless the room closes.      *)
(***************************************************************************)
EXTENDS Room, WorldProofs

-----------------------------------------------------------------------------
(* Type correctness, and the steps of the World a Room takes *)

\* The fields a queued command has.
LEMMA RequestFields ==
    ASSUME NEW r \in Request
    PROVE  /\ r.op = "join" => r.session \in Sessions /\ r.player \in Players
           /\ r.op = "leave" => r.session \in Sessions
           /\ r.op = "startStage" => r.index \in 1..MaxStage
           /\ r.op = "chooseReward" => r.session \in Sessions /\ r.item \in Items
<1>1. CASE r \in JoinRequest
  BY <1>1 DEF JoinRequest
<1>2. CASE r \in SessionRequest
  BY <1>2 DEF SessionRequest
<1>3. CASE r \in StageRequest
  BY <1>3 DEF StageRequest
<1>4. CASE r \in PlainRequest
  BY <1>4 DEF PlainRequest
<1>5. CASE r \in ChoiceRequest
  BY <1>5 DEF ChoiceRequest
<1>6. CASE r \in ResultRequest
  BY <1>6 DEF ResultRequest
<1> QED
  BY <1>1, <1>2, <1>3, <1>4, <1>5, <1>6 DEF Request

\* A bound session has a binding.
LEMMA JoinedBinding ==
    ASSUME RoomTypeOK, NEW s \in Sessions, Joined(s)
    PROVE  members[s] \in Binding /\ members[s].player \in Players /\ members[s].generation \in Nat
BY DEF RoomTypeOK, Joined, Binding

\* A command touches the World by one of its actions, or not at all.
LEMMA ApplyRequestWorld ==
    ASSUME RoomTypeOK, NEW r \in Request, NEW result, ApplyRequest(r, result)
    PROVE  [WorldNext]_worldVars
<1> USE RequestFields
<1>1. CASE Quiet \/ UNCHANGED worldVars
  BY <1>1 DEF Quiet
<1>2. CASE r.op = "join" /\ ApplyJoin(r, result)
  BY <1>1, <1>2 DEF ApplyJoin, WorldNext
<1>3. CASE r.op = "leave" /\ ApplyLeave(r, result)
  <2>1. CASE Joined(r.session) /\ RemovePlayer(members[r.session].player)
    BY <1>3, <2>1, JoinedBinding DEF WorldNext
  <2> QED
    BY <1>1, <1>3, <2>1 DEF ApplyLeave
<1>4. CASE r.op = "startStage" /\ WorldCommand(CanStartStage(r.index), StartStage(r.index), result)
  BY <1>1, <1>4 DEF WorldCommand, WorldNext
<1>5. CASE r.op = "startReward" /\ WorldCommand(CanStartReward, StartReward, result)
  BY <1>1, <1>5 DEF WorldCommand, WorldNext
<1>6. CASE r.op = "chooseReward" /\ ApplyChoose(r, result)
  <2>1. CASE Joined(r.session) /\ ChooseReward(members[r.session].player, r.item)
    BY <1>6, <2>1, JoinedBinding DEF WorldNext
  <2> QED
    BY <1>1, <1>6, <2>1 DEF ApplyChoose, WorldCommand
<1>7. CASE \E can : ApplyRead(can, result)
  BY <1>1, <1>7 DEF ApplyRead
<1> QED
  BY <1>2, <1>3, <1>4, <1>5, <1>6, <1>7 DEF ApplyRequest

\* A command leaves the membership table and the timer typed.
LEMMA ApplyRequestType ==
    ASSUME RoomTypeOK, NEW r \in Request, NEW result, ApplyRequest(r, result)
    PROVE  /\ members' \in [Sessions -> Binding \cup {NoBinding}]
           /\ generation' \in Nat /\ sentSeq' \in [Sessions -> Nat] /\ timerArmed' \in BOOLEAN
<1> USE RequestFields
<1> DEFINE Goal == /\ members' \in [Sessions -> Binding \cup {NoBinding}]
                   /\ generation' \in Nat /\ sentSeq' \in [Sessions -> Nat] /\ timerArmed' \in BOOLEAN
<1>1. CASE UNCHANGED <<memberVars, timerArmed>>
  BY <1>1 DEF memberVars, RoomTypeOK
<1>2. CASE r.op = "join" /\ ApplyJoin(r, result)
  <2>1. CASE Quiet
    BY <1>1, <2>1 DEF Quiet
  <2>2. CASE ~Quiet
    <3>1. /\ generation' = generation + 1
          /\ members' = [members EXCEPT ![r.session] = [player |-> r.player, generation |-> generation + 1]]
          /\ sentSeq' = [sentSeq EXCEPT ![r.session] = 0]
          /\ timerArmed' = FALSE
      BY <1>2, <2>2 DEF ApplyJoin
    <3>2. /\ r.session \in Sessions /\ r.player \in Players
          /\ generation \in Nat /\ sentSeq \in [Sessions -> Nat]
          /\ members \in [Sessions -> Binding \cup {NoBinding}]
      BY <1>2 DEF RoomTypeOK
    <3>3. [player |-> r.player, generation |-> generation + 1] \in Binding
      BY <3>2 DEF Binding
    <3>4. members' \in [Sessions -> Binding \cup {NoBinding}]
      BY <3>1, <3>2, <3>3
    <3>5. sentSeq' \in [Sessions -> Nat] /\ generation' \in Nat
      BY <3>1, <3>2
    <3> QED
      BY <3>1, <3>4, <3>5
  <2> QED
    BY <2>1, <2>2
<1>3. CASE r.op = "leave" /\ ApplyLeave(r, result)
  <2>1. CASE Quiet
    BY <1>1, <2>1 DEF Quiet
  <2>2. CASE ~Quiet
    <3>1. /\ members' = [members EXCEPT ![r.session] = NoBinding]
          /\ timerArmed' = TimerAfterLeave(members[r.session].player)
          /\ UNCHANGED <<generation, sentSeq>>
      BY <1>3, <2>2 DEF ApplyLeave
    <3> QED
      BY <1>3, <3>1 DEF RoomTypeOK, TimerAfterLeave
  <2> QED
    BY <2>1, <2>2
<1>4. CASE r.op # "join" /\ r.op # "leave"
  BY <1>1, <1>4 DEF ApplyRequest, WorldCommand, ApplyChoose, ApplyRead, Quiet
<1> QED
  BY <1>2, <1>3, <1>4 DEF ApplyRequest

\* What taking one element out of a queue leaves.
LEMMA TailElements ==
    ASSUME NEW S, NEW q \in Seq(S), q # <<>>
    PROVE  /\ Head(q) \in S /\ Tail(q) \in Seq(S) /\ Head(q) = q[1]
           /\ Len(q) \in Nat \ {0} /\ Len(Tail(q)) = Len(q) - 1
           /\ \A k \in 1..Len(Tail(q)) : Tail(q)[k] = q[k + 1]
<1>1. Len(q) \in Nat \ {0}
  BY EmptySeq
<1> QED
  BY <1>1, HeadTailProperties

\* What putting one element into a queue adds.
LEMMA AppendElements ==
    ASSUME NEW S, NEW q \in Seq(S), NEW e \in S
    PROVE  /\ Append(q, e) \in Seq(S) /\ Len(Append(q, e)) = Len(q) + 1 /\ Len(q) \in Nat
           /\ \A k \in 1..Len(q) : Append(q, e)[k] = q[k]
           /\ Append(q, e)[Len(q) + 1] = e
BY AppendProperties

\* The stage events of a batch are stage events.
LEMMA StageEventsInType == \A batch : StageEventsIn(batch) \in SUBSET StageEvent
BY DEF StageEventsIn

\* The types of the whole state: the World's and the Room's own.
RoomTyped == WorldTypeOK /\ RoomTypeOK

\* The world part of a room's step is a step of the World.
LEMMA RoomStepIsWorldStep ==
    ASSUME RoomTyped, [Next]_vars
    PROVE  [WorldNext]_worldVars
<1> USE DEF RoomTyped
<1>1. CASE UNCHANGED worldVars
  BY <1>1
<1>2. ASSUME NEW c \in Callers, NEW r \in Requests, Submit(c, r) PROVE UNCHANGED worldVars
  BY <1>2 DEF Submit
<1>3. ASSUME NEW c \in Callers, Collect(c) PROVE UNCHANGED worldVars
  BY <1>3 DEF Collect
<1>4. ASSUME NEW s \in Sessions, NEW seq \in 1..MaxSeq, Input(s, seq) PROVE UNCHANGED worldVars
  BY <1>4 DEF Input
<1>5. CASE Cancel \/ TakeEventBatch \/ TakeRewardBatch \/ TakeSnapshot
  BY <1>1, <1>5 DEF Cancel, TakeEventBatch, TakeRewardBatch, TakeSnapshot
<1>6. CASE \/ Tick \/ ControlsTaken \/ InputsTaken \/ Publish
           \/ StopCancelled \/ StopIdle \/ BeginFinish \/ DrainControl
  BY <1>1, <1>6 DEF Tick, ControlsTaken, InputsTaken, Publish, StopCancelled, StopIdle, Stop,
                    BeginFinish, DrainControl
<1>7. CASE TakeControl
  <2>1. Head(controls) \in Control
    BY <1>7, TailElements DEF TakeControl, MoreControls, Spend, RoomTypeOK
  <2>2. Head(controls).request \in Request
    BY <2>1 DEF Control
  <2>3. PICK result \in {"ok", "error"} : ApplyRequest(Head(controls).request, result)
    BY <1>7 DEF TakeControl
  <2> QED
    BY <2>2, <2>3, ApplyRequestWorld
<1>8. CASE TakeInput
  <2> DEFINE m == Head(inputs)
  <2>1. m \in Movement
    BY <1>8, TailElements DEF TakeInput, RoomTypeOK
  <2>2. m.session \in Sessions /\ m.seq \in 1..MaxSeq
    BY <2>1 DEF Movement
  <2> HIDE DEF m
  <2>3. CASE CurrentBinding(m) /\ ApplyInput(members[m.session].player, m.seq)
    <3>1. members[m.session].player \in Players
      BY <2>2, <2>3, JoinedBinding DEF CurrentBinding
    <3> QED
      BY <2>2, <2>3, <3>1 DEF WorldNext
  <2> QED
    BY <1>1, <1>8, <2>3 DEF TakeInput, m
<1>9. CASE StepWorld \/ SendEvents \/ SendRewards \/ EndFinish
  BY <1>9 DEF StepWorld, SendEvents, SendRewards, EndFinish, WorldNext
<1>10. CASE UNCHANGED vars
  BY <1>1, <1>10 DEF vars
<1> QED
  BY <1>1, <1>2, <1>3, <1>4, <1>5, <1>6, <1>7, <1>8, <1>9, <1>10 DEF Next, RoomStep, TickStep

\* A new room is typed.
LEMMA RoomInitType == Init => RoomTyped
<1> SUFFICES ASSUME Init PROVE RoomTyped
  OBVIOUS
<1>1. WorldTypeOK
  BY InitType DEF Init
<1>2. RoomTypeOK
  <2>1. /\ controls \in Seq(Control) /\ inputs \in Seq(Movement)
        /\ eventsOut \in Seq(Seq(EventRec)) /\ rewardsOut \in Seq(Seq(UpdateRec))
    <3>1. controls = <<>> /\ inputs = <<>> /\ eventsOut = <<>> /\ rewardsOut = <<>>
      BY DEF Init
    <3> QED
      BY <3>1
  <2>2. /\ receipts \in [Callers -> Receipts]
        /\ members \in [Sessions -> Binding \cup {NoBinding}]
        /\ sentSeq \in [Sessions -> Nat]
    BY DEF Init, Receipts
  <2>3. /\ phase \in Phases /\ budget \in Nat /\ generation \in Nat
        /\ closeReason \in {"", "requested", "idle", "event_backpressure"}
        /\ updates \in {"none", "live", "closed"} /\ delivered \in SUBSET StageEvent
    BY DEF Init, Phases
  <2>4. cancelled \in BOOLEAN /\ closed \in BOOLEAN /\ timerArmed \in BOOLEAN
    BY DEF Init
  <2> QED
    BY <2>1, <2>2, <2>3, <2>4 DEF RoomTypeOK
<1> QED
  BY <1>1, <1>2 DEF RoomTyped

\* A call of another goroutine keeps the room typed.
LEMMA CallerType ==
    ASSUME RoomTypeOK,
           \/ \E c \in Callers, r \in Requests : Submit(c, r)
           \/ \E c \in Callers : Collect(c)
           \/ \E s \in Sessions, seq \in 1..MaxSeq : Input(s, seq)
           \/ Cancel \/ TakeEventBatch \/ TakeRewardBatch \/ TakeSnapshot
    PROVE  RoomTypeOK'
<1>0. \A s \in Sessions, seq \in 1..MaxSeq :
         [sentSeq EXCEPT ![s] = IF seq > @ THEN seq ELSE @] \in [Sessions -> Nat]
  <2>1. sentSeq \in [Sessions -> Nat]
    BY DEF RoomTypeOK
  <2>2. \A seq \in 1..MaxSeq : seq \in Nat
    OBVIOUS
  <2> QED
    BY <2>1, <2>2
<1> USE DEF RoomTypeOK, actorVars, queueVars, memberVars, channelVars
<1>1. ASSUME NEW c \in Callers, NEW r \in Requests, Submit(c, r) PROVE RoomTypeOK'
  <2>1. [caller |-> c, request |-> r] \in Control
    BY RoomAssumption DEF Control
  <2>2. controls' \in Seq(Control)
    BY <1>1, <2>1, AppendElements DEF Submit
  <2>3. receipts' \in [Callers -> Receipts]
    BY <1>1 DEF Submit, Receipts
  <2> QED
    BY <1>1, <2>2, <2>3 DEF Submit
<1>2. ASSUME NEW c \in Callers, Collect(c) PROVE RoomTypeOK'
  <2>1. receipts' \in [Callers -> Receipts]
    BY <1>2 DEF Collect, Receipts
  <2> QED
    BY <1>2, <2>1 DEF Collect
<1>3. ASSUME NEW s \in Sessions, NEW seq \in 1..MaxSeq, Input(s, seq) PROVE RoomTypeOK'
  <2>1. [session |-> s, generation |-> members[s].generation, seq |-> seq] \in Movement
    BY <1>3, JoinedBinding DEF Input, Movement
  <2>2. inputs' \in Seq(Movement)
    BY <1>3, <2>1, AppendElements DEF Input
  <2>3. sentSeq' \in [Sessions -> Nat]
    BY <1>0, <1>3 DEF Input
  <2> QED
    BY <1>3, <2>2, <2>3 DEF Input
<1>4. CASE Cancel
  BY <1>4 DEF Cancel
<1>5. CASE TakeEventBatch
  <2>1. eventsOut' \in Seq(Seq(EventRec))
    BY <1>5, TailElements DEF TakeEventBatch
  <2>2. delivered' \in SUBSET StageEvent
    BY <1>5, StageEventsInType DEF TakeEventBatch
  <2> QED
    BY <1>5, <2>1, <2>2 DEF TakeEventBatch
<1>6. CASE TakeRewardBatch
  <2>1. rewardsOut' \in Seq(Seq(UpdateRec))
    BY <1>6, TailElements DEF TakeRewardBatch
  <2> QED
    BY <1>6, <2>1 DEF TakeRewardBatch
<1>7. CASE TakeSnapshot
  BY <1>7 DEF TakeSnapshot
<1> QED
  BY <1>1, <1>2, <1>3, <1>4, <1>5, <1>6, <1>7

\* A step of the room's goroutine keeps the room typed.
LEMMA RoomGoroutineType ==
    ASSUME RoomTyped, RoomStep
    PROVE  RoomTypeOK'
<1>0. /\ ControlsPerTick \in Nat /\ InputsPerTick \in Nat
      /\ budget > 0 => budget - 1 \in Nat
      /\ <<>> \in Seq(Movement)
  <2>1. ControlsPerTick \in Nat /\ InputsPerTick \in Nat
    BY RoomAssumption
  <2>2. budget \in Nat
    BY DEF RoomTyped, RoomTypeOK
  <2>3. budget > 0 => budget - 1 \in Nat
    BY <2>2
  <2> QED
    BY <2>1, <2>3
<1> USE DEF RoomTyped, RoomTypeOK, Phases, actorVars, queueVars, memberVars, channelVars
<1>1. CASE Tick \/ ControlsTaken \/ InputsTaken
  <2>1. CASE Tick
    BY <1>0, <2>1 DEF Tick
  <2>2. CASE ControlsTaken
    BY <1>0, <2>2 DEF ControlsTaken
  <2>3. CASE InputsTaken
    BY <2>3 DEF InputsTaken
  <2> QED
    BY <1>1, <2>1, <2>2, <2>3
<1>2. CASE TakeControl
  <2>1. Head(controls) \in Control /\ controls' \in Seq(Control)
    BY <1>2, TailElements DEF TakeControl, MoreControls
  <2>2. PICK result \in {"ok", "error"} :
           /\ ApplyRequest(Head(controls).request, result)
           /\ receipts' = [receipts EXCEPT ![Head(controls).caller] = result]
    BY <1>2 DEF TakeControl
  <2>3. /\ members' \in [Sessions -> Binding \cup {NoBinding}]
        /\ generation' \in Nat /\ sentSeq' \in [Sessions -> Nat] /\ timerArmed' \in BOOLEAN
    BY <2>1, <2>2, ApplyRequestType DEF Control
  <2>4. receipts' \in [Callers -> Receipts]
    BY <2>2 DEF Receipts
  <2>5. budget' \in Nat
    BY <1>0, <1>2 DEF TakeControl, MoreControls, Spend
  <2> QED
    BY <1>2, <2>1, <2>3, <2>4, <2>5 DEF TakeControl
<1>3. CASE TakeInput
  <2>1. inputs' \in Seq(Movement)
    BY <1>3, TailElements DEF TakeInput
  <2>2. budget' \in Nat
    BY <1>0, <1>3 DEF TakeInput
  <2> QED
    BY <1>3, <2>1, <2>2 DEF TakeInput
<1>4. CASE StepWorld
  BY <1>4 DEF StepWorld
<1>5. CASE SendEvents
  <2>1. eventsOut' \in Seq(Seq(EventRec))
    BY <1>5, AppendElements DEF SendEvents, WorldTypeOK
  <2> QED
    BY <1>5, <2>1 DEF SendEvents
<1>6. CASE SendRewards
  <2>1. rewardsOut' \in Seq(Seq(UpdateRec))
    BY <1>6, AppendElements DEF SendRewards, WorldTypeOK
  <2> QED
    BY <1>6, <2>1 DEF SendRewards
<1>7. CASE Publish
  BY <1>7 DEF Publish
<1>8. CASE StopCancelled \/ StopIdle
  BY <1>8 DEF StopCancelled, StopIdle, Stop
<1>9. CASE BeginFinish
  BY <1>9 DEF BeginFinish
<1>10. CASE DrainControl
  <2>1. Head(controls) \in Control /\ controls' \in Seq(Control)
    BY <1>10, TailElements DEF DrainControl
  <2>2. receipts' \in [Callers -> Receipts]
    BY <1>10 DEF DrainControl, Receipts
  <2> QED
    BY <1>10, <2>1, <2>2 DEF DrainControl
<1>11. CASE EndFinish
  <2>1. inputs' \in Seq(Movement)
    BY <1>0, <1>11 DEF EndFinish
  <2> QED
    BY <1>11, <2>1 DEF EndFinish
<1> QED
  BY <1>1, <1>2, <1>3, <1>4, <1>5, <1>6, <1>7, <1>8, <1>9, <1>10, <1>11 DEF RoomStep, TickStep

\* Every step of the room keeps it typed.
LEMMA RoomNextType == RoomTyped /\ [Next]_vars => RoomTyped'
<1> SUFFICES ASSUME RoomTyped, [Next]_vars PROVE RoomTyped'
  OBVIOUS
<1>1. WorldTypeOK'
  BY RoomStepIsWorldStep, NextType DEF RoomTyped
<1>2. CASE UNCHANGED vars
  BY <1>1, <1>2 DEF RoomTyped, RoomTypeOK, vars, actorVars, queueVars, memberVars, channelVars
<1>3. CASE Next
  BY <1>1, <1>3, CallerType, RoomGoroutineType DEF RoomTyped, Next
<1> QED
  BY <1>2, <1>3

\* Every reachable state is typed, the World's part included.
LEMMA RoomIsTyped == Spec => []RoomTyped
BY RoomInitType, RoomNextType, PTL DEF Spec

\* Every variable of a room keeps its type.
THEOREM RoomTypes == Spec => []RoomTypeOK
<1>1. RoomTyped => RoomTypeOK
  BY DEF RoomTyped
<1> QED
  BY <1>1, RoomIsTyped, PTL

\* A room drives its World only by the World's own actions, one at a time,
\* whatever its callers do (room.go: nothing but the room's goroutine touches
\* r.world).  So every theorem of WorldProofs holds of the World of a Room.
THEOREM RoomImplementsWorld == Spec => WorldSpec
<1>1. Init => WorldInit
  BY DEF Init
<1>2. RoomTyped /\ [Next]_vars => [WorldNext]_worldVars
  BY RoomStepIsWorldStep
<1> QED
  BY <1>1, <1>2, RoomIsTyped, PTL DEF Spec, WorldSpec

-----------------------------------------------------------------------------
(* Every accepted command is answered once *)

\* The places of a caller's commands in a queue.
Places(c, q) == {k \in DOMAIN q : q[k].caller = c}

\* A new command takes one place more.
LEMMA PlacesAppend ==
    ASSUME NEW q \in Seq(Control), NEW e \in Control, NEW c \in Callers
    PROVE  Places(c, Append(q, e)) =
              Places(c, q) \cup (IF e.caller = c THEN {Len(q) + 1} ELSE {})
<1>1. DOMAIN q = 1..Len(q) /\ DOMAIN Append(q, e) = 1..(Len(q) + 1)
  BY AppendElements
<1>2. Len(q) \in Nat /\ \A k \in 1..Len(q) : Append(q, e)[k] = q[k]
  BY AppendElements
<1>3. Append(q, e)[Len(q) + 1] = e
  BY AppendElements
<1> QED
  BY <1>1, <1>2, <1>3 DEF Places

\* When the head is taken, the places of its caller lose it and those of the
\* others move up.
LEMMA PlacesTail ==
    ASSUME NEW q \in Seq(Control), q # <<>>, NEW c \in Callers
    PROVE  /\ (1 \in Places(c, q)) <=> (Head(q).caller = c)
           /\ \A k : k \in Places(c, Tail(q)) <=> (k \in Nat \ {0} /\ k + 1 \in Places(c, q))
<1>1. /\ Head(q) = q[1] /\ Len(q) \in Nat \ {0} /\ Tail(q) \in Seq(Control)
      /\ Len(Tail(q)) = Len(q) - 1
      /\ \A k \in 1..Len(Tail(q)) : Tail(q)[k] = q[k + 1]
  BY TailElements
<1>2. DOMAIN q = 1..Len(q) /\ DOMAIN Tail(q) = 1..Len(Tail(q))
  BY <1>1
<1>3. 1 \in Places(c, q) <=> Head(q).caller = c
  BY <1>1, <1>2 DEF Places
<1>4. ASSUME NEW k
      PROVE  k \in Places(c, Tail(q)) <=> (k \in Nat \ {0} /\ k + 1 \in Places(c, q))
  <2>1. CASE k \in 1..Len(Tail(q))
    <3>1. k \in Nat \ {0} /\ k + 1 \in 1..Len(q) /\ Tail(q)[k] = q[k + 1]
      BY <1>1, <2>1
    <3> QED
      BY <1>2, <2>1, <3>1 DEF Places
  <2>2. CASE k \notin 1..Len(Tail(q))
    <3>1. ~(k \in Nat \ {0} /\ k + 1 \in 1..Len(q))
      BY <1>1, <2>2
    <3> QED
      BY <1>2, <2>2, <3>1 DEF Places
  <2> QED
    BY <2>1, <2>2
<1> QED
  BY <1>3, <1>4

\* The head of the queue is answered: its caller is no longer waiting and has
\* no command left, and nothing changes for the others.
LEMMA AnswerHead ==
    ASSUME RoomTypeOK, OneAnswerPerCommand, controls # <<>>,
           controls' = Tail(controls), NEW answer \in {"ok", "error", "closed"},
           receipts' = [receipts EXCEPT ![Head(controls).caller] = answer]
    PROVE  OneAnswerPerCommand'
<1>1. controls \in Seq(Control) /\ receipts \in [Callers -> Receipts]
  BY DEF RoomTypeOK
<1>2. \A c \in Callers : IF receipts[c] = "waiting" THEN \E k \in Places(c, controls) : Places(c, controls) = {k}
                         ELSE Places(c, controls) = {}
  BY DEF OneAnswerPerCommand, Places
<1>3. ASSUME NEW c \in Callers
      PROVE  IF receipts'[c] = "waiting"
             THEN \E k \in Places(c, Tail(controls)) : Places(c, Tail(controls)) = {k}
             ELSE Places(c, Tail(controls)) = {}
  <2>1. CASE c = Head(controls).caller
    <3>1. 1 \in Places(c, controls) /\ receipts'[c] = answer
      BY <1>1, <2>1, PlacesTail
    <3>2. Places(c, controls) = {1}
      BY <1>2, <3>1
    <3>3. \A k \in Nat \ {0} : k + 1 \notin Places(c, controls)
      BY <3>2
    <3>4. Places(c, Tail(controls)) = {}
      BY <1>1, <3>3, PlacesTail
    <3> QED
      BY <3>1, <3>4
  <2>2. CASE c # Head(controls).caller
    <3>1. receipts'[c] = receipts[c] /\ 1 \notin Places(c, controls)
      BY <1>1, <2>2, PlacesTail
    <3>2. Places(c, controls) \subseteq Nat \ {0}
      BY <1>1 DEF Places
    <3>3. CASE receipts[c] = "waiting"
      <4>1. PICK k \in Places(c, controls) : Places(c, controls) = {k}
        BY <1>2, <3>3
      <4>2. k - 1 \in Nat \ {0} /\ (k - 1) + 1 = k
        BY <3>1, <3>2, <4>1
      <4>3. Places(c, Tail(controls)) = {k - 1}
        <5>1. \A j : j \in Places(c, Tail(controls)) <=> (j \in Nat \ {0} /\ j + 1 = k)
          BY <1>1, <4>1, PlacesTail
        <5>2. \A j : (j \in Nat \ {0} /\ j + 1 = k) <=> j = k - 1
          BY <4>2
        <5> QED
          BY <5>1, <5>2
      <4> QED
        BY <3>1, <3>3, <4>3
    <3>4. CASE receipts[c] # "waiting"
      <4>1. Places(c, controls) = {}
        BY <1>2, <3>4
      <4>2. Places(c, Tail(controls)) = {}
        BY <1>1, <4>1, PlacesTail
      <4> QED
        BY <3>1, <3>4, <4>2
    <3> QED
      BY <3>3, <3>4
  <2> QED
    BY <2>1, <2>2
<1>4. OneAnswerPerCommand' <=>
         \A c \in Callers : IF receipts'[c] = "waiting"
                            THEN \E k \in Places(c, controls') : Places(c, controls') = {k}
                            ELSE Places(c, controls') = {}
  BY DEF OneAnswerPerCommand, Places
<1> QED
  BY <1>3, <1>4

\* A caller without a command in the queue submits one.
LEMMA SubmitAnswers ==
    ASSUME RoomTypeOK, OneAnswerPerCommand,
           NEW c \in Callers, NEW r \in Requests, Submit(c, r)
    PROVE  OneAnswerPerCommand'
<1> DEFINE e == [caller |-> c, request |-> r]
<1>1. controls \in Seq(Control) /\ receipts \in [Callers -> Receipts]
  BY DEF RoomTypeOK
<1>2. \A d \in Callers : IF receipts[d] = "waiting" THEN \E k \in Places(d, controls) : Places(d, controls) = {k}
                         ELSE Places(d, controls) = {}
  BY DEF OneAnswerPerCommand, Places
<1>3. /\ receipts[c] = "none" /\ receipts' = [receipts EXCEPT ![c] = "waiting"]
      /\ controls' = Append(controls, e)
  BY DEF Submit
<1>4. e \in Control /\ e.caller = c
  BY RoomAssumption DEF Control
<1> HIDE DEF e
<1>5. Places(c, controls) = {} /\ Places(c, controls') = {Len(controls) + 1}
  BY <1>1, <1>2, <1>3, <1>4, PlacesAppend
<1>6. ASSUME NEW d \in Callers \ {c}
      PROVE  Places(d, controls') = Places(d, controls) /\ receipts'[d] = receipts[d]
  <2>1. Places(d, Append(controls, e)) = Places(d, controls)
    <3>1. d \in Callers /\ e.caller # d
      BY <1>4
    <3>2. Places(d, Append(controls, e)) =
             Places(d, controls) \cup (IF e.caller = d THEN {Len(controls) + 1} ELSE {})
      BY <1>1, <1>4, <3>1, PlacesAppend
    <3> QED
      BY <3>1, <3>2
  <2>2. receipts'[d] = receipts[d]
    BY <1>1, <1>3
  <2> QED
    BY <1>3, <2>1, <2>2
<1>7. OneAnswerPerCommand' <=>
         \A d \in Callers : IF receipts'[d] = "waiting"
                            THEN \E k \in Places(d, controls') : Places(d, controls') = {k}
                            ELSE Places(d, controls') = {}
  BY DEF OneAnswerPerCommand, Places
<1>8. receipts'[c] = "waiting"
  BY <1>1, <1>3
<1> QED
  BY <1>2, <1>5, <1>6, <1>7, <1>8

\* Every step keeps commands and receipts matched.
LEMMA NextAnswers ==
    ASSUME RoomTypeOK, OneAnswerPerCommand, [Next]_vars
    PROVE  OneAnswerPerCommand'
<1>1. CASE UNCHANGED <<controls, receipts>>
  BY <1>1 DEF OneAnswerPerCommand
<1>2. ASSUME NEW c \in Callers, NEW r \in Requests, Submit(c, r) PROVE OneAnswerPerCommand'
  BY <1>2, SubmitAnswers
<1>3. ASSUME NEW c \in Callers, Collect(c) PROVE OneAnswerPerCommand'
  <2>1. /\ receipts[c] # "waiting" /\ receipts' = [receipts EXCEPT ![c] = "none"]
        /\ controls' = controls /\ receipts \in [Callers -> Receipts]
    BY <1>3 DEF Collect, RoomTypeOK
  <2>2. \A d \in Callers : receipts'[d] = "waiting" <=> receipts[d] = "waiting"
    BY <2>1
  <2> QED
    BY <2>1, <2>2 DEF OneAnswerPerCommand
<1>4. CASE TakeControl
  BY <1>4, AnswerHead DEF TakeControl, MoreControls
<1>5. CASE DrainControl
  BY <1>5, AnswerHead DEF DrainControl
<1>6. ASSUME NEW s \in Sessions, NEW seq \in 1..MaxSeq, Input(s, seq) PROVE OneAnswerPerCommand'
  BY <1>1, <1>6 DEF Input
<1>7. CASE Cancel \/ TakeEventBatch \/ TakeRewardBatch \/ TakeSnapshot
  BY <1>1, <1>7 DEF Cancel, TakeEventBatch, TakeRewardBatch, TakeSnapshot, queueVars
<1>8. CASE \/ Tick \/ ControlsTaken \/ TakeInput \/ InputsTaken \/ StepWorld \/ SendEvents
           \/ SendRewards \/ Publish \/ StopCancelled \/ StopIdle \/ BeginFinish \/ EndFinish
  BY <1>1, <1>8 DEF Tick, ControlsTaken, TakeInput, InputsTaken, StepWorld, SendEvents, SendRewards,
                    Publish, StopCancelled, StopIdle, Stop, BeginFinish, EndFinish, queueVars
<1>9. CASE UNCHANGED vars
  BY <1>1, <1>9 DEF vars, queueVars
<1> QED
  BY <1>2, <1>3, <1>4, <1>5, <1>6, <1>7, <1>8, <1>9 DEF Next, RoomStep, TickStep

\* A caller waits for exactly one answer while its one command is queued: none
\* is answered twice and finish leaves none unanswered (room.go, submit and
\* finish).
THEOREM CommandsAnsweredOnce == Spec => []OneAnswerPerCommand
<1>1. Init => OneAnswerPerCommand
  <2>1. Init => controls = <<>> /\ \A c \in Callers : receipts[c] = "none"
    BY DEF Init
  <2>2. DOMAIN <<>> = {}
    OBVIOUS
  <2> QED
    BY <2>1, <2>2 DEF OneAnswerPerCommand
<1>2. RoomTyped /\ OneAnswerPerCommand /\ [Next]_vars => OneAnswerPerCommand'
  BY NextAnswers DEF RoomTyped
<1> QED
  BY <1>1, <1>2, RoomIsTyped, PTL DEF Spec

-----------------------------------------------------------------------------
(* Who is in the room *)

\* A tick of the World neither adds nor removes a player nor accepts an input.
LEMMA StepKeepsPlayers ==
    ASSUME WorldTypeOK, Step
    PROVE  Present' = Present /\ inputSeq' = inputSeq
<1>1. ASSUME NEW fallen \in SUBSET Players, NEW rest \in 0..MaxMonsters, NEW shots \in BOOLEAN,
             StepCombat(fallen, rest, shots)
      PROVE  Present' = Present /\ inputSeq' = inputSeq
  <2>1. Present' = Present
    BY <1>1, StepCombatEffect
  <2>2. inputSeq' = inputSeq
    BY <1>1 DEF StepCombat
  <2> QED
    BY <2>1, <2>2
<1>2. CASE StepReward
  <2>1. life' = life /\ inputSeq' = inputSeq
    BY <1>2 DEF StepReward, ApplySelections, playerVars
  <2> QED
    BY <2>1 DEF Present
<1> QED
  BY <1>1, <1>2 DEF Step

\* The stage and reward commands leave the players and their inputs alone.
LEMMA StagesKeepPlayers ==
    ASSUME \/ \E i \in 1..MaxStage : StartStage(i)
           \/ StartReward
           \/ \E p \in Players, item \in Items : ChooseReward(p, item)
    PROVE  Present' = Present /\ inputSeq' = inputSeq
<1>1. ASSUME NEW i \in 1..MaxStage, StartStage(i) PROVE Present' = Present /\ inputSeq' = inputSeq
  <2>1. inputSeq' = inputSeq
    BY <1>1 DEF StartStage
  <2>2. \/ life' = life
        \/ life' = [p \in Players |-> IF p \in Present THEN "alive" ELSE "absent"]
    BY <1>1 DEF StartStage
  <2>3. Present' = Present
    BY <2>2 DEF Present
  <2> QED
    BY <2>1, <2>3
<1>2. CASE StartReward
  BY <1>2 DEF StartReward, playerVars, Present
<1>3. ASSUME NEW p \in Players, NEW item \in Items, ChooseReward(p, item)
      PROVE  Present' = Present /\ inputSeq' = inputSeq
  BY <1>3 DEF ChooseReward, ApplySelections, Present
<1> QED
  BY <1>1, <1>2, <1>3

\* A session of the room is bound to a player that was not in the World.
Binds(s, p) ==
    /\ ~Joined(s) /\ p \notin Present
    /\ Present' = Present \cup {p}
    /\ inputSeq' = [inputSeq EXCEPT ![p] = 0]
    /\ generation' = generation + 1
    /\ members' = [members EXCEPT ![s] = [player |-> p, generation |-> generation + 1]]
    /\ sentSeq' = [sentSeq EXCEPT ![s] = 0]
    /\ timerArmed' = FALSE

\* A session of the room loses its binding and the World its player.
Unbinds(s) ==
    LET p == members[s].player
    IN  /\ Joined(s)
        /\ Present' = Present \ {p}
        /\ inputSeq' = [inputSeq EXCEPT ![p] = 0]
        /\ members' = [members EXCEPT ![s] = NoBinding]
        /\ UNCHANGED <<generation, sentSeq>>
        /\ timerArmed' = TimerAfterLeave(p)

\* Neither.
KeepsMembers ==
    /\ Present' = Present /\ inputSeq' = inputSeq
    /\ UNCHANGED <<memberVars, timerArmed>>

\* A command binds one session, unbinds one, or leaves membership alone.
LEMMA ApplyRequestMembers ==
    ASSUME RoomTyped, NEW r \in Request, NEW result, ApplyRequest(r, result)
    PROVE  \/ KeepsMembers
           \/ \E s \in Sessions, p \in Players : Binds(s, p)
           \/ \E s \in Sessions : Unbinds(s)
<1>0. RoomTypeOK /\ life \in [Players -> {"absent", "alive", "dead"}]
  BY DEF RoomTyped, WorldTypeOK
<1>1. CASE Quiet
  BY <1>1 DEF Quiet, KeepsMembers, worldVars, playerVars, Present
<1>2. CASE r.op = "join" /\ ApplyJoin(r, result) /\ ~Quiet
  <2>1. /\ ~Joined(r.session) /\ AddPlayer(r.player)
        /\ generation' = generation + 1
        /\ members' = [members EXCEPT ![r.session] = [player |-> r.player, generation |-> generation + 1]]
        /\ sentSeq' = [sentSeq EXCEPT ![r.session] = 0]
        /\ timerArmed' = FALSE
    BY <1>2 DEF ApplyJoin, AlreadyBound
  <2>2. r.session \in Sessions /\ r.player \in Players
    BY <1>2, RequestFields
  <2>3. /\ r.player \notin Present /\ life' = [life EXCEPT ![r.player] = "alive"]
        /\ inputSeq' = [inputSeq EXCEPT ![r.player] = 0]
    BY <2>1 DEF AddPlayer, CanAddPlayer
  <2>4. Present' = Present \cup {r.player}
    BY <1>0, <2>2, <2>3 DEF Present
  <2>5. Binds(r.session, r.player)
    BY <2>1, <2>3, <2>4 DEF Binds
  <2> QED
    BY <2>2, <2>5
<1>3. CASE r.op = "leave" /\ ApplyLeave(r, result) /\ ~Quiet
  <2>1. /\ Joined(r.session) /\ RemovePlayer(members[r.session].player)
        /\ members' = [members EXCEPT ![r.session] = NoBinding]
        /\ timerArmed' = TimerAfterLeave(members[r.session].player)
        /\ UNCHANGED <<generation, sentSeq>>
    BY <1>3 DEF ApplyLeave
  <2>2. r.session \in Sessions
    BY <1>3, RequestFields
  <2>3. /\ life' = [life EXCEPT ![members[r.session].player] = "absent"]
        /\ inputSeq' = [inputSeq EXCEPT ![members[r.session].player] = 0]
    BY <2>1 DEF RemovePlayer
  <2>4. Present' = Present \ {members[r.session].player}
    BY <1>0, <2>1, <2>2, <2>3, JoinedBinding DEF Present
  <2>5. Unbinds(r.session)
    BY <2>1, <2>3, <2>4 DEF Unbinds
  <2> QED
    BY <2>2, <2>5
<1>4. CASE ~Quiet /\ r.op # "join" /\ r.op # "leave"
  <2>1. /\ UNCHANGED <<memberVars, timerArmed>>
        /\ \/ r.op = "startStage" /\ StartStage(r.index)
           \/ r.op = "startReward" /\ StartReward
           \/ r.op = "chooseReward" /\ Joined(r.session) /\ ChooseReward(members[r.session].player, r.item)
    BY <1>4 DEF ApplyRequest, WorldCommand, ApplyChoose, ApplyRead
  <2>2. Present' = Present /\ inputSeq' = inputSeq
    BY <1>0, <2>1, RequestFields, JoinedBinding, StagesKeepPlayers
  <2> QED
    BY <2>1, <2>2 DEF KeepsMembers
<1> QED
  BY <1>1, <1>2, <1>3, <1>4 DEF ApplyRequest

\* The generations given to bindings so far.
GenerationsIssued == \A s \in JoinedSessions : members[s].generation <= generation

\* A queued input was sent under a binding that has been made, and if that
\* binding still stands, it is among the inputs counted as sent under it.
QueuedInputsAreSent ==
    \A k \in DOMAIN inputs :
        LET m == inputs[k]
        IN  /\ m.generation <= generation
            /\ CurrentBinding(m) => m.seq <= sentSeq[m.session]

\* The room gives "idle" as its reason only when it stops.
IdleMeansStopping == phase \notin {"finish", "drain", "done"} => closeReason # "idle"

TableInv == MembersMatchPlayers /\ GenerationsIssued
InputsInv == QueuedInputsAreSent /\ InputsOfCurrentBinding
IdleInv == IdleOnlyWhenEmpty /\ IdleMeansStopping

\* What a binding changes in the two tables.
LEMMA BindsTables ==
    ASSUME RoomTyped, NEW s \in Sessions, NEW p \in Players, Binds(s, p)
    PROVE  /\ JoinedSessions' = JoinedSessions \cup {s} /\ s \notin JoinedSessions
           /\ members'[s] = [player |-> p, generation |-> generation + 1]
           /\ \A t \in JoinedSessions : members'[t] = members[t]
<1>1. /\ ~Joined(s) /\ members \in [Sessions -> Binding \cup {NoBinding}] /\ generation \in Nat
      /\ members' = [members EXCEPT ![s] = [player |-> p, generation |-> generation + 1]]
  BY DEF Binds, RoomTyped, RoomTypeOK
<1>2. [player |-> p, generation |-> generation + 1] # NoBinding
  BY <1>1, RoomAssumption
<1>3. s \notin JoinedSessions
  BY <1>1 DEF JoinedSessions
<1>4. \A t \in Sessions : members'[t] = IF t = s THEN [player |-> p, generation |-> generation + 1] ELSE members[t]
  BY <1>1
<1> QED
  BY <1>2, <1>3, <1>4 DEF JoinedSessions, Joined

\* What an unbinding changes in them.
LEMMA UnbindsTables ==
    ASSUME RoomTyped, NEW s \in Sessions, Unbinds(s)
    PROVE  /\ JoinedSessions' = JoinedSessions \ {s} /\ s \in JoinedSessions
           /\ \A t \in JoinedSessions \ {s} : members'[t] = members[t]
<1>1. /\ Joined(s) /\ members \in [Sessions -> Binding \cup {NoBinding}]
      /\ members' = [members EXCEPT ![s] = NoBinding]
  BY DEF Unbinds, RoomTyped, RoomTypeOK
<1>2. \A t \in Sessions : members'[t] = IF t = s THEN NoBinding ELSE members[t]
  BY <1>1
<1> QED
  BY <1>1, <1>2 DEF JoinedSessions, Joined

\* A binding keeps the tables matched.
LEMMA BindsKeepsTables ==
    ASSUME RoomTyped, TableInv, NEW s \in Sessions, NEW p \in Players, Binds(s, p)
    PROVE  TableInv'
<1>1. /\ JoinedSessions' = JoinedSessions \cup {s} /\ s \notin JoinedSessions
      /\ members'[s] = [player |-> p, generation |-> generation + 1]
      /\ \A t \in JoinedSessions : members'[t] = members[t]
  BY BindsTables
<1>2. members'[s].player = p /\ members'[s].generation = generation + 1
  BY <1>1
<1>3. Present' = Present \cup {p} /\ p \notin Present /\ generation' = generation + 1
  BY DEF Binds
<1>4. generation \in Nat /\ \A t \in JoinedSessions : members[t].generation \in Nat
  BY JoinedBinding DEF RoomTyped, RoomTypeOK, JoinedSessions
<1>5. /\ Present = {members[t].player : t \in JoinedSessions}
      /\ \A t, u \in JoinedSessions :
            (members[t].player = members[u].player \/ members[t].generation = members[u].generation) => t = u
      /\ \A t \in JoinedSessions : members[t].generation <= generation
  BY DEF TableInv, MembersMatchPlayers, GenerationsIssued
<1>6. Present' = {members'[t].player : t \in JoinedSessions'}
  BY <1>1, <1>2, <1>3, <1>5
<1>7. ASSUME NEW t \in JoinedSessions', NEW u \in JoinedSessions',
             members'[t].player = members'[u].player \/ members'[t].generation = members'[u].generation
      PROVE  t = u
  <2>1. \A v \in JoinedSessions : members'[v].player # p /\ members'[v].generation <= generation
    BY <1>1, <1>3, <1>5
  <2>2. CASE t = s \/ u = s
    BY <1>1, <1>2, <1>4, <1>7, <2>1, <2>2
  <2>3. CASE t # s /\ u # s
    BY <1>1, <1>5, <1>7, <2>3
  <2> QED
    BY <2>2, <2>3
<1>8. GenerationsIssued'
  BY <1>1, <1>2, <1>3, <1>4, <1>5 DEF GenerationsIssued
<1> QED
  BY <1>6, <1>7, <1>8 DEF TableInv, MembersMatchPlayers

\* An unbinding keeps the tables matched.
LEMMA UnbindsKeepsTables ==
    ASSUME RoomTyped, TableInv, NEW s \in Sessions, Unbinds(s)
    PROVE  TableInv'
<1>1. /\ JoinedSessions' = JoinedSessions \ {s} /\ s \in JoinedSessions
      /\ \A t \in JoinedSessions \ {s} : members'[t] = members[t]
  BY UnbindsTables
<1>2. Present' = Present \ {members[s].player} /\ generation' = generation
  BY DEF Unbinds
<1>3. /\ Present = {members[t].player : t \in JoinedSessions}
      /\ \A t, u \in JoinedSessions :
            (members[t].player = members[u].player \/ members[t].generation = members[u].generation) => t = u
      /\ \A t \in JoinedSessions : members[t].generation <= generation
  BY DEF TableInv, MembersMatchPlayers, GenerationsIssued
<1>4. Present' = {members'[t].player : t \in JoinedSessions'}
  BY <1>1, <1>2, <1>3
<1>5. GenerationsIssued'
  BY <1>1, <1>2, <1>3 DEF GenerationsIssued
<1> QED
  BY <1>1, <1>3, <1>4, <1>5 DEF TableInv, MembersMatchPlayers

\* What does not touch membership keeps the tables matched.
LEMMA TablesUnchanged ==
    ASSUME TableInv, Present' = Present, UNCHANGED <<members, generation>>
    PROVE  TableInv'
<1>1. JoinedSessions' = JoinedSessions
  BY DEF JoinedSessions, Joined
<1> QED
  BY <1>1 DEF TableInv, MembersMatchPlayers, GenerationsIssued

\* Only a command or the end of the room changes who is in it.
LEMMA OthersKeepPlayers ==
    ASSUME RoomTyped, [Next]_vars, ~TakeControl, ~EndFinish
    PROVE  Present' = Present /\ UNCHANGED <<members, generation>>
<1> DEFINE Goal == Present' = Present /\ UNCHANGED <<members, generation>>
<1>1. CASE UNCHANGED <<worldVars, memberVars>>
  BY <1>1 DEF worldVars, playerVars, memberVars, Present
<1>2. ASSUME NEW c \in Callers, NEW r \in Requests, Submit(c, r) PROVE Goal
  BY <1>1, <1>2 DEF Submit
<1>3. ASSUME NEW c \in Callers, Collect(c) PROVE Goal
  BY <1>1, <1>3 DEF Collect
<1>4. ASSUME NEW s \in Sessions, NEW seq \in 1..MaxSeq, Input(s, seq) PROVE Goal
  BY <1>4 DEF Input, worldVars, playerVars, Present
<1>5. CASE Cancel \/ TakeEventBatch \/ TakeRewardBatch \/ TakeSnapshot
  BY <1>1, <1>5 DEF Cancel, TakeEventBatch, TakeRewardBatch, TakeSnapshot
<1>6. CASE \/ Tick \/ ControlsTaken \/ InputsTaken \/ Publish
           \/ StopCancelled \/ StopIdle \/ BeginFinish \/ DrainControl
  BY <1>1, <1>6 DEF Tick, ControlsTaken, InputsTaken, Publish, StopCancelled, StopIdle, Stop,
                    BeginFinish, DrainControl
<1>7. CASE TakeInput
  <2>1. UNCHANGED memberVars /\ life' = life
    BY <1>7 DEF TakeInput, ApplyInput, worldVars, playerVars
  <2> QED
    BY <2>1 DEF memberVars, Present
<1>8. CASE StepWorld
  BY <1>8, StepKeepsPlayers DEF StepWorld, RoomTyped, memberVars
<1>9. CASE SendEvents \/ SendRewards
  BY <1>9 DEF SendEvents, TakeEvents, SendRewards, TakeRewardUpdates, playerVars, memberVars, Present
<1>10. CASE UNCHANGED vars
  BY <1>1, <1>10 DEF vars
<1> QED
  BY <1>2, <1>3, <1>4, <1>5, <1>6, <1>7, <1>8, <1>9, <1>10 DEF Next, RoomStep, TickStep

\* What taking a command does to who is in the room.
LEMMA TakeControlMembers ==
    ASSUME RoomTyped, TakeControl
    PROVE  \/ KeepsMembers
           \/ \E s \in Sessions, p \in Players : Binds(s, p)
           \/ \E s \in Sessions : Unbinds(s)
<1>1. Head(controls) \in Control
  BY TailElements DEF TakeControl, MoreControls, Spend, RoomTyped, RoomTypeOK
<1>2. Head(controls).request \in Request
  BY <1>1 DEF Control
<1>3. PICK result \in {"ok", "error"} : ApplyRequest(Head(controls).request, result)
  BY DEF TakeControl
<1> QED
  BY <1>2, <1>3, ApplyRequestMembers

\* Nobody is in a room that ended.
LEMMA EndFinishEmpties ==
    ASSUME EndFinish
    PROVE  Present' = {} /\ JoinedSessions' = {}
BY DEF EndFinish, Close, Present, JoinedSessions, Joined

\* Every step keeps the tables matched.
LEMMA NextTables ==
    ASSUME RoomTyped, TableInv, [Next]_vars
    PROVE  TableInv'
<1>1. CASE TakeControl
  <2>1. CASE KeepsMembers
    BY <2>1, TablesUnchanged DEF KeepsMembers, memberVars
  <2> QED
    BY <1>1, <2>1, TakeControlMembers, BindsKeepsTables, UnbindsKeepsTables
<1>2. CASE EndFinish
  BY <1>2, EndFinishEmpties DEF TableInv, MembersMatchPlayers, GenerationsIssued
<1>3. CASE ~TakeControl /\ ~EndFinish
  BY <1>3, OthersKeepPlayers, TablesUnchanged
<1> QED
  BY <1>1, <1>2, <1>3

\* The two membership tables agree in every reachable state.
LEMMA TablesAlwaysMatch == Spec => []TableInv
<1>1. Init => TableInv
  BY DEF Init, WorldInit, TableInv, MembersMatchPlayers, GenerationsIssued, JoinedSessions, Joined,
         Present
<1>2. RoomTyped /\ TableInv /\ [Next]_vars => TableInv'
  BY NextTables
<1> QED
  BY <1>1, <1>2, RoomIsTyped, PTL DEF Spec

\* The room's table of sessions and the World's table of players correspond
\* one to one (room.go, applyControl).
THEOREM MembershipTablesMatch == Spec => []MembersMatchPlayers
<1>1. TableInv => MembersMatchPlayers
  BY DEF TableInv
<1> QED
  BY <1>1, TablesAlwaysMatch, PTL

-----------------------------------------------------------------------------
(* The empty timer *)

\* A command keeps the timer running exactly while nobody is in the room.
LEMMA TakeControlTimer ==
    ASSUME RoomTyped, TableInv, IdleInv, TakeControl
    PROVE  IdleInv'
<1>1. phase = "controls" /\ phase' = "controls" /\ closeReason' = closeReason
  BY DEF TakeControl
<1>2. (timerArmed <=> Present = {}) /\ closeReason # "idle"
  BY <1>1 DEF IdleInv, IdleOnlyWhenEmpty, IdleMeansStopping
<1>3. timerArmed' <=> Present' = {}
  <2>1. CASE KeepsMembers
    BY <1>2, <2>1 DEF KeepsMembers
  <2>2. ASSUME NEW s \in Sessions, NEW p \in Players, Binds(s, p) PROVE timerArmed' <=> Present' = {}
    BY <2>2 DEF Binds
  <2>3. ASSUME NEW s \in Sessions, Unbinds(s) PROVE timerArmed' <=> Present' = {}
    <3>1. members[s].player \in Present
      BY <2>3, UnbindsTables DEF TableInv, MembersMatchPlayers
    <3> QED
      BY <1>2, <2>3, <3>1 DEF Unbinds, TimerAfterLeave
  <2> QED
    BY <2>1, <2>2, <2>3, TakeControlMembers
<1> QED
  BY <1>1, <1>2, <1>3 DEF IdleInv, IdleOnlyWhenEmpty, IdleMeansStopping

\* Every step keeps it running exactly while nobody is in the room, and only
\* its firing gives "idle" as the reason to close.
LEMMA NextIdle ==
    ASSUME RoomTyped, TableInv, IdleInv, [Next]_vars
    PROVE  IdleInv'
<1>1. CASE TakeControl
  BY <1>1, TakeControlTimer
<1>2. CASE EndFinish
  BY <1>2, EndFinishEmpties DEF EndFinish, IdleInv, IdleOnlyWhenEmpty, IdleMeansStopping
<1>3. CASE ~TakeControl /\ ~EndFinish
  <2>1. Present' = Present
    BY <1>3, OthersKeepPlayers
  <2>2. CASE UNCHANGED <<phase, timerArmed, closeReason>>
    BY <2>1, <2>2 DEF IdleInv, IdleOnlyWhenEmpty, IdleMeansStopping
  <2>3. ASSUME NEW c \in Callers, NEW r \in Requests, Submit(c, r) PROVE IdleInv'
    BY <2>2, <2>3 DEF Submit, actorVars
  <2>4. ASSUME NEW c \in Callers, Collect(c) PROVE IdleInv'
    BY <2>2, <2>4 DEF Collect, actorVars
  <2>5. ASSUME NEW s \in Sessions, NEW seq \in 1..MaxSeq, Input(s, seq) PROVE IdleInv'
    BY <2>2, <2>5 DEF Input, actorVars
  <2>6. CASE Cancel \/ TakeEventBatch \/ TakeRewardBatch \/ TakeSnapshot \/ TakeInput \/ DrainControl
    BY <2>2, <2>6 DEF Cancel, TakeEventBatch, TakeRewardBatch, TakeSnapshot, TakeInput, DrainControl,
                      actorVars
  <2>7. CASE Tick \/ ControlsTaken \/ InputsTaken \/ StepWorld
    <3>1. /\ phase \in {"select", "controls", "inputs", "step"}
          /\ phase' \in {"controls", "inputs", "step", "events"}
          /\ UNCHANGED <<timerArmed, closeReason>>
      BY <2>7 DEF Tick, ControlsTaken, InputsTaken, StepWorld
    <3> QED
      BY <2>1, <3>1 DEF IdleInv, IdleOnlyWhenEmpty, IdleMeansStopping
  <2>8. CASE SendEvents \/ SendRewards
    <3>1. /\ phase \in {"events", "rewards"} /\ phase' \in {"rewards", "publish"}
          /\ timerArmed' = timerArmed /\ closeReason' \in {closeReason, "event_backpressure"}
      BY <2>8 DEF SendEvents, SendRewards
    <3> QED
      BY <2>1, <3>1 DEF IdleInv, IdleOnlyWhenEmpty, IdleMeansStopping
  <2>9. CASE Publish
    <3>1. /\ phase = "publish" /\ phase' \in {"finish", "select"}
          /\ UNCHANGED <<timerArmed, closeReason>>
      BY <2>9 DEF Publish
    <3> QED
      BY <2>1, <3>1 DEF IdleInv, IdleOnlyWhenEmpty, IdleMeansStopping
  <2>10. CASE StopCancelled \/ StopIdle
    <3>1. /\ phase = "select" /\ phase' = "finish" /\ timerArmed' = timerArmed
          /\ closeReason' = "idle" => timerArmed
      BY <2>10 DEF StopCancelled, StopIdle, Stop
    <3> QED
      BY <2>1, <3>1 DEF IdleInv, IdleOnlyWhenEmpty, IdleMeansStopping
  <2>11. CASE BeginFinish
    <3>1. phase = "finish" /\ phase' = "drain" /\ UNCHANGED <<timerArmed, closeReason>>
      BY <2>11 DEF BeginFinish
    <3> QED
      BY <2>1, <3>1 DEF IdleInv, IdleOnlyWhenEmpty, IdleMeansStopping
  <2>12. CASE UNCHANGED vars
    BY <2>2, <2>12 DEF vars, actorVars
  <2> QED
    BY <1>3, <2>3, <2>4, <2>5, <2>6, <2>7, <2>8, <2>9, <2>10, <2>11, <2>12 DEF Next, RoomStep, TickStep
<1> QED
  BY <1>1, <1>2, <1>3

\* A room that still has a player never closes as idle, and an empty one has
\* its timer running (room.go: Stop in the join, Reset in the leave).
THEOREM RoomIsIdleOnlyWhenEmpty == Spec => []IdleOnlyWhenEmpty
<1>1. Init => IdleInv
  BY DEF Init, WorldInit, IdleInv, IdleOnlyWhenEmpty, IdleMeansStopping, Present
<1>2. RoomTyped /\ TableInv /\ IdleInv /\ [Next]_vars => IdleInv'
  BY NextIdle
<1>3. IdleInv => IdleOnlyWhenEmpty
  BY DEF IdleInv
<1> QED
  BY <1>1, <1>2, <1>3, RoomIsTyped, TablesAlwaysMatch, PTL DEF Spec

-----------------------------------------------------------------------------
(* Inputs and bindings *)

\* A new binding is not the one any queued input was sent under.
LEMMA BindsKeepsInputs ==
    ASSUME RoomTyped, TableInv, InputsInv, UNCHANGED inputs,
           NEW s \in Sessions, NEW p \in Players, Binds(s, p)
    PROVE  InputsInv'
<1>1. /\ JoinedSessions' = JoinedSessions \cup {s} /\ s \notin JoinedSessions
      /\ members'[s] = [player |-> p, generation |-> generation + 1]
      /\ \A t \in JoinedSessions : members'[t] = members[t]
  BY BindsTables
<1>2. members'[s].player = p /\ members'[s].generation = generation + 1
  BY <1>1
<1>3. /\ sentSeq' = [sentSeq EXCEPT ![s] = 0] /\ sentSeq \in [Sessions -> Nat]
      /\ inputSeq' = [inputSeq EXCEPT ![p] = 0] /\ inputSeq \in [Players -> Nat]
      /\ generation' = generation + 1 /\ generation \in Nat /\ p \notin Present
  BY DEF Binds, RoomTyped, RoomTypeOK, WorldTypeOK
<1>4. inputs \in Seq(Movement)
  BY DEF RoomTyped, RoomTypeOK
<1>5. \A t \in JoinedSessions : /\ members[t].player \in Players /\ members[t].player # p
                                /\ inputSeq[members[t].player] <= sentSeq[t]
  BY JoinedBinding, <1>3 DEF InputsInv, InputsOfCurrentBinding, TableInv, MembersMatchPlayers,
     JoinedSessions, RoomTyped
<1>6. InputsOfCurrentBinding'
  <2> SUFFICES ASSUME NEW t \in JoinedSessions' PROVE inputSeq'[members'[t].player] <= sentSeq'[t]
    BY DEF InputsOfCurrentBinding
  <2>1. CASE t = s
    BY <1>2, <1>3, <2>1
  <2>2. CASE t # s
    <3>1. t \in JoinedSessions /\ members'[t] = members[t] /\ t \in Sessions
      BY <1>1, <2>2 DEF JoinedSessions
    <3>2. inputSeq'[members[t].player] = inputSeq[members[t].player] /\ sentSeq'[t] = sentSeq[t]
      BY <1>3, <1>5, <2>2, <3>1
    <3> QED
      BY <1>5, <3>1, <3>2
  <2> QED
    BY <2>1, <2>2
<1>7. QueuedInputsAreSent'
  <2> SUFFICES ASSUME NEW k \in DOMAIN inputs
               PROVE  /\ inputs[k].generation <= generation + 1
                      /\ CurrentBinding(inputs[k])' => inputs[k].seq <= sentSeq'[inputs[k].session]
    BY <1>3 DEF QueuedInputsAreSent
  <2> DEFINE m == inputs[k]
  <2>1. m \in Movement
    BY <1>4
  <2>2. m.session \in Sessions /\ m.generation \in Nat
    BY <2>1 DEF Movement
  <2>3. /\ m.generation <= generation
        /\ CurrentBinding(m) => m.seq <= sentSeq[m.session]
    BY DEF InputsInv, QueuedInputsAreSent
  <2> HIDE DEF m
  <2>4. CASE m.session = s
    <3>1. members'[m.session].generation # m.generation
      BY <1>2, <1>3, <2>2, <2>3, <2>4
    <3>2. ~CurrentBinding(m)'
      BY <3>1 DEF CurrentBinding, m
    <3> QED
      BY <1>3, <2>2, <2>3, <3>2 DEF m
  <2>5. CASE m.session # s
    <3>1. sentSeq'[m.session] = sentSeq[m.session]
      BY <1>3, <2>2, <2>5
    <3>2. CurrentBinding(m)' => CurrentBinding(m)
      BY <1>1, <2>2, <2>5 DEF CurrentBinding, JoinedSessions, m
    <3> QED
      BY <1>3, <2>2, <2>3, <3>1, <3>2 DEF m
  <2> QED
    BY <2>4, <2>5
<1> QED
  BY <1>6, <1>7 DEF InputsInv

\* An unbinding leaves the other sessions' inputs as they were.
LEMMA UnbindsKeepsInputs ==
    ASSUME RoomTyped, TableInv, InputsInv, UNCHANGED inputs, NEW s \in Sessions, Unbinds(s)
    PROVE  InputsInv'
<1>1. /\ JoinedSessions' = JoinedSessions \ {s} /\ s \in JoinedSessions
      /\ \A t \in JoinedSessions \ {s} : members'[t] = members[t]
  BY UnbindsTables
<1>2. /\ inputSeq' = [inputSeq EXCEPT ![members[s].player] = 0] /\ inputSeq \in [Players -> Nat]
      /\ sentSeq' = sentSeq /\ generation' = generation
  BY DEF Unbinds, RoomTyped, WorldTypeOK
<1>3. \A t \in JoinedSessions \ {s} : /\ members[t].player \in Players
                                      /\ members[t].player # members[s].player
                                      /\ inputSeq[members[t].player] <= sentSeq[t]
  BY <1>1, JoinedBinding DEF InputsInv, InputsOfCurrentBinding, TableInv, MembersMatchPlayers,
     JoinedSessions, RoomTyped
<1>4. InputsOfCurrentBinding'
  <2> SUFFICES ASSUME NEW t \in JoinedSessions' PROVE inputSeq'[members'[t].player] <= sentSeq'[t]
    BY DEF InputsOfCurrentBinding
  <2>1. t \in JoinedSessions \ {s} /\ members'[t] = members[t]
    BY <1>1
  <2>2. inputSeq'[members[t].player] = inputSeq[members[t].player]
    BY <1>2, <1>3, <2>1
  <2> QED
    BY <1>2, <1>3, <2>1, <2>2
<1>5. inputs \in Seq(Movement)
  BY DEF RoomTyped, RoomTypeOK
<1>6. \A k \in DOMAIN inputs : CurrentBinding(inputs[k])' => CurrentBinding(inputs[k])
  <2> SUFFICES ASSUME NEW k \in DOMAIN inputs, CurrentBinding(inputs[k])'
               PROVE  CurrentBinding(inputs[k])
    OBVIOUS
  <2>1. inputs[k] \in Movement
    BY <1>5
  <2>2. inputs[k].session \in Sessions
    BY <2>1 DEF Movement
  <2>3. inputs[k].session \in JoinedSessions'
    BY <2>2 DEF CurrentBinding, JoinedSessions, Joined
  <2> QED
    BY <1>1, <2>3 DEF CurrentBinding, JoinedSessions
<1>7. QueuedInputsAreSent'
  BY <1>2, <1>6 DEF InputsInv, QueuedInputsAreSent
<1> QED
  BY <1>4, <1>7 DEF InputsInv

\* What touches neither membership nor inputs keeps them.
LEMMA InputsUnchanged ==
    ASSUME InputsInv, UNCHANGED <<inputs, inputSeq, memberVars>>
    PROVE  InputsInv'
BY DEF InputsInv, InputsOfCurrentBinding, QueuedInputsAreSent, CurrentBinding, JoinedSessions, Joined,
       memberVars

\* An input is queued under the binding it was sent under.
LEMMA InputKeepsInputs ==
    ASSUME RoomTyped, TableInv, InputsInv,
           NEW s \in Sessions, NEW seq \in 1..MaxSeq, Input(s, seq)
    PROVE  InputsInv'
<1> DEFINE e == [session |-> s, generation |-> members[s].generation, seq |-> seq]
<1>1. /\ Joined(s) /\ inputs' = Append(inputs, e)
      /\ sentSeq' = [sentSeq EXCEPT ![s] = IF seq > @ THEN seq ELSE @]
      /\ UNCHANGED <<members, generation, inputSeq>>
  BY DEF Input, worldVars, playerVars
<1>2. inputs \in Seq(Movement) /\ sentSeq \in [Sessions -> Nat]
  BY DEF RoomTyped, RoomTypeOK
<1>3. e \in Movement /\ e.session = s /\ e.seq = seq /\ e.generation = members[s].generation
  BY <1>1, JoinedBinding DEF Movement, RoomTyped
<1> HIDE DEF e
<1>4. \A t \in Sessions : sentSeq[t] \in Nat /\ sentSeq'[t] \in Nat /\ sentSeq'[t] >= sentSeq[t]
  BY <1>1, <1>2
<1>5. sentSeq'[s] >= seq
  BY <1>1, <1>2
<1>6. InputsOfCurrentBinding'
  <2>1. \A t \in JoinedSessions : /\ t \in Sessions /\ inputSeq[members[t].player] \in Nat
                                  /\ inputSeq[members[t].player] <= sentSeq[t]
    BY JoinedBinding DEF InputsInv, InputsOfCurrentBinding, JoinedSessions, RoomTyped, WorldTypeOK
  <2>2. JoinedSessions' = JoinedSessions
    BY <1>1 DEF JoinedSessions, Joined
  <2> QED
    BY <1>1, <1>4, <2>1, <2>2 DEF InputsOfCurrentBinding
<1>7. QueuedInputsAreSent'
  <2> SUFFICES ASSUME NEW k \in DOMAIN inputs'
               PROVE  /\ inputs'[k].generation <= generation
                      /\ CurrentBinding(inputs[k])' => inputs'[k].seq <= sentSeq'[inputs'[k].session]
    BY <1>1 DEF QueuedInputsAreSent
  <2>1. CASE k \in DOMAIN inputs
    <3>1. inputs'[k] = inputs[k] /\ inputs[k] \in Movement
      BY <1>1, <1>2, <1>3, <2>1, AppendElements
    <3>2. inputs[k].session \in Sessions /\ inputs[k].seq \in Nat
      BY <3>1 DEF Movement
    <3>3. /\ inputs[k].generation <= generation
          /\ CurrentBinding(inputs[k]) => inputs[k].seq <= sentSeq[inputs[k].session]
      BY <2>1 DEF InputsInv, QueuedInputsAreSent
    <3>4. CurrentBinding(inputs[k])' => CurrentBinding(inputs[k])
      BY <1>1, <2>1, <3>1 DEF CurrentBinding, Joined
    <3> QED
      BY <1>4, <3>1, <3>2, <3>3, <3>4
  <2>2. CASE k \notin DOMAIN inputs
    <3>1. inputs'[k] = e
      BY <1>1, <1>2, <1>3, <2>2, AppendElements
    <3>2. members[s].generation <= generation
      BY <1>1 DEF TableInv, GenerationsIssued, JoinedSessions
    <3> QED
      BY <1>3, <1>5, <3>1, <3>2
  <2> QED
    BY <2>1, <2>2
<1> QED
  BY <1>6, <1>7 DEF InputsInv

\* The input that is taken is recorded for its player only under its binding.
LEMMA TakeInputKeepsInputs ==
    ASSUME RoomTyped, TableInv, InputsInv, TakeInput
    PROVE  InputsInv'
<1> DEFINE m == Head(inputs)
<1>1. /\ inputs # <<>> /\ inputs' = Tail(inputs) /\ UNCHANGED memberVars
      /\ \/ CurrentBinding(m) /\ ApplyInput(members[m.session].player, m.seq)
         \/ UNCHANGED worldVars
  BY DEF TakeInput
<1>2. inputs \in Seq(Movement) /\ inputSeq \in [Players -> Nat]
  BY DEF RoomTyped, RoomTypeOK, WorldTypeOK
<1>3. /\ Len(inputs) \in Nat \ {0} /\ m = inputs[1] /\ m \in Movement
      /\ Tail(inputs) \in Seq(Movement) /\ Len(Tail(inputs)) = Len(inputs) - 1
      /\ \A k \in 1..Len(Tail(inputs)) : Tail(inputs)[k] = inputs[k + 1]
  BY <1>1, <1>2, TailElements
<1>4. \A k \in DOMAIN inputs : /\ inputs[k].generation <= generation
                               /\ CurrentBinding(inputs[k]) => inputs[k].seq <= sentSeq[inputs[k].session]
  BY DEF InputsInv, QueuedInputsAreSent
<1>5. CurrentBinding(m) => m.seq <= sentSeq[m.session]
  BY <1>2, <1>3, <1>4
<1>6. QueuedInputsAreSent'
  <2> SUFFICES ASSUME NEW k \in DOMAIN inputs'
               PROVE  /\ inputs'[k].generation <= generation
                      /\ CurrentBinding(inputs[k])' => inputs'[k].seq <= sentSeq'[inputs'[k].session]
    BY <1>1 DEF QueuedInputsAreSent, memberVars
  <2>1. k + 1 \in DOMAIN inputs /\ inputs'[k] = inputs[k + 1]
    BY <1>1, <1>2, <1>3
  <2>2. CurrentBinding(inputs[k])' <=> CurrentBinding(inputs[k + 1])
    BY <1>1, <2>1 DEF CurrentBinding, Joined, memberVars
  <2> QED
    BY <1>1, <1>4, <2>1, <2>2 DEF memberVars
<1> HIDE DEF m
<1>7. InputsOfCurrentBinding'
  <2>1. JoinedSessions' = JoinedSessions /\ members' = members /\ sentSeq' = sentSeq
    BY <1>1 DEF JoinedSessions, Joined, memberVars
  <2>2. \A t \in JoinedSessions : inputSeq[members[t].player] <= sentSeq[t]
    BY DEF InputsInv, InputsOfCurrentBinding
  <2>3. CASE UNCHANGED worldVars
    BY <2>1, <2>2, <2>3 DEF InputsOfCurrentBinding, worldVars, playerVars
  <2>4. CASE CurrentBinding(m) /\ ApplyInput(members[m.session].player, m.seq)
    <3> DEFINE p == members[m.session].player
    <3>1. inputSeq' = [inputSeq EXCEPT ![p] = m.seq]
      BY <2>4 DEF ApplyInput
    <3>2. m.session \in JoinedSessions
      BY <1>3, <2>4 DEF CurrentBinding, JoinedSessions, Movement
    <3>3. \A t \in JoinedSessions : t # m.session => members[t].player # p
      BY <3>2 DEF TableInv, MembersMatchPlayers
    <3>4. \A t \in JoinedSessions : members[t].player \in Players
      BY JoinedBinding DEF JoinedSessions, RoomTyped
    <3>5. ASSUME NEW t \in JoinedSessions PROVE inputSeq'[members[t].player] <= sentSeq[t]
      <4>1. CASE t = m.session
        BY <1>2, <1>5, <2>4, <3>1, <3>4, <4>1
      <4>2. CASE t # m.session
        <5>1. members[t].player # p
          BY <3>3, <4>2
        <5>2. inputSeq'[members[t].player] = inputSeq[members[t].player]
          BY <1>2, <3>1, <3>4, <5>1
        <5> QED
          BY <2>2, <5>2
      <4> QED
        BY <4>1, <4>2
    <3> QED
      BY <2>1, <3>5 DEF InputsOfCurrentBinding
  <2> QED
    BY <1>1, <2>3, <2>4
<1> QED
  BY <1>6, <1>7 DEF InputsInv

\* Every step keeps inputs under the binding they were sent under.
LEMMA NextInputs ==
    ASSUME RoomTyped, TableInv, InputsInv, [Next]_vars
    PROVE  InputsInv'
<1>1. CASE UNCHANGED <<inputs, worldVars, memberVars>>
  BY <1>1, InputsUnchanged DEF worldVars, playerVars
<1>2. ASSUME NEW c \in Callers, NEW r \in Requests, Submit(c, r) PROVE InputsInv'
  BY <1>1, <1>2 DEF Submit
<1>3. ASSUME NEW c \in Callers, Collect(c) PROVE InputsInv'
  BY <1>1, <1>3 DEF Collect
<1>4. ASSUME NEW s \in Sessions, NEW seq \in 1..MaxSeq, Input(s, seq) PROVE InputsInv'
  BY <1>4, InputKeepsInputs
<1>5. CASE Cancel \/ TakeEventBatch \/ TakeRewardBatch \/ TakeSnapshot
  BY <1>1, <1>5 DEF Cancel, TakeEventBatch, TakeRewardBatch, TakeSnapshot, queueVars
<1>6. CASE \/ Tick \/ ControlsTaken \/ InputsTaken \/ Publish
           \/ StopCancelled \/ StopIdle \/ BeginFinish \/ DrainControl
  BY <1>1, <1>6 DEF Tick, ControlsTaken, InputsTaken, Publish, StopCancelled, StopIdle, Stop,
                    BeginFinish, DrainControl, queueVars
<1>7. CASE TakeControl
  <2>1. UNCHANGED inputs
    BY <1>7 DEF TakeControl
  <2>2. CASE KeepsMembers
    BY <2>1, <2>2, InputsUnchanged DEF KeepsMembers
  <2> QED
    BY <1>7, <2>1, <2>2, TakeControlMembers, BindsKeepsInputs, UnbindsKeepsInputs
<1>8. CASE TakeInput
  BY <1>8, TakeInputKeepsInputs
<1>9. CASE StepWorld
  BY <1>9, StepKeepsPlayers, InputsUnchanged DEF StepWorld, RoomTyped, queueVars
<1>10. CASE SendEvents \/ SendRewards
  BY <1>10, InputsUnchanged DEF SendEvents, TakeEvents, SendRewards, TakeRewardUpdates, playerVars,
                                queueVars
<1>11. CASE EndFinish
  <2>1. JoinedSessions' = {} /\ inputs' = <<>>
    BY <1>11, EndFinishEmpties DEF EndFinish
  <2>2. DOMAIN inputs' = {}
    BY <2>1
  <2> QED
    BY <2>1, <2>2 DEF InputsInv, InputsOfCurrentBinding, QueuedInputsAreSent
<1>12. CASE UNCHANGED vars
  BY <1>1, <1>12 DEF vars, queueVars
<1> QED
  BY <1>2, <1>3, <1>4, <1>5, <1>6, <1>7, <1>8, <1>9, <1>10, <1>11, <1>12 DEF Next, RoomStep, TickStep

\* An input that outlives a leave and a join changes nothing: what the World
\* took as a player's latest input was sent under the binding its session has
\* (room.go, the generation of Input and of tick).
THEOREM InputsNeedTheirBinding == Spec => []InputsOfCurrentBinding
<1>1. Init => InputsInv
  <2>1. Init => JoinedSessions = {} /\ inputs = <<>>
    BY DEF Init, JoinedSessions, Joined
  <2>2. DOMAIN <<>> = {}
    OBVIOUS
  <2> QED
    BY <2>1, <2>2 DEF InputsInv, InputsOfCurrentBinding, QueuedInputsAreSent
<1>2. RoomTyped /\ TableInv /\ InputsInv /\ [Next]_vars => InputsInv'
  BY NextInputs
<1>3. InputsInv => InputsOfCurrentBinding
  BY DEF InputsInv
<1> QED
  BY <1>1, <1>2, <1>3, RoomIsTyped, TablesAlwaysMatch, PTL DEF Spec

-----------------------------------------------------------------------------
(* The service a Room gives its callers *)

Pending  == {c \in Callers : receipts[c] = "waiting"}
Answered == {c \in Callers : receipts[c] \in {"ok", "error", "closed"}}

\* A step that leaves the receipts alone leaves the service alone, or shuts it.
LEMMA ServiceKept ==
    ASSUME UNCHANGED receipts, Accepting' => Accepting
    PROVE  [Service!CallsNext]_(Service!callVars)
<1>1. Pending' = Pending /\ Answered' = Answered
  BY DEF Pending, Answered
<1>2. Accepting \in BOOLEAN /\ Accepting' \in BOOLEAN
  BY DEF Accepting
<1>3. CASE Accepting' = Accepting
  BY <1>1, <1>3 DEF Service!callVars, Pending, Answered
<1>4. CASE Accepting /\ ~Accepting'
  BY <1>1, <1>4 DEF Service!CallsNext, Service!Shut, Pending, Answered
<1> QED
  BY <1>2, <1>3, <1>4

\* Taking the head of the queue and answering it is the answer Calls allows.
LEMMA HeadIsAnswer ==
    ASSUME RoomTypeOK, OneAnswerPerCommand, controls # <<>>, UNCHANGED <<closed, cancelled>>,
           NEW answer \in {"ok", "error", "closed"},
           receipts' = [receipts EXCEPT ![Head(controls).caller] = answer]
    PROVE  [Service!CallsNext]_(Service!callVars)
<1>1. /\ controls \in Seq(Control) /\ receipts \in [Callers -> Receipts]
      /\ Head(controls) \in Control
  BY TailElements DEF RoomTypeOK
<1>2. PICK c \in Callers : c = Head(controls).caller
  BY <1>1 DEF Control
<1>3. 1 \in Places(c, controls)
  BY <1>1, <1>2, PlacesTail
<1>4. receipts[c] = "waiting"
  BY <1>2, <1>3 DEF OneAnswerPerCommand, Places
<1>5. receipts' = [receipts EXCEPT ![c] = answer]
  BY <1>2
<1>6. c \in Pending /\ Pending' = Pending \ {c} /\ Answered' = Answered \cup {c}
  BY <1>1, <1>2, <1>4, <1>5 DEF Pending, Answered
<1>7. Accepting' = Accepting
  BY DEF Accepting
<1>8. Service!Answer(c)
  BY <1>6, <1>7 DEF Service!Answer, Pending, Answered
<1> QED
  BY <1>8 DEF Service!CallsNext

\* Every step of a room is a step of its service, or none.
LEMMA NextServes ==
    ASSUME RoomTypeOK, OneAnswerPerCommand, [Next]_vars
    PROVE  [Service!CallsNext]_(Service!callVars)
<1> DEFINE Goal == [Service!CallsNext]_(Service!callVars)
<1>0. receipts \in [Callers -> Receipts]
  BY DEF RoomTypeOK
<1>1. CASE UNCHANGED <<receipts, closed, cancelled>>
  <2>1. Accepting' = Accepting
    BY <1>1 DEF Accepting
  <2> QED
    BY <1>1, <2>1, ServiceKept
<1>2. ASSUME NEW c \in Callers, NEW r \in Requests, Submit(c, r) PROVE Goal
  <2>1. /\ receipts[c] = "none" /\ receipts' = [receipts EXCEPT ![c] = "waiting"]
        /\ Accepting /\ UNCHANGED <<closed, cancelled>>
    BY <1>2 DEF Submit, actorVars
  <2>2. /\ c \notin Pending \cup Answered
        /\ Pending' = Pending \cup {c} /\ Answered' = Answered
    BY <1>0, <2>1 DEF Pending, Answered
  <2>3. Accepting' = Accepting
    BY <2>1 DEF Accepting
  <2>4. Service!Accept(c)
    BY <2>1, <2>2, <2>3 DEF Service!Accept, Pending, Answered
  <2> QED
    BY <2>4 DEF Service!CallsNext
<1>3. ASSUME NEW c \in Callers, Collect(c) PROVE Goal
  <2>1. /\ receipts[c] \in {"ok", "error", "closed"} /\ receipts' = [receipts EXCEPT ![c] = "none"]
        /\ UNCHANGED <<closed, cancelled>>
    BY <1>3 DEF Collect, actorVars
  <2>2. c \in Answered /\ Answered' = Answered \ {c} /\ Pending' = Pending
    BY <1>0, <2>1 DEF Pending, Answered
  <2>3. Accepting' = Accepting
    BY <2>1 DEF Accepting
  <2>4. Service!Read(c)
    BY <2>2, <2>3 DEF Service!Read, Pending, Answered
  <2> QED
    BY <2>4 DEF Service!CallsNext
<1>4. CASE TakeControl
  BY <1>4, HeadIsAnswer DEF TakeControl, MoreControls
<1>5. CASE DrainControl
  BY <1>5, HeadIsAnswer DEF DrainControl, actorVars
<1>6. CASE Cancel \/ BeginFinish
  <2>1. UNCHANGED receipts /\ ~Accepting'
    BY <1>6 DEF Cancel, BeginFinish, queueVars, Accepting
  <2> QED
    BY <2>1, ServiceKept
<1>7. ASSUME NEW s \in Sessions, NEW seq \in 1..MaxSeq, Input(s, seq) PROVE Goal
  BY <1>1, <1>7 DEF Input, actorVars
<1>8. CASE TakeEventBatch \/ TakeRewardBatch \/ TakeSnapshot
  BY <1>1, <1>8 DEF TakeEventBatch, TakeRewardBatch, TakeSnapshot, queueVars, actorVars
<1>9. CASE \/ Tick \/ ControlsTaken \/ TakeInput \/ InputsTaken \/ StepWorld \/ SendEvents
           \/ SendRewards \/ Publish \/ StopCancelled \/ StopIdle \/ EndFinish
  BY <1>1, <1>9 DEF Tick, ControlsTaken, TakeInput, InputsTaken, StepWorld, SendEvents, SendRewards,
                    Publish, StopCancelled, StopIdle, Stop, EndFinish, queueVars
<1>10. CASE UNCHANGED vars
  BY <1>1, <1>10 DEF vars, queueVars, actorVars
<1> QED
  BY <1>2, <1>3, <1>4, <1>5, <1>6, <1>7, <1>8, <1>9, <1>10 DEF Next, RoomStep, TickStep

\* A Room gives its callers the service Calls describes: it accepts commands
\* only while it is open and answers each of them at most once (submit, tick
\* and finish of room.go).
THEOREM RoomImplementsCalls == Spec => Service!CallsSafe
<1>1. Init => Service!CallsInit
  <2> SUFFICES ASSUME Init PROVE Service!CallsInit
    OBVIOUS
  <2>1. Accepting = TRUE
    BY DEF Init, Accepting
  <2>2. Pending = {} /\ Answered = {}
    BY DEF Init, Pending, Answered
  <2> QED
    BY <2>1, <2>2 DEF Service!CallsInit, Pending, Answered
<1>2. RoomTyped /\ OneAnswerPerCommand /\ [Next]_vars => [Service!CallsNext]_(Service!callVars)
  BY NextServes DEF RoomTyped
<1> QED
  BY <1>1, <1>2, RoomIsTyped, CommandsAnsweredOnce, PTL DEF Spec, Service!CallsSafe
-----------------------------------------------------------------------------
(* The stage events *)

\* The indices of the stages that were fought to their end.
Cleared == {completedStages[k] : k \in DOMAIN completedStages}

\* The stage events of a run that got as far as the World has.
History ==
    {e \in StageEvent :
        \/ e.kind # "TeamDefeated" /\ e.index \in Cleared
        \/ e.kind = "StageStarted" /\ e.index = index /\ state \in {"Playing", "Failed"}
        \/ e.kind = "TeamDefeated" /\ e.index = index /\ state = "Failed"}

\* What the dispatcher knows once it has taken k batches more.
Known(k) == delivered \cup UNION {StageEventsIn(eventsOut[j]) : j \in 1..k}

\* StageEventsInOrder of any set of stage events.
InOrder(S) ==
    \A e \in S :
        /\ e.kind # "StageStarted" => [e EXCEPT !.kind = "StageStarted"] \in S
        /\ \A d \in S : d.index < e.index => [kind |-> "StageCleared", index |-> d.index] \in S

\* A room has a reason to close exactly when it is on its way out, and between
\* two ticks no event is pending.
PhaseInv ==
    /\ phase \in {"select", "controls", "inputs", "step", "events"} => closeReason = ""
    /\ phase \in {"finish", "drain", "done"} => closeReason # ""
    /\ phase \in {"rewards", "publish", "select"} => events = <<>> /\ ~eventOverflow

\* A fight is of a later stage than those that were cleared.
HistoryInv ==
    /\ \A i \in Cleared : i <= index
    /\ state \in {"Playing", "Failed"} => index \notin Cleared

\* While the room has no reason to close, what was taken, what is in the
\* channel and what is pending are together the events of the run.
LogInv ==
    (closeReason = "" /\ ~eventOverflow) =>
        Known(Len(eventsOut)) \cup StageEventsIn(events) = History

\* The inductive invariant: the dispatcher will find things in order however
\* many batches it takes.
EventsInv ==
    /\ PhaseInv
    /\ HistoryInv
    /\ LogInv
    /\ Len(eventsOut) <= EventCapacity
    /\ \A k \in 0..Len(eventsOut) : InOrder(Known(k))

\* The events of a run are in order.
LEMMA HistoryInOrder ==
    ASSUME WorldTypeOK, HistoryInv
    PROVE  InOrder(History)
<1> SUFFICES ASSUME NEW e \in History
             PROVE  /\ e.kind # "StageStarted" => [e EXCEPT !.kind = "StageStarted"] \in History
                    /\ \A d \in History : d.index < e.index =>
                          [kind |-> "StageCleared", index |-> d.index] \in History
  BY DEF InOrder
<1>1. e \in StageEvent /\ index \in Nat
  BY DEF History, WorldTypeOK
<1>2. \A kind \in {"StageStarted", "StageCleared", "TeamDefeated"}, i \in Nat :
         [kind |-> kind, index |-> i] \in StageEvent
  BY DEF StageEvent
<1>3. e.kind # "StageStarted" => [e EXCEPT !.kind = "StageStarted"] \in History
  <2>1. [e EXCEPT !.kind = "StageStarted"] = [kind |-> "StageStarted", index |-> e.index]
    BY <1>1 DEF StageEvent
  <2>2. e.index \in Nat
    BY <1>1 DEF StageEvent
  <2> QED
    BY <1>2, <2>1, <2>2 DEF History
<1>4. ASSUME NEW d \in History, d.index < e.index
      PROVE  [kind |-> "StageCleared", index |-> d.index] \in History
  <2>1. d \in StageEvent /\ d.index \in Nat /\ e.index \in Nat
    BY <1>1 DEF History, StageEvent
  <2>2. e.index \in Cleared \/ e.index = index
    BY DEF History
  <2>3. e.index <= index
    BY <1>1, <2>1, <2>2 DEF HistoryInv
  <2>4. d.index # index
    BY <1>1, <1>4, <2>1, <2>3
  <2>5. d.index \in Cleared
    BY <2>4 DEF History
  <2> QED
    BY <1>2, <2>1, <2>5 DEF History
<1> QED
  BY <1>3, <1>4

\* The stage events of a list are those of its parts.
LEMMA StageEventsConcat ==
    ASSUME NEW S, NEW a \in Seq(S), NEW b \in Seq(S)
    PROVE  StageEventsIn(a \o b) = StageEventsIn(a) \cup StageEventsIn(b)
<1>1. /\ Len(a) \in Nat /\ Len(b) \in Nat /\ DOMAIN a = 1..Len(a) /\ DOMAIN b = 1..Len(b)
      /\ DOMAIN (a \o b) = 1..Len(a) + Len(b)
      /\ \A k \in 1..Len(a) + Len(b) :
            (a \o b)[k] = IF k <= Len(a) THEN a[k] ELSE b[k - Len(a)]
  BY ConcatProperties
<1>2. ASSUME NEW k \in 1..Len(a) + Len(b)
      PROVE  (\E i \in 1..Len(a) : (a \o b)[k] = a[i]) \/ (\E i \in 1..Len(b) : (a \o b)[k] = b[i])
  <2>1. CASE k <= Len(a)
    BY <1>1, <2>1
  <2>2. CASE ~(k <= Len(a))
    <3>1. k - Len(a) \in 1..Len(b)
      BY <1>1, <2>2
    <3> QED
      BY <1>1, <2>2, <3>1
  <2> QED
    BY <2>1, <2>2
<1>3. ASSUME NEW i \in 1..Len(a)
      PROVE  i \in 1..Len(a) + Len(b) /\ (a \o b)[i] = a[i]
  BY <1>1
<1>4. ASSUME NEW i \in 1..Len(b)
      PROVE  Len(a) + i \in 1..Len(a) + Len(b) /\ (a \o b)[Len(a) + i] = b[i]
  <2>1. Len(a) + i \in 1..Len(a) + Len(b) /\ ~(Len(a) + i <= Len(a)) /\ (Len(a) + i) - Len(a) = i
    BY <1>1
  <2> QED
    BY <1>1, <2>1
<1>5. {(a \o b)[k] : k \in DOMAIN (a \o b)} = {a[k] : k \in DOMAIN a} \cup {b[k] : k \in DOMAIN b}
  <2>1. ASSUME NEW k \in DOMAIN (a \o b)
        PROVE  (a \o b)[k] \in {a[i] : i \in DOMAIN a} \cup {b[i] : i \in DOMAIN b}
    BY <1>1, <1>2
  <2>2. ASSUME NEW i \in DOMAIN a PROVE a[i] \in {(a \o b)[k] : k \in DOMAIN (a \o b)}
    BY <1>1, <1>3
  <2>3. ASSUME NEW i \in DOMAIN b PROVE b[i] \in {(a \o b)[k] : k \in DOMAIN (a \o b)}
    BY <1>1, <1>4
  <2> QED
    BY <2>1, <2>2, <2>3
<1> QED
  BY <1>5 DEF StageEventsIn

\* The stage events of the shortest lists.
LEMMA StageEventsShort ==
    /\ StageEventsIn(<<>>) = {}
    /\ \A e : StageEventsIn(<<e>>) = {e} \cap StageEvent
BY DEF StageEventsIn

\* A pending list that did not overflow has lost nothing.
LEMMA EmitKeeps ==
    ASSUME WorldTypeOK, NEW new \in Seq(EventRec), Emit(new), ~eventOverflow'
    PROVE  /\ ~eventOverflow
           /\ StageEventsIn(events') = StageEventsIn(events) \cup StageEventsIn(new)
<1>1. ~eventOverflow /\ ~(Len(events \o new) > MaxPending) /\ events' = Shorter(events \o new)
  BY DEF Emit
<1>2. events' = events \o new
  BY <1>1 DEF Shorter
<1>3. events \in Seq(EventRec)
  BY DEF WorldTypeOK
<1> QED
  BY <1>1, <1>2, <1>3, StageEventsConcat

\* The world part of a step that is not about stage events.
KeepsHistory ==
    /\ UNCHANGED <<completedStages, index, events, eventOverflow>>
    /\ state' = state \/ {state, state'} \cap {"Playing", "Failed"} = {}

\* Such a step leaves the run where it was.
LEMMA KeptHistory ==
    ASSUME HistoryInv, KeepsHistory
    PROVE  HistoryInv' /\ History' = History
<1>1. Cleared' = Cleared /\ index' = index
  BY DEF KeepsHistory, Cleared
<1>2. /\ state \in {"Playing", "Failed"} <=> state' \in {"Playing", "Failed"}
      /\ state = "Failed" <=> state' = "Failed"
  BY DEF KeepsHistory
<1> QED
  BY <1>1, <1>2 DEF HistoryInv, History

\* What the step adds to the run, and to the pending list unless that is full.
Adds(new) ==
    /\ HistoryInv'
    /\ History' = History \cup new
    /\ ~eventOverflow' => /\ ~eventOverflow
                          /\ StageEventsIn(events') = StageEventsIn(events) \cup new

\* A new stage adds its start.
LEMMA StartStageAdds ==
    ASSUME WorldInv, HistoryInv, NEW i \in 1..MaxStage, StartStage(i)
    PROVE  Adds({[kind |-> "StageStarted", index |-> i]})
<1> DEFINE e == [kind |-> "StageStarted", index |-> i]
<1>1. i \in Nat /\ index \in Nat /\ WorldTypeOK
  BY WorldAssumption DEF WorldInv, WorldTypeOK
<1>2. e \in EventRec /\ e \in StageEvent
  BY <1>1 DEF EventRec, StageEvent
<1>3. \/ state = "Waiting" /\ completedStages = <<>>
      \/ state = "PreparingNextStage" /\ i = index + 1
  BY DEF StartStage, CanStartStage, WorldInv, WorldSafe, RunMatchesState
<1>4. state' = "Playing" /\ index' = i /\ completedStages' = completedStages
  BY <1>3 DEF StartStage
<1>5. Cleared' = Cleared
  BY <1>4 DEF Cleared
<1>6. \A j \in Cleared : j \in Nat /\ j < i
  <2>1. CASE completedStages = <<>>
    BY <2>1 DEF Cleared
  <2>2. CASE i = index + 1
    <3>1. Cleared \subseteq Nat
      BY <1>1 DEF Cleared, WorldTypeOK
    <3> QED
      BY <1>1, <2>2, <3>1 DEF HistoryInv
  <2> QED
    BY <1>3, <2>1, <2>2
<1>7. HistoryInv'
  BY <1>1, <1>4, <1>5, <1>6 DEF HistoryInv
<1>8. History' = History \cup {e}
  <2>1. state \notin {"Playing", "Failed"}
    BY <1>3
  <2>2. \A x \in StageEvent : x = e <=> x.kind = "StageStarted" /\ x.index = i
    BY <1>1 DEF StageEvent
  <2> HIDE DEF e
  <2> QED
    BY <1>2, <1>4, <1>5, <2>1, <2>2 DEF History
<1>9. ~eventOverflow' => ~eventOverflow /\ StageEventsIn(events') = StageEventsIn(events) \cup {e}
  <2>1. Emit(<<e>>) /\ <<e>> \in Seq(EventRec)
    BY <1>2 DEF StartStage
  <2>2. StageEventsIn(<<e>>) = {e}
    BY <1>2, StageEventsShort
  <2> HIDE DEF e
  <2> QED
    BY <1>1, <2>1, <2>2, EmitKeeps
<1> QED
  BY <1>7, <1>8, <1>9 DEF Adds

\* What a combat tick reports of the stage it ends.
Verdict(result) ==
    IF result = "Failed" THEN {[kind |-> "TeamDefeated", index |-> index]}
    ELSE IF result = "StageClear" THEN {[kind |-> "StageCleared", index |-> index]} ELSE {}

\* A combat tick emits its verdict, whatever else it reports.
LEMMA StepCombatEmits ==
    ASSUME WorldTypeOK, NEW fallen \in SUBSET Players, NEW rest \in Nat,
           NEW shots \in BOOLEAN, StepCombat(fallen, rest, shots)
    PROVE  /\ state' \in {"Playing", "Failed", "StageClear"}
           /\ ~eventOverflow' => /\ ~eventOverflow
                                 /\ StageEventsIn(events') = StageEventsIn(events) \cup Verdict(state')
<1> DEFINE result == CombatResult(Living \ fallen, rest)
           note(kind) == <<[kind |-> kind, index |-> index]>>
           fight == IF shots \/ fallen # {} \/ rest < monsters THEN note("Combat") ELSE <<>>
<1>1. /\ state' = result
      /\ \/ result = "Failed" /\ Emit(fight \o note("TeamDefeated"))
         \/ result = "StageClear" /\ Emit(fight \o note("StageCleared"))
         \/ result = "Playing" /\ Emit(fight)
  BY DEF StepCombat
<1> HIDE DEF result
<1>2. index \in Nat
  BY DEF WorldTypeOK
<1>3. \A kind \in {"Combat", "StageCleared", "TeamDefeated"} :
         /\ note(kind) \in Seq(EventRec)
         /\ StageEventsIn(note(kind)) = {[kind |-> kind, index |-> index]} \cap StageEvent
  BY <1>2, StageEventsShort DEF EventRec
<1>4. /\ StageEventsIn(note("Combat")) = {}
      /\ StageEventsIn(note("TeamDefeated")) = {[kind |-> "TeamDefeated", index |-> index]}
      /\ StageEventsIn(note("StageCleared")) = {[kind |-> "StageCleared", index |-> index]}
  BY <1>2, <1>3 DEF StageEvent
<1>5. fight \in Seq(EventRec) /\ StageEventsIn(fight) = {}
  BY <1>3, <1>4, StageEventsShort
<1> HIDE DEF note, fight
<1>6. ASSUME NEW kind \in {"StageCleared", "TeamDefeated"}
      PROVE  /\ fight \o note(kind) \in Seq(EventRec)
             /\ StageEventsIn(fight \o note(kind)) = StageEventsIn(note(kind))
  <2>1. note(kind) \in Seq(EventRec)
    BY <1>3
  <2>2. StageEventsIn(fight \o note(kind)) = StageEventsIn(fight) \cup StageEventsIn(note(kind))
    <3>1. ASSUME NEW a \in Seq(EventRec), NEW b \in Seq(EventRec)
          PROVE  StageEventsIn(a \o b) = StageEventsIn(a) \cup StageEventsIn(b)
      BY ONLY StageEventsConcat
    <3> QED
      BY <1>5, <2>1, <3>1
  <2>3. fight \o note(kind) \in Seq(EventRec)
    BY <1>5, <2>1, ConcatProperties
  <2> QED
    BY <1>5, <2>2, <2>3
<1>7. CASE result = "Failed"
  BY <1>1, <1>4, <1>6, <1>7, EmitKeeps DEF Verdict
<1>8. CASE result = "StageClear"
  BY <1>1, <1>4, <1>6, <1>8, EmitKeeps DEF Verdict
<1>9. CASE result = "Playing"
  BY <1>1, <1>5, <1>9, EmitKeeps DEF Verdict
<1> QED
  BY <1>1, <1>7, <1>8, <1>9

\* A combat tick adds its verdict.
LEMMA StepCombatAdds ==
    ASSUME WorldInv, HistoryInv, NEW fallen \in SUBSET Players, NEW rest \in Nat,
           NEW shots \in BOOLEAN, StepCombat(fallen, rest, shots)
    PROVE  Adds(Verdict(state'))
<1> USE DEF WorldInv
<1>1. /\ state = "Playing" /\ index' = index
      /\ \/ state' \in {"Playing", "Failed"} /\ UNCHANGED completedStages
         \/ state' = "StageClear" /\ completedStages' = Append(completedStages, index)
  BY StepCombatEffect
<1>2. index \in Nat /\ completedStages \in Seq(Nat) /\ Cleared \subseteq Nat
  BY DEF WorldTypeOK, Cleared
<1>3. Cleared' = IF state' = "StageClear" THEN Cleared \cup {index} ELSE Cleared
  <2>1. CASE state' # "StageClear"
    BY <1>1, <2>1 DEF Cleared
  <2>2. CASE state' = "StageClear"
    <3>1. completedStages' = Append(completedStages, index)
      BY <1>1, <2>2
    <3>2. /\ Len(completedStages) \in Nat /\ DOMAIN completedStages = 1..Len(completedStages)
          /\ DOMAIN completedStages' = 1..Len(completedStages) + 1
          /\ \A k \in 1..Len(completedStages) : completedStages'[k] = completedStages[k]
          /\ completedStages'[Len(completedStages) + 1] = index
      BY <1>2, <3>1, AppendProperties
    <3>3. \A k \in 1..Len(completedStages) + 1 :
             k \in 1..Len(completedStages) \/ k = Len(completedStages) + 1
      BY <3>2
    <3>4. Cleared' \subseteq Cleared \cup {index}
      BY <3>2, <3>3 DEF Cleared
    <3>5. \A k \in 1..Len(completedStages) : k \in 1..Len(completedStages) + 1
      BY <3>2
    <3>6. Len(completedStages) + 1 \in 1..Len(completedStages) + 1
      BY <3>2
    <3>7. Cleared \cup {index} \subseteq Cleared'
      BY <3>2, <3>5, <3>6 DEF Cleared
    <3> QED
      BY <2>2, <3>4, <3>7
  <2> QED
    BY <2>1, <2>2
<1>4. HistoryInv'
  BY <1>1, <1>2, <1>3 DEF HistoryInv
<1>5. History' = History \cup Verdict(state')
  <2>1. \A x \in StageEvent : x.kind \in {"StageStarted", "StageCleared", "TeamDefeated"}
    BY DEF StageEvent
  <2>2. \A kind \in {"StageCleared", "TeamDefeated"} :
           /\ [kind |-> kind, index |-> index] \in StageEvent
           /\ \A x \in StageEvent : x = [kind |-> kind, index |-> index]
                                       <=> x.kind = kind /\ x.index = index
    BY <1>2 DEF StageEvent
  <2>3. CASE state' = "Playing"
    BY <1>1, <1>3, <2>3 DEF History, Verdict
  <2>4. CASE state' = "Failed"
    <3>1. Verdict(state') = {[kind |-> "TeamDefeated", index |-> index]}
      BY <2>4 DEF Verdict
    <3> QED
      BY <1>1, <1>3, <2>2, <2>4, <3>1 DEF History
  <2>5. CASE state' = "StageClear"
    <3>1. Verdict(state') = {[kind |-> "StageCleared", index |-> index]}
      BY <2>5 DEF Verdict
    <3> QED
      BY <1>1, <1>3, <2>1, <2>2, <2>5, <3>1 DEF History
  <2> QED
    BY <1>1, <2>3, <2>4, <2>5
<1>6. ~eventOverflow' => /\ ~eventOverflow
                         /\ StageEventsIn(events') = StageEventsIn(events) \cup Verdict(state')
  BY StepCombatEmits
<1> QED
  BY <1>4, <1>5, <1>6 DEF Adds

\* A tick of the World keeps the run or adds a verdict to it.
LEMMA StepAdds ==
    ASSUME WorldInv, HistoryInv, Step
    PROVE  KeepsHistory \/ \E new : Adds(new)
<1>1. ASSUME NEW fallen \in SUBSET Players, NEW rest \in 0..MaxMonsters, NEW shots \in BOOLEAN,
             StepCombat(fallen, rest, shots)
      PROVE  \E new : Adds(new)
  BY <1>1, StepCombatAdds
<1>2. CASE StepReward
  <2>1. UNCHANGED <<completedStages, index, events, eventOverflow>>
    BY <1>2 DEF StepReward, ApplySelections, stageVars, eventVars
  <2>2. state' = state \/ (state = "Reward" /\ state' = "PreparingNextStage")
    BY <1>2 DEF StepReward, ApplySelections, stageVars, DefaultsDue
  <2> QED
    BY <2>1, <2>2 DEF KeepsHistory
<1> QED
  BY <1>1, <1>2 DEF Step

\* A command keeps the run or starts a stage of it.
LEMMA ApplyRequestAdds ==
    ASSUME WorldInv, RoomTypeOK, HistoryInv, NEW r \in Request, NEW result, ApplyRequest(r, result)
    PROVE  KeepsHistory \/ \E new : Adds(new)
<1>1. CASE UNCHANGED worldVars
  BY <1>1 DEF worldVars, stageVars, eventVars, KeepsHistory
<1>2. ASSUME NEW p, AddPlayer(p) \/ RemovePlayer(p) PROVE KeepsHistory
  <2>1. UNCHANGED <<completedStages, index, events, eventOverflow>>
    BY <1>2 DEF AddPlayer, RemovePlayer, stageVars, eventVars
  <2>2. state' = state \/ (state = "Reward" /\ state' = "PreparingNextStage")
    BY <1>2 DEF AddPlayer, RemovePlayer, LeavingCompletes, stageVars
  <2> QED
    BY <2>1, <2>2 DEF KeepsHistory
<1>3. CASE StartReward
  BY <1>3 DEF StartReward, CanStartReward, eventVars, KeepsHistory
<1>4. ASSUME NEW p, NEW item, ChooseReward(p, item) PROVE KeepsHistory
  <2>1. UNCHANGED <<completedStages, index, events, eventOverflow>>
    BY <1>4 DEF ChooseReward, ApplySelections, eventVars
  <2>2. state' = state \/ (state = "Reward" /\ state' = "PreparingNextStage")
    BY <1>4 DEF ChooseReward, CanChooseReward, ApplySelections
  <2> QED
    BY <2>1, <2>2 DEF KeepsHistory
<1>5. CASE r.op = "startStage" /\ WorldCommand(CanStartStage(r.index), StartStage(r.index), result)
  <2>1. r.index \in 1..MaxStage
    BY <1>5, RequestFields
  <2> QED
    BY <1>1, <1>5, <2>1, StartStageAdds DEF WorldCommand, Quiet
<1>6. CASE r.op = "join" /\ ApplyJoin(r, result)
  BY <1>1, <1>2, <1>6 DEF ApplyJoin, Quiet
<1>7. CASE r.op = "leave" /\ ApplyLeave(r, result)
  BY <1>1, <1>2, <1>7 DEF ApplyLeave, Quiet
<1>8. CASE r.op = "startReward" /\ WorldCommand(CanStartReward, StartReward, result)
  BY <1>1, <1>3, <1>8 DEF WorldCommand, Quiet
<1>9. CASE r.op = "chooseReward" /\ ApplyChoose(r, result)
  BY <1>1, <1>4, <1>9 DEF ApplyChoose, WorldCommand, Quiet
<1>10. CASE \E can : ApplyRead(can, result)
  BY <1>1, <1>10 DEF ApplyRead, Quiet
<1> QED
  BY <1>5, <1>6, <1>7, <1>8, <1>9, <1>10 DEF ApplyRequest

\* A step that keeps the run, or adds to it and to the pending list alike,
\* keeps the invariant.
LEMMA LogGrows ==
    ASSUME RoomTyped, EventsInv, PhaseInv', KeepsHistory \/ \E new : Adds(new),
           UNCHANGED <<eventsOut, delivered, closeReason>>
    PROVE  EventsInv'
<1>1. \A k : Known(k)' = Known(k)
  BY DEF Known
<1>2. Len(eventsOut') <= EventCapacity /\ \A k \in 0..Len(eventsOut') : InOrder(Known(k))'
  BY <1>1 DEF EventsInv, InOrder
<1>3. CASE KeepsHistory
  <2>1. HistoryInv' /\ History' = History
    BY <1>3, KeptHistory DEF EventsInv
  <2>2. StageEventsIn(events') = StageEventsIn(events) /\ eventOverflow' = eventOverflow
    BY <1>3 DEF KeepsHistory
  <2>3. LogInv'
    BY <1>1, <2>1, <2>2 DEF EventsInv, LogInv
  <2> QED
    BY <1>2, <2>1, <2>3 DEF EventsInv
<1>4. ASSUME NEW new, Adds(new) PROVE EventsInv'
  <2>1. LogInv'
    BY <1>1, <1>4 DEF EventsInv, LogInv, Adds
  <2> QED
    BY <1>2, <1>4, <2>1 DEF EventsInv, Adds
<1> QED
  BY <1>3, <1>4

\* The dispatcher's taking a batch only moves it on along the log.
LEMMA TakeBatchMovesOn ==
    ASSUME RoomTyped, EventsInv, TakeEventBatch
    PROVE  EventsInv'
<1>1. /\ eventsOut \in Seq(Seq(EventRec)) /\ eventsOut # <<>>
      /\ eventsOut' = Tail(eventsOut) /\ delivered' = delivered \cup StageEventsIn(Head(eventsOut))
  BY DEF TakeEventBatch, RoomTyped, RoomTypeOK
<1>2. /\ Len(eventsOut) \in Nat \ {0} /\ Len(eventsOut') = Len(eventsOut) - 1
      /\ Head(eventsOut) = eventsOut[1]
      /\ \A j \in 1..Len(eventsOut') : eventsOut'[j] = eventsOut[j + 1]
  BY <1>1, TailElements
<1>3. ASSUME NEW k \in 0..Len(eventsOut') PROVE Known(k)' = Known(k + 1)
  <2>1. \A j \in 1..k : j + 1 \in 1..k + 1 /\ eventsOut'[j] = eventsOut[j + 1]
    BY <1>2
  <2>2. 1 \in 1..k + 1 /\ \A j \in 1..k + 1 : j = 1 \/ (j - 1 \in 1..k /\ (j - 1) + 1 = j)
    BY <1>2
  <2>3. Known(k)' \subseteq Known(k + 1)
    <3>1. Known(k)' = delivered' \cup UNION {StageEventsIn(eventsOut'[j]) : j \in 1..k}
      BY DEF Known
    <3>2. delivered' \subseteq Known(k + 1)
      BY <1>1, <1>2, <2>2 DEF Known
    <3>3. \A j \in 1..k : StageEventsIn(eventsOut'[j]) \subseteq Known(k + 1)
      BY <2>1 DEF Known
    <3> QED
      BY <3>1, <3>2, <3>3
  <2>4. ASSUME NEW j \in 1..k + 1 PROVE StageEventsIn(eventsOut[j]) \subseteq Known(k)'
    <3>1. CASE j = 1
      BY <1>1, <1>2, <3>1 DEF Known
    <3>2. CASE j - 1 \in 1..k /\ (j - 1) + 1 = j
      <4>1. eventsOut'[j - 1] = eventsOut[j]
        BY <2>1, <3>2
      <4> QED
        BY <3>2, <4>1 DEF Known
    <3> QED
      BY <2>2, <3>1, <3>2
  <2>5. Known(k + 1) \subseteq Known(k)'
    BY <1>1, <2>4 DEF Known
  <2> QED
    BY <2>3, <2>5
<1>4. \A k \in 0..Len(eventsOut') : InOrder(Known(k))'
  <2> SUFFICES ASSUME NEW k \in 0..Len(eventsOut') PROVE InOrder(Known(k))'
    OBVIOUS
  <2>1. k + 1 \in 0..Len(eventsOut) /\ Known(k)' = Known(k + 1)
    BY <1>2, <1>3
  <2> QED
    BY <2>1 DEF EventsInv, InOrder
<1>5. Known(Len(eventsOut))' = Known(Len(eventsOut))
  BY <1>2, <1>3
<1>6. UNCHANGED worldVars /\ UNCHANGED <<phase, closeReason>>
  BY DEF TakeEventBatch, actorVars
<1>7. /\ UNCHANGED <<completedStages, index, state, events, eventOverflow>>
      /\ Cleared' = Cleared /\ History' = History
  BY <1>6 DEF worldVars, stageVars, eventVars, Cleared, History
<1>8. PhaseInv' /\ HistoryInv' /\ LogInv'
  BY <1>5, <1>6, <1>7 DEF EventsInv, PhaseInv, HistoryInv, LogInv
<1>9. Len(eventsOut') <= EventCapacity
  BY <1>2, RoomAssumption DEF EventsInv
<1> QED
  BY <1>4, <1>8, <1>9 DEF EventsInv

\* The pending list goes into the channel whole, or the room has a reason to
\* close.
LEMMA SendKeepsOrder ==
    ASSUME RoomTyped, WorldInv, EventsInv, SendEvents
    PROVE  EventsInv'
<1>1. /\ eventsOut \in Seq(Seq(EventRec)) /\ events \in Seq(EventRec) /\ Len(eventsOut) \in Nat
      /\ EventCapacity \in Nat /\ Len(eventsOut) <= EventCapacity
  <2>1. eventsOut \in Seq(Seq(EventRec)) /\ events \in Seq(EventRec)
    BY DEF RoomTyped, RoomTypeOK, WorldTypeOK
  <2>2. Len(eventsOut) \in Nat
    BY <2>1
  <2> QED
    BY <2>1, <2>2, RoomAssumption DEF EventsInv
<1>0. PICK n \in Nat : n = Len(eventsOut)
  BY <1>1
<1>2. /\ phase = "events" /\ phase' = "rewards" /\ closeReason = ""
      /\ events' = <<>> /\ ~eventOverflow'
      /\ UNCHANGED <<delivered, completedStages, index, state>>
  BY DEF SendEvents, TakeEvents, EventsInv, PhaseInv, stageVars
<1>3. Cleared' = Cleared /\ History' = History
  BY <1>2 DEF Cleared, History
<1>4. PhaseInv' /\ HistoryInv'
  BY <1>2, <1>3 DEF EventsInv, PhaseInv, HistoryInv
<1>5. StageEventsIn(events') = {}
  BY <1>2, StageEventsShort
<1>6. CASE Sendable(events, eventOverflow, eventsOut)
  <2>1. /\ eventsOut' = Append(eventsOut, events) /\ Len(eventsOut) < EventCapacity
        /\ ~eventOverflow
    BY <1>6 DEF SendEvents, Sendable
  <2>2. /\ Len(eventsOut') = n + 1
        /\ \A j \in 1..n : eventsOut'[j] = eventsOut[j]
        /\ eventsOut'[n + 1] = events
    BY <1>1, <1>0, <2>1, AppendElements
  <2>3. ASSUME NEW k \in 0..n PROVE Known(k)' = Known(k)
    <3>1. \A j \in 1..k : eventsOut'[j] = eventsOut[j]
      BY <1>0, <2>2
    <3> QED
      BY <1>2, <3>1 DEF Known
  <2>4. Known(n + 1)' = Known(n) \cup StageEventsIn(events)
    <3>1. \A j : j \in 1..n + 1 <=> (j \in 1..n \/ j = n + 1)
      BY <1>0
    <3> QED
      BY <1>2, <2>2, <3>1 DEF Known
  <2>5. Known(n + 1)' = History
    BY <1>0, <1>2, <2>1, <2>4 DEF EventsInv, LogInv
  <2>6. LogInv'
    BY <1>3, <1>5, <2>2, <2>5 DEF LogInv
  <2>7. InOrder(History)
    BY HistoryInOrder DEF EventsInv, RoomTyped
  <2>8. ASSUME NEW k \in 0..Len(eventsOut') PROVE InOrder(Known(k))'
    <3>1. k \in 0..n \/ k = n + 1
      BY <1>0, <2>2
    <3>2. CASE k \in 0..n
      <4>1. InOrder(Known(k)) /\ Known(k)' = Known(k)
        BY <1>0, <2>3, <3>2 DEF EventsInv
      <4> QED
        BY <4>1 DEF InOrder
    <3>3. CASE k = n + 1
      BY <2>5, <2>7, <3>3 DEF InOrder
    <3> QED
      BY <3>1, <3>2, <3>3
  <2> QED
    BY <1>1, <1>0, <1>4, <2>1, <2>2, <2>6, <2>8 DEF EventsInv
<1>7. CASE ~Sendable(events, eventOverflow, eventsOut)
  <2>1. eventsOut' = eventsOut
    BY <1>7 DEF SendEvents
  <2>2. \A k : Known(k)' = Known(k)
    BY <1>2, <2>1 DEF Known
  <2>3. closeReason' = "" => ~eventOverflow /\ events = <<>>
    <3>1. CASE Undeliverable(events, eventOverflow, eventsOut)
      BY <3>1 DEF SendEvents
    <3>2. CASE ~Undeliverable(events, eventOverflow, eventsOut)
      <4>1. Len(eventsOut) < EventCapacity \/ Len(eventsOut) = EventCapacity
        BY <1>1
      <4> QED
        BY <1>7, <3>2, <4>1, Zenon DEF Undeliverable, Sendable
    <3> QED
      BY <3>1, <3>2
  <2>4. LogInv'
    BY <1>2, <1>3, <2>1, <2>2, <2>3 DEF EventsInv, LogInv
  <2> QED
    BY <1>4, <2>1, <2>2, <2>4 DEF EventsInv, InOrder
<1> QED
  BY <1>6, <1>7

\* Taking a command keeps the invariant.
LEMMA TakeControlKeepsOrder ==
    ASSUME RoomTyped, WorldInv, EventsInv, TakeControl
    PROVE  EventsInv'
<1>1. Head(controls) \in Control
  BY TailElements DEF TakeControl, MoreControls, Spend, RoomTyped, RoomTypeOK
<1>2. Head(controls).request \in Request
  BY <1>1 DEF Control
<1>3. PICK result \in {"ok", "error"} : ApplyRequest(Head(controls).request, result)
  BY DEF TakeControl
<1>4. KeepsHistory \/ \E new : Adds(new)
  BY <1>2, <1>3, ApplyRequestAdds DEF RoomTyped, EventsInv
<1>5. phase = "controls" /\ phase' = "controls" /\ UNCHANGED <<eventsOut, delivered, closeReason>>
  BY DEF TakeControl, channelVars
<1>6. PhaseInv'
  BY <1>5 DEF EventsInv, PhaseInv
<1> QED
  BY <1>4, <1>5, <1>6, LogGrows

\* Every step keeps the log complete and in order.
LEMMA NextEvents ==
    ASSUME RoomTyped, WorldInv, EventsInv, [Next]_vars
    PROVE  EventsInv'
<1>0. PhaseInv
  BY DEF EventsInv
<1>1. ASSUME UNCHANGED <<worldVars, eventsOut, delivered, closeReason>>, PhaseInv' PROVE EventsInv'
  <2>1. KeepsHistory
    BY <1>1 DEF worldVars, stageVars, eventVars, KeepsHistory
  <2> QED
    BY <1>1, <2>1, LogGrows
<1>2. CASE /\ UNCHANGED <<worldVars, eventsOut, delivered, closeReason, phase>>
  BY <1>0, <1>1, <1>2 DEF PhaseInv, worldVars, eventVars
<1>3. ASSUME NEW c \in Callers, NEW r \in Requests, Submit(c, r) PROVE EventsInv'
  BY <1>2, <1>3 DEF Submit, actorVars, channelVars
<1>4. ASSUME NEW c \in Callers, Collect(c) PROVE EventsInv'
  BY <1>2, <1>4 DEF Collect, actorVars, channelVars
<1>5. ASSUME NEW s \in Sessions, NEW seq \in 1..MaxSeq, Input(s, seq) PROVE EventsInv'
  BY <1>2, <1>5 DEF Input, actorVars, channelVars
<1>6. CASE Cancel \/ TakeRewardBatch \/ TakeSnapshot \/ DrainControl
  BY <1>2, <1>6 DEF Cancel, TakeRewardBatch, TakeSnapshot, DrainControl, actorVars, channelVars
<1>7. CASE TakeEventBatch
  BY <1>7, TakeBatchMovesOn
<1>8. CASE Tick \/ ControlsTaken \/ InputsTaken \/ Publish \/ BeginFinish
  <2>1. UNCHANGED <<worldVars, eventsOut, delivered, closeReason>>
    BY <1>8 DEF Tick, ControlsTaken, InputsTaken, Publish, BeginFinish, channelVars
  <2>2. PhaseInv'
    BY <1>0, <1>8, <2>1 DEF Tick, ControlsTaken, InputsTaken, Publish, BeginFinish, PhaseInv,
                            worldVars, eventVars
  <2> QED
    BY <1>1, <2>1, <2>2
<1>9. CASE TakeControl
  BY <1>9, TakeControlKeepsOrder
<1>10. CASE TakeInput
  <2>1. KeepsHistory
    BY <1>10 DEF TakeInput, ApplyInput, KeepsHistory, worldVars, stageVars, eventVars
  <2>2. phase' = phase /\ phase = "inputs" /\ UNCHANGED <<eventsOut, delivered, closeReason>>
    BY <1>10 DEF TakeInput, channelVars
  <2>3. PhaseInv'
    BY <1>0, <2>2 DEF PhaseInv
  <2> QED
    BY <2>1, <2>2, <2>3, LogGrows
<1>11. CASE StepWorld
  <2>1. KeepsHistory \/ \E new : Adds(new)
    BY <1>11, StepAdds DEF StepWorld, EventsInv
  <2>2. phase = "step" /\ phase' = "events" /\ UNCHANGED <<eventsOut, delivered, closeReason>>
    BY <1>11 DEF StepWorld, channelVars
  <2>3. PhaseInv'
    BY <1>0, <2>2 DEF PhaseInv
  <2> QED
    BY <2>1, <2>2, <2>3, LogGrows
<1>12. CASE SendEvents
  BY <1>12, SendKeepsOrder
<1>13. ASSUME KeepsHistory, PhaseInv', UNCHANGED <<eventsOut, delivered>>,
              closeReason # "" \/ closeReason' # "" \/ closeReason' = closeReason,
              closeReason # "" => closeReason' # ""
       PROVE  EventsInv'
  <2>1. HistoryInv' /\ History' = History
    BY <1>13, KeptHistory DEF EventsInv
  <2>2. \A k : Known(k)' = Known(k)
    BY <1>13 DEF Known
  <2>3. events' = events /\ eventOverflow' = eventOverflow
    BY <1>13 DEF KeepsHistory
  <2>4. LogInv'
    BY <1>13, <2>1, <2>2, <2>3 DEF EventsInv, LogInv
  <2> QED
    BY <1>13, <2>1, <2>2, <2>4 DEF EventsInv, InOrder
<1>14. CASE SendRewards
  <2>1. /\ KeepsHistory /\ UNCHANGED <<eventsOut, delivered>>
        /\ phase = "rewards" /\ phase' = "publish"
        /\ closeReason' \in {closeReason, "event_backpressure"}
    BY <1>14 DEF SendRewards, TakeRewardUpdates, KeepsHistory, stageVars, eventVars
  <2>2. PhaseInv'
    BY <1>0, <2>1 DEF PhaseInv, KeepsHistory
  <2> QED
    BY <1>13, <2>1, <2>2
<1>15. CASE StopCancelled \/ StopIdle
  <2>1. /\ UNCHANGED <<worldVars, eventsOut, delivered>>
        /\ phase' = "finish" /\ closeReason' \in {"requested", "idle"}
    BY <1>15 DEF StopCancelled, StopIdle, Stop, channelVars
  <2>2. KeepsHistory
    BY <2>1 DEF worldVars, stageVars, eventVars, KeepsHistory
  <2>3. PhaseInv'
    BY <2>1 DEF PhaseInv
  <2> QED
    BY <1>13, <2>1, <2>2, <2>3
<1>16. CASE EndFinish
  <2>1. /\ phase = "drain" /\ phase' = "done" /\ UNCHANGED <<closeReason, eventsOut, delivered>>
        /\ completedStages' = <<>> /\ state' = "Closed"
    BY <1>16 DEF EndFinish, Close
  <2>2. closeReason # "" /\ PhaseInv'
    BY <1>0, <2>1 DEF PhaseInv
  <2>3. HistoryInv'
    BY <2>1 DEF HistoryInv, Cleared
  <2>4. \A k : Known(k)' = Known(k)
    BY <2>1 DEF Known
  <2> QED
    BY <2>1, <2>2, <2>3, <2>4 DEF EventsInv, LogInv, InOrder
<1>17. CASE UNCHANGED vars
  BY <1>2, <1>17 DEF vars, actorVars, channelVars
<1> QED
  BY <1>3, <1>4, <1>5, <1>6, <1>7, <1>8, <1>9, <1>10, <1>11, <1>12, <1>14, <1>15, <1>16, <1>17
     DEF Next, RoomStep, TickStep

\* The log of a new room is empty.
LEMMA InitEvents == Init => EventsInv
<1> SUFFICES ASSUME Init PROVE EventsInv
  OBVIOUS
<1>1. /\ state = "Waiting" /\ index = 0 /\ completedStages = <<>>
      /\ events = <<>> /\ ~eventOverflow /\ eventsOut = <<>> /\ delivered = {}
      /\ phase = "select" /\ closeReason = ""
  BY DEF Init, WorldInit
<1>2. Cleared = {} /\ Len(eventsOut) = 0
  <2>1. <<>> \in Seq(Nat) /\ Len(<<>>) = 0 /\ 1..0 = {}
    OBVIOUS
  <2>2. DOMAIN completedStages = 1..Len(completedStages)
    BY <1>1, <2>1, LenProperties
  <2> QED
    BY <1>1, <2>1, <2>2 DEF Cleared
<1>3. \A k \in 0..0 : Known(k) = {}
  <2>1. 1..0 = {} /\ \A k \in 0..0 : k = 0
    OBVIOUS
  <2>2. Known(0) = {}
    BY <1>1, <2>1 DEF Known
  <2> QED
    BY <2>1, <2>2
<1>4. History = {}
  BY <1>1, <1>2 DEF History
<1>5. PhaseInv /\ HistoryInv
  BY <1>1, <1>2 DEF PhaseInv, HistoryInv
<1>6. LogInv
  <2>1. Known(Len(eventsOut)) = {} /\ StageEventsIn(events) = {}
    <3>1. 0 \in 0..0
      OBVIOUS
    <3> QED
      BY <1>1, <1>2, <1>3, <3>1, StageEventsShort
  <2> QED
    BY <1>4, <2>1 DEF LogInv
<1>7. 0 <= EventCapacity
  BY RoomAssumption
<1> QED
  BY <1>2, <1>3, <1>5, <1>6, <1>7 DEF EventsInv, InOrder

\* The World of a room keeps its invariant, and its log stays complete.
LEMMA EventsAlwaysInOrder == Spec => [](RoomTyped /\ WorldInv /\ EventsInv)
<1>1. RoomTyped /\ WorldInv /\ EventsInv /\ [Next]_vars => EventsInv'
  BY NextEvents
<1> QED
  BY <1>1, InitEvents, RoomIsTyped, RoomImplementsWorld, WorldInvariant, PTL DEF Spec

\* Between two ticks of an open room the dispatcher has, or will find in the
\* channel, every stage event of the run (publishEvents closes the room rather
\* than drop one).
THEOREM StageEventsReachTheDispatcher == Spec => []NoStageEventLost
<1>1. RoomTyped /\ EventsInv => NoStageEventLost
  <2> SUFFICES ASSUME RoomTyped, EventsInv, phase = "select"
               PROVE  NoStageEventLost
    BY DEF NoStageEventLost
  <2>0. History = delivered \cup InChannel
    <3>1. DOMAIN eventsOut = 1..Len(eventsOut)
      BY LenProperties DEF RoomTyped, RoomTypeOK
    <3>2. Known(Len(eventsOut)) = delivered \cup InChannel
      BY <3>1 DEF Known, InChannel
    <3>3. closeReason = "" /\ events = <<>> /\ ~eventOverflow
      BY DEF EventsInv, PhaseInv
    <3> QED
      BY <3>2, <3>3, StageEventsShort DEF EventsInv, LogInv
  <2>1. index \in Nat /\ completedStages \in Seq(Nat)
    BY DEF RoomTyped, WorldTypeOK
  <2>2. \A i \in Nat, kind \in {"StageStarted", "StageCleared", "TeamDefeated"} :
           [kind |-> kind, index |-> i] \in StageEvent
    BY DEF StageEvent
  <2>3. \A k \in DOMAIN completedStages : completedStages[k] \in Nat /\ completedStages[k] \in Cleared
    BY <2>1 DEF Cleared
  <2>4. \A k \in DOMAIN completedStages :
           /\ [kind |-> "StageStarted", index |-> completedStages[k]] \in History
           /\ [kind |-> "StageCleared", index |-> completedStages[k]] \in History
    BY <2>2, <2>3 DEF History
  <2>5. state \in {"Playing", "Failed"} => [kind |-> "StageStarted", index |-> index] \in History
    BY <2>1, <2>2 DEF History
  <2>6. state = "Failed" => [kind |-> "TeamDefeated", index |-> index] \in History
    BY <2>1, <2>2 DEF History
  <2> QED
    BY <2>0, <2>4, <2>5, <2>6 DEF NoStageEventLost
<1> QED
  BY <1>1, EventsAlwaysInOrder, PTL

\* The dispatcher never learns of a stage's end before its start, nor of a
\* stage before the one it follows was cleared, however far the channel runs
\* behind the room.
THEOREM StageEventsStayInOrder == Spec => []StageEventsInOrder
<1>1. RoomTyped /\ EventsInv => StageEventsInOrder
  <2> SUFFICES ASSUME RoomTyped, EventsInv PROVE StageEventsInOrder
    OBVIOUS
  <2>1. Len(eventsOut) \in Nat
    <3>1. eventsOut \in Seq(Seq(EventRec))
      BY DEF RoomTyped, RoomTypeOK
    <3> QED
      BY <3>1
  <2>2. InOrder(Known(0))
    BY <2>1 DEF EventsInv
  <2>3. Known(0) = delivered
    <3>1. 1..0 = {}
      OBVIOUS
    <3> QED
      BY <3>1 DEF Known
  <2> QED
    BY <2>2, <2>3 DEF InOrder, StageEventsInOrder
<1> QED
  BY <1>1, EventsAlwaysInOrder, PTL
=============================================================================
