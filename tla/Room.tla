-------------------------------- MODULE Room --------------------------------
(***************************************************************************)
(* server/internal/room: one Room is a goroutine that owns a World and two *)
(* bounded queues.  Other goroutines (Callers) put lifecycle commands into *)
(* `controls` and player intents into `inputs` under r.mu; the goroutine   *)
(* drains both at every tick, steps the World and publishes.               *)
(*                                                                         *)
(* The goroutine's program counter is `phase`; between two of its steps    *)
(* any caller or consumer may act.  Wall-clock time is abstracted: the     *)
(* empty timer may fire whenever it is armed, an input may expire whenever *)
(* it is taken out of the queue.                                           *)
(***************************************************************************)
EXTENDS World

CONSTANTS Sessions,        \* SessionID of every connection that may join
          Callers,         \* goroutines that call the Room, one call at a time
          NoBinding,       \* a session without an entry in r.members
          ControlCapacity, \* Config.ControlCapacity
          InputCapacity,   \* Config.InputCapacity
          EventCapacity,   \* Config.EventCapacity
          ControlsPerTick, \* Config.ControlsPerTick
          InputsPerTick,   \* Config.InputsPerTick
          Requests,        \* bound: the commands callers submit
          MaxGeneration    \* bound: joins the callers submit

Outcomes == {"Victory", "Defeat", "Abandoned"}

\* The commands of the Room's API, by the queue record they put in.
JoinRequest    == [op : {"join"}, session : Sessions, player : Players]
SessionRequest == [op : {"leave", "resumeState"}, session : Sessions]
StageRequest   == [op : {"startStage"}, index : 1..MaxStage]
PlainRequest   == [op : {"startReward", "completedStage"}]
ChoiceRequest  == [op : {"chooseReward"}, session : Sessions, item : Items]
ResultRequest  == [op : {"gameResult"}, outcome : Outcomes]
Request == JoinRequest \cup SessionRequest \cup StageRequest \cup PlainRequest
              \cup ChoiceRequest \cup ResultRequest

ASSUME RoomAssumption ==
    /\ NoBinding \notin [player : Players, generation : Nat]
    /\ ControlCapacity \in Nat \ {0} /\ InputCapacity \in Nat \ {0}
    /\ EventCapacity \in Nat \ {0}
    /\ ControlsPerTick \in Nat \ {0} /\ InputsPerTick \in Nat \ {0}
    /\ Requests \subseteq Request
    /\ MaxGeneration \in Nat

VARIABLES phase,       \* where the room goroutine is
          budget,      \* commands or inputs this tick may still take
          cancelled,   \* ctx.Err() # nil
          closed,      \* r.closed
          closeReason, \* stats.CloseReason
          timerArmed,  \* emptyTimer is running
          controls,    \* queue r.controls
          inputs,      \* queue r.inputs
          members,     \* r.members
          generation,  \* r.generation
          receipts,    \* each caller's result channel
          eventsOut,   \* channel r.events: batches of events
          rewardsOut,  \* channel r.rewards: batches of updates
          updates,     \* channel r.updates (capacity 1)
          delivered,   \* history: stage events the dispatcher has taken
          sentSeq      \* history: largest seq sent under a session's binding

actorVars   == <<phase, budget, cancelled, closed, closeReason, timerArmed>>
queueVars   == <<controls, inputs, receipts>>
memberVars  == <<members, generation, sentSeq>>
channelVars == <<eventsOut, rewardsOut, updates, delivered>>
vars        == <<worldVars, actorVars, queueVars, memberVars, channelVars>>

Control  == [caller : Callers, request : Request]
Movement == [session : Sessions, generation : Nat, seq : 1..MaxSeq]
Binding  == [player : Players, generation : Nat]
Receipts == {"none", "waiting", "ok", "error", "closed"}
Phases   == {"select", "controls", "inputs", "step", "events", "rewards",
             "publish", "finish", "drain", "done"}

\* Stage events are those every session's progress depends on.
StageEvent == [kind : {"StageStarted", "StageCleared", "TeamDefeated"}, index : Nat]
StageEventsIn(batch) == {batch[k] : k \in DOMAIN batch} \cap StageEvent
InChannel == UNION {StageEventsIn(eventsOut[k]) : k \in DOMAIN eventsOut}

Init ==
    /\ WorldInit
    /\ phase = "select" /\ budget = 0
    /\ cancelled = FALSE /\ closed = FALSE /\ closeReason = ""
    /\ timerArmed = TRUE
    /\ controls = <<>> /\ inputs = <<>>
    /\ receipts = [c \in Callers |-> "none"]
    /\ members = [s \in Sessions |-> NoBinding] /\ generation = 0
    /\ sentSeq = [s \in Sessions |-> 0]
    /\ eventsOut = <<>> /\ rewardsOut = <<>> /\ updates = "none"
    /\ delivered = {}

-----------------------------------------------------------------------------
(* Other goroutines *)

Joined(s) == members[s] # NoBinding

\* The joins accepted so far: a bound on the callers, not on the room.
JoinsSoFar == generation + Cardinality({k \in DOMAIN controls : controls[k].request.op = "join"})

\* Mutant: the closing room is not looked at.
Accepting_Always == TRUE

Accepting == ~closed /\ ~cancelled

\* submit, CompletedStage, ResumeState and GameResult: refused when the room
\* is closing (ErrClosed) or the queue is full (ErrQueueFull).
Submit(c, request) ==
    /\ receipts[c] = "none"
    /\ Accepting
    /\ Len(controls) < ControlCapacity
    /\ request.op = "join" => JoinsSoFar < MaxGeneration
    /\ controls' = Append(controls, [caller |-> c, request |-> request])
    /\ receipts' = [receipts EXCEPT ![c] = "waiting"]
    /\ UNCHANGED <<worldVars, actorVars, inputs, memberVars, channelVars>>

\* The caller takes the answer out of its receipt.
Collect(c) ==
    /\ receipts[c] \in {"ok", "error", "closed"}
    /\ receipts' = [receipts EXCEPT ![c] = "none"]
    /\ UNCHANGED <<worldVars, actorVars, controls, inputs, memberVars, channelVars>>

\* Input: the movement carries the generation of the session's binding.
Input(s, seq) ==
    /\ Accepting
    /\ Joined(s)
    /\ Len(inputs) < InputCapacity
    /\ inputs' = Append(inputs, [session |-> s, generation |-> members[s].generation, seq |-> seq])
    /\ sentSeq' = [sentSeq EXCEPT ![s] = IF seq > @ THEN seq ELSE @]
    /\ UNCHANGED <<worldVars, actorVars, controls, receipts, members, generation, channelVars>>

\* Close, or the end of the parent context.
Cancel ==
    /\ ~cancelled
    /\ cancelled' = TRUE
    /\ UNCHANGED <<worldVars, phase, budget, closed, closeReason, timerArmed,
                   queueVars, memberVars, channelVars>>

\* The event dispatcher, the reward dispatcher and the snapshot dispatcher.
TakeEventBatch ==
    /\ eventsOut # <<>>
    /\ eventsOut' = Tail(eventsOut)
    /\ delivered' = delivered \cup StageEventsIn(Head(eventsOut))
    /\ UNCHANGED <<worldVars, actorVars, queueVars, memberVars, rewardsOut, updates>>

TakeRewardBatch ==
    /\ rewardsOut # <<>>
    /\ rewardsOut' = Tail(rewardsOut)
    /\ UNCHANGED <<worldVars, actorVars, queueVars, memberVars, eventsOut, updates, delivered>>

TakeSnapshot ==
    /\ updates # "none"
    /\ updates' = "none"
    /\ UNCHANGED <<worldVars, actorVars, queueVars, memberVars, eventsOut, rewardsOut, delivered>>

-----------------------------------------------------------------------------
(* The room goroutine: one tick *)

Quiet == UNCHANGED <<worldVars, memberVars, timerArmed>>

\* select with neither the context done nor the timer fired.
Tick ==
    /\ phase = "select" /\ ~cancelled
    /\ phase' = "controls" /\ budget' = ControlsPerTick
    /\ UNCHANGED <<worldVars, cancelled, closed, closeReason, timerArmed,
                   queueVars, memberVars, channelVars>>

\* Mutant: a session that asks for another player is bound again.
AlreadyBound_SamePlayer(r) == Joined(r.session) /\ members[r.session].player = r.player

AlreadyBound(r) == Joined(r.session)

ApplyJoin(r, result) ==
    \/ /\ AlreadyBound(r)
       /\ result = IF members[r.session].player = r.player THEN "ok" ELSE "error"
       /\ Quiet
    \/ /\ ~AlreadyBound(r) /\ ~CanAddPlayer(r.player)
       /\ result = "error"
       /\ Quiet
    \/ /\ ~AlreadyBound(r)
       /\ AddPlayer(r.player)
       /\ generation' = generation + 1
       /\ members' = [members EXCEPT ![r.session] = [player |-> r.player, generation |-> generation + 1]]
       /\ sentSeq' = [sentSeq EXCEPT ![r.session] = 0]
       /\ timerArmed' = FALSE
       /\ result = "ok"

\* Mutant: every departure arms the timer.
TimerAfterLeave_Always(p) == TRUE

\* Mutant: no departure arms the timer.
TimerAfterLeave_Never(p) == timerArmed

TimerAfterLeave(p) == IF Present = {p} THEN TRUE ELSE timerArmed

ApplyLeave(r, result) ==
    /\ result = "ok"
    /\ \/ ~Joined(r.session) /\ Quiet
       \/ /\ Joined(r.session)
          /\ RemovePlayer(members[r.session].player)
          /\ members' = [members EXCEPT ![r.session] = NoBinding]
          /\ timerArmed' = TimerAfterLeave(members[r.session].player)
          /\ UNCHANGED <<generation, sentSeq>>

\* A command whose success is the World action `do`, enabled when `can` holds.
WorldCommand(can, do, result) ==
    \/ can /\ do /\ result = "ok" /\ UNCHANGED <<memberVars, timerArmed>>
    \/ ~can /\ result = "error" /\ Quiet

ApplyChoose(r, result) ==
    \/ ~Joined(r.session) /\ result = "error" /\ Quiet
    \/ /\ Joined(r.session)
       /\ LET p == members[r.session].player
          IN  WorldCommand(CanChooseReward(p, r.item), ChooseReward(p, r.item), result)

\* CompletedStage, ResumeState and GameResult only read.
ApplyRead(can, result) ==
    /\ result = IF can THEN "ok" ELSE "error"
    /\ Quiet

ApplyRequest(r, result) ==
    \/ r.op = "join" /\ ApplyJoin(r, result)
    \/ r.op = "leave" /\ ApplyLeave(r, result)
    \/ r.op = "startStage" /\ WorldCommand(CanStartStage(r.index), StartStage(r.index), result)
    \/ r.op = "startReward" /\ WorldCommand(CanStartReward, StartReward, result)
    \/ r.op = "chooseReward" /\ ApplyChoose(r, result)
    \/ r.op = "completedStage" /\ ApplyRead(CompletedStageOK, result)
    \/ r.op = "resumeState" /\ ApplyRead(Joined(r.session), result)
    \/ r.op = "gameResult" /\ ApplyRead(GameResultOK(r.outcome), result)

MoreControls == budget > 0 /\ controls # <<>>

\* Mutant: the drain has no limit, a tick goes on while there are commands.
Spend_Nothing == budget

\* What is left of the tick's limit once a command has been taken.
Spend == budget - 1

TakeControl ==
    /\ phase = "controls" /\ MoreControls
    /\ \E result \in {"ok", "error"} :
          /\ ApplyRequest(Head(controls).request, result)
          /\ receipts' = [receipts EXCEPT ![Head(controls).caller] = result]
    /\ controls' = Tail(controls)
    /\ budget' = Spend
    /\ UNCHANGED <<phase, cancelled, closed, closeReason, inputs, channelVars>>

NoMoreControls == budget = 0 \/ controls = <<>>

ControlsTaken ==
    /\ phase = "controls" /\ NoMoreControls
    /\ phase' = "inputs" /\ budget' = InputsPerTick
    /\ UNCHANGED <<worldVars, cancelled, closed, closeReason, timerArmed,
                   queueVars, memberVars, channelVars>>

\* Mutant: any input of a joined session counts.
CurrentBinding_AnyGeneration(m) == Joined(m.session)

\* A movement counts only under the binding it was sent under.
CurrentBinding(m) == Joined(m.session) /\ members[m.session].generation = m.generation

\* The second disjunct is also the input that waited longer than InputTimeout.
TakeInput ==
    /\ phase = "inputs" /\ budget > 0 /\ inputs # <<>>
    /\ LET m == Head(inputs)
       IN  \/ CurrentBinding(m) /\ ApplyInput(members[m.session].player, m.seq)
          \/ UNCHANGED worldVars
    /\ inputs' = Tail(inputs)
    /\ budget' = budget - 1
    /\ UNCHANGED <<phase, cancelled, closed, closeReason, timerArmed,
                   controls, receipts, memberVars, channelVars>>

InputsTaken ==
    /\ phase = "inputs" /\ (budget = 0 \/ inputs = <<>>)
    /\ phase' = "step" /\ budget' = 0
    /\ UNCHANGED <<worldVars, cancelled, closed, closeReason, timerArmed,
                   queueVars, memberVars, channelVars>>

StepWorld ==
    /\ phase = "step"
    /\ Step
    /\ phase' = "events"
    /\ UNCHANGED <<budget, cancelled, closed, closeReason, timerArmed,
                   queueVars, memberVars, channelVars>>

\* What becomes of a pending list: it fits into the channel, or the room must
\* close.
Sendable(pending, overflow, channel) ==
    ~overflow /\ pending # <<>> /\ Len(channel) < EventCapacity

\* Mutant: a batch that does not fit is dropped.
Undeliverable_Dropped(pending, overflow, channel) == overflow

Undeliverable(pending, overflow, channel) ==
    overflow \/ (pending # <<>> /\ Len(channel) = EventCapacity)

\* Mutant: the send has no default, it waits for its consumer.
SendEvents_Blocking ==
    /\ phase = "events"
    /\ ~Undeliverable(events, FALSE, eventsOut)
    /\ TakeEvents
    /\ eventsOut' = IF Sendable(events, eventOverflow, eventsOut)
                    THEN Append(eventsOut, events) ELSE eventsOut
    /\ closeReason' = IF eventOverflow THEN "event_backpressure" ELSE closeReason
    /\ phase' = "rewards"
    /\ UNCHANGED <<budget, cancelled, closed, timerArmed, queueVars, memberVars,
                   rewardsOut, updates, delivered>>

SendEvents ==
    /\ phase = "events"
    /\ TakeEvents
    /\ eventsOut' = IF Sendable(events, eventOverflow, eventsOut)
                    THEN Append(eventsOut, events) ELSE eventsOut
    /\ closeReason' = IF Undeliverable(events, eventOverflow, eventsOut)
                      THEN "event_backpressure" ELSE closeReason
    /\ phase' = "rewards"
    /\ UNCHANGED <<budget, cancelled, closed, timerArmed, queueVars, memberVars,
                   rewardsOut, updates, delivered>>

SendRewards ==
    /\ phase = "rewards"
    /\ TakeRewardUpdates
    /\ rewardsOut' = IF Sendable(rewardUpdates, rewardOverflow, rewardsOut)
                     THEN Append(rewardsOut, rewardUpdates) ELSE rewardsOut
    /\ closeReason' = IF Undeliverable(rewardUpdates, rewardOverflow, rewardsOut)
                      THEN "event_backpressure" ELSE closeReason
    /\ phase' = "publish"
    /\ UNCHANGED <<budget, cancelled, closed, timerArmed, queueVars, memberVars,
                   eventsOut, updates, delivered>>

\* Every SnapshotEvery-th tick replaces the snapshot in the channel; which
\* ticks those are is left open.
Publish ==
    /\ phase = "publish"
    /\ updates' \in {updates, "live"}
    /\ phase' = IF closeReason # "" THEN "finish" ELSE "select"
    /\ UNCHANGED <<worldVars, budget, cancelled, closed, closeReason, timerArmed,
                   queueVars, memberVars, eventsOut, rewardsOut, delivered>>

-----------------------------------------------------------------------------
(* The room goroutine: closing *)

Stop(reason) ==
    /\ phase = "select"
    /\ closeReason' = reason
    /\ phase' = "finish"
    /\ UNCHANGED <<worldVars, budget, cancelled, closed, timerArmed,
                   queueVars, memberVars, channelVars>>

StopCancelled == cancelled /\ Stop("requested")
StopIdle      == timerArmed /\ Stop("idle")

\* finish: no command is accepted once closed is set.
BeginFinish ==
    /\ phase = "finish"
    /\ cancelled' = TRUE /\ closed' = TRUE
    /\ phase' = "drain"
    /\ UNCHANGED <<worldVars, budget, closeReason, timerArmed,
                   queueVars, memberVars, channelVars>>

\* Mutant: only the first command left in the queue is answered.
DrainControl_First ==
    /\ phase = "drain" /\ controls # <<>>
    /\ receipts' = [receipts EXCEPT ![Head(controls).caller] = "closed"]
    /\ controls' = <<>>
    /\ UNCHANGED <<worldVars, actorVars, inputs, memberVars, channelVars>>

DrainControl ==
    /\ phase = "drain" /\ controls # <<>>
    /\ receipts' = [receipts EXCEPT ![Head(controls).caller] = "closed"]
    /\ controls' = Tail(controls)
    /\ UNCHANGED <<worldVars, actorVars, inputs, memberVars, channelVars>>

Drained == controls = <<>>

\* Drains the inputs, closes the World and publishes the last snapshot.
EndFinish ==
    /\ phase = "drain" /\ Drained
    /\ inputs' = <<>>
    /\ Close
    /\ members' = [s \in Sessions |-> NoBinding]
    /\ updates' = "closed"
    /\ phase' = "done"
    /\ timerArmed' = FALSE
    /\ UNCHANGED <<budget, cancelled, closed, closeReason, controls, receipts,
                   generation, sentSeq, eventsOut, rewardsOut, delivered>>

TickStep == \/ TakeControl \/ ControlsTaken \/ TakeInput \/ InputsTaken
            \/ StepWorld \/ SendEvents \/ SendRewards \/ Publish

RoomStep == \/ Tick \/ TickStep \/ StopCancelled \/ StopIdle
            \/ BeginFinish \/ DrainControl \/ EndFinish

Next ==
    \/ \E c \in Callers, r \in Requests : Submit(c, r)
    \/ \E c \in Callers : Collect(c)
    \/ \E s \in Sessions, seq \in 1..MaxSeq : Input(s, seq)
    \/ Cancel
    \/ TakeEventBatch \/ TakeRewardBatch \/ TakeSnapshot
    \/ RoomStep

Spec == Init /\ [][Next]_vars

\* The room goroutine never blocks, and a fired timer is one of the ready
\* cases its select picks from at random.
FairSpec == Spec /\ WF_vars(RoomStep) /\ SF_vars(StopIdle)

-----------------------------------------------------------------------------
(* Properties *)

\* Types of the variables Room adds.
RoomTypeOK ==
    /\ phase \in Phases /\ budget \in Nat
    /\ cancelled \in BOOLEAN /\ closed \in BOOLEAN /\ timerArmed \in BOOLEAN
    /\ closeReason \in {"", "requested", "idle", "event_backpressure"}
    /\ controls \in Seq(Control) /\ inputs \in Seq(Movement)
    /\ receipts \in [Callers -> Receipts]
    /\ members \in [Sessions -> Binding \cup {NoBinding}]
    /\ generation \in Nat /\ sentSeq \in [Sessions -> Nat]
    /\ eventsOut \in Seq(Seq(EventRec)) /\ rewardsOut \in Seq(Seq(UpdateRec))
    /\ updates \in {"none", "live", "closed"}
    /\ delivered \in SUBSET StageEvent

JoinedSessions == {s \in Sessions : Joined(s)}

\* The two membership tables (Room.members and World.players) agree: bound
\* sessions and present players correspond one to one, whatever joins, double
\* joins and departures were interleaved.
MembersMatchPlayers ==
    /\ Present = {members[s].player : s \in JoinedSessions}
    /\ \A s, t \in JoinedSessions :
          (members[s].player = members[t].player \/ members[s].generation = members[t].generation)
              => s = t

\* The empty timer runs exactly while the room has no player, so a room that
\* still has one never closes as idle.
IdleOnlyWhenEmpty ==
    /\ phase # "done" => (timerArmed <=> Present = {})
    /\ closeReason = "idle" => Present = {}

\* A caller waits on its receipt exactly while one command of its own is in
\* the queue: no command is answered twice, and none is left behind when the
\* room closes while callers submit.
OneAnswerPerCommand ==
    \A c \in Callers :
        LET own == {k \in DOMAIN controls : controls[k].caller = c}
        IN  IF receipts[c] = "waiting" THEN \E k \in own : own = {k} ELSE own = {}

\* What the World took as a player's latest input was sent under the session's
\* current binding: an input that outlives a leave and a join changes nothing.
InputsOfCurrentBinding ==
    \A s \in JoinedSessions : inputSeq[members[s].player] <= sentSeq[s]

\* Between two ticks of an open room the dispatcher has, or will find in the
\* channel, every stage event of the run.
NoStageEventLost ==
    (phase = "select") =>
        LET sent == delivered \cup InChannel
        IN  /\ \A k \in DOMAIN completedStages :
                  /\ [kind |-> "StageStarted", index |-> completedStages[k]] \in sent
                  /\ [kind |-> "StageCleared", index |-> completedStages[k]] \in sent
            /\ state \in {"Playing", "Failed"} =>
                  [kind |-> "StageStarted", index |-> index] \in sent
            /\ state = "Failed" => [kind |-> "TeamDefeated", index |-> index] \in sent

\* The dispatcher never learns of a stage's end before its start, nor of a
\* stage before the one it follows was cleared.
StageEventsInOrder ==
    \A e \in delivered :
        /\ e.kind # "StageStarted" => [e EXCEPT !.kind = "StageStarted"] \in delivered
        /\ \A d \in delivered : d.index < e.index =>
              [kind |-> "StageCleared", index |-> d.index] \in delivered

\* The room serves its callers as Calls promises: every accepted command is
\* answered once, closing or not, and none is accepted once it is closing.
Service == INSTANCE Calls WITH
    open     <- Accepting,
    pending  <- {c \in Callers : receipts[c] = "waiting"},
    answered <- {c \in Callers : receipts[c] \in {"ok", "error", "closed"}}

CommandsAreServed == Service!CallsSpec

\* A room nobody joins, or that everybody left, does not live forever, however
\* many commands its callers keep submitting.
EmptyRoomCloses == (Present = {}) ~> (Present # {} \/ phase = "done")

\* Close, which waits for done, returns, also when the consumers of the event
\* and reward channels have stalled or are gone.
CancelledRoomEnds == cancelled ~> (phase = "done")
=============================================================================
